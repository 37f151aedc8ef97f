# Verification of the construction safety management platform

TLA+ models of the platform's Go backend (`src/backend`) and of the parts of
its React frontend (`src/frontend`) it depends on, model-checked with TLC on
small instances and, for the properties that matter most, proved with TLAPS for
every value of the constants.

## The system

One Go process (gin, gorm) serves a REST API from a MySQL database to a
single-page frontend.  Every HTTP request is a goroutine; all state that lasts
is in the database; the only state shared in memory is the rate limiter.

| Component | State | Operations | What is hard |
|---|---|---|---|
| Incident workflow (`service/safety_incident_service.go`, its handler, repository, route) | rows of `safety_incidents`: status and rectification plan | report, assign, rectify, close; list, get, trend, distribution, pending | find, check and save are separate database calls without a lock; `Save` writes the whole row; answers lost; restarts |
| Inspections (`service/safety_inspection_service.go`, its handler, repositories, route) | rows of `safety_inspections` and `inspection_items` | create, execute, report; list, get, statistics | transactions under a row lock; a loop of updates that may fail midway; partial forms; a report of two reads; a floating-point score |
| Audit log (`middleware/audit_log.go`) | rows of `audit_logs` | insert after a write was answered; list | a second database call after the committed write; pages cut by offset while entries are added |
| Tokens and roles (`middleware/auth.go`, `rbac.go`, `util/jwt.go`) | none in the server | check of token and role | order of the checks |
| Rate limiter (`middleware/rate_limiter.go`) | one bucket per address, under a mutex | limit | whole-minute refill, map that only grows |
| Certifications (`service/worker_certification_service.go`) | rows of `worker_certifications` | submit, review, list, expiring | two reviewers at once; expiry is a query over the clock |
| Trainings (`service/safety_training_service.go`) | rows of `safety_trainings` | create, record, list, completion rate | records that overlap; absent fields |
| Users (`service/user_service.go`) | rows of `users` | register, login, profile, list | check-then-insert against a unique index; lost updates |
| Seeding (`service/seed.go`, `cmd/server/main.go`) | all tables | seed at start, shut down | inserts without a transaction; a stop midway |
| Dashboard (`service/dashboard_service.go`) | none | statistics | nine queries without a snapshot; rates of two counts |
| Uploads (`util/file_upload.go`) | files | store an image | file I/O |
| Frontend stores, hooks and pages | list, filters, session | fetch, create, change page and filter, log in and out | answers out of order, late 401 |

Requests interact only through the database, the frontend with the backend only
through requests that may be lost, late or repeated by the user.

Properties that make the components correct: an incident's stage was reached
through the stages before it, and neither it nor an agreed plan is undone but by
requests that overlap; an inspection is executed once, as a whole or not at all,
and its counts, score and status fit each other and its items; the audit log
tells of what happened and of nothing else; every request ends; a review is
decided once; limits limit and let through what they promise; seeding completes;
one phone number has one account, and who registered with a number can log in;
what a save of a whole row undoes was not stored yet when the row was read; a
rate does not understate progress; a page shows nothing that never was, and the
newest answer fits what is selected.

## What is modelled

### Incident workflow

`IncidentLifecycle.tla` is the promise: an incident is reported, investigated,
rectified with exactly one plan and closed, each stage entered once, in one
atomic step.

`SafetyIncidents.tla` is the code.  A request (`Request`) arrives with an
operation, an incident, the caller's role and a plan (`call`).  `PostReport`,
`PostAssign`, `PostRectify` and `PostClose` are the handlers up to the point
where the service has found the row, checked its status and changed its copy
(`draft`); `Update` is the repository's save, a later database call, with the
three outcomes a call can have (effect and answer, effect and an error as
answer, no effect); `AuditLog` is the middleware after the handler; `Restart`
ends the process.  `Refuse` is what token check, role check and parsing answer,
`FindFails` and `Conflict` what the service's errors become.  A request that was
refused has no effect and what it asked is not kept.  The constant `Overlap`
tells whether two transitions of one incident may overlap.  The code allows it;
`Overlap = FALSE` is the precondition under which the API keeps its promise.
What an overlap may undo, and that nothing else does, is said without it: `seen`
keeps whose writes had taken effect when a request read its row, and
`KeptUnlessOverlapped` and `MovesBackOnlyByOverlap` speak of that.

`IncidentTable.tla` is what the API keeps to without a condition: a transition
takes a copy of a row whose status admits it and saves the copy later, whatever
the row has become, or never.  `SafetyIncidents` refines it (`KeepsToTable`), and
the details in the browser are modelled over it.

Data: a row is its status and its plan (measures and deadline together); the
descriptive columns are never read by the logic and are left out.  `Save`
replaces the whole row, as gorm does.  A query for a row that does not exist
ends as an error that is no application error and is answered 500, as a failing
query is.

### Inspections

`InspectionLifecycle.tla` is the promise: an inspection is planned with its
items and finished once, header and items together, in one step.

`Inspections.tla` is the code: `Create` and `Execute` run in a transaction whose
writes are private (`work`) until `Commit`.  `FindByIDForUpdate` waits for the
row lock and then checks the status, `ListItems` reads the items, `UpdateItem`
walks through the submitted form one entry at a time (`Apply`), and
`SaveInspection` derives counts, score and status (`Recounted`, `Tallied`).
`Abort` is a database call that fails anywhere, a failing commit included; the
answer of a commit may be lost.  `PostReport` and `ReadItems` are the two reads of a
report, which takes no transaction; fetching an inspection or the list of its
items makes the same two reads.  `Full` is the form the frontend sends, which
names every item once; the API accepts any other.

`InspectionScore.tla` is the score, `int(float64(passed) / float64(total) *
100)`, computed with its two roundings, each to the nearest floating-point number,
the even one of two (`Nearest`, `Quotient`, `Percent`), and the truncation.
`Significand` is the precision: 2^52 is that of doubles; TLC, whose integers have
32 bits, runs it with 2^22.  Where a point is lost follows from the roundings:
with doubles 29 passed of 100 score 28, with the 23 bits of the run 55 of 100
score 54.  `InspectionTally.tla` enumerates the tallies, within the run
`side_by_side`.

### Rate limiter

`RateLimiter.tla` is the bucket of each address on a clock of `Minute` ticks to
the minute.  A request is one step (`Admit` or `Refuse`), since the handler
holds the mutex from reading the clock to taking the token; `Filled` is the
refill with its truncation to whole minutes and its reset of `lastFill`.  What the
addresses asked and got is kept in history variables (`asked`, `served`, `awake`)
that the limiter does not read, and the properties speak of those.  The buckets
live as long as the process; `Init` is its start.

### Startup

`Startup.tla` is `main` up to serving, with `Seed`: the sixteen preset rows in
their order, each inserted by a call of its own, the count of users that decides
whether to insert at all, and the container that starts the process again.  A
call may fail, or take effect and lose its answer, and the process may die
between any two steps (`Fault`).  `database/init.sql` may have filled the
database before.  `RefersTo` are the rows that one preset row means by the ids
written in it.  The rows that others mean, users and inspections, have the `id`
their AUTO_INCREMENT counter gave them (`nextId`), and an insertion that fails may
have used one up (`NotStored`).  So an incident may name a reporter whose id is
another's: `ReferencesHold` says that this is all that can go wrong, and by how
much.  The ids are off by as many as insertions of the first user have used up,
since after that any stored user keeps `Seed` from inserting again.

### Accounts: users and the process that serves them

Users, certifications and trainings are handled alike: a service reads what it
needs, then makes one write, a later database call without a lock or a
transaction.  `Handlers.tla` is that frame: where a request is (`pc`), what it
asks (`call`), the row it is about to write (`draft`), its answer, and the history
of whose writes had taken effect (`wrote`) and which of them it had seen when it
read (`seen`).  `Took` is a write that took effect, with its answer or with an
error; `InternalError` one that did not; `KillCalls` a stop of the process.

`Users.tla` adds the table of users: `RegisterUser` looks for the phone number
and `CreateUser` inserts the row under the unique index; `Login` compares, and
`UpdateProfile` overlays the fields that were sent on a copy that `UpdateUser`
saves whole.  A number is `Typed` with blanks around it or without (`padded`), and
may be nothing but blanks, which the binding does not refuse.  Registration trims
it (`TrimSpace`) and login does not: the account is found by the number as it was
stored.  Of blanks the empty number is stored, which login refuses; that account is
left out of `CanLogIn`, which says so.

`Server.tla` composes `Startup` and `Users`: the process boots (`Boot`), serves
steps of requests while it is `serving` (`Serve`) and dies with requests in
flight (`Stop`).  A new row of `users` is one more registered user, which is
what the next start counts when it decides whether to seed.

### Certifications and trainings

`Certifications.tla` is submission and review: `ReviewCert` reads the row and
refuses it unless it is pending, `UpdateCert` saves it with the decision.
`Trainings.tla` is creation and record: `Overlaid` replaces the participants if a
list was sent, and the pass rate always, since a rate that was not sent arrives
as 0.  `Records.tla` is both tables under one server, with requests of either
kind, and its stop.

### Dashboard

`Dashboard.tla` is the one request that makes nine queries in a row (`Stats`),
any of which may fail, while inspections and trainings are added and finished.  A
table is told by how many of its rows are done and how many are not; of the
answers only the four counts that make the two rates are kept.  A rate may be
shown above 100, when rows are added and finished between its two counts.

### Incidents in the browser

`IncidentList.tla` is the list of the page `IncidentManage` with the store that
outlives it: a change of page or filter asks for a list (`FetchList`), the answers
arrive in any order (`Arrives`) and the last one to arrive is shown.  A list is
the request it answers.  Each of the two selects replaces the filter of the
other, so a list is never filtered by both (`README.md:168` names severity, status
and time).

`IncidentDetail.tla` is the modal with its hook `useIncident`, over `IncidentTable`:
the user opens an incident and clicks the action of the stage that is shown, the
server reads the row for each load (`ReadRow`), finds and saves it in two steps for
each action (`Find`, `SaveFound`), and answers arrive in any order or not at all.
Other clients hold copies of their own and save them before, between and after
(`OtherClient`), so rows move on and back.  The modal is therefore not claimed to
be up to date: `ShownStageIsPast` says that it shows only what the row has been,
and `ReloadShowsAction` that the reload of an accepted action shows its effect, but
for rows that have moved back.  The answer that is shown may be of another incident
than the one opened last, since nothing drops a late one; that is listed under the
hazards.

### The list of the audit log

`AuditLogList.tla` is the endpoint that lists the audit log: a count and a page,
two queries, newest first, cut by offset (`OnPage`), while the middleware adds
entries (`InsertEntry`, in any order, as inserts overlap and ids are given
before they are found).  A client turns the pages while the total promises more
and asks again after an error.  Entries that are added between the count and the
page can push the oldest ones beyond that total: the
client then stops short of them.

## What the runs check

| Run | Instance | Shows |
|---|---|---|
| `incident_race` | 1 new incident, 4 requests, 2 plans, callers with and without the role or a token, overlap | `TypeOK`; `StageIsBacked`; `AuditIsTruthful`; `KeptUnlessOverlapped`; `MovesBackOnlyByOverlap` |
| `incident_serial` | 1 new and 1 seeded incident, 3 requests, 2 plans, no overlap, fairness | `TransitionOnce`; refinement of `IncidentLifecycle`; `EveryCallEnds` |
| `incident_goes_back` | 1 seeded incident, 3 requests, overlap | violated: `StatusNeverMovesBack` |
| `incident_unaudited` | the same | violated: `WritesAreAudited` |
| `inspection_race` | 1 new inspection, 2 items, 3 requests, forms of up to 2 entries of any kind | `TypeOK`; `ExecutedOnce`; `ResultOfOneForm`; `CountsMatchItems`; `FinishedIsFinal`; refinement of `InspectionLifecycle` |
| `inspection_report` | 1 new inspection, 1 item, 4 requests, fairness | `ReportIsWhole`; `EveryRequestEnds` |
| `inspection_partial` | 1 new inspection, 2 items, 2 requests, any forms | violated: `CompletedMeansAllPassed` |
| `limiter` | 2 addresses, 5 requests each, 2 per minute, 3 minutes of 2 ticks | `TypeOK`; `RateIsLimited`; `RefusedAfterBurst` |
| `limiter_slow_caller` | 1 address, 6 requests | violated: `OnlyFrequentIsRefused` |
| `server` | all 16 preset rows, 2 faults, an empty or an initialised database, 3 requests, 2 users, a phone number typed with blanks or without and one of nothing but blanks, fairness | `TypeOK`; `NoPresetTwice`; `ReferencesHold`; `UsersTypeOK`; `PhoneIsUnique`; `CanLogIn`; `LostOnlyByOverlap`; `SeededBeforeRegistered`; `ServesAgain` |
| `side_by_side` | six machines that share no state, one of them running: every tally of up to 200 items at a precision of 23 bits; 3 requests to 1 certification and 1 training; tables of up to 3 rows; 4 lists of 2 filters and 2 pages; 3 clicks on 2 incidents, new or reported, with 1 copy held by another client; 6 audit entries | `ScoreWithinOne`; `FullScoreMeansCompleted`; `ScoreIsMonotone`; `RecordsTypeOK`; `DecidedOnce`; `RateOfLastRecord`; `RosterLostOnlyByOverlap`; `RateNotUnderstated`; `NewestListIsCurrent`; `ShownStageIsPast`; `ReloadShowsAction`; `NoEntrySkipped` |
| `startup_cut_off` | all 16 preset rows, 1 fault | violated: `ServingMeansSeeded` |

Bounds.  Four requests take a new incident through its four stages; three do for
a seeded one, which may start at any stage, with one request to spare for a
repeated transition; two plans are what it takes to confuse plans.  Creation,
one execution and a second one that races or repeats it need three requests, a
report a fourth.  Two items and forms of two entries contain every way a form
can be partial, repeat an item or name a foreign one.  `Interchangeable`
declares requests, plans and items symmetric; it is used with invariants and
safety properties only.  Three minutes with five requests hold a burst, a pause
and a second burst, and every position of a window of a minute or two; the
addresses of the limiter do not interact. One fault cuts the seeding off, a
second one disturbs the start that follows. Three requests are two that overlap
and one before or after them: what has to be kept is written by the first, and
the others are the shortest way to lose it; two numbers, one of them the blank
one, tell whose account is whose.  Three rows let one be added and one be
finished between two counts.  Four lists are two selections, a way back and an
answer that comes late; three clicks open an incident, act on it and act again
or open another one, and one copy of another client is enough to move a row back
under an action; 23 bits of precision are enough for scores that fall short of
the percentage (32 of the tallies), and the proof is for any precision; six
entries are read in pages of one to three with others before and between them.
Of `side_by_side`, each machine is explored from its initial states (the
incidents of the modal not there yet or reported) while each other one rests at
one of its own: they have no variable in common, so a property of one of them
depends on nothing else.  Deadlock is not checked: every request is sent once,
clock and faults are bounded, and the system may stop when all have ended.

Fairness.  `Fairness` of `SafetyIncidents` and the weak fairness of `Progress` in
`Inspections` say that the goroutine of an accepted request is scheduled and
that the database answers, with an error at worst; and that a lock that is free
is granted to one of those that wait.  Requests need not arrive.  The row lock
is free again when its transaction ends, in whatever way; weak fairness suffices
because each waiter gives its lock back and every request is sent once.
`Fairness` of `Startup` says that the process runs and that its container
(`restart: unless-stopped`) starts it again; the faults are finitely many.
`ServerSpec` assumes the same of `Boot` alone: requests need not come and need not
end.  The other specifications have no fairness: their properties are about what
was, not what must come.

The five violations are disagreements between the code and what its documents,
comments and answers say of it:

- `incident_goes_back`: find, check and save are three steps without a lock, so a
  slow transition overwrites later ones: a closed incident is resolved again
  (`wje-132.md:115` speaks of a state machine).
- `incident_unaudited`: a committed write need not be in the audit log
  (`README.md:172`: writes are recorded automatically).
- `inspection_partial`: a form that leaves out an item completes the inspection
  although that item is stored as not passed (`README.md:169`: executed item by
  item).
- `limiter_slow_caller`: an address that asks once every half minute is refused
  once its first bucket is used up, until it pauses for a minute, because each
  request resets the time from which whole minutes are counted 
  (`messages.go:9`: too frequent).
- `startup_cut_off`: a seeding that died midway is never completed, because one
  user is enough to skip it (`seed.go:14`: idempotent).

## What is proved

`SafetyIncidentsProofs.tla`, for any incidents, seeded or not, any requests,
plans and roles:

- `TypeCorrect`, `AuditTruthful`, and `StageBacked`, with requests overlapping
  freely.  `StageIsBacked` is not inductive: a row may be overwritten by a copy
  read long ago.  The inductive invariant adds that every copy held by a handler
  is itself backed by requests that took effect, together with the transition
  about to be made (`CopiesAreBacked`), and that what supports it only grows.
- `LostToOverlap` and `BackOnlyByOverlap`, with requests overlapping freely: an
  update is lost, and a status moves back, only where two requests had not seen each
  other's writes.  `OverlapInv` says of every copy that it has what the requests
  wrote that its own had seen, unless that was lost to an overlap already, and that
  it moves the row on, unless its request has missed a write.
- `ImplementsTable`, with requests overlapping freely: the API refines
  `IncidentTable`.
- `EachTransitionOnce` and `ImplementsLifecycle`, assuming `~Overlap`: here the
  condition is that of the claims themselves, which two overlapping transitions
  break.  The invariant `Serial` says that at most one handler holds a copy of a row
  (`Apart`), that this copy is one transition ahead of the row (`InStep`), that what
  was written is kept and that no stage was entered twice.
- `CallsAdvance`, with requests overlapping freely: every step brings one request
  nearer to its end (`Remaining`, at most three steps) and none further away.

`InspectionsProofs.tla`, for any inspections, finite set of items, requests and
length of the forms:

- `TypeCorrect`.
- `FinalResult`, `OneExecution`, `WholeReport` and `ImplementsLifecycle`.  They
  rest on `Guarded`: whoever is between its check of the status and its commit
  holds the lock, finds the row as it was checked, and holds a result for the
  items that are stored; and no inspection is ever `in_progress`, a status the
  code tests for and never sets.  `Settled` adds that who wrote is done, `Shown`
  that a report that read a finished header holds the header that is stored.
- `OneForm`: header and items are as planned or the whole result of the one form
  that was committed.  It needs an invariant of the loop of `Execute`, `Walked`: the
  rows and counts held are the result of that prefix of the form that has been
  walked.  `FromOneFormAll` carries it over the commit.
- `CountsAreOfItems`: if the form names each item once, the stored counts are those
  of the stored items.  That a fold over a form counts what it should is an
  induction over the length of the prefix; it is made with a least counterexample
  (the natural numbers are well-founded), which takes no operator as a parameter.
- `CompletedIfCovered`: if the form gave a verdict on every item, all items of a
  completed inspection passed.
- `WithinOne`, `FullScoreIsCompleted` and `Monotone`, of `InspectionTally`, for up
  to a million items (as far as `PowersOfTwo` goes) and any precision that has seven
  bits more than their number, that of doubles among them: the two roundings cost at
  most one point; 100 is the score of the completed inspections that counted an item;
  a passed item never lowers the score and an issue never raises it.  `ScoreBounds`
  derives from the roundings that the score is within one point of the percentage,
  and exact where everything passed; the other two need no more of it.
  `ScoreAgreesWithStatus` takes the second one to the stored header.
- `NoDeadlock`: a request in flight can go on, or the one that holds the lock it
  waits for can.  `HeldByRunner` says that a lock is held only by a handler inside
  its transaction, so every way out of the service gives it back.
- `StepsAdvance`: every step brings one request nearer to its end and none further
  away (`Remaining`, bounded by the length of the form and five), restarts
  included.

`RateLimiterProofs.tla`, for any addresses, configured limit, resolution of the
clock and number of requests: `LimiterTypes`, `RateLimited` and
`BurstBeforeRefusal`.  The invariant is an account per address (`Sound`): what
was served since any past request, with the tokens left, fits the minutes begun
since (`Accounted`), and the tokens missing from a bucket were all spent since
the last pause (`SpentAwake`).  The arithmetic it needs, that two times together
hold at least the whole minutes of each, is proved from the definition of the
quotient.  `RefusalTruthful`: a refusal less than a minute after the end of the last
pause of its address is deserved, more than the limit having been asked in that
time; the invariant `Lagging` pairs, from the last one back, what was asked with what
was served before it, so that a burst that was served bounds what was asked.

`StartupProofs.tla`, for any number of faults, starts and registrations:
`StartupTypes`, `PresetsOnce` and `ReferencesStored`.  What is stored is always
a prefix of the preset rows, and without a user it is empty; the users that are
stored have ids that follow one another, from wherever the failed insertions of
the first have left the counter, and the inspections have theirs from 1
(`Numbered`).  `FaultlessIsSeeded` and `FilledStaysFilled`: a server that serves
has all preset rows if nothing has failed yet, and, whatever fails, if
`init.sql` had filled the database. `NoDeadEnd`: no row that the seeding is
about to insert is stored already, wherever earlier starts were cut off.
`AdvancesToServing`: every step of the start but a fault brings the server
nearer to serving, by a measure of at most 20.

`HandlersProofs.tla` has the lemmas about the frame that users, certifications
and trainings share: what each of its operators leaves of the requests.

`ServerProofs.tla`, for any users, phone numbers, passwords, requests and faults:
`AccountsTyped`, `OneAccountPerPhone`, `RegisteredCanLogIn`, `ProfileKept`,
`PresetsComeFirst` and `ServedPresets`.  `CanLogIn` needs that phone number and
password of a row never change once it is stored, hence that every copy about to
be saved has those of the row.  `LostOnlyByOverlap` is inductive only with the same
statement about these copies: a copy holds every change its request had seen,
unless another one made later replaced it.  `SeededBeforeRegistered` rests on
`registered` counting the users that are stored: seeding goes on only in a
process that found none, and no request is served before it is over.
`ServerIsStartup` is a refinement: without its accounts, the server does what the
start does by itself, a registration being one more user and a stop a
crash.  So `ServedWhole` and `ServerAdvances` follow from what `StartupProofs.tla`
proves of the start.

`RecordsProofs.tla`, for any certifications, trainings, lists, rates and
requests: `RecordsTyped`, `ReviewedOnce`, `StoredRateIsLast` and `RosterKept`.
The inductive invariant relates each copy to the reviews and records its request
had seen: that of a review was read while no review of that certification had
taken effect, that of a record holds its rate and its list, or the list of one
it had seen.  What a request had seen only grows with what took effect.

`PagesProofs.tla`, for any number of pages, filters, requests, incidents, clicks,
rows and entries: `NewestIsCurrent`, `ShowsThePast`, `ReloadShowsEffect`,
`RatesNotUnderstated` and `NoneSkipped`.  The numbers of the requests for a list only
grow, so the newest is told from all before it; what a load has read is in the
history of the row, and the load after an action that was saved reads its stage or a
later one as long as the row does not move back;
the first count of a rate is at most the
size of the table when the second is taken, since no row is ever removed; and an
audit entry that was not read lies beyond the pages that were, since entries only
move on to later pages.

Assumptions on the constants are the named `ASSUME`s of the modules
(`IncidentAssumption`, `InspectionAssumption`, `ScoreAssumption`,
`TallyAssumption`, `LimiterAssumption`,
`StartupAssumption`, `UsersAssumption`, `ServerAssumption`,
`TrainingsAssumption`, `DashboardAssumption`, `ListAssumption`,
`DetailAssumption`, `AuditListAssumption`), nothing else.

Four of the claims that the runs refute are proved under a condition,
which says what a repair would have to provide:

| Refuted by | Holds if | Theorem |
|---|---|---|
| `incident_goes_back` | no copy is saved that has missed a write on its incident | `BackOnlyByOverlap` |
| `inspection_partial` | the form gives a verdict on every item | `CompletedIfCovered` |
| `limiter_slow_caller` | the address paused less than a minute ago | `RefusalTruthful` |
| `startup_cut_off` | nothing has failed since the empty database | `FaultlessIsSeeded` |

Each condition is met by behaviours that the runs explore.

Only model-checked:

- The liveness properties `EveryCallEnds`, `EveryRequestEnds` and `ServesAgain`:
  fairness is defined by `ENABLED`, which the provers cannot handle.
  Everything but the fairness is proved: that somebody can always
  go on (`NoDeadlock`, `NoDeadEnd`; `CanGoOn` spells out the guards of the steps
  instead of `ENABLED`; a transition waits for nothing) and that there are only so
  many steps (`CallsAdvance`, `StepsAdvance`, `AdvancesToServing`).
- Nothing else that a run checks.  That a processor rounds a quotient and a product
  as `Nearest` does is IEEE 754, taken as it stands.

## What is not modelled

- Texts, logging, request ids, CORS, configuration and formatting have no state
  the properties depend on.
- Tokens are modelled by the outcome of their check, roles by whether they admit
  the request; the role of a user is set once and left out of `Users`.
- Which rows a list, a trend, a distribution or the query of expiring
  certifications selects: these only read, and what they compute is the database's.
  Dates are stored as they were sent.
- Uploads are file I/O.
- The pages for inspections, trainings, certifications, users and the profile,
  their stores, and the session: `CertReview` loads its list again with the filter of
  the click, which is listed under the hazards.
- The ids the database gives to rows that no preset row refers to.
- The map of the limiter's buckets, which grows with every address and which
  nothing bounds.

Modelled, but with no property to keep: an older answer may replace a newer one in
the list and in the details, since the code neither numbers nor drops what was
overtaken.

## Plan

1. Done: incident workflow with audit log; inspections with their score; rate
   limiter; startup, with their proofs.
2. Done: users composed with the startup, certifications and trainings, the
   dashboard, the list and the details of incidents in the browser, the list of
   the audit log, with their proofs.
3. Left: the rate limiter in front of registration and login; the session with a
   late 401; the pages for certifications, trainings and inspections.

Small machines are merged into one run where their instances fit together, so
that each run answers its questions about one instance.
