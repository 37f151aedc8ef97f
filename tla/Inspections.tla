----------------------------- MODULE Inspections -----------------------------
(***************************************************************************)
(* The inspection API of the Go backend: planning an inspection with its   *)
(* items, executing it, and reading its report.                            *)
(*                                                                         *)
(* Create and Execute are database transactions.  Execute locks the row of *)
(* the inspection (SELECT ... FOR UPDATE), checks its status, reads the    *)
(* items, updates them one by one in the order of the submitted form while *)
(* it counts, and saves the row; all of it becomes visible at the commit.  *)
(* A report takes no transaction: it reads the row first and the items in  *)
(* a second call.  Every request is a goroutine of its own; any database   *)
(* call may fail, which rolls back; a commit's answer may be lost; and the *)
(* server may stop, which rolls back what was not committed.               *)
(***************************************************************************)
EXTENDS InspectionScore, Sequences, FiniteSets

CONSTANTS Inspection,   \* ids of rows of safety_inspections
          Seeded,       \* the ids that the seed data created
          Item,         \* ids of rows of inspection_items
          Request,      \* HTTP requests, each of them sent once
          NoRequest,    \* holder of a lock that is free
          MaxForm       \* bound on the entries of a submitted form

ASSUME InspectionAssumption == /\ Seeded \subseteq Inspection
                               /\ IsFiniteSet(Item)
                               /\ NoRequest \notin Request
                               /\ MaxForm \in Nat
                               /\ InRange(MaxForm)
                               /\ InRange(Cardinality(Item))

Role == {"admin", "safety_manager", "inspector", "worker"}

(* The role of a caller whose token is missing, broken or expired.         *)
Anonymous == "anonymous"

Status == {"scheduled", "in_progress", "completed", "failed"}

(* A row of safety_inspections; "absent" for an id without a row.          *)
Header == [status : Status \cup {"absent"}, passed : Nat, issues : Nat,
           score : Nat]

NoHeader == [status |-> "absent", passed |-> 0, issues |-> 0, score |-> 0]

Planned == [status |-> "scheduled", passed |-> 0, issues |-> 0, score |-> 0]

(* The rows of inspection_items of one inspection: passed or not, by id.   *)
Checklist == UNION {[X -> BOOLEAN] : X \in SUBSET Item}

NoItems == [x \in {} |-> FALSE]

(* A submitted form: verdicts on items, in order.  Nothing keeps a client  *)
(* from leaving items out, naming one twice, or naming a foreign one.      *)
Entry == [item : Item, passed : BOOLEAN]

Form == UNION {[1..n -> Entry] : n \in 0..MaxForm}

(* The forms of the frontend, which submits the items it was shown, each   *)
(* of them once.                                                           *)
Full(f, list) == /\ {f[k].item : k \in DOMAIN f} = DOMAIN list
                 /\ \A j, k \in DOMAIN f : f[j].item = f[k].item => j = k

Call == [op : {"create", "execute", "report"}, id : Inspection, form : Form]

NoCall == [op |-> "none"]

(* What a handler holds: the header and the items it read, with what it    *)
(* made of them, its counts, and the next entry of the form.               *)
Work == [head : Header, list : Checklist, passed : Nat, issues : Nat,
         at : Nat \ {0}]

NoWork == [head |-> NoHeader, list |-> NoItems, passed |-> 0, issues |-> 0,
           at |-> 1]

VARIABLES inspection,   \* committed headers: [Inspection -> Header]
          items,        \* committed items: [Inspection -> Checklist]
          lock,         \* who has locked the row of an inspection
          pc,           \* where each request is
          call,         \* what each request asks, if it was not refused
          work,         \* what its handler holds; of a report, what it shows
          reply,        \* HTTP status, 0 for none yet
          wrote,        \* history: was its transaction committed?
          planned       \* history: the items as they were created

vars == <<inspection, items, lock, pc, call, work, reply, wrote, planned>>

InFlight(r) == pc[r] \in {"lock", "list", "loop", "commit", "items"}

TypeOK ==
    /\ inspection \in [Inspection -> Header]
    /\ items \in [Inspection -> Checklist]
    /\ lock \in [Inspection -> Request \cup {NoRequest}]
    /\ pc \in [Request -> {"new", "lock", "list", "loop", "commit", "items",
                           "done", "killed"}]
    /\ call \in [Request -> Call \cup {NoCall}]
    /\ work \in [Request -> Work]
    /\ reply \in [Request -> {0, 200, 400, 401, 403, 409, 500}]
    /\ wrote \in [Request -> BOOLEAN]
    /\ planned \in [Inspection -> Checklist]

(* The seeded inspections: one is scheduled and has no items, one is       *)
(* completed although an item of it did not pass.                          *)
SeedDone == [status |-> "completed", passed |-> 2, issues |-> 1, score |-> 92]

Init ==
    /\ inspection \in [Inspection -> {NoHeader, Planned, SeedDone}]
    /\ \A i \in Inspection : inspection[i] = NoHeader <=> i \notin Seeded
    /\ items \in [Inspection -> Checklist]
    /\ \A i \in Inspection :
          IF inspection[i] = SeedDone THEN \E x \in DOMAIN items[i] : ~items[i][x]
                                      ELSE items[i] = NoItems
    /\ lock = [i \in Inspection |-> NoRequest]
    /\ pc = [r \in Request |-> "new"]
    /\ call = [r \in Request |-> NoCall]
    /\ work = [r \in Request |-> NoWork]
    /\ reply = [r \in Request |-> 0]
    /\ wrote = [r \in Request |-> FALSE]
    /\ planned = items

(***************************************************************************)
(* Ways to end                                                             *)
(***************************************************************************)
(* The transaction of request r, if it is in one, ends: its locks go.      *)
Unlocked(r) == [i \in Inspection |-> IF lock[i] = r THEN NoRequest ELSE lock[i]]

(* The handler replies an error; its transaction is rolled back.  What was *)
(* asked matters no more and is not kept.                                  *)
Fail(r, status) ==
    /\ pc' = [pc EXCEPT ![r] = "done"]
    /\ call' = [call EXCEPT ![r] = NoCall]
    /\ reply' = [reply EXCEPT ![r] = status]
    /\ work' = [work EXCEPT ![r] = NoWork]
    /\ lock' = Unlocked(r)
    /\ UNCHANGED <<inspection, items, wrote, planned>>

(* A database call of request r fails, be it a lock wait that times out,   *)
(* an item that cannot be updated, or the commit.                          *)
Abort(r) == InFlight(r) /\ Fail(r, 500)

(* Who may plan and execute inspections.                                   *)
Planner == {"admin", "safety_manager", "inspector"}

(* Token, role, and the parsing of the path's id and of the body.          *)
Refused(r, role, admitted) ==
    \/ role = Anonymous /\ Fail(r, 401)
    \/ role \in Role \ admitted /\ Fail(r, 403)
    \/ role \in admitted /\ Fail(r, 400)

(***************************************************************************)
(* Create: header and items in one transaction                             *)
(***************************************************************************)
(* The inserts.  The new row is locked, and invisible, until the commit;   *)
(* a failing insert of an item is an Abort.                                *)
Create(r, c, list) ==
    /\ inspection[c.id] = NoHeader
    /\ lock[c.id] = NoRequest
    /\ lock' = [lock EXCEPT ![c.id] = r]
    /\ work' = [work EXCEPT ![r] = [NoWork EXCEPT !.head = Planned, !.list = list]]
    /\ pc' = [pc EXCEPT ![r] = "commit"]
    /\ call' = [call EXCEPT ![r] = c]
    /\ UNCHANGED <<inspection, items, reply, wrote, planned>>

(* The service does not begin when it cannot find the inspector named.     *)
PostCreate(r) ==
    /\ pc[r] = "new"
    /\ \E role \in Role \cup {Anonymous} :
          \/ Refused(r, role, Planner)
          \/ role \in Planner /\ Fail(r, 500)
          \/ /\ role \in Planner
             /\ \E i \in Inspection, list \in Checklist :
                   Create(r, [op |-> "create", id |-> i, form |-> <<>>], list)

(***************************************************************************)
(* Execute: one transaction under the lock of the inspection's row         *)
(***************************************************************************)
Execute(r, c) ==
    /\ call' = [call EXCEPT ![r] = c]
    /\ pc' = [pc EXCEPT ![r] = "lock"]
    /\ UNCHANGED <<inspection, items, lock, work, reply, wrote, planned>>

PostExecute(r) ==
    /\ pc[r] = "new"
    /\ \E role \in Role \cup {Anonymous} :
          \/ Refused(r, role, Planner)
          \/ /\ role \in Planner
             /\ \E i \in Inspection, f \in Form :
                   Execute(r, [op |-> "execute", id |-> i, form |-> f])

Executable == {"scheduled", "in_progress"}

(* Mutant: the row is read without being locked. *)
FindByIDUnlocked(r) ==
    LET i == call[r].id IN
    /\ pc[r] = "lock"
    /\ \/ inspection[i] = NoHeader /\ Fail(r, 500)
       \/ /\ inspection[i] # NoHeader
          /\ inspection[i].status \notin Executable
          /\ Fail(r, 409)
       \/ /\ inspection[i].status \in Executable
          /\ work' = [work EXCEPT ![r].head = inspection[i]]
          /\ pc' = [pc EXCEPT ![r] = "list"]
          /\ UNCHANGED <<inspection, items, lock, call, reply, wrote, planned>>

(* Mutant: the transaction that finds a finished inspection stays open. *)
FindByIDLeaky(r) ==
    LET i == call[r].id IN
    /\ pc[r] = "lock" /\ lock[i] = NoRequest
    /\ lock' = [lock EXCEPT ![i] = r]
    /\ work' = [work EXCEPT ![r].head = inspection[i]]
    /\ IF inspection[i].status \in Executable
       THEN /\ pc' = [pc EXCEPT ![r] = "list"]
            /\ UNCHANGED reply
       ELSE /\ pc' = [pc EXCEPT ![r] = "done"]
            /\ reply' = [reply EXCEPT ![r] = 409]
    /\ UNCHANGED <<inspection, items, call, wrote, planned>>

(* Waits for the lock of the row, then checks the status it reads.         *)
FindByIDForUpdate(r) ==
    LET i == call[r].id IN
    /\ pc[r] = "lock" /\ lock[i] = NoRequest
    /\ \/ inspection[i] = NoHeader /\ Fail(r, 500)
       \/ /\ inspection[i] # NoHeader
          /\ inspection[i].status \notin Executable
          /\ Fail(r, 409)
       \/ /\ inspection[i].status \in Executable
          /\ lock' = [lock EXCEPT ![i] = r]
          /\ work' = [work EXCEPT ![r].head = inspection[i]]
          /\ pc' = [pc EXCEPT ![r] = "list"]
          /\ UNCHANGED <<inspection, items, call, reply, wrote, planned>>

ListItems(r) ==
    /\ pc[r] = "list"
    /\ work' = [work EXCEPT ![r].list = items[call[r].id]]
    /\ pc' = [pc EXCEPT ![r] = "loop"]
    /\ UNCHANGED <<inspection, items, lock, call, reply, wrote, planned>>

(* Mutant: the verdict is counted and not stored. *)
ApplyCountOnly(w, e) ==
    IF e.item \in DOMAIN w.list
    THEN [w EXCEPT !.passed = IF e.passed THEN @ + 1 ELSE @,
                   !.issues = IF e.passed THEN @ ELSE @ + 1,
                   !.at = @ + 1]
    ELSE [w EXCEPT !.at = @ + 1]

(* One entry of the form: an item of this inspection takes the verdict and *)
(* is counted, another one is passed over.                                 *)
Apply(w, e) ==
    IF e.item \in DOMAIN w.list
    THEN [w EXCEPT !.list[e.item] = e.passed,
                   !.passed = IF e.passed THEN @ + 1 ELSE @,
                   !.issues = IF e.passed THEN @ ELSE @ + 1,
                   !.at = @ + 1]
    ELSE [w EXCEPT !.at = @ + 1]

(* Mutant: the items are saved outside of the transaction. *)
UpdateItemAtOnce(r) ==
    LET f == call[r].form
        w == Apply(work[r], f[work[r].at]) IN
    /\ pc[r] = "loop" /\ work[r].at <= Len(f)
    /\ work' = [work EXCEPT ![r] = w]
    /\ items' = [items EXCEPT ![call[r].id] = w.list]
    /\ UNCHANGED <<inspection, lock, pc, call, reply, wrote, planned>>

UpdateItem(r) ==
    LET f == call[r].form IN
    /\ pc[r] = "loop" /\ work[r].at <= Len(f)
    /\ work' = [work EXCEPT ![r] = Apply(work[r], f[work[r].at])]
    /\ UNCHANGED <<inspection, items, lock, pc, call, reply, wrote, planned>>

(* The items of a list with verdict v.                                     *)
With(list, v) == {x \in DOMAIN list : list[x] = v}

(* The counts of the form, or those of the stored items if the form named  *)
(* none of them.                                                           *)
Recounted(w) ==
    IF w.passed = 0 /\ w.issues = 0
    THEN [w EXCEPT !.passed = Cardinality(With(w.list, TRUE)),
                   !.issues = Cardinality(With(w.list, FALSE))]
    ELSE w

(* Mutant: a status that is none. *)
TalliedMisspelt(w) ==
    [w EXCEPT !.head = [status |-> IF w.issues = 0 THEN "complete" ELSE "failed",
                        passed |-> w.passed,
                        issues |-> w.issues,
                        score  |-> Score(w.passed, w.passed + w.issues)]]

Tallied(w) ==
    [w EXCEPT !.head = [status |-> IF w.issues = 0 THEN "completed" ELSE "failed",
                        passed |-> w.passed,
                        issues |-> w.issues,
                        score  |-> Score(w.passed, w.passed + w.issues)]]

SaveInspection(r) ==
    /\ pc[r] = "loop" /\ work[r].at > Len(call[r].form)
    /\ work' = [work EXCEPT ![r] = Tallied(Recounted(work[r]))]
    /\ pc' = [pc EXCEPT ![r] = "commit"]
    /\ UNCHANGED <<inspection, items, lock, call, reply, wrote, planned>>

(* The commit of Create or Execute takes effect; its answer may be lost.   *)
Commit(r) ==
    LET i == call[r].id IN
    /\ pc[r] = "commit"
    /\ inspection' = [inspection EXCEPT ![i] = work[r].head]
    /\ items' = [items EXCEPT ![i] = work[r].list]
    /\ planned' = IF call[r].op = "create"
                  THEN [planned EXCEPT ![i] = work[r].list]
                  ELSE planned
    /\ wrote' = [wrote EXCEPT ![r] = TRUE]
    /\ lock' = Unlocked(r)
    /\ pc' = [pc EXCEPT ![r] = "done"]
    /\ \E status \in {200, 500} : reply' = [reply EXCEPT ![r] = status]
    /\ work' = [work EXCEPT ![r] = NoWork]
    /\ UNCHANGED call

(***************************************************************************)
(* Report: the header, then the items, with nothing around the two reads   *)
(***************************************************************************)
FindByID(r, c) ==
    /\ inspection[c.id] # NoHeader
    /\ call' = [call EXCEPT ![r] = c]
    /\ work' = [work EXCEPT ![r].head = inspection[c.id]]
    /\ pc' = [pc EXCEPT ![r] = "items"]
    /\ UNCHANGED <<inspection, items, lock, reply, wrote, planned>>

PostReport(r) ==
    /\ pc[r] = "new"
    /\ \E role \in Role \cup {Anonymous} :
          \/ Refused(r, role, Role)
          \/ /\ role \in Role
             /\ \/ Fail(r, 500)
                \/ \E i \in Inspection :
                      FindByID(r, [op |-> "report", id |-> i, form |-> <<>>])

ReadItems(r) ==
    /\ pc[r] = "items"
    /\ work' = [work EXCEPT ![r].list = items[call[r].id]]
    /\ pc' = [pc EXCEPT ![r] = "done"]
    /\ reply' = [reply EXCEPT ![r] = 200]
    /\ UNCHANGED <<inspection, items, lock, call, wrote, planned>>

(***************************************************************************)
(* The process ends: what was not committed is rolled back                 *)
(***************************************************************************)
Restart ==
    /\ \E r \in Request : InFlight(r)
    /\ pc' = [r \in Request |-> IF InFlight(r) THEN "killed" ELSE pc[r]]
    /\ work' = [r \in Request |-> IF InFlight(r) THEN NoWork ELSE work[r]]
    /\ lock' = [i \in Inspection |-> NoRequest]
    /\ UNCHANGED <<inspection, items, call, reply, wrote, planned>>

Progress(r) == \/ FindByIDForUpdate(r) \/ ListItems(r) \/ UpdateItem(r)
               \/ SaveInspection(r) \/ Commit(r) \/ ReadItems(r)

Next ==
    \/ Restart
    \/ \E r \in Request : \/ PostCreate(r) \/ PostExecute(r) \/ PostReport(r)
                          \/ Progress(r) \/ Abort(r)

(* The goroutine of a request that was accepted goes on, and a lock that   *)
(* is free is granted to one of those that wait.                           *)
Spec == Init /\ [][Next]_vars /\ \A r \in Request : WF_vars(Progress(r))

(***************************************************************************)
(* Properties                                                              *)
(***************************************************************************)
Executions(i) ==
    {r \in Request : wrote[r] /\ call[r].op = "execute" /\ call[r].id = i}

IsFinished(h) == h.status \in {"completed", "failed"}

(* An inspection is executed once at most, however many inspectors submit  *)
(* it at the same time or again after a lost answer.                       *)
ExecutedOnce == \A i \in Inspection : \A q, r \in Executions(i) : q = r

(* The result of a finished inspection never changes.                      *)
FinishedIsFinal ==
    [][\A i \in Inspection : IsFinished(inspection[i]) =>
          inspection'[i] = inspection[i] /\ items'[i] = items[i]]_vars

(* The entries of form f that name items of list, and the last such entry  *)
(* for item x.                                                             *)
Naming(f, list) == {k \in DOMAIN f : f[k].item \in DOMAIN list}

LastNaming(f, x) == CHOOSE k \in DOMAIN f : /\ f[k].item = x
                                           /\ \A j \in DOMAIN f : f[j].item = x => j <= k

(* What executing a list with form f should store: the last verdict given  *)
(* on each item, and the number of verdicts of each kind.                  *)
Verdicts(f, list) ==
    [x \in DOMAIN list |-> IF \E k \in DOMAIN f : f[k].item = x
                           THEN f[LastNaming(f, x)].passed ELSE list[x]]

Tally(f, list, v) ==
    IF Naming(f, list) = {} THEN Cardinality(With(list, v))
    ELSE Cardinality({k \in Naming(f, list) : f[k].passed = v})

(* All or nothing: the stored header and items of an inspection are those  *)
(* it was planned with, untouched by executions that failed, were refused  *)
(* or killed, or they are the whole result of the one that was committed.  *)
ResultOfOneForm ==
    \A i \in Inspection :
       /\ Executions(i) = {} =>
             items[i] = planned[i] /\ (i \notin Seeded => ~IsFinished(inspection[i]))
       /\ \A r \in Executions(i) :
             LET f == call[r].form
                 p == Tally(f, planned[i], TRUE)
                 n == Tally(f, planned[i], FALSE)
             IN  /\ items[i] = Verdicts(f, planned[i])
                 /\ inspection[i] =
                       [status |-> IF n = 0 THEN "completed" ELSE "failed",
                        passed |-> p, issues |-> n, score |-> Score(p, p + n)]

(* A report that shows a finished inspection shows its items as they are   *)
(* stored with it, although it reads them in a second call.                *)
ReportIsWhole ==
    \A r \in Request :
       LET i == call[r].id IN
       /\ pc[r] = "done" /\ reply[r] = 200 /\ call[r].op = "report"
       /\ IsFinished(work[r].head)
       => work[r].head = inspection[i] /\ work[r].list = items[i]

(* If the form that was executed is one of the frontend, which names each  *)
(* item once, then the stored counts are those of the stored items.        *)
CountsMatchItems ==
    \A i \in Inspection : \A r \in Executions(i) :
       Full(call[r].form, planned[i]) =>
          /\ inspection[i].passed = Cardinality(With(items[i], TRUE))
          /\ inspection[i].issues = Cardinality(With(items[i], FALSE))

(* Every request that was accepted ends, also when it waits for a lock.    *)
EveryRequestEnds == \A r \in Request : InFlight(r) ~> ~InFlight(r)

(* Seen without the transactions, an inspection is planned and finished in *)
(* one step each.                                                          *)
Book == INSTANCE InspectionLifecycle WITH
            header <- inspection, checklist <- items

FollowsLifecycle == Book!BookSpec

(* A completed inspection was executed item by item, and has no item that  *)
(* did not pass.                                                           *)
CompletedMeansAllPassed ==
    \A i \in Inspection \ Seeded :
       inspection[i].status = "completed" => With(items[i], FALSE) = {}
=============================================================================
