--------------------------- MODULE SafetyIncidents ---------------------------
(***************************************************************************)
(* The write side of the incident API of the Go backend: the route's role  *)
(* check, the handler, the service and the repository of one request, and  *)
(* the audit middleware that runs after the handler has replied.           *)
(*                                                                         *)
(* Every HTTP request is a goroutine of its own.  A transition (assign,    *)
(* rectify, close) finds the row, checks its status, and saves the whole   *)
(* row in a later database call, with neither a lock nor a transaction     *)
(* around the two: other requests run between them.  A database call may   *)
(* fail before its effect, or after it (the commit's answer is lost).  The *)
(* server may be stopped at any time, which kills the requests in flight.  *)
(***************************************************************************)
EXTENDS Naturals

CONSTANTS Incident,     \* ids of rows of safety_incidents
          Seeded,       \* the ids that the seed data created
          Request,      \* HTTP requests, each of them sent once
          Plan,         \* rectification plans: measures with their deadline
          NoPlan,       \* empty measures and deadline
          CallerRole,   \* the roles of the callers considered
          Overlap       \* may two transitions of one incident overlap?

(***************************************************************************)
(* Constants of the program                                                *)
(***************************************************************************)
Role == {"admin", "safety_manager", "inspector", "worker"}

(* The role of a caller whose token is missing, broken or expired.         *)
Anonymous == "anonymous"

Status == {"reported", "investigating", "resolved", "closed"}

(* Mutant: the transition routes lose their RequireRole. *)
AdmittedToAll(op) == Role

(* The roles the route of an operation admits. *)
Admitted(op) == IF op = "report" THEN Role ELSE {"admin", "safety_manager"}

ASSUME IncidentAssumption == /\ Seeded \subseteq Incident
                             /\ NoPlan \notin Plan
                             /\ CallerRole \subseteq Role
                             /\ Overlap \in BOOLEAN

(* A row of safety_incidents, the descriptive columns left out; "absent"   *)
(* stands for an id that has no row.                                       *)
Row == [status : Status \cup {"absent"}, plan : Plan \cup {NoPlan}]

NoRow == [status |-> "absent", plan |-> NoPlan]

(* A request: its operation, the incident its path names (for a report,    *)
(* the id the insert is given), the caller's role and the plan it carries. *)
Call == [op : {"report", "assign", "rectify", "close"}, id : Incident,
         role : CallerRole \cup {Anonymous}, plan : Plan \cup {NoPlan}]

NoCall == [op |-> "none"]

VARIABLES incident,     \* the table: [Incident -> Row]
          pc,           \* where each request is
          call,         \* what each request asks
          draft,        \* the copy of the row its handler holds
          reply,        \* HTTP status set so far, 0 for none
          wrote,        \* history: did its write take effect?
          seen,         \* history: whose writes had when it read its row
          audit         \* the requests that have a row in audit_logs

vars == <<incident, pc, call, draft, reply, wrote, seen, audit>>

(* The requests whose writes have taken effect.                            *)
Written == {r \in Request : wrote[r]}

TypeOK ==
    /\ incident \in [Incident -> Row]
    /\ pc \in [Request -> {"new", "save", "audit", "done", "killed"}]
    /\ call \in [Request -> Call \cup {NoCall}]
    /\ draft \in [Request -> Row]
    /\ reply \in [Request -> {0, 200, 400, 401, 403, 409, 500}]
    /\ wrote \in [Request -> BOOLEAN]
    /\ seen \in [Request -> SUBSET Request]
    /\ audit \subseteq Request

(* Seed data: init.sql gives its incidents plans, the Go seeding does not. *)
SeedRow == [status : {"investigating", "resolved", "closed"},
            plan : Plan \cup {NoPlan}]

Init ==
    /\ incident \in {f \in [Incident -> SeedRow \cup {NoRow}] :
                        \A i \in Incident : f[i] = NoRow <=> i \notin Seeded}
    /\ pc = [r \in Request |-> "new"]
    /\ call = [r \in Request |-> NoCall]
    /\ draft = [r \in Request |-> NoRow]
    /\ reply = [r \in Request |-> 0]
    /\ wrote = [r \in Request |-> FALSE]
    /\ seen = [r \in Request |-> {}]
    /\ audit = {}

(***************************************************************************)
(* The steps shared by the handlers                                        *)
(***************************************************************************)
(* The handler replies without having touched the table.  What was asked   *)
(* matters no more and is not kept.                                        *)
Fail(r, status) ==
    /\ pc' = [pc EXCEPT ![r] = "audit"]
    /\ reply' = [reply EXCEPT ![r] = status]
    /\ UNCHANGED <<incident, call, draft, wrote, seen, audit>>

AuthRequired(c) == c.role # Anonymous

RequireRole(c) == c.role \in Admitted(c.op)

(* A rectification binds only with measures.                               *)
Bound(c) == c.op = "rectify" => c.plan # NoPlan

(* No other request holds a copy of the row of incident id. *)
Alone(r, id) ==
    \A q \in Request \ {r} : pc[q] = "save" => call[q].id # id

(* The service has changed its copy of the row and calls Update with it. *)
Modify(r, c, row) ==
    /\ Overlap \/ Alone(r, c.id)
    /\ call' = [call EXCEPT ![r] = c]
    /\ pc' = [pc EXCEPT ![r] = "save"]
    /\ draft' = [draft EXCEPT ![r] = row]
    /\ seen' = [seen EXCEPT ![r] = Written]
    /\ UNCHANGED <<incident, reply, wrote, audit>>

(* The whole row becomes the handler's copy, as gorm's Save does. *)
Save(r, id, row) ==
    /\ incident' = [incident EXCEPT ![id] = row]
    /\ wrote' = [wrote EXCEPT ![r] = TRUE]

(***************************************************************************)
(* The service: one operator per method                                    *)
(***************************************************************************)
(* An insert, the only database call of a report: it takes effect and is   *)
(* answered, takes effect but its answer is an error, or has no effect.    *)
Report(r, c) ==
    /\ call' = [call EXCEPT ![r] = c]
    /\ pc' = [pc EXCEPT ![r] = "audit"]
    /\ \/ /\ Save(r, c.id, [status |-> "reported", plan |-> NoPlan])
          /\ \E status \in {200, 500} : reply' = [reply EXCEPT ![r] = status]
       \/ /\ reply' = [reply EXCEPT ![r] = 500]
          /\ UNCHANGED <<incident, wrote>>
    /\ UNCHANGED <<draft, seen, audit>>

(* A find that fails, or that finds no row, is answered 500. *)
FindFails(r) == Fail(r, 500)

Conflict(r, c) == incident[c.id] # NoRow /\ Fail(r, 409)

(* Mutant: a closed or resolved incident can be assigned again. *)
AssignAnytime(r, c) ==
    \/ FindFails(r)
    \/ /\ incident[c.id] # NoRow
       /\ Modify(r, c, [incident[c.id] EXCEPT !.status = "investigating"])

Assign(r, c) ==
    \/ FindFails(r)
    \/ incident[c.id].status # "reported" /\ Conflict(r, c)
    \/ /\ incident[c.id].status = "reported"
       /\ Modify(r, c, [incident[c.id] EXCEPT !.status = "investigating"])

(* Mutant: a plan can be replaced after it was agreed. *)
RectifyAgain(r, c) ==
    \/ FindFails(r)
    \/ /\ incident[c.id].status \in {"investigating", "resolved", "closed"}
       /\ Modify(r, c, [status |-> "resolved", plan |-> c.plan])

SubmitRectification(r, c) ==
    \/ FindFails(r)
    \/ incident[c.id].status # "investigating" /\ Conflict(r, c)
    \/ /\ incident[c.id].status = "investigating"
       /\ Modify(r, c, [status |-> "resolved", plan |-> c.plan])

(* Mutant: the status is misspelt. *)
CloseMisspelt(r, c) ==
    \/ FindFails(r)
    \/ /\ incident[c.id].status = "resolved"
       /\ Modify(r, c, [incident[c.id] EXCEPT !.status = "close"])

(* Mutant: closing a closed incident succeeds once more. *)
CloseAgain(r, c) ==
    \/ FindFails(r)
    \/ /\ incident[c.id].status \in {"resolved", "closed"}
       /\ Modify(r, c, [incident[c.id] EXCEPT !.status = "closed"])

Close(r, c) ==
    \/ FindFails(r)
    \/ incident[c.id].status # "resolved" /\ Conflict(r, c)
    \/ /\ incident[c.id].status = "resolved"
       /\ Modify(r, c, [incident[c.id] EXCEPT !.status = "closed"])

(***************************************************************************)
(* The handlers: a request of role o arrives                               *)
(***************************************************************************)
(* Token, then role, then the parsing of the path's id and of the body,    *)
(* which may be refused for more than what Bound tells.                    *)
Refuse(r, c) ==
    \/ ~AuthRequired(c) /\ Fail(r, 401)
    \/ AuthRequired(c) /\ ~RequireRole(c) /\ Fail(r, 403)
    \/ RequireRole(c) /\ Fail(r, 400)

Accept(c) == RequireRole(c) /\ Bound(c)

PostReport(r) ==
    /\ pc[r] = "new"
    /\ \E i \in Incident, o \in CallerRole \cup {Anonymous} :
          LET c == [op |-> "report", id |-> i, role |-> o, plan |-> NoPlan]
          IN  \/ Refuse(r, c)
              \/ Accept(c) /\ incident[i] = NoRow /\ Report(r, c)

PostAssign(r) ==
    /\ pc[r] = "new"
    /\ \E i \in Incident, o \in CallerRole \cup {Anonymous} :
          LET c == [op |-> "assign", id |-> i, role |-> o, plan |-> NoPlan]
          IN  Refuse(r, c) \/ (Accept(c) /\ Assign(r, c))

PostRectify(r) ==
    /\ pc[r] = "new"
    /\ \E i \in Incident, o \in CallerRole \cup {Anonymous}, p \in Plan \cup {NoPlan} :
          LET c == [op |-> "rectify", id |-> i, role |-> o, plan |-> p]
          IN  Refuse(r, c) \/ (Accept(c) /\ SubmitRectification(r, c))

PostClose(r) ==
    /\ pc[r] = "new"
    /\ \E i \in Incident, o \in CallerRole \cup {Anonymous} :
          LET c == [op |-> "close", id |-> i, role |-> o, plan |-> NoPlan]
          IN  Refuse(r, c) \/ (Accept(c) /\ Close(r, c))

(***************************************************************************)
(* The rest of a request                                                   *)
(***************************************************************************)
(* The service's call of Update returns: the row is saved and the handler  *)
(* replies 200, or an error comes back, whether the row was saved or not.  *)
Update(r) ==
    /\ pc[r] = "save"
    /\ pc' = [pc EXCEPT ![r] = "audit"]
    /\ draft' = [draft EXCEPT ![r] = NoRow]
    /\ \/ /\ Save(r, call[r].id, draft[r])
          /\ \E status \in {200, 500} : reply' = [reply EXCEPT ![r] = status]
          /\ UNCHANGED seen
       \/ /\ reply' = [reply EXCEPT ![r] = 500]
          /\ seen' = [seen EXCEPT ![r] = {}]
          /\ UNCHANGED <<incident, wrote>>
    /\ UNCHANGED <<call, audit>>

(* Mutant: the middleware does not look at the status. *)
AuditLogAll(r) ==
    /\ pc[r] = "audit"
    /\ pc' = [pc EXCEPT ![r] = "done"]
    /\ audit' = audit \cup {r}
    /\ UNCHANGED <<incident, call, draft, reply, wrote, seen>>

(* Mutant: the middleware does not return for an error status. *)
AuditLogHangs(r) ==
    /\ pc[r] = "audit" /\ reply[r] < 400
    /\ pc' = [pc EXCEPT ![r] = "done"]
    /\ audit' = audit \cup {r}
    /\ UNCHANGED <<incident, call, draft, reply, wrote, seen>>

(* The audit middleware after c.Next(): nothing for an error status, else  *)
(* one insert whose failure is only logged.                                *)
AuditLog(r) ==
    /\ pc[r] = "audit"
    /\ pc' = [pc EXCEPT ![r] = "done"]
    /\ \/ reply[r] < 400 /\ audit' = audit \cup {r}
       \/ UNCHANGED audit
    /\ UNCHANGED <<incident, call, draft, reply, wrote, seen>>

InFlight(r) == pc[r] \in {"save", "audit"}

(* The process ends with requests in flight: shutdown waits for five       *)
(* seconds only, and a crash does not wait.  The table survives.           *)
Restart ==
    /\ \E r \in Request : InFlight(r)
    /\ pc' = [r \in Request |-> IF InFlight(r) THEN "killed" ELSE pc[r]]
    /\ draft' = [r \in Request |-> NoRow]
    /\ seen' = [r \in Request |-> IF wrote[r] THEN seen[r] ELSE {}]
    /\ UNCHANGED <<incident, call, reply, wrote, audit>>

Handle(r) == \/ PostReport(r) \/ PostAssign(r) \/ PostRectify(r) \/ PostClose(r)
             \/ Update(r) \/ AuditLog(r)

Next == Restart \/ \E r \in Request : Handle(r)

(* A request that was accepted is carried on: its goroutine is scheduled,  *)
(* and the database answers, be it with an error.                          *)
Fairness == \A r \in Request : WF_vars(Update(r)) /\ WF_vars(AuditLog(r))

Spec == Init /\ [][Next]_vars /\ Fairness

(***************************************************************************)
(* Properties                                                              *)
(***************************************************************************)
Manager == {"admin", "safety_manager"}

(* The requests of operation op on incident i that took effect, sent by a  *)
(* role that is allowed to.                                                *)
Evidence(op, i) ==
    {r \in Request : /\ wrote[r]
                     /\ call[r].op = op
                     /\ call[r].id = i
                     /\ op = "report" \/ call[r].role \in Manager}

(* A row, or a copy of one, tells the story of incident i truthfully: each *)
(* stage up to its status was entered by a request that took effect, and   *)
(* its plan is the one of such a rectification.                            *)
Backed(i, row) ==
    /\ row.status # "absent" => Evidence("report", i) # {}
    /\ row.status \in {"investigating", "resolved", "closed"} =>
          Evidence("assign", i) # {}
    /\ row.status \in {"resolved", "closed"} =>
          \E r \in Evidence("rectify", i) :
             call[r].plan = row.plan /\ row.plan # NoPlan
    /\ row.status = "closed" => Evidence("close", i) # {}
    /\ row.status \in {"absent", "reported", "investigating"} =>
          row.plan = NoPlan

(* However requests overlap, fail or are killed, an incident that was not  *)
(* seeded is at a stage only if requests of admitted roles took it through *)
(* every stage before, and shows the plan of one of its rectifications.    *)
StageIsBacked == \A i \in Incident \ Seeded : Backed(i, incident[i])

(* The audit log tells only of writes that happened: a request in it       *)
(* changed the table, was answered 200, and its caller was admitted.       *)
AuditIsTruthful ==
    \A r \in audit : wrote[r] /\ reply[r] = 200 /\ RequireRole(call[r])

(* Every accepted request ends, with an answer or by a restart.            *)
EveryCallEnds == \A r \in Request : InFlight(r) ~> pc[r] \in {"done", "killed"}

Rank == [absent |-> 0, reported |-> 1, investigating |-> 2,
         resolved |-> 3, closed |-> 4]

Target == [report |-> "reported", assign |-> "investigating",
           rectify |-> "resolved", close |-> "closed"]

(* A row, or a copy of one, has what request q wrote: the stage it entered *)
(* or a later one, and the plan it agreed.                                 *)
Keeps(row, q) ==
    /\ Rank[row.status] >= Rank[Target[call[q].op]]
    /\ call[q].op = "rectify" => row.plan = call[q].plan

(* Request q and another one on its incident took effect, and neither had  *)
(* seen the write of the other when it read the row.                       *)
Overlapped(q) ==
    \E r \in Written \ ({q} \cup seen[q]) : call[r].id = call[q].id /\ q \notin seen[r]

(* An update is lost only to one that overlapped it: whatever a request    *)
(* wrote (the ones answered 200 and those whose answer was lost), the row  *)
(* is still at its stage or further and keeps the plan it agreed, unless   *)
(* another request on the incident took effect and neither of the two had  *)
(* seen the other.  Retries, failures and restarts alone undo nothing.     *)
KeptUnlessOverlapped ==
    \A q \in Written : Keeps(incident[call[q].id], q) \/ Overlapped(q)

(* No stage of an incident is entered by two requests: a repeated          *)
(* transition, a retry after a lost answer included, has no effect.  Holds *)
(* when transitions of an incident do not overlap.                         *)
TransitionOnce ==
    \A q, r \in Request :
        /\ wrote[q] /\ wrote[r]
        /\ call[q].op = call[r].op
        /\ call[q].id = call[r].id
        => q = r

(* The rows, seen without the handlers, follow the incident state machine: *)
(* one stage after the other, never back, each plan agreed once.  Holds    *)
(* when transitions of an incident do not overlap.                         *)
Lifecycle == INSTANCE IncidentLifecycle WITH
                 stage  <- [i \in Incident |-> incident[i].status],
                 agreed <- [i \in Incident |-> incident[i].plan]

FollowsLifecycle == Lifecycle!LifecycleSpec

(* The rows whose copies are about to be saved, with what they become.     *)
Held == {<<call[r].id, draft[r].status>> : r \in {q \in Request : pc[q] = "save"}}

(* Whether transitions overlap or not, a row changes only by a report, or  *)
(* by the save of a copy that was taken when its status admitted it.       *)
Table == INSTANCE IncidentTable WITH
             stage  <- [i \in Incident |-> incident[i].status],
             copies <- Held

KeepsToTable == Table!TableSpec

(* The status of an incident never moves back to an earlier stage. *)
StatusNeverMovesBack ==
    [][\A i \in Incident :
          Rank[incident'[i].status] >= Rank[incident[i].status]]_vars

(* A status moves back only by the save of a request that had not seen a   *)
(* write on the incident which took effect before: a copy that is up to    *)
(* date never takes an incident back.                                      *)
MovesBackOnlyByOverlap ==
    [][\A i \in Incident :
          Rank[incident'[i].status] < Rank[incident[i].status] =>
              \E r \in Request : \E q \in Written \ seen[r] :
                  /\ pc[r] = "save" /\ wrote'[r]
                  /\ call[r].id = i /\ call[q].id = i]_vars

(* Every write ends up in the audit log once its request is over.          *)
WritesAreAudited ==
    \A r \in Request :
        pc[r] \in {"done", "killed"} /\ wrote[r] => r \in audit
=============================================================================
