------------------------ MODULE SafetyIncidentsProofs ------------------------
(***************************************************************************)
(* Theorems about SafetyIncidents, for any incidents, requests and plans.  *)
(***************************************************************************)
EXTENDS SafetyIncidents, TLAPS

(* What an arriving request c may do to a row it found: the transition of  *)
(* its operation, on the copy it has just read.                            *)
Copied(c, row) ==
    \/ /\ c.op = "assign"
       /\ incident[c.id].status = "reported"
       /\ row = [incident[c.id] EXCEPT !.status = "investigating"]
    \/ /\ c.op = "rectify"
       /\ incident[c.id].status = "investigating"
       /\ c.plan \in Plan
       /\ row = [status |-> "resolved", plan |-> c.plan]
    \/ /\ c.op = "close"
       /\ incident[c.id].status = "resolved"
       /\ row = [incident[c.id] EXCEPT !.status = "closed"]

Refused(r) == \E s \in {400, 401, 403, 409, 500} : Fail(r, s)

Reported(r, c) == /\ c.op = "report"
                  /\ incident[c.id] = NoRow
                  /\ Report(r, c)

Taken(r, c) == \E row \in Row : Copied(c, row) /\ Modify(r, c, row)

(* The request arrives, in one of the three ways above.                    *)
Arrives(r) ==
    /\ pc[r] = "new"
    /\ \E c \in Call : \/ Refused(r)
                       \/ RequireRole(c) /\ Reported(r, c)
                       \/ RequireRole(c) /\ Taken(r, c)

(* Every step of a request is an arrival of one of three kinds, the return *)
(* of its save, or the audit middleware.                                   *)
LEMMA HandleCases ==
    ASSUME TypeOK, NEW r \in Request, Handle(r)
    PROVE  Arrives(r) \/ Update(r) \/ AuditLog(r)
<1> USE DEF TypeOK
<1>1. CASE PostReport(r)
  <2>1. PICK i \in Incident, o \in CallerRole \cup {Anonymous} :
           LET c == [op |-> "report", id |-> i, role |-> o, plan |-> NoPlan]
           IN  \/ Refuse(r, c)
               \/ Accept(c) /\ incident[i] = NoRow /\ Report(r, c)
    BY <1>1 DEF PostReport
  <2> DEFINE c == [op |-> "report", id |-> i, role |-> o, plan |-> NoPlan]
  <2>2. c \in Call /\ c.id = i /\ c.op = "report"
    BY DEF Call
  <2>3. pc[r] = "new"
    BY <1>1 DEF PostReport
  <2>4. Refuse(r, c) \/ (Accept(c) /\ incident[i] = NoRow /\ Report(r, c))
    BY <2>1
  <2> HIDE DEF c
  <2>5. CASE Refuse(r, c)
    BY <2>2, <2>3, <2>5 DEF Refuse, Refused, Arrives
  <2>6. CASE Accept(c) /\ incident[i] = NoRow /\ Report(r, c)
    BY <2>2, <2>3, <2>6 DEF Accept, Reported, Arrives
  <2> QED
    BY <2>4, <2>5, <2>6
<1>2. CASE PostAssign(r)
  <2>1. PICK i \in Incident, o \in CallerRole \cup {Anonymous} :
           LET c == [op |-> "assign", id |-> i, role |-> o, plan |-> NoPlan]
           IN  Refuse(r, c) \/ (Accept(c) /\ Assign(r, c))
    BY <1>2 DEF PostAssign
  <2> DEFINE c == [op |-> "assign", id |-> i, role |-> o, plan |-> NoPlan]
             row == [incident[i] EXCEPT !.status = "investigating"]
  <2>2. c \in Call /\ c.id = i /\ c.op = "assign"
    BY DEF Call
  <2>3. pc[r] = "new"
    BY <1>2 DEF PostAssign
  <2>4. row \in Row
    BY DEF Row, Status
  <2>5. Refuse(r, c) \/ (RequireRole(c) /\ Assign(r, c))
    BY <2>1 DEF Accept
  <2> HIDE DEF c, row
  <2>6. CASE Refuse(r, c)
    BY <2>2, <2>3, <2>6 DEF Refuse, Refused, Arrives
  <2>7. CASE RequireRole(c) /\ Assign(r, c)
    <3>1. Refused(r) \/ (incident[i].status = "reported" /\ Modify(r, c, row))
      BY <2>2, <2>7 DEF Assign, FindFails, Conflict, Refused, row
    <3>2. incident[i].status = "reported" => Copied(c, row)
      BY <2>2 DEF Copied, row
    <3> QED
      BY <3>1, <3>2, <2>2, <2>3, <2>4, <2>7 DEF Taken, Arrives
  <2> QED
    BY <2>5, <2>6, <2>7
<1>3. CASE PostRectify(r)
  <2>1. PICK i \in Incident, o \in CallerRole \cup {Anonymous}, p \in Plan \cup {NoPlan} :
           LET c == [op |-> "rectify", id |-> i, role |-> o, plan |-> p]
           IN  Refuse(r, c) \/ (Accept(c) /\ SubmitRectification(r, c))
    BY <1>3 DEF PostRectify
  <2> DEFINE c == [op |-> "rectify", id |-> i, role |-> o, plan |-> p]
             row == [status |-> "resolved", plan |-> p]
  <2>2. c \in Call /\ c.id = i /\ c.op = "rectify" /\ c.plan = p
    BY DEF Call
  <2>3. pc[r] = "new"
    BY <1>3 DEF PostRectify
  <2>4. row \in Row
    BY DEF Row, Status
  <2>5. Refuse(r, c) \/ (Accept(c) /\ SubmitRectification(r, c))
    BY <2>1
  <2> HIDE DEF c, row
  <2>6. CASE Refuse(r, c)
    BY <2>2, <2>3, <2>6 DEF Refuse, Refused, Arrives
  <2>7. CASE Accept(c) /\ SubmitRectification(r, c)
    <3>1. p \in Plan /\ RequireRole(c)
      BY <2>2, <2>7 DEF Accept, Bound
    <3>2. Refused(r) \/ (incident[i].status = "investigating" /\ Modify(r, c, row))
      BY <2>2, <2>7 DEF SubmitRectification, FindFails, Conflict, Refused, row
    <3>3. incident[i].status = "investigating" => Copied(c, row)
      BY <2>2, <3>1 DEF Copied, row
    <3> QED
      BY <3>1, <3>2, <3>3, <2>2, <2>3, <2>4 DEF Taken, Arrives
  <2> QED
    BY <2>5, <2>6, <2>7
<1>4. CASE PostClose(r)
  <2>1. PICK i \in Incident, o \in CallerRole \cup {Anonymous} :
           LET c == [op |-> "close", id |-> i, role |-> o, plan |-> NoPlan]
           IN  Refuse(r, c) \/ (Accept(c) /\ Close(r, c))
    BY <1>4 DEF PostClose
  <2> DEFINE c == [op |-> "close", id |-> i, role |-> o, plan |-> NoPlan]
             row == [incident[i] EXCEPT !.status = "closed"]
  <2>2. c \in Call /\ c.id = i /\ c.op = "close"
    BY DEF Call
  <2>3. pc[r] = "new"
    BY <1>4 DEF PostClose
  <2>4. row \in Row
    BY DEF Row, Status
  <2>5. Refuse(r, c) \/ (RequireRole(c) /\ Close(r, c))
    BY <2>1 DEF Accept
  <2> HIDE DEF c, row
  <2>6. CASE Refuse(r, c)
    BY <2>2, <2>3, <2>6 DEF Refuse, Refused, Arrives
  <2>7. CASE RequireRole(c) /\ Close(r, c)
    <3>1. Refused(r) \/ (incident[i].status = "resolved" /\ Modify(r, c, row))
      BY <2>2, <2>7 DEF Close, FindFails, Conflict, Refused, row
    <3>2. incident[i].status = "resolved" => Copied(c, row)
      BY <2>2 DEF Copied, row
    <3> QED
      BY <3>1, <3>2, <2>2, <2>3, <2>4, <2>7 DEF Taken, Arrives
  <2> QED
    BY <2>5, <2>6, <2>7
<1> QED
  BY <1>1, <1>2, <1>3, <1>4 DEF Handle

(* The five kinds of step and the stutter, as the proofs below split them. *)
LEMMA NextCases ==
    ASSUME TypeOK, [Next]_vars
    PROVE  \/ \E r \in Request : Arrives(r) \/ Update(r) \/ AuditLog(r)
           \/ Restart
           \/ UNCHANGED vars
BY HandleCases DEF Next

(* An operation's effect on the table, taken or not, is of the right type. *)
LEMMA WriteTyped ==
    ASSUME TypeOK, NEW r \in Request, NEW id, NEW row \in Row,
           Save(r, id, row) \/ UNCHANGED <<incident, wrote>>
    PROVE  incident' \in [Incident -> Row] /\ wrote' \in [Request -> BOOLEAN]
<1>1. CASE Save(r, id, row)
  BY <1>1 DEF TypeOK, Save
<1>2. CASE UNCHANGED <<incident, wrote>>
  BY <1>2 DEF TypeOK
<1> QED
  BY <1>1, <1>2

(* The variables keep their types: in particular the table only ever holds *)
(* rows whose status is one of the four the constants name.                *)
THEOREM TypeCorrect == Spec => []TypeOK
<1>1. Init => TypeOK
  BY DEF Init, TypeOK, Row, SeedRow, NoRow, Status
<1>2. TypeOK /\ [Next]_vars => TypeOK'
  <2> SUFFICES ASSUME TypeOK, [Next]_vars PROVE TypeOK'
    OBVIOUS
  <2> USE DEF TypeOK
  <2>0. NoRow \in Row
    BY DEF NoRow, Row
  <2>1. ASSUME NEW r \in Request, Arrives(r) PROVE TypeOK'
    <3>1. PICK c \in Call : Refused(r) \/ Reported(r, c) \/ Taken(r, c)
      BY <2>1 DEF Arrives
    <3>2. c.id \in Incident
      BY DEF Call
    <3>3. CASE Refused(r)
      BY <3>3 DEF Refused, Fail
    <3>4. CASE Reported(r, c)
      <4>1. [status |-> "reported", plan |-> NoPlan] \in Row
        BY DEF Row, Status
      <4>2. incident' \in [Incident -> Row] /\ wrote' \in [Request -> BOOLEAN]
        BY <3>4, <4>1, WriteTyped DEF Reported, Report
      <4>3. reply' \in [Request -> {0, 200, 400, 401, 403, 409, 500}]
        BY <3>4 DEF Reported, Report
      <4> QED
        BY <3>4, <4>2, <4>3 DEF Reported, Report
    <3>5. CASE Taken(r, c)
      <4>1. PICK row \in Row : Modify(r, c, row)
        BY <3>5 DEF Taken
      <4>2. Written \in SUBSET Request
        BY DEF Written
      <4>3. seen' \in [Request -> SUBSET Request]
        BY <4>1, <4>2 DEF Modify
      <4> QED
        BY <4>1, <4>3 DEF Modify
    <3> QED
      BY <3>1, <3>3, <3>4, <3>5
  <2>2. ASSUME NEW r \in Request, Update(r) PROVE TypeOK'
    <3>1. incident' \in [Incident -> Row] /\ wrote' \in [Request -> BOOLEAN]
      BY <2>2, WriteTyped DEF Update
    <3>2. reply' \in [Request -> {0, 200, 400, 401, 403, 409, 500}]
      BY <2>2 DEF Update
    <3> QED
      BY <2>0, <2>2, <3>1, <3>2 DEF Update
  <2>3. ASSUME NEW r \in Request, AuditLog(r) PROVE TypeOK'
    BY <2>3 DEF AuditLog
  <2>4. ASSUME Restart PROVE TypeOK'
    BY <2>0, <2>4 DEF Restart
  <2>5. ASSUME UNCHANGED vars PROVE TypeOK'
    BY <2>5 DEF vars
  <2> QED
    BY <2>1, <2>2, <2>3, <2>4, <2>5, NextCases
<1> QED
  BY <1>1, <1>2, PTL DEF Spec

(***************************************************************************)
(* The history of a request grows only                                     *)
(***************************************************************************)
(* A request that waits or is in flight has written nothing yet, and one   *)
(* that holds a copy of a row is an admitted transition.                   *)
Fresh ==
    \A r \in Request :
        /\ pc[r] \in {"new", "save"} => ~wrote[r]
        /\ pc[r] = "save" => /\ call[r] \in Call
                            /\ RequireRole(call[r])
                            /\ call[r].op # "report"
        /\ pc[r] = "audit" => reply[r] # 0
        /\ pc[r] = "audit" /\ reply[r] = 200 => /\ wrote[r]
                                               /\ RequireRole(call[r])
        /\ wrote[r] => call[r] \in Call

(* What no step undoes: a write that took effect, and whose call it was.   *)
Grows == \A r \in Request :
            wrote[r] => wrote'[r] /\ call'[r] = call[r]

LEMMA FreshInit == Init => Fresh
BY DEF Init, Fresh

LEMMA FreshStep ==
    ASSUME TypeOK, Fresh, [Next]_vars
    PROVE  Fresh' /\ Grows
<1> USE DEF TypeOK, Fresh, Grows, RequireRole
<1>1. ASSUME NEW r \in Request, Arrives(r) PROVE Fresh' /\ Grows
  <2>1. PICK c \in Call : \/ Refused(r)
                          \/ RequireRole(c) /\ Reported(r, c)
                          \/ RequireRole(c) /\ Taken(r, c)
    BY <1>1 DEF Arrives
  <2>2. pc[r] = "new" /\ ~wrote[r]
    BY <1>1 DEF Arrives
  <2>3. CASE Refused(r)
    BY <2>2, <2>3 DEF Refused, Fail
  <2>4. CASE RequireRole(c) /\ Reported(r, c)
    <3>1. CASE Save(r, c.id, [status |-> "reported", plan |-> NoPlan])
      BY <2>2, <2>4, <3>1 DEF Reported, Report, Save
    <3>2. CASE reply' = [reply EXCEPT ![r] = 500] /\ UNCHANGED <<incident, wrote>>
      BY <2>2, <2>4, <3>2 DEF Reported, Report
    <3> QED
      BY <2>4, <3>1, <3>2 DEF Reported, Report
  <2>5. CASE RequireRole(c) /\ Taken(r, c)
    <3>1. c.op # "report"
      BY <2>5 DEF Taken, Copied
    <3> QED
      BY <2>2, <2>5, <3>1 DEF Taken, Modify
  <2> QED
    BY <2>1, <2>3, <2>4, <2>5
<1>2. ASSUME NEW r \in Request, Update(r) PROVE Fresh' /\ Grows
  <2>1. pc[r] = "save" /\ ~wrote[r] /\ call[r] \in Call /\ RequireRole(call[r])
    BY <1>2 DEF Update
  <2>2. CASE Save(r, call[r].id, draft[r])
    BY <1>2, <2>1, <2>2 DEF Update, Save
  <2>3. CASE reply' = [reply EXCEPT ![r] = 500] /\ UNCHANGED <<incident, wrote>>
    BY <1>2, <2>1, <2>3 DEF Update
  <2> QED
    BY <1>2, <2>2, <2>3 DEF Update
<1>3. ASSUME NEW r \in Request, AuditLog(r) PROVE Fresh' /\ Grows
  BY <1>3 DEF AuditLog
<1>4. ASSUME Restart PROVE Fresh' /\ Grows
  BY <1>4 DEF Restart
<1>5. ASSUME UNCHANGED vars PROVE Fresh' /\ Grows
  BY <1>5 DEF vars
<1> QED
  BY <1>1, <1>2, <1>3, <1>4, <1>5, NextCases

LEMMA FreshAlways == Spec => [](TypeOK /\ Fresh)
<1>1. TypeOK /\ Fresh /\ [Next]_vars => Fresh'
  BY FreshStep
<1> QED
  BY <1>1, FreshInit, TypeCorrect, PTL DEF Spec

(***************************************************************************)
(* The audit log                                                           *)
(***************************************************************************)
AuditInv == \A r \in audit : /\ pc[r] = "done"
                             /\ wrote[r]
                             /\ reply[r] = 200
                             /\ RequireRole(call[r])

(* However requests overlap, fail or are killed, a request is in the audit *)
(* log only if its write took effect, it was answered 200 and its role was *)
(* admitted.                                                               *)
THEOREM AuditTruthful == Spec => []AuditIsTruthful
<1>1. Init => AuditInv
  BY DEF Init, AuditInv
<1>2. TypeOK /\ Fresh /\ AuditInv /\ [Next]_vars => AuditInv'
  <2> SUFFICES ASSUME TypeOK, Fresh, AuditInv, [Next]_vars
               PROVE  AuditInv'
    OBVIOUS
  <2> USE DEF TypeOK, AuditInv, RequireRole
  <2>1. ASSUME NEW r \in Request, Arrives(r) PROVE AuditInv'
    <3>1. PICK c \in Call : Refused(r) \/ Reported(r, c) \/ Taken(r, c)
      BY <2>1 DEF Arrives
    <3>2. r \notin audit
      BY <2>1 DEF Arrives
    <3>3. /\ audit' = audit
          /\ \A q \in audit : /\ pc'[q] = pc[q]
                               /\ reply'[q] = reply[q]
                               /\ call'[q] = call[q]
      BY <3>1, <3>2 DEF Refused, Fail, Reported, Report, Taken, Modify
    <3>4. Grows
      BY FreshStep
    <3> QED
      BY <3>3, <3>4 DEF Grows
  <2>2. ASSUME NEW r \in Request, Update(r) PROVE AuditInv'
    <3>1. r \notin audit
      BY <2>2 DEF Update
    <3>2. /\ audit' = audit
          /\ \A q \in audit : /\ pc'[q] = pc[q]
                               /\ reply'[q] = reply[q]
                               /\ call'[q] = call[q]
      BY <2>2, <3>1 DEF Update
    <3>3. Grows
      BY FreshStep
    <3> QED
      BY <3>2, <3>3 DEF Grows
  <2>3. ASSUME NEW r \in Request, AuditLog(r) PROVE AuditInv'
    <3>1. reply[r] < 400 => reply[r] = 200 /\ wrote[r] /\ RequireRole(call[r])
      BY <2>3 DEF AuditLog, Fresh
    <3> QED
      BY <2>3, <3>1 DEF AuditLog
  <2>4. ASSUME Restart PROVE AuditInv'
    BY <2>4 DEF Restart, InFlight
  <2>5. ASSUME UNCHANGED vars PROVE AuditInv'
    BY <2>5 DEF vars
  <2> QED
    BY <2>1, <2>2, <2>3, <2>4, <2>5, NextCases
<1>3. AuditInv => AuditIsTruthful
  BY DEF AuditInv, AuditIsTruthful
<1> QED
  BY <1>1, <1>2, <1>3, FreshAlways, PTL DEF Spec

(***************************************************************************)
(* Every stage is backed by requests that took effect                      *)
(***************************************************************************)
(* The copy of a row that request r is about to save would be backed if    *)
(* its own write counted: everything but the last stage is evident now.    *)
Pending(r) ==
    LET i == call[r].id IN
    \/ /\ call[r].op = "assign"
       /\ draft[r].status = "investigating" /\ draft[r].plan = NoPlan
       /\ Evidence("report", i) # {}
    \/ /\ call[r].op = "rectify"
       /\ draft[r].status = "resolved" /\ draft[r].plan = call[r].plan
       /\ draft[r].plan # NoPlan
       /\ Evidence("report", i) # {} /\ Evidence("assign", i) # {}
    \/ /\ call[r].op = "close"
       /\ draft[r].status = "closed" /\ draft[r].plan # NoPlan
       /\ Evidence("report", i) # {} /\ Evidence("assign", i) # {}
       /\ \E q \in Evidence("rectify", i) : call[q].plan = draft[r].plan

CopiesAreBacked ==
    \A r \in Request :
        pc[r] = "save" /\ call[r].id \notin Seeded => Pending(r)

LEMMA EvidenceGrows ==
    ASSUME Grows, NEW op, NEW i
    PROVE  /\ Evidence(op, i) \subseteq Evidence(op, i)'
           /\ \A r \in Evidence(op, i) : call'[r] = call[r]
BY DEF Grows, Evidence

(* A row that does not change stays backed, whatever else happens.         *)
LEMMA BackedStable ==
    ASSUME Grows, NEW i, NEW row, Backed(i, row)
    PROVE  Backed(i, row)'
<1>1. \A op : /\ Evidence(op, i) \subseteq Evidence(op, i)'
              /\ \A r \in Evidence(op, i) : call'[r] = call[r]
  BY EvidenceGrows
<1>2. row.status # "absent" => Evidence("report", i)' # {}
  BY <1>1 DEF Backed
<1>3. row.status \in {"investigating", "resolved", "closed"} =>
         Evidence("assign", i)' # {}
  BY <1>1 DEF Backed
<1>4. row.status \in {"resolved", "closed"} =>
         \E r \in Evidence("rectify", i)' :
            call'[r].plan = row.plan /\ row.plan # NoPlan
  BY <1>1 DEF Backed
<1>5. row.status = "closed" => Evidence("close", i)' # {}
  BY <1>1 DEF Backed
<1> QED
  BY <1>2, <1>3, <1>4, <1>5 DEF Backed

(* So does the copy a request holds.                                       *)
LEMMA PendingStable ==
    ASSUME Grows, NEW r, Pending(r), call'[r] = call[r], draft'[r] = draft[r]
    PROVE  Pending(r)'
<1> DEFINE i == call[r].id
<1>1. \A op : /\ Evidence(op, i) \subseteq Evidence(op, i)'
              /\ \A q \in Evidence(op, i) : call'[q] = call[q]
  BY EvidenceGrows
<1>2. /\ Evidence("report", i) # {} => Evidence("report", i)' # {}
      /\ Evidence("assign", i) # {} => Evidence("assign", i)' # {}
      /\ (\E q \in Evidence("rectify", i) : call[q].plan = draft[r].plan) =>
            \E q \in Evidence("rectify", i)' : call'[q].plan = draft[r].plan
  BY <1>1
<1> QED
  BY <1>2 DEF Pending

(* Taking a copy of a backed row for an admitted transition.               *)
LEMMA TakenIsPending ==
    ASSUME TypeOK, StageIsBacked, Grows, NEW r \in Request, NEW c \in Call,
           c.id \notin Seeded, Taken(r, c)
    PROVE  Pending(r)'
<1> USE DEF TypeOK
<1>1. PICK row \in Row : Copied(c, row) /\ Modify(r, c, row)
  BY DEF Taken
<1> DEFINE i == c.id
<1>2. i \in Incident /\ incident[i] \in Row
  BY DEF Call
<1>3. Backed(i, incident[i])
  BY <1>2 DEF StageIsBacked
<1>4. call'[r] = c /\ draft'[r] = row
  BY <1>1 DEF Modify
<1>5. Backed(i, incident[i])'
  <2>1. \A x : Backed(i, x) => Backed(i, x)'
    BY BackedStable
  <2>2. incident' = incident
    BY <1>1 DEF Modify
  <2> QED
    BY <1>3, <2>1, <2>2 DEF Backed
<1>6. incident'[i] = incident[i]
  BY <1>1 DEF Modify
<1>7. CASE c.op = "assign"
  <2>1. incident[i].status = "reported" /\ row.status = "investigating"
        /\ row.plan = incident[i].plan
    BY <1>1, <1>2, <1>7 DEF Copied, Row
  <2> QED
    BY <1>4, <1>5, <1>6, <1>7, <2>1 DEF Backed, Pending
<1>8. CASE c.op = "rectify"
  <2>1. /\ incident[i].status = "investigating"
        /\ row.status = "resolved" /\ row.plan = c.plan /\ c.plan \in Plan
    BY <1>1, <1>8 DEF Copied
  <2>2. c.plan # NoPlan
    BY <2>1, IncidentAssumption
  <2> QED
    BY <1>4, <1>5, <1>6, <1>8, <2>1, <2>2 DEF Backed, Pending
<1>9. CASE c.op = "close"
  <2>1. /\ incident[i].status = "resolved" /\ row.status = "closed"
        /\ row.plan = incident[i].plan
    BY <1>1, <1>2, <1>9 DEF Copied, Row
  <2> QED
    BY <1>4, <1>5, <1>6, <1>9, <2>1 DEF Backed, Pending
<1> QED
  BY <1>1, <1>7, <1>8, <1>9 DEF Copied

(* Saving such a copy makes the last stage evident too.                    *)
LEMMA SavedIsBacked ==
    ASSUME TypeOK, Fresh, Grows, NEW r \in Request, pc[r] = "save", Pending(r),
           NEW i, NEW x, i = call[r].id, x = draft[r],
           Save(r, i, x), UNCHANGED call
    PROVE  Backed(i, x)'
<1> USE DEF TypeOK
<1>1. /\ RequireRole(call[r]) /\ call[r].op # "report" /\ call[r] \in Call
      /\ wrote'[r]
  BY DEF Fresh, Save
<1>2. call[r].role \in Manager
  BY <1>1 DEF RequireRole, Admitted, Manager
<1>3. r \in Evidence(call[r].op, i)'
  BY <1>1, <1>2 DEF Evidence
<1>4. \A op : /\ Evidence(op, i) \subseteq Evidence(op, i)'
              /\ \A q \in Evidence(op, i) : call'[q] = call[q]
  BY EvidenceGrows
<1>5. CASE call[r].op = "assign"
  <2>1. x.status = "investigating" /\ x.plan = NoPlan
        /\ Evidence("report", i)' # {} /\ Evidence("assign", i)' # {}
    BY <1>3, <1>4, <1>5 DEF Pending
  <2> QED
    BY <2>1 DEF Backed
<1>6. CASE call[r].op = "rectify"
  <2>1. /\ x.status = "resolved" /\ x.plan = call[r].plan /\ x.plan # NoPlan
        /\ Evidence("report", i)' # {} /\ Evidence("assign", i)' # {}
        /\ r \in Evidence("rectify", i)' /\ call'[r].plan = x.plan
    BY <1>3, <1>4, <1>6 DEF Pending
  <2> QED
    BY <2>1 DEF Backed
<1>7. CASE call[r].op = "close"
  <2>1. /\ x.status = "closed" /\ x.plan # NoPlan
        /\ Evidence("report", i)' # {} /\ Evidence("assign", i)' # {}
        /\ Evidence("close", i)' # {}
        /\ \E q \in Evidence("rectify", i)' : call'[q].plan = x.plan
    BY <1>3, <1>4, <1>7 DEF Pending
  <2> QED
    BY <2>1 DEF Backed
<1> QED
  BY <1>5, <1>6, <1>7 DEF Pending

LEMMA BackedStep ==
    ASSUME TypeOK, Fresh, StageIsBacked, CopiesAreBacked, [Next]_vars
    PROVE  StageIsBacked' /\ CopiesAreBacked'
<1> USE DEF TypeOK
<1>1. Grows
  BY FreshStep
(* All that can go wrong: a row changes, or a request takes a copy.        *)
<1>2. ASSUME \A i \in Incident \ Seeded :
                \/ incident'[i] = incident[i]
                \/ \A x : x = incident'[i] => Backed(i, x)'
      PROVE  StageIsBacked'
  <2> SUFFICES ASSUME NEW i \in Incident \ Seeded
               PROVE  Backed(i, incident[i])'
    BY DEF StageIsBacked
  <2>1. CASE incident'[i] = incident[i]
    <3>1. Backed(i, incident[i])
      BY DEF StageIsBacked
    <3>2. \A x : Backed(i, x) => Backed(i, x)'
      BY <1>1, BackedStable
    <3> QED
      BY <3>1, <3>2, <2>1 DEF Backed
  <2>2. CASE \A x : x = incident'[i] => Backed(i, x)'
    BY <2>2 DEF Backed
  <2> QED
    BY <1>2, <2>1, <2>2
<1>3. ASSUME \A r \in Request :
                pc'[r] = "save" /\ call'[r].id \notin Seeded =>
                   \/ /\ pc[r] = "save" /\ call'[r] = call[r]
                      /\ draft'[r] = draft[r]
                   \/ Pending(r)'
      PROVE  CopiesAreBacked'
  BY <1>1, <1>3, PendingStable DEF CopiesAreBacked
<1>4. ASSUME NEW r \in Request, Arrives(r)
      PROVE  StageIsBacked' /\ CopiesAreBacked'
  <2>1. PICK c \in Call : Refused(r) \/ Reported(r, c) \/ Taken(r, c)
    BY <1>4 DEF Arrives
  <2>2. CASE Refused(r)
    <3>1. UNCHANGED <<incident, draft>> /\ pc'[r] # "save"
          /\ \A q \in Request \ {r} : pc'[q] = pc[q] /\ call'[q] = call[q]
      BY <2>2 DEF Refused, Fail
    <3> QED
      BY <3>1, <1>2, <1>3
  <2>3. CASE Reported(r, c)
    <3>1. UNCHANGED draft /\ pc'[r] # "save"
          /\ \A q \in Request \ {r} : pc'[q] = pc[q] /\ call'[q] = call[q]
      BY <2>3 DEF Reported, Report
    <3>2. CopiesAreBacked'
      BY <3>1, <1>3
    <3>3. CASE UNCHANGED incident
      BY <3>2, <3>3, <1>2
    <3>4. CASE Save(r, c.id, [status |-> "reported", plan |-> NoPlan])
      <4> DEFINE new == [status |-> "reported", plan |-> NoPlan]
      <4>1. wrote'[r] /\ call'[r] = c /\ c.op = "report"
        BY <2>3, <3>4 DEF Save, Reported, Report
      <4>2. r \in Evidence("report", c.id)'
        BY <4>1 DEF Evidence
      <4>3. Backed(c.id, new)'
        BY <4>2 DEF Backed
      <4>4. \A i \in Incident : incident'[i] = incident[i]
                               \/ (i = c.id /\ incident'[i] = new)
        BY <3>4 DEF Save
      <4> HIDE DEF new
      <4>5. \A i \in Incident \ Seeded :
               \/ incident'[i] = incident[i]
                \/ \A x : x = incident'[i] => Backed(i, x)'
        BY <4>3, <4>4
      <4> QED
        BY <3>2, <4>5, <1>2
    <3> QED
      BY <2>3, <3>3, <3>4 DEF Reported, Report
  <2>4. CASE Taken(r, c)
    <3>1. UNCHANGED incident /\ call'[r] = c
          /\ \A q \in Request \ {r} : /\ pc'[q] = pc[q] /\ call'[q] = call[q]
                                     /\ draft'[q] = draft[q]
      BY <2>4 DEF Taken, Modify
    <3>2. c.id \notin Seeded => Pending(r)'
      BY <1>1, <2>4, TakenIsPending
    <3> QED
      BY <3>1, <3>2, <1>2, <1>3
  <2> QED
    BY <2>1, <2>2, <2>3, <2>4
<1>5. ASSUME NEW r \in Request, Update(r)
      PROVE  StageIsBacked' /\ CopiesAreBacked'
  <2>1. /\ UNCHANGED call /\ pc'[r] # "save" /\ pc[r] = "save"
        /\ \A q \in Request \ {r} : pc'[q] = pc[q] /\ draft'[q] = draft[q]
    BY <1>5 DEF Update
  <2>2. CopiesAreBacked'
    BY <2>1, <1>3
  <2>3. CASE UNCHANGED incident
    BY <2>2, <2>3, <1>2
  <2>4. CASE Save(r, call[r].id, draft[r])
    <3>1. \A i \in Incident : incident'[i] = incident[i]
                             \/ (i = call[r].id /\ incident'[i] = draft[r])
      BY <2>4 DEF Save
    <3>2. ASSUME NEW i \in Incident \ Seeded, incident'[i] # incident[i]
          PROVE  \A x : x = incident'[i] => Backed(i, x)'
      <4>1. i = call[r].id /\ incident'[i] = draft[r]
        BY <3>1, <3>2
      <4>2. Pending(r)
        BY <2>1, <4>1 DEF CopiesAreBacked
      <4>3. \A x : x = draft[r] => Backed(i, x)'
        BY <1>1, <2>1, <2>4, <4>1, <4>2, SavedIsBacked
      <4> QED
        BY <4>1, <4>3
    <3> QED
      BY <2>2, <3>2, <1>2
  <2> QED
    BY <1>5, <2>3, <2>4 DEF Update
<1>6. ASSUME NEW r \in Request, AuditLog(r)
      PROVE  StageIsBacked' /\ CopiesAreBacked'
  <2>1. UNCHANGED <<incident, call, draft>> /\ pc'[r] # "save"
        /\ \A q \in Request \ {r} : pc'[q] = pc[q]
    BY <1>6 DEF AuditLog
  <2> QED
    BY <2>1, <1>2, <1>3
<1>7. ASSUME Restart
      PROVE  StageIsBacked' /\ CopiesAreBacked'
  <2>1. UNCHANGED incident /\ \A q \in Request : pc'[q] # "save"
    BY <1>7 DEF Restart, InFlight
  <2> QED
    BY <2>1, <1>2, <1>3
<1>8. ASSUME UNCHANGED vars
      PROVE  StageIsBacked' /\ CopiesAreBacked'
  BY <1>8, <1>2, <1>3 DEF vars
<1> QED
  BY <1>4, <1>5, <1>6, <1>7, <1>8, NextCases

(* However requests overlap, fail or are killed, an incident that was not  *)
(* seeded is at a stage only if requests of admitted roles took it through *)
(* every stage before, and shows the plan of one of its rectifications.    *)
THEOREM StageBacked == Spec => []StageIsBacked
<1>1. Init => StageIsBacked /\ CopiesAreBacked
  BY DEF Init, StageIsBacked, CopiesAreBacked, Backed, NoRow
<1>2. TypeOK /\ Fresh /\ StageIsBacked /\ CopiesAreBacked /\ [Next]_vars
         => StageIsBacked' /\ CopiesAreBacked'
  BY BackedStep
<1> QED
  BY <1>1, <1>2, FreshAlways, PTL DEF Spec

(* The table and the history of writes change in two ways only.            *)
Inserts(r) == \E c \in Call :
                /\ pc[r] = "new" /\ pc'[r] = "audit"
                /\ c.op = "report" /\ incident[c.id] = NoRow
                /\ Save(r, c.id, [status |-> "reported", plan |-> NoPlan])
                /\ call' = [call EXCEPT ![r] = c]

Saves(r) == /\ pc[r] = "save" /\ pc'[r] = "audit"
            /\ Save(r, call[r].id, draft[r])
            /\ UNCHANGED call

LEMMA WriteCases ==
    ASSUME TypeOK, [Next]_vars
    PROVE  \/ UNCHANGED <<incident, wrote>>
           \/ \E r \in Request : Inserts(r) \/ Saves(r)
<1> USE DEF TypeOK
<1>1. ASSUME NEW r \in Request, Arrives(r)
      PROVE  UNCHANGED <<incident, wrote>> \/ Inserts(r)
  <2>1. PICK c \in Call : Refused(r) \/ Reported(r, c) \/ Taken(r, c)
    BY <1>1 DEF Arrives
  <2>2. pc[r] = "new"
    BY <1>1 DEF Arrives
  <2> QED
    BY <2>1, <2>2 DEF Refused, Fail, Reported, Report, Taken, Modify, Inserts
<1>2. ASSUME NEW r \in Request, Update(r)
      PROVE  UNCHANGED <<incident, wrote>> \/ Saves(r)
  BY <1>2 DEF Update, Saves
<1> QED
  BY <1>1, <1>2, NextCases DEF AuditLog, Restart, vars

LEMMA Ranks == /\ \A s \in Status \cup {"absent"} : Rank[s] \in 0..4
               /\ \A op \in {"report", "assign", "rectify", "close"} :
                     Rank[Target[op]] \in 1..4
BY DEF Status, Rank, Target

(***************************************************************************)
(* Transitions that overlap                                                *)
(***************************************************************************)
(* A request that holds a copy is about to write the stage and the plan it *)
(* asked for, in a row that has what the requests wrote whose writes it    *)
(* had seen, and that moves the incident on, unless it has missed a write. *)
CopyFits(r) ==
    /\ draft[r].status = Target[call[r].op]
    /\ call[r].op = "rectify" => draft[r].plan = call[r].plan

CopyKeeps(r) ==
    \A q \in seen[r] : call[q].id = call[r].id => Keeps(draft[r], q) \/ Overlapped(q)

Missed(r) == \E q \in Written \ seen[r] : call[q].id = call[r].id

CopyInv(r) ==
    /\ CopyFits(r) /\ CopyKeeps(r)
    /\ Rank[incident[call[r].id].status] < Rank[draft[r].status] \/ Missed(r)

OverlapInv ==
    /\ \A r \in Request : seen[r] \subseteq Written
    /\ \A r \in Request : pc[r] = "save" => CopyInv(r)
    /\ KeptUnlessOverlapped

LEMMA OverlapStarts == Init => OverlapInv
BY DEF Init, OverlapInv, KeptUnlessOverlapped, Written

(* What has taken effect keeps its history.                                *)
HistoryKept == Grows /\ \A q \in Written : seen'[q] = seen[q]

LEMMA OverlappedStays ==
    ASSUME HistoryKept, NEW q \in Written, Overlapped(q)
    PROVE  Overlapped(q)'
<1>1. \A r \in Written : r \in Written' /\ call'[r] = call[r] /\ seen'[r] = seen[r]
  BY DEF HistoryKept, Grows, Written
<1> QED
  BY <1>1 DEF Overlapped

LEMMA KeepsStays ==
    ASSUME HistoryKept, NEW q \in Written, NEW row, Keeps(row, q)
    PROVE  Keeps(row, q)'
BY DEF HistoryKept, Grows, Written, Keeps

(* A copy that rests stays as good as it was, if its row did not change or *)
(* changed by a write it has not seen.                                     *)
LEMMA CopyRests ==
    ASSUME HistoryKept, OverlapInv, NEW r \in Request, pc[r] = "save",
           call'[r] = call[r], draft'[r] = draft[r], seen'[r] = seen[r],
           incident'[call[r].id] = incident[call[r].id] \/ Missed(r)'
    PROVE  CopyInv(r)'
<1>1. CopyInv(r) /\ seen[r] \subseteq Written
  BY DEF OverlapInv
<1>2. CopyFits(r)'
  BY <1>1 DEF CopyInv, CopyFits
<1>3. CopyKeeps(r)'
  <2> SUFFICES ASSUME NEW q \in seen[r], call[q].id = call[r].id
               PROVE  Keeps(draft[r], q)' \/ Overlapped(q)'
    BY <1>1 DEF CopyKeeps, Keeps, HistoryKept, Grows, Written
  <2>1. Keeps(draft[r], q) \/ Overlapped(q)
    BY <1>1 DEF CopyInv, CopyKeeps
  <2>2. Keeps(draft[r], q) => Keeps(draft[r], q)'
    BY <1>1 DEF Keeps, HistoryKept, Grows, Written
  <2> QED
    BY <1>1, <2>1, <2>2, OverlappedStays
<1>4. Missed(r) => Missed(r)'
  BY DEF Missed, HistoryKept, Grows, Written
<1> QED
  BY <1>1, <1>2, <1>3, <1>4 DEF CopyInv

(* A step that writes nothing and takes no copy.                           *)
LEMMA QuietOverlap ==
    ASSUME Grows, OverlapInv, UNCHANGED <<incident, wrote>>,
           \A q \in Request : wrote[q] => seen'[q] = seen[q],
           \A q \in Request : seen'[q] \in {seen[q], {}},
           \A q \in Request : pc'[q] = "save" =>
               /\ pc[q] = "save" /\ call'[q] = call[q]
               /\ draft'[q] = draft[q] /\ seen'[q] = seen[q]
    PROVE  OverlapInv'
<1>1. HistoryKept /\ Written' = Written
  BY DEF HistoryKept, Written
<1>2. \A r \in Request : seen'[r] \subseteq Written'
  BY <1>1 DEF OverlapInv
<1>3. \A r \in Request : pc'[r] = "save" => CopyInv(r)'
  BY <1>1, CopyRests
<1>4. KeptUnlessOverlapped'
  <2> SUFFICES ASSUME NEW q \in Written
               PROVE  Keeps(incident[call[q].id], q)' \/ Overlapped(q)'
    BY <1>1 DEF KeptUnlessOverlapped
  <2>1. call'[q] = call[q]
    BY DEF Grows, Written
  <2>2. Keeps(incident[call[q].id], q) \/ Overlapped(q)
    BY DEF OverlapInv, KeptUnlessOverlapped
  <2> QED
    BY <1>1, <2>1, <2>2, OverlappedStays DEF Keeps
<1> QED
  BY <1>2, <1>3, <1>4 DEF OverlapInv

(* A request that takes a copy has seen every write, and its copy has what *)
(* the row has; a plan is replaced only by the first rectification.        *)
LEMMA TakenFits ==
    ASSUME TypeOK, Fresh, OverlapInv, Grows, NEW r \in Request, pc[r] = "new",
           NEW c \in Call, Taken(r, c)
    PROVE  OverlapInv'
<1> USE DEF TypeOK
<1>1. PICK row \in Row : Copied(c, row) /\ Modify(r, c, row)
  BY DEF Taken
<1>2. /\ UNCHANGED <<incident, wrote>> /\ Written' = Written
      /\ call'[r] = c /\ draft'[r] = row /\ seen'[r] = Written
      /\ \A q \in Request \ {r} : /\ pc'[q] = pc[q] /\ call'[q] = call[q]
                                 /\ draft'[q] = draft[q] /\ seen'[q] = seen[q]
  BY <1>1 DEF Modify, Written
<1>3. r \notin Written
  BY DEF Fresh, Written
<1>4. HistoryKept
  BY <1>2, <1>3 DEF HistoryKept, Written
<1>5. c.id \in Incident /\ incident[c.id] \in Row
  BY DEF Call
<1>6. /\ row.status = Target[c.op] /\ (c.op = "rectify" => row.plan = c.plan)
      /\ Rank[incident[c.id].status] < Rank[row.status]
      /\ row.plan = incident[c.id].plan \/ incident[c.id].status = "investigating"
  BY <1>1, <1>5 DEF Copied, Row, Target, Rank
<1>7. CopyInv(r)'
  <2>1. CopyFits(r)'
    BY <1>2, <1>6 DEF CopyFits
  <2>2. ASSUME NEW q \in Written, call'[q].id = c.id
        PROVE  Keeps(row, q)' \/ Overlapped(q)'
    <3>1. call'[q] = call[q] /\ q \in Request /\ call[q] \in Call
      BY <1>2, <1>3 DEF Written, Fresh
    <3>2. CASE Overlapped(q)
      BY <3>2, <1>4, OverlappedStays
    <3>3. CASE Keeps(incident[c.id], q)
      <4>1. Rank[row.status] \in 0 .. 4 /\ Rank[incident[c.id].status] \in 0 .. 4
            /\ Rank[Target[call[q].op]] \in 1 .. 4
        BY <1>5, <3>1, Ranks DEF Row, Call
      <4>2. Rank[row.status] >= Rank[Target[call[q].op]]
        BY <1>6, <3>3, <4>1 DEF Keeps
      <4>3. call[q].op = "rectify" => row.plan = call[q].plan
        <5>1. call[q].op = "rectify" => incident[c.id].status # "investigating"
          BY <3>3 DEF Keeps, Rank, Target
        <5> QED
          BY <1>6, <3>3, <5>1 DEF Keeps
      <4> QED
        BY <3>1, <4>2, <4>3 DEF Keeps
    <3> QED
      BY <2>2, <3>1, <3>2, <3>3 DEF OverlapInv, KeptUnlessOverlapped
  <2>3. CopyKeeps(r)'
    BY <1>2, <2>2 DEF CopyKeeps, Keeps
  <2> QED
    BY <1>2, <1>6, <2>1, <2>3 DEF CopyInv
<1>8. \A q \in Request : pc'[q] = "save" => CopyInv(q)'
  BY <1>2, <1>4, <1>7, CopyRests
<1>9. \A q \in Request : seen'[q] \subseteq Written'
  BY <1>2 DEF OverlapInv
<1>10. KeptUnlessOverlapped'
  <2> SUFFICES ASSUME NEW q \in Written
               PROVE  Keeps(incident[call[q].id], q)' \/ Overlapped(q)'
    BY <1>2 DEF KeptUnlessOverlapped
  <2>1. call'[q] = call[q]
    BY DEF Grows, Written
  <2>2. Keeps(incident[call[q].id], q) \/ Overlapped(q)
    BY DEF OverlapInv, KeptUnlessOverlapped
  <2> QED
    BY <1>2, <1>4, <2>1, <2>2, OverlappedStays DEF Keeps
<1> QED
  BY <1>8, <1>9, <1>10 DEF OverlapInv

(* A write, of an insert or a save, of row x: it is kept itself, and what  *)
(* it undoes had not been seen by it, nor had it been seen.                *)
LEMMA WriteOverlaps ==
    ASSUME TypeOK, Fresh, OverlapInv, HistoryKept,
           NEW r \in Request, ~wrote[r], NEW i \in Incident, NEW x, Save(r, i, x),
           call'[r].id = i, Keeps(x, r)',
           \A q \in seen'[r] : call[q].id = i => Keeps(x, q) \/ Overlapped(q),
           seen' = seen, pc'[r] = "audit",
           \A q \in Request \ {r} :
               pc'[q] = pc[q] /\ call'[q] = call[q] /\ draft'[q] = draft[q]
    PROVE  OverlapInv'
<1> USE DEF TypeOK
<1>1. /\ Written' = Written \cup {r} /\ r \notin Written
      /\ incident'[i] = x /\ \A j \in Incident \ {i} : incident'[j] = incident[j]
  BY DEF Save, Written
<1>2. \A q \in Request : r \notin seen[q] /\ seen[q] \subseteq Written
  BY <1>1 DEF OverlapInv
<1>3. \A q \in Request : seen'[q] \subseteq Written'
  BY <1>1, <1>2
<1>4. ASSUME NEW q \in Request, pc'[q] = "save" PROVE CopyInv(q)'
  <2>1. q # r /\ pc[q] = "save" /\ call'[q] = call[q] /\ draft'[q] = draft[q]
    BY <1>4
  <2>2. call[q].id \in Incident
    BY <2>1 DEF Fresh, Call
  <2>3. call[q].id = i => Missed(q)'
    BY <1>1, <1>2, <2>1 DEF Missed
  <2> QED
    BY <1>1, <2>1, <2>2, <2>3, CopyRests
<1>5. KeptUnlessOverlapped'
  <2> SUFFICES ASSUME NEW q \in Written'
               PROVE  Keeps(incident[call[q].id], q)' \/ Overlapped(q)'
    BY DEF KeptUnlessOverlapped
  <2>1. CASE q = r
    BY <1>1, <2>1 DEF Keeps
  <2>2. CASE q \in Written
    <3>1. call'[q] = call[q] /\ call[q].id \in Incident
      BY <2>2 DEF HistoryKept, Grows, Fresh, Call, Written
    <3>2. Keeps(incident[call[q].id], q) \/ Overlapped(q)
      BY <2>2 DEF OverlapInv, KeptUnlessOverlapped
    <3>3. CASE Overlapped(q)
      BY <2>2, <3>3, OverlappedStays
    <3>4. CASE call[q].id # i
      BY <1>1, <2>2, <3>1, <3>2, <3>4, OverlappedStays DEF Keeps
    <3>5. CASE call[q].id = i /\ q \in seen[r]
      <4>1. Keeps(x, q) \/ Overlapped(q)
        BY <3>5
      <4>2. Keeps(x, q) => Keeps(incident[call[q].id], q)'
        BY <1>1, <3>1, <3>5 DEF Keeps
      <4> QED
        BY <2>2, <4>1, <4>2, OverlappedStays
    <3>6. CASE call[q].id = i /\ q \notin seen[r]
      <4>1. r \in Written' /\ r # q /\ r \notin seen'[q] /\ q \notin seen'[r]
        BY <1>1, <1>2, <2>2, <3>6 DEF Written
      <4> QED
        BY <3>1, <3>6, <4>1 DEF Overlapped
    <3> QED
      BY <3>3, <3>4, <3>5, <3>6
  <2> QED
    BY <1>1, <2>1, <2>2
<1> QED
  BY <1>3, <1>4, <1>5 DEF OverlapInv

LEMMA OverlapStep ==
    ASSUME TypeOK, Fresh, OverlapInv, [Next]_vars
    PROVE  OverlapInv'
<1> USE DEF TypeOK
<1>1. Grows
  BY FreshStep
<1>2. ASSUME NEW r \in Request, Arrives(r) PROVE OverlapInv'
  <2>1. PICK c \in Call : Refused(r) \/ Reported(r, c) \/ Taken(r, c)
    BY <1>2 DEF Arrives
  <2>2. pc[r] = "new" /\ ~wrote[r]
    BY <1>2 DEF Arrives, Fresh
  <2>3. CASE Refused(r)
    BY <1>1, <2>3, QuietOverlap DEF Refused, Fail
  <2>4. CASE Taken(r, c)
    BY <1>1, <2>2, <2>4, TakenFits
  <2>5. CASE Reported(r, c) /\ UNCHANGED <<incident, wrote>>
    BY <1>1, <2>5, QuietOverlap DEF Reported, Report
  <2>6. CASE Reported(r, c) /\ Save(r, c.id, [status |-> "reported", plan |-> NoPlan])
    <3> DEFINE x == [status |-> "reported", plan |-> NoPlan]
    <3>1. /\ seen' = seen /\ pc'[r] = "audit" /\ call'[r] = c /\ draft' = draft
          /\ \A q \in Request \ {r} : pc'[q] = pc[q] /\ call'[q] = call[q]
          /\ c.op = "report" /\ c.id \in Incident /\ incident[c.id] = NoRow
      BY <2>6 DEF Reported, Report, Call
    <3>2. HistoryKept
      BY <1>1, <3>1 DEF HistoryKept
    <3>3. Keeps(x, r)'
      BY <3>1 DEF Keeps, Rank, Target
    <3>4. ASSUME NEW q \in seen'[r], call[q].id = c.id PROVE Overlapped(q)
      <4>1. q \in Written /\ q \in Request /\ call[q] \in Call
        BY <3>1, <3>4 DEF OverlapInv, Written, Fresh
      <4>2. ~Keeps(incident[c.id], q)
        BY <3>1, <4>1, Ranks DEF Keeps, NoRow, Rank, Call
      <4> QED
        BY <3>4, <4>1, <4>2 DEF OverlapInv, KeptUnlessOverlapped
    <3> HIDE DEF x
    <3>5. Save(r, c.id, x)
      BY <2>6 DEF x
    <3> QED
      BY <2>2, <3>1, <3>2, <3>3, <3>4, <3>5, WriteOverlaps
  <2> QED
    BY <2>1, <2>3, <2>4, <2>5, <2>6 DEF Reported, Report
<1>3. ASSUME NEW r \in Request, Update(r) PROVE OverlapInv'
  <2>1. /\ pc[r] = "save" /\ pc'[r] = "audit" /\ call' = call
        /\ \A q \in Request \ {r} : pc'[q] = pc[q] /\ draft'[q] = draft[q]
    BY <1>3 DEF Update
  <2>2. ~wrote[r] /\ call[r] \in Call /\ call[r].id \in Incident
    BY <2>1 DEF Fresh, Call
  <2>3. CASE UNCHANGED <<incident, wrote>> /\ seen' = [seen EXCEPT ![r] = {}]
    BY <1>1, <2>1, <2>2, <2>3, QuietOverlap
  <2>4. CASE Save(r, call[r].id, draft[r]) /\ seen' = seen
    <3>1. HistoryKept
      BY <1>1, <2>4 DEF HistoryKept
    <3>2. CopyFits(r) /\ CopyKeeps(r)
      BY <2>1 DEF OverlapInv, CopyInv
    <3>3. \A x : x = draft[r] => Keeps(x, r)'
      <4>1. Rank[Target[call[r].op]] \in 1 .. 4
        BY <2>2, Ranks DEF Call
      <4> QED
        BY <2>1, <3>2, <4>1 DEF CopyFits, Keeps
    <3>4. \A q \in seen'[r] : call[q].id = call[r].id => Keeps(draft[r], q) \/ Overlapped(q)
      BY <2>4, <3>2 DEF CopyKeeps
    <3>5. ASSUME NEW x, x = draft[r], NEW i \in Incident, i = call[r].id PROVE OverlapInv'
      <4>1. Save(r, i, x) /\ call'[r].id = i /\ Keeps(x, r)'
        BY <2>1, <2>4, <3>3, <3>5
      <4>2. \A q \in seen'[r] : call[q].id = i => Keeps(x, q) \/ Overlapped(q)
        BY <3>4, <3>5
      <4> QED
        BY <2>1, <2>2, <2>4, <3>1, <4>1, <4>2, WriteOverlaps
    <3> QED
      BY <2>2, <3>5
  <2> QED
    BY <1>3, <2>3, <2>4 DEF Update
<1>4. ASSUME NEW r \in Request, AuditLog(r) PROVE OverlapInv'
  BY <1>1, <1>4, QuietOverlap DEF AuditLog
<1>5. CASE Restart
  BY <1>1, <1>5, QuietOverlap DEF Restart, InFlight
<1>6. CASE UNCHANGED vars
  BY <1>1, <1>6, QuietOverlap DEF vars
<1> QED
  BY <1>2, <1>3, <1>4, <1>5, <1>6, NextCases

LEMMA OverlapAlways == Spec => [](TypeOK /\ Fresh /\ OverlapInv)
<1>1. TypeOK /\ Fresh /\ OverlapInv /\ [Next]_vars => OverlapInv'
  BY OverlapStep
<1> QED
  BY <1>1, OverlapStarts, FreshAlways, PTL DEF Spec

(* An update is lost only to one that overlapped it, whatever else fails,  *)
(* is tried again or is killed.                                            *)
THEOREM LostToOverlap == Spec => []KeptUnlessOverlapped
<1>1. OverlapInv => KeptUnlessOverlapped
  BY DEF OverlapInv
<1> QED
  BY <1>1, OverlapAlways, PTL

LEMMA BackByMissed ==
    ASSUME TypeOK, Fresh, OverlapInv, [Next]_vars, NEW i \in Incident,
           Rank[incident'[i].status] < Rank[incident[i].status]
    PROVE  \E r \in Request : \E q \in Written \ seen[r] :
               /\ pc[r] = "save" /\ wrote'[r]
               /\ call[r].id = i /\ call[q].id = i
<1> USE DEF TypeOK
<1>1. Rank[incident[i].status] \in 0 .. 4
  BY Ranks DEF Row
<1>2. incident' # incident
  BY <1>1
<1>3. ASSUME NEW r \in Request, Inserts(r) PROVE FALSE
  <2>1. PICK c \in Call : /\ incident[c.id] = NoRow
                          /\ Save(r, c.id, [status |-> "reported", plan |-> NoPlan])
    BY <1>3 DEF Inserts
  <2>2. i = c.id => Rank[incident[i].status] = 0 /\ Rank[incident'[i].status] = 1
    BY <2>1 DEF Save, NoRow, Rank
  <2>3. i # c.id => incident'[i] = incident[i]
    BY <2>1 DEF Save
  <2> QED
    BY <1>1, <2>2, <2>3
<1>4. ASSUME NEW r \in Request, Saves(r)
      PROVE  \E q \in Written \ seen[r] :
                 /\ pc[r] = "save" /\ wrote'[r]
                 /\ call[r].id = i /\ call[q].id = i
  <2>1. pc[r] = "save" /\ Save(r, call[r].id, draft[r]) /\ CopyInv(r) /\ wrote'[r]
    BY <1>4 DEF Saves, Save, OverlapInv
  <2>2. call[r].id = i
    BY <1>1, <2>1 DEF Save
  <2>3. incident'[i] = draft[r]
    BY <2>1, <2>2 DEF Save
  <2>4. Rank[draft[r].status] \in 0 .. 4
    BY Ranks DEF Row
  <2>5. Missed(r)
    BY <1>1, <2>1, <2>2, <2>3, <2>4 DEF CopyInv
  <2> QED
    BY <2>1, <2>2, <2>5 DEF Missed
<1> QED
  BY <1>2, <1>3, <1>4, WriteCases

(* A status moves back only by the save of a copy that has missed a write: *)
(* with nothing but retries, failures and restarts, and with any number of *)
(* transitions that see each other's writes, it never does.                *)
THEOREM BackOnlyByOverlap == Spec => MovesBackOnlyByOverlap
<1>1. TypeOK /\ Fresh /\ OverlapInv /\ [Next]_vars
         => [\A i \in Incident :
                Rank[incident'[i].status] < Rank[incident[i].status] =>
                    \E r \in Request : \E q \in Written \ seen[r] :
                        /\ pc[r] = "save" /\ wrote'[r]
                        /\ call[r].id = i /\ call[q].id = i]_vars
  BY BackByMissed
<1> QED
  BY <1>1, OverlapAlways, PTL DEF Spec, MovesBackOnlyByOverlap

(***************************************************************************)
(* Transitions that do not overlap                                         *)
(***************************************************************************)
(* No two requests hold copies of one row, and the row is still what the   *)
(* request that holds its copy has read.                                   *)
Apart == \A q, r \in Request :
            pc[q] = "save" /\ pc[r] = "save" /\ call[q].id = call[r].id => q = r

InStep == \A r \in Request : pc[r] = "save" => Copied(call[r], draft[r])

(* No update is lost: the row of every request that took effect has what   *)
(* the request wrote.                                                      *)
CommittedIsKept ==
    \A r \in Request : wrote[r] =>
        /\ Rank[incident[call[r].id].status] >= Rank[Target[call[r].op]]
        /\ call[r].op = "rectify" => incident[call[r].id].plan = call[r].plan

Serial == Apart /\ InStep /\ CommittedIsKept /\ TransitionOnce

LEMMA SerialInit == Init => Serial
BY DEF Init, Serial, Apart, InStep, CommittedIsKept, TransitionOnce

(* With a copy in step, a save moves its row exactly one stage on.         *)
LEMMA SaveMovesOn ==
    ASSUME TypeOK, Fresh, InStep, NEW r \in Request, pc[r] = "save"
    PROVE  LET old == incident[call[r].id] IN
           /\ call[r] \in Call
           /\ Rank[draft[r].status] = Rank[Target[call[r].op]]
           /\ Rank[draft[r].status] = Rank[old.status] + 1
           /\ IF call[r].op = "rectify" THEN draft[r].plan = call[r].plan
                                        ELSE draft[r].plan = old.plan
           /\ old.status # "absent" /\ draft[r] # old
<1> USE DEF TypeOK
<1> DEFINE old == incident[call[r].id]
<1>1. call[r] \in Call /\ old \in Row
  BY DEF Fresh, Call
<1>2. Copied(call[r], draft[r])
  BY DEF InStep
<1>3. CASE call[r].op = "assign"
  <2>1. old.status = "reported" /\ draft[r].status = "investigating"
        /\ draft[r].plan = old.plan
    BY <1>1, <1>2, <1>3 DEF Copied, Row
  <2> QED
    BY <1>1, <1>3, <2>1 DEF Rank, Target
<1>4. CASE call[r].op = "rectify"
  <2>1. old.status = "investigating" /\ draft[r].status = "resolved"
        /\ draft[r].plan = call[r].plan
    BY <1>1, <1>2, <1>4 DEF Copied, Row
  <2> QED
    BY <1>1, <1>4, <2>1 DEF Rank, Target
<1>5. CASE call[r].op = "close"
  <2>1. old.status = "resolved" /\ draft[r].status = "closed"
        /\ draft[r].plan = old.plan
    BY <1>1, <1>2, <1>5 DEF Copied, Row
  <2> QED
    BY <1>1, <1>5, <2>1 DEF Rank, Target
<1> QED
  BY <1>2, <1>3, <1>4, <1>5 DEF Copied

(* A write moves its row one stage on, to a stage that no earlier write of *)
(* that row has reached.                                                   *)
LEMMA WriteMovesOn ==
    ASSUME TypeOK, Fresh, InStep, CommittedIsKept,
           NEW r \in Request, Inserts(r) \/ Saves(r)
    PROVE  LET c == call'[r] IN
           /\ c \in Call /\ ~wrote[r]
           /\ wrote' = [wrote EXCEPT ![r] = TRUE]
           /\ \A q \in Request : wrote[q] => call'[q] = call[q]
           /\ \A i \in Incident \ {c.id} : incident'[i] = incident[i]
           /\ Rank[incident'[c.id].status] = Rank[Target[c.op]]
           /\ Rank[incident[c.id].status] < Rank[Target[c.op]]
           /\ IF c.op = "rectify" THEN incident'[c.id].plan = c.plan
                                  ELSE incident'[c.id].plan = incident[c.id].plan
           /\ \A q \in Request : wrote[q] /\ call[q].id = c.id =>
                 Rank[Target[call[q].op]] < Rank[Target[c.op]]
<1> USE DEF TypeOK
<1>1. \A q \in Request : wrote[q] =>
         /\ call[q] \in Call
         /\ Rank[incident[call[q].id].status] >= Rank[Target[call[q].op]]
         /\ Rank[Target[call[q].op]] \in 1..4
  BY Ranks DEF Fresh, CommittedIsKept, Call
<1>2. CASE Inserts(r)
  <2>1. PICK c \in Call :
           /\ pc[r] = "new" /\ c.op = "report" /\ incident[c.id] = NoRow
           /\ Save(r, c.id, [status |-> "reported", plan |-> NoPlan])
           /\ call' = [call EXCEPT ![r] = c]
    BY <1>2 DEF Inserts
  <2>2. c.id \in Incident /\ call'[r] = c /\ ~wrote[r]
    BY <2>1 DEF Call, Fresh
  <2>3. incident'[c.id] = [status |-> "reported", plan |-> NoPlan]
    BY <2>1, <2>2 DEF Save
  <2>4. Rank[incident[c.id].status] = 0 /\ Rank[incident'[c.id].status] = 1
        /\ Rank[Target[c.op]] = 1
    BY <2>1, <2>3 DEF NoRow, Rank, Target
  <2>5. \A q \in Request : wrote[q] => call[q].id # c.id
    BY <1>1, <2>4
  <2>6. incident'[c.id].plan = incident[c.id].plan /\ c.op # "rectify"
    BY <2>1, <2>3 DEF NoRow
  <2>7. \A q \in Request : wrote[q] => call'[q] = call[q]
    BY <2>1, <2>2
  <2>8. /\ \A i \in Incident \ {c.id} : incident'[i] = incident[i]
        /\ wrote' = [wrote EXCEPT ![r] = TRUE]
    BY <2>1 DEF Save
  <2> QED
    BY <2>2, <2>4, <2>5, <2>6, <2>7, <2>8
<1>3. CASE Saves(r)
  <2>1. pc[r] = "save" /\ call' = call /\ Save(r, call[r].id, draft[r])
    BY <1>3 DEF Saves
  <2>2. call[r] \in Call /\ call[r].id \in Incident /\ ~wrote[r]
    BY <2>1 DEF Call, Fresh
  <2>3. incident'[call[r].id] = draft[r]
    BY <2>1, <2>2 DEF Save
  <2>4. /\ \A i \in Incident \ {call[r].id} : incident'[i] = incident[i]
        /\ wrote' = [wrote EXCEPT ![r] = TRUE]
    BY <2>1 DEF Save
  <2>5. Rank[incident[call[r].id].status] \in 0..4
    BY <2>2, Ranks DEF Row
  <2>6. /\ Rank[draft[r].status] = Rank[Target[call[r].op]]
        /\ Rank[draft[r].status] = Rank[incident[call[r].id].status] + 1
        /\ IF call[r].op = "rectify" THEN draft[r].plan = call[r].plan
               ELSE draft[r].plan = incident[call[r].id].plan
    BY <2>1, SaveMovesOn
  <2>7. \A q \in Request : wrote[q] /\ call[q].id = call[r].id =>
           Rank[Target[call[q].op]] < Rank[Target[call[r].op]]
    BY <1>1, <2>5, <2>6
  <2>8. Rank[incident[call[r].id].status] < Rank[Target[call[r].op]]
    BY <2>5, <2>6
  <2> QED
    BY <2>1, <2>2, <2>3, <2>4, <2>6, <2>7, <2>8
<1> QED
  BY <1>2, <1>3

LEMMA KeptStep ==
    ASSUME TypeOK, Fresh, Serial, [Next]_vars
    PROVE  CommittedIsKept' /\ TransitionOnce'
<1> USE DEF TypeOK
<1>1. CASE UNCHANGED <<incident, wrote>>
  BY <1>1, FreshStep DEF Grows, Serial, CommittedIsKept, TransitionOnce
<1>2. ASSUME NEW r \in Request, Inserts(r) \/ Saves(r)
      PROVE  CommittedIsKept' /\ TransitionOnce'
  <2> DEFINE c == call'[r]
  <2>1. /\ c \in Call /\ ~wrote[r]
        /\ wrote' = [wrote EXCEPT ![r] = TRUE]
        /\ \A q \in Request : wrote[q] => call'[q] = call[q]
        /\ \A i \in Incident \ {c.id} : incident'[i] = incident[i]
        /\ Rank[incident'[c.id].status] = Rank[Target[c.op]]
        /\ Rank[incident[c.id].status] < Rank[Target[c.op]]
        /\ IF c.op = "rectify" THEN incident'[c.id].plan = c.plan
                               ELSE incident'[c.id].plan = incident[c.id].plan
        /\ \A q \in Request : wrote[q] /\ call[q].id = c.id =>
              Rank[Target[call[q].op]] < Rank[Target[c.op]]
    BY <1>2, WriteMovesOn DEF Serial
  <2> HIDE DEF c
  <2>2. \A q \in Request : wrote'[q] => q = r \/ (wrote[q] /\ call'[q] = call[q])
    BY <2>1
  <2>3. /\ Rank[Target[c.op]] \in 1..4
        /\ \A q \in Request : wrote[q] =>
              call[q].id \in Incident /\ Rank[Target[call[q].op]] \in 1..4
    BY <2>1, Ranks DEF Fresh, Call
  <2>4. TransitionOnce'
    BY <2>1, <2>2, <2>3 DEF c, Serial, TransitionOnce
  <2>5. CommittedIsKept'
    <3> SUFFICES ASSUME NEW q \in Request, wrote'[q]
                 PROVE  LET d == call'[q] IN
                        /\ Rank[incident'[d.id].status] >= Rank[Target[d.op]]
                        /\ d.op = "rectify" => incident'[d.id].plan = d.plan
      BY DEF CommittedIsKept
    <3>1. CASE q = r
      BY <2>1, <2>3, <3>1 DEF c
    <3>2. CASE wrote[q] /\ call'[q] = call[q] /\ call[q].id # c.id
      BY <2>1, <2>3, <3>2 DEF Serial, CommittedIsKept
    <3>3. CASE wrote[q] /\ call'[q] = call[q] /\ call[q].id = c.id
      <4>1. Rank[Target[call[q].op]] < Rank[Target[c.op]]
        BY <2>1, <3>3
      <4>2. call[q].op = "rectify" => c.op # "rectify"
        BY <4>1, <2>3
      <4>3. call[q].op = "rectify" => incident'[c.id].plan = call[q].plan
        BY <2>1, <3>3, <4>2 DEF Serial, CommittedIsKept
      <4> QED
        BY <2>1, <2>3, <3>3, <4>1, <4>3
    <3> QED
      BY <2>2, <3>1, <3>2, <3>3
  <2> QED
    BY <2>4, <2>5
<1> QED
  BY <1>1, <1>2, WriteCases

(* Without overlap a copy is taken only of a row that nobody else holds,   *)
(* so a save touches the row of no other copy.                             *)
LEMMA ApartStep ==
    ASSUME ~Overlap, TypeOK, Fresh, Serial, [Next]_vars
    PROVE  Apart' /\ InStep'
<1> USE DEF TypeOK
(* Enough: no new copies, and the rows of the copies do not change.        *)
<1>1. ASSUME \A q \in Request : pc'[q] = "save" =>
                /\ pc[q] = "save" /\ call'[q] = call[q] /\ draft'[q] = draft[q]
                /\ incident'[call[q].id] = incident[call[q].id]
      PROVE  Apart' /\ InStep'
  BY <1>1 DEF Serial, Apart, InStep, Copied
<1>2. ASSUME NEW r \in Request, Arrives(r) PROVE Apart' /\ InStep'
  <2>1. PICK c \in Call : Refused(r) \/ Reported(r, c) \/ Taken(r, c)
    BY <1>2 DEF Arrives
  <2>2. CASE Refused(r)
    BY <1>1, <2>2 DEF Refused, Fail
  <2>3. CASE Reported(r, c)
    <3>1. /\ pc'[r] = "audit" /\ UNCHANGED draft
          /\ \A q \in Request \ {r} : pc'[q] = pc[q] /\ call'[q] = call[q]
      BY <2>3 DEF Reported, Report
    <3>2. \A i \in Incident : i # c.id => incident'[i] = incident[i]
      BY <2>3 DEF Reported, Report, Save
    <3>3. ASSUME NEW q \in Request, pc[q] = "save"
          PROVE  call[q].id \in Incident /\ call[q].id # c.id
      <4>1. incident[call[q].id].status # "absent"
        BY <3>3, SaveMovesOn DEF Serial
      <4>2. call[q].id \in Incident
        BY <3>3 DEF Fresh, Call
      <4> QED
        BY <4>1, <4>2, <2>3 DEF Reported, NoRow
    <3> QED
      BY <1>1, <3>1, <3>2, <3>3
  <2>4. CASE Taken(r, c)
    <3>1. PICK row \in Row : Copied(c, row) /\ Modify(r, c, row)
      BY <2>4 DEF Taken
    <3>2. /\ call'[r] = c /\ draft'[r] = row /\ UNCHANGED incident
          /\ \A q \in Request \ {r} : /\ pc'[q] = pc[q] /\ call'[q] = call[q]
                                     /\ draft'[q] = draft[q]
          /\ Alone(r, c.id)
      BY <3>1 DEF Modify
    <3>3. Apart'
      BY <3>2 DEF Serial, Apart, Alone
    <3>4. InStep'
      BY <3>1, <3>2 DEF Serial, InStep, Copied
    <3> QED
      BY <3>3, <3>4
  <2> QED
    BY <2>1, <2>2, <2>3, <2>4
<1>3. ASSUME NEW r \in Request, Update(r) PROVE Apart' /\ InStep'
  <2>1. /\ pc[r] = "save" /\ pc'[r] = "audit" /\ UNCHANGED call
        /\ \A q \in Request \ {r} : pc'[q] = pc[q] /\ draft'[q] = draft[q]
    BY <1>3 DEF Update
  <2>2. \A q \in Request \ {r} : pc[q] = "save" =>
           call[q].id \in Incident /\ call[q].id # call[r].id
    BY <2>1 DEF Serial, Apart, Fresh, Call
  <2>3. \A i \in Incident : i # call[r].id => incident'[i] = incident[i]
    BY <1>3 DEF Update, Save
  <2> QED
    BY <1>1, <2>1, <2>2, <2>3
<1>4. ASSUME NEW r \in Request, AuditLog(r) PROVE Apart' /\ InStep'
  BY <1>1, <1>4 DEF AuditLog
<1>5. ASSUME Restart PROVE Apart' /\ InStep'
  BY <1>1, <1>5 DEF Restart, InFlight
<1>6. ASSUME UNCHANGED vars PROVE Apart' /\ InStep'
  BY <1>1, <1>6 DEF vars
<1> QED
  BY <1>2, <1>3, <1>4, <1>5, <1>6, NextCases

LEMMA SerialAlways == ASSUME ~Overlap PROVE Spec => [](TypeOK /\ Fresh /\ Serial)
<1>1. TypeOK /\ Fresh /\ Serial /\ [Next]_vars => Serial'
  BY KeptStep, ApartStep DEF Serial
<1> QED
  BY <1>1, SerialInit, FreshAlways, PTL DEF Spec

(* When the transitions of an incident do not overlap, a repeated one has  *)
(* no effect, a retry after a lost answer or a restart included.           *)
THEOREM EachTransitionOnce == ASSUME ~Overlap PROVE Spec => []TransitionOnce
<1>1. Serial => TransitionOnce
  BY DEF Serial
<1> QED
  BY <1>1, SerialAlways, PTL

(***************************************************************************)
(* Nobody waits for ever                                                   *)
(***************************************************************************)
(* How many steps a request can still take before it has ended.            *)
Remaining(r) ==
    CASE pc[r] = "new"   -> 3
      [] pc[r] = "save"  -> 2
      [] pc[r] = "audit" -> 1
      [] OTHER           -> 0

EveryStepAdvances ==
    [][/\ \A r \in Request : Remaining(r)' <= Remaining(r)
       /\ \E r \in Request : Remaining(r)' < Remaining(r)]_vars

LEMMA RemainingNat == \A r \in Request : Remaining(r) \in 0..3
BY DEF Remaining

(* A request that takes a step comes nearer to its end, and no other one   *)
(* is moved.                                                               *)
LEMMA HandleAdvances ==
    ASSUME TypeOK, NEW r \in Request, Arrives(r) \/ Update(r) \/ AuditLog(r)
    PROVE  /\ Remaining(r)' < Remaining(r)
           /\ \A q \in Request \ {r} : Remaining(q)' = Remaining(q)
<1>1. /\ \A q \in Request \ {r} : pc'[q] = pc[q]
      /\ \/ pc[r] = "new" /\ pc'[r] \in {"save", "audit"}
         \/ pc[r] = "save" /\ pc'[r] = "audit"
         \/ pc[r] = "audit" /\ pc'[r] = "done"
  <2>1. CASE Arrives(r)
    BY <2>1 DEF Arrives, Refused, Reported, Taken, Fail, Report, Modify, TypeOK
  <2>2. CASE Update(r) \/ AuditLog(r)
    BY <2>2 DEF Update, AuditLog, TypeOK
  <2> QED
    BY <2>1, <2>2
<1> QED
  BY <1>1 DEF Remaining

(* Every step of a request or of a restart brings a request nearer to its  *)
(* end and none further away from it: three steps and it is answered and   *)
(* audited, whatever the others do to the row it copied.  A request in     *)
(* flight waits for nothing, so this is all of EveryCallEnds but the       *)
(* fairness.                                                               *)
THEOREM CallsAdvance == Spec => EveryStepAdvances
<1>1. ASSUME TypeOK, [Next]_vars, vars' # vars
      PROVE  /\ \A r \in Request : Remaining(r)' <= Remaining(r)
             /\ \E r \in Request : Remaining(r)' < Remaining(r)
  <2>1. \A r \in Request : Remaining(r) \in 0..3 /\ Remaining(r)' \in 0..3
    BY RemainingNat DEF Remaining
  <2>2. ASSUME NEW r \in Request, Arrives(r) \/ Update(r) \/ AuditLog(r)
        PROVE  /\ \A q \in Request : Remaining(q)' <= Remaining(q)
               /\ \E q \in Request : Remaining(q)' < Remaining(q)
    BY <1>1, <2>1, <2>2, HandleAdvances
  <2>3. CASE Restart
    <3>1. ASSUME NEW r \in Request
          PROVE  IF InFlight(r) THEN Remaining(r)' < Remaining(r)
                                ELSE Remaining(r)' = Remaining(r)
      BY <1>1, <2>3, <3>1 DEF Restart, Remaining, InFlight, TypeOK
    <3> QED
      BY <2>1, <2>3, <3>1 DEF Restart
  <2> QED
    BY <1>1, <2>2, <2>3, NextCases
<1>2. TypeOK /\ [Next]_vars
         => [/\ \A r \in Request : Remaining(r)' <= Remaining(r)
             /\ \E r \in Request : Remaining(r)' < Remaining(r)]_vars
  BY <1>1
<1> QED
  BY <1>2, TypeCorrect, PTL DEF Spec, EveryStepAdvances

(***************************************************************************)
(* The handlers implement the incident state machine                       *)
(***************************************************************************)
LEMMA LifecycleStep ==
    ASSUME TypeOK, Fresh, Serial, [Next]_vars
    PROVE  [Lifecycle!LifecycleNext]_(Lifecycle!lifecycle)
<1> USE DEF TypeOK
<1> DEFINE stage == [i \in Incident |-> incident[i].status]
           agreed == [i \in Incident |-> incident[i].plan]
<1>1. CASE UNCHANGED incident
  BY <1>1 DEF Lifecycle!lifecycle
<1>2. ASSUME NEW r \in Request, Inserts(r) PROVE Lifecycle!LifecycleNext
  <2>1. PICK c \in Call :
           /\ incident[c.id] = NoRow
           /\ Save(r, c.id, [status |-> "reported", plan |-> NoPlan])
    BY <1>2 DEF Inserts
  <2>2. c.id \in Incident
    BY DEF Call
  <2>3. incident[c.id].status = "absent" /\ incident[c.id].plan = NoPlan
    BY <2>1 DEF NoRow
  <2>4. stage' = [stage EXCEPT ![c.id] = "reported"]
    BY <2>1 DEF Save
  <2>5. agreed' = agreed
    BY <2>1, <2>3 DEF Save
  <2>6. Lifecycle!ReportStage(c.id)
    BY <2>2, <2>3, <2>4, <2>5 DEF Lifecycle!ReportStage
  <2> QED
    BY <2>2, <2>6 DEF Lifecycle!LifecycleNext
<1>3. ASSUME NEW r \in Request, Saves(r) PROVE Lifecycle!LifecycleNext
  <2>0. PICK i \in Incident : i = call[r].id
    BY <1>3 DEF Saves, Fresh, Call
  <2>1. Copied(call[r], draft[r]) /\ Save(r, i, draft[r])
    BY <1>3, <2>0 DEF Saves, Serial, InStep
  <2>2. incident[i] \in Row
    OBVIOUS
  <2>3. /\ stage' = [stage EXCEPT ![i] = draft[r].status]
        /\ agreed' = [agreed EXCEPT ![i] = draft[r].plan]
    BY <2>1, <2>2 DEF Save
  <2>4. CASE call[r].op = "assign"
    <3>1. /\ incident[i].status = "reported" /\ draft[r].status = "investigating"
          /\ draft[r].plan = incident[i].plan
      BY <2>0, <2>1, <2>2, <2>4 DEF Copied, Row
    <3>2. agreed' = agreed
      BY <2>3, <3>1
    <3>3. Lifecycle!AssignStage(i)
      BY <2>2, <2>3, <3>1, <3>2 DEF Lifecycle!AssignStage
    <3> QED
      BY <2>2, <3>3 DEF Lifecycle!LifecycleNext
  <2>5. CASE call[r].op = "rectify"
    <3>1. PICK p \in Plan : /\ incident[i].status = "investigating"
                            /\ draft[r].status = "resolved"
                            /\ draft[r].plan = p
      BY <2>0, <2>1, <2>5 DEF Copied
    <3>2. Lifecycle!RectifyStage(i, p)
      BY <2>2, <2>3, <3>1 DEF Lifecycle!RectifyStage
    <3> QED
      BY <2>2, <3>2 DEF Lifecycle!LifecycleNext
  <2>6. CASE call[r].op = "close"
    <3>1. /\ incident[i].status = "resolved" /\ draft[r].status = "closed"
          /\ draft[r].plan = incident[i].plan
      BY <2>0, <2>1, <2>2, <2>6 DEF Copied, Row
    <3>2. agreed' = agreed
      BY <2>3, <3>1
    <3>3. Lifecycle!CloseStage(i)
      BY <2>2, <2>3, <3>1, <3>2 DEF Lifecycle!CloseStage
    <3> QED
      BY <2>2, <3>3 DEF Lifecycle!LifecycleNext
  <2> QED
    BY <2>1, <2>4, <2>5, <2>6 DEF Copied
<1> QED
  BY <1>1, <1>2, <1>3, WriteCases

(* When the transitions of an incident do not overlap, the table follows   *)
(* the abstract state machine: one stage after the other, a plan agreed    *)
(* once, and every other step of a request a stutter.                      *)
THEOREM ImplementsLifecycle == ASSUME ~Overlap PROVE Spec => FollowsLifecycle
<1>1. Init => Lifecycle!LifecycleInit
  BY DEF Init, Lifecycle!LifecycleInit, Lifecycle!Stage, SeedRow, NoRow
<1>2. TypeOK /\ Fresh /\ Serial /\ [Next]_vars
         => [Lifecycle!LifecycleNext]_(Lifecycle!lifecycle)
  BY LifecycleStep
<1> QED
  BY <1>1, <1>2, SerialAlways, PTL
     DEF Spec, FollowsLifecycle, Lifecycle!LifecycleSpec
(***************************************************************************)
(* The handlers implement the table of copies                              *)
(***************************************************************************)
(* The copies a step leaves when no request takes one, or one lets its go. *)
LEMMA HeldKept ==
    ASSUME TypeOK,
           \A q \in Request : pc'[q] = "save" =>
               pc[q] = "save" /\ call'[q] = call[q] /\ draft'[q] = draft[q]
    PROVE  Held' \in SUBSET Held
BY DEF Held

(* What the operations leave of the requests that do not take part.        *)
LEMMA HeldOfOthers ==
    ASSUME TypeOK, NEW r \in Request,
           \A q \in Request \ {r} :
               pc'[q] = pc[q] /\ call'[q] = call[q] /\ draft'[q] = draft[q]
    PROVE  /\ pc[r] # "save" /\ pc'[r] # "save" => Held' = Held
           /\ pc[r] # "save" /\ pc'[r] = "save" =>
                  Held' = Held \cup {<<call'[r].id, draft'[r].status>>}
           /\ pc[r] = "save" /\ pc'[r] # "save" =>
                  Held' \in {Held, Held \ {<<call[r].id, draft[r].status>>}}
<1> DEFINE Others == {<<call[q].id, draft[q].status>> :
                         q \in {p \in Request \ {r} : pc[p] = "save"}}
           mine == <<call[r].id, draft[r].status>>
<1>1. Held = Others \cup (IF pc[r] = "save" THEN {mine} ELSE {})
  BY DEF Held
<1>2. Held' = Others \cup (IF pc'[r] = "save"
                             THEN {<<call'[r].id, draft'[r].status>>} ELSE {})
  BY DEF Held
<1> HIDE DEF Others, mine
<1>3. /\ pc[r] # "save" /\ pc'[r] # "save" => Held' = Held
      /\ pc[r] # "save" /\ pc'[r] = "save" =>
             Held' = Held \cup {<<call'[r].id, draft'[r].status>>}
  BY <1>1, <1>2
<1>4. pc[r] = "save" /\ pc'[r] # "save" => Held' \in {Held, Held \ {mine}}
  BY <1>1, <1>2
<1> QED
  BY <1>3, <1>4 DEF mine

LEMMA TableStep ==
    ASSUME TypeOK, Fresh, [Next]_vars
    PROVE  [Table!TableNext]_(Table!rows)
<1> USE DEF TypeOK
<1> DEFINE stage == [i \in Incident |-> incident[i].status]
<1>1. ASSUME UNCHANGED incident, Held' \in SUBSET Held PROVE Table!TableNext
  BY <1>1 DEF Table!TableNext, Table!DropCopies
<1>2. ASSUME NEW r \in Request, NEW i \in Incident, NEW row, Save(r, i, row)
      PROVE  stage' = [stage EXCEPT ![i] = row.status]
  BY <1>2 DEF Save
<1>3. ASSUME NEW r \in Request, Arrives(r) PROVE [Table!TableNext]_(Table!rows)
  <2>1. PICK c \in Call : Refused(r) \/ Reported(r, c) \/ Taken(r, c)
    BY <1>3 DEF Arrives
  <2>2. c.id \in Incident /\ pc[r] = "new"
    BY <1>3 DEF Call, Arrives
  <2>3. CASE Refused(r)
    BY <2>3, <1>1, HeldKept DEF Refused, Fail
  <2>4. CASE Reported(r, c)
    <3>1. Held' = Held
      BY <2>2, <2>4, HeldOfOthers DEF Reported, Report
    <3>2. CASE UNCHANGED incident
      BY <3>1, <3>2, <1>1
    <3>3. CASE Save(r, c.id, [status |-> "reported", plan |-> NoPlan])
      <4>1. stage' = [stage EXCEPT ![c.id] = "reported"] /\ stage[c.id] = "absent"
        <5> DEFINE x == [status |-> "reported", plan |-> NoPlan]
        <5>1. x.status = "reported"
          OBVIOUS
        <5>2. incident[c.id] = NoRow
          BY <2>4 DEF Reported
        <5>3. Save(r, c.id, x)
          BY <3>3
        <5> HIDE DEF x
        <5>4. stage' = [stage EXCEPT ![c.id] = x.status]
          BY <1>2, <2>2, <5>3
        <5> QED
          BY <2>2, <5>1, <5>2, <5>4 DEF NoRow
      <4> QED
        BY <2>2, <3>1, <4>1 DEF Table!TableNext, Table!ReportRow, Table!Overwrite
    <3> QED
      BY <2>4, <3>2, <3>3 DEF Reported, Report
  <2>5. CASE Taken(r, c)
    <3>1. PICK row \in Row : Copied(c, row) /\ Modify(r, c, row)
      BY <2>5 DEF Taken
    <3>2. Held' = Held \cup {<<c.id, row.status>>} /\ UNCHANGED incident
      BY <2>2, <3>1, HeldOfOthers DEF Modify
    <3>3. row.status \in Table!Stage /\ Table!Admits(c.id, row.status)
      <4>1. incident[c.id] \in Row /\ stage[c.id] = incident[c.id].status
        BY <2>2
      <4>2. \/ incident[c.id].status = "reported" /\ row.status = "investigating"
            \/ incident[c.id].status = "investigating" /\ row.status = "resolved"
            \/ incident[c.id].status = "resolved" /\ row.status = "closed"
        BY <3>1, <4>1 DEF Copied, Row
      <4> QED
        BY <2>2, <4>2 DEF Table!Stage, Table!Admits, Table!Successor
    <3>4. Table!FindRow(c.id, row.status)
      BY <3>2, <3>3 DEF Table!FindRow
    <3> QED
      BY <2>2, <3>3, <3>4 DEF Table!TableNext
  <2> QED
    BY <2>1, <2>3, <2>4, <2>5
<1>4. ASSUME NEW r \in Request, Update(r) PROVE Table!TableNext
  <2>1. PICK i \in Incident : i = call[r].id
    BY <1>4 DEF Update, Fresh, Call
  <2>2. draft[r].status \in Table!Stage
    BY DEF Row, Status, Table!Stage
  <2>3. <<i, draft[r].status>> \in Held
    BY <1>4, <2>1 DEF Update, Held
  <2>4. Held' \in {Held, Held \ {<<i, draft[r].status>>}}
    BY <1>4, <2>1, HeldOfOthers DEF Update
  <2>5. CASE UNCHANGED incident
    BY <1>1, <2>4, <2>5
  <2>6. CASE Save(r, i, draft[r])
    <3>1. Table!SaveRow(i, draft[r].status)
      BY <1>2, <2>3, <2>4, <2>6 DEF Table!SaveRow, Table!Overwrite
    <3> QED
      BY <2>2, <3>1 DEF Table!TableNext
  <2> QED
    BY <1>4, <2>1, <2>5, <2>6 DEF Update
<1>5. ASSUME NEW r \in Request, AuditLog(r) PROVE Table!TableNext
  BY <1>1, <1>5, HeldKept DEF AuditLog
<1>6. CASE Restart
  BY <1>1, <1>6, HeldKept DEF Restart, InFlight
<1>7. CASE UNCHANGED vars
  BY <1>1, <1>7, HeldKept DEF vars
<1> QED
  BY <1>3, <1>4, <1>5, <1>6, <1>7, NextCases

(* Without any condition on how requests overlap, a row changes only by a  *)
(* report or by the save of a copy that its status once admitted.          *)
THEOREM ImplementsTable == Spec => KeepsToTable
<1>1. Init => Table!TableInit
  BY DEF Init, Table!TableInit, Table!Stage, SeedRow, NoRow, Held
<1>2. TypeOK /\ Fresh /\ [Next]_vars => [Table!TableNext]_(Table!rows)
  BY TableStep
<1> QED
  BY <1>1, <1>2, FreshAlways, PTL DEF Spec, KeepsToTable, Table!TableSpec
=============================================================================
