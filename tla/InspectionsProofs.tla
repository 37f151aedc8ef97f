-------------------------- MODULE InspectionsProofs --------------------------
(***************************************************************************)
(* Theorems about Inspections, for any inspections, finite set of items,   *)
(* requests and length of the forms, and about InspectionTally, for any    *)
(* number of items.                                                        *)
(***************************************************************************)
EXTENDS Inspections, InspectionTally, FunctionTheorems, FiniteSetTheorems,
        TLAPS

(* Products of natural numbers grow with either factor.                    *)
LEMMA ProductGrows ==
    ASSUME NEW a \in Nat, NEW b \in Nat, NEW n \in Nat, a <= b
    PROVE  a * n \in Nat /\ b * n \in Nat /\ a * n <= b * n
<1>1. b * n = a * n + (b - a) * n
  OBVIOUS
<1>2. a * n \in Nat /\ (b - a) * n \in Nat
  OBVIOUS
<1> QED
  BY <1>1, <1>2

(* The nearest integer is at most half a unit away.                        *)
LEMMA NearestBounds ==
    ASSUME NEW x \in Nat, NEW y \in Nat \ {0}
    PROVE  LET m == Nearest(x, y) IN
           /\ m \in Nat
           /\ 2 * (m * y) <= 2 * x + y /\ 2 * x <= 2 * (m * y) + y
<1> DEFINE d == x \div y
           r == x % y
<1>1. d \in Nat /\ r \in Nat /\ r < y /\ d * y \in Nat /\ x = d * y + r
  OBVIOUS
<1>2. (d + 1) * y = d * y + y
  BY <1>1
<1>3. \/ Nearest(x, y) = d /\ 2 * r <= y
      \/ Nearest(x, y) = d + 1 /\ y <= 2 * r
  BY <1>1 DEF Nearest
<1> HIDE DEF d, r
<1>4. CASE Nearest(x, y) = d /\ 2 * r <= y
  BY <1>1, <1>4
<1>5. CASE Nearest(x, y) = d + 1 /\ y <= 2 * r
  BY <1>1, <1>2, <1>5
<1> QED
  BY <1>3, <1>4, <1>5

LEMMA DenominatorType ==
    ASSUME NEW p, NEW n
    PROVE  /\ Power(p, n) \in PowersOfTwo
           /\ Denominator(p, n) \in Nat \ {0} /\ Significand <= Denominator(p, n)
<1> DEFINE e == Power(p, n)
<1>1. \E x \in PowersOfTwo : \/ Normalizes(x, p, n)
                             \/ \A d \in PowersOfTwo : ~Normalizes(d, p, n)
  <2>1. 1 \in PowersOfTwo
    BY DEF PowersOfTwo
  <2> QED
    BY <2>1
<1>2. e \in PowersOfTwo
  BY <1>1 DEF Power
<1>3. e \in Nat /\ 1 <= e
  BY <1>2 DEF PowersOfTwo
<1>4. Significand \in Nat \ {0}
  BY ScoreAssumption
<1>5. Denominator(p, n) = e * Significand
  BY <1>3, <1>4 DEF Denominator
<1> HIDE DEF e
<1>6. 1 * Significand <= e * Significand /\ e * Significand \in Nat
  BY <1>3, <1>4, ProductGrows
<1> QED
  BY <1>2, <1>4, <1>5, <1>6 DEF e

(* What the two roundings are off by.                                      *)
LEMMA RoundedTwice ==
    ASSUME NEW p \in Nat, NEW n \in Nat \ {0}, NEW D, D = Denominator(p, n),
           NEW m, m = Quotient(p, n)
    PROVE  /\ m \in Nat /\ Percent(m) \in Nat /\ Excess(m) \in {64, 128}
           /\ 2 * (m * n) <= 2 * (p * D) + n /\ 2 * (p * D) <= 2 * (m * n) + n
           /\ Percent(m) <= 100 * m + 64 /\ 100 * m <= Percent(m) + 64
<1> DEFINE y == Excess(m)
<1>1. D \in Nat \ {0} /\ p * D \in Nat
  BY DenominatorType
<1>2. /\ m \in Nat
      /\ 2 * (m * n) <= 2 * (p * D) + n /\ 2 * (p * D) <= 2 * (m * n) + n
  BY <1>1, NearestBounds DEF Quotient
<1>3. y \in {64, 128} /\ y \in Nat \ {0} /\ 100 * m \in Nat
  BY <1>2 DEF Excess
<1>4. Percent(m) = Nearest(100 * m, y) * y
  BY DEF Percent
<1> HIDE DEF y
<1>5. PICK q \in Nat : /\ q = Nearest(100 * m, y)
                       /\ 2 * (q * y) <= 2 * (100 * m) + y
                       /\ 2 * (100 * m) <= 2 * (q * y) + y
  BY <1>3, NearestBounds
<1>6. Percent(m) \in Nat /\ Percent(m) <= 100 * m + 64 /\ 100 * m <= Percent(m) + 64
  BY <1>2, <1>3, <1>4, <1>5
<1> QED
  BY <1>2, <1>3, <1>6 DEF y

(* A score is a natural number.                                            *)
LEMMA ScoreType ==
    ASSUME NEW p \in Nat, NEW n \in Nat
    PROVE  Score(p, n) \in Nat
<1>1. CASE n = 0
  BY <1>1 DEF Score
<1>2. CASE n > 0
  <2>1. Percent(Quotient(p, n)) \in Nat /\ Denominator(p, n) \in Nat \ {0}
    BY <1>2, RoundedTwice, DenominatorType
  <2> QED
    BY <1>2, <2>1 DEF Score
<1> QED
  BY <1>1, <1>2

LEMMA WithType ==
    ASSUME NEW l \in Checklist, NEW v \in BOOLEAN
    PROVE  Cardinality(With(l, v)) \in Nat
<1>1. DOMAIN l \subseteq Item
  BY DEF Checklist
<1>2. IsFiniteSet(With(l, v))
  BY <1>1, InspectionAssumption, FS_Subset DEF With
<1> QED
  BY <1>2, FS_CardinalityType

LEMMA ApplyType ==
    ASSUME NEW w \in Work, NEW e \in Entry
    PROVE  /\ Apply(w, e) \in Work
           /\ DOMAIN Apply(w, e).list = DOMAIN w.list
<1>1. PICK X \in SUBSET Item : w.list \in [X -> BOOLEAN]
  BY DEF Work, Checklist
<1>2. CASE e.item \in DOMAIN w.list
  <2> DEFINE l == [w.list EXCEPT ![e.item] = e.passed]
             p == IF e.passed THEN w.passed + 1 ELSE w.passed
             n == IF e.passed THEN w.issues ELSE w.issues + 1
  <2>1. l \in [X -> BOOLEAN] /\ DOMAIN l = DOMAIN w.list
    BY <1>1 DEF Entry
  <2>2. p \in Nat /\ n \in Nat /\ w.at + 1 \in Nat \ {0}
    BY DEF Work
  <2>3. Apply(w, e) = [head |-> w.head, list |-> l, passed |-> p, issues |-> n,
                       at |-> w.at + 1]
    BY <1>2 DEF Apply, Work
  <2>4. l \in Checklist
    BY <2>1 DEF Checklist
  <2> HIDE DEF l, p, n
  <2> QED
    BY <2>1, <2>2, <2>3, <2>4 DEF Work
<1>3. CASE e.item \notin DOMAIN w.list
  BY <1>3 DEF Apply, Work
<1> QED
  BY <1>2, <1>3

LEMMA TalliedType ==
    ASSUME NEW w \in Work
    PROVE  LET t == Tallied(Recounted(w)) IN
           /\ t \in Work
           /\ t.list = w.list
           /\ t.head.status = IF t.head.issues = 0 THEN "completed" ELSE "failed"
           /\ IsFinished(t.head)
<1>1. PICK v \in Work : v = Recounted(w) /\ v.list = w.list
  <2>1. w.list \in Checklist
    BY DEF Work
  <2>2. /\ Cardinality(With(w.list, TRUE)) \in Nat
        /\ Cardinality(With(w.list, FALSE)) \in Nat
    BY <2>1, WithType
  <2>3. Recounted(w) \in Work /\ Recounted(w).list = w.list
    BY <2>2 DEF Recounted, Work
  <2> QED
    BY <2>3
<1> DEFINE h == [status |-> IF v.issues = 0 THEN "completed" ELSE "failed",
                 passed |-> v.passed, issues |-> v.issues,
                 score  |-> Score(v.passed, v.passed + v.issues)]
<1>2. h \in Header
  <2>1. v.passed \in Nat /\ v.issues \in Nat /\ v.passed + v.issues \in Nat
    BY DEF Work
  <2>2. Score(v.passed, v.passed + v.issues) \in Nat
    BY <2>1, ScoreType
  <2> QED
    BY <2>1, <2>2 DEF Header, Status
<1>3. h.status = (IF h.issues = 0 THEN "completed" ELSE "failed") /\ IsFinished(h)
  BY DEF IsFinished
<1>4. Tallied(v) = [v EXCEPT !.head = h]
  BY DEF Tallied
<1> HIDE DEF h
<1>5. Tallied(v) \in Work /\ Tallied(v).list = v.list /\ Tallied(v).head = h
  BY <1>2, <1>4 DEF Work
<1> QED
  BY <1>1, <1>3, <1>5

LEMMA FormType ==
    ASSUME NEW f \in Form, NEW k \in Nat \ {0}, k <= Len(f)
    PROVE  f[k] \in Entry /\ k \in DOMAIN f
<1>1. PICK n \in 0..MaxForm : f \in [1..n -> Entry]
  BY DEF Form
<1>2. Len(f) = n
  BY <1>1, InspectionAssumption
<1> QED
  BY <1>1, <1>2

LEMMA NoWorkType == /\ NoWork \in Work /\ NoItems \in Checklist
                    /\ NoHeader \in Header /\ Planned \in Header
                    /\ SeedDone \in Header /\ <<>> \in Form
<1>1. NoItems \in Checklist
  BY DEF NoItems, Checklist
<1>2. NoHeader \in Header /\ Planned \in Header /\ SeedDone \in Header
  BY DEF NoHeader, Planned, SeedDone, Header, Status
<1>3. NoWork \in Work
  BY <1>1, <1>2 DEF NoWork, Work
<1>4. <<>> \in Form
  BY InspectionAssumption DEF Form
<1> QED
  BY <1>1, <1>2, <1>3, <1>4

(***************************************************************************)
(* The kinds of step                                                       *)
(***************************************************************************)
(* A request ends with an error, on arrival or in the middle.              *)
Ends(r) ==
    /\ pc[r] = "new" \/ InFlight(r)
    /\ \E status \in {400, 401, 403, 409, 500} : Fail(r, status)

Plans(r) ==
    /\ pc[r] = "new"
    /\ \E c \in Call, list \in Checklist : c.op = "create" /\ Create(r, c, list)

Submits(r) ==
    /\ pc[r] = "new"
    /\ \E c \in Call : c.op = "execute" /\ call' = [call EXCEPT ![r] = c]
    /\ pc' = [pc EXCEPT ![r] = "lock"]
    /\ UNCHANGED <<inspection, items, lock, work, reply, wrote, planned>>

Locks(r) ==
    LET i == call[r].id IN
    /\ pc[r] = "lock" /\ lock[i] = NoRequest
    /\ inspection[i].status \in Executable
    /\ lock' = [lock EXCEPT ![i] = r]
    /\ work' = [work EXCEPT ![r].head = inspection[i]]
    /\ pc' = [pc EXCEPT ![r] = "list"]
    /\ UNCHANGED <<inspection, items, call, reply, wrote, planned>>

Shows(r) ==
    /\ pc[r] = "new"
    /\ \E c \in Call : /\ c.op = "report"
                       /\ call' = [call EXCEPT ![r] = c]
                       /\ work' = [work EXCEPT ![r].head = inspection[c.id]]
    /\ pc' = [pc EXCEPT ![r] = "items"]
    /\ UNCHANGED <<inspection, items, lock, reply, wrote, planned>>

Step(r) == \/ Ends(r) \/ Plans(r) \/ Submits(r) \/ Locks(r) \/ ListItems(r)
           \/ UpdateItem(r) \/ SaveInspection(r) \/ Commit(r) \/ Shows(r)
           \/ ReadItems(r)

LEMMA NextCases ==
    ASSUME [Next]_vars
    PROVE  Restart \/ (\E r \in Request : Step(r)) \/ UNCHANGED vars
<1>1. ASSUME NEW r \in Request, PostCreate(r) PROVE Step(r)
  <2>1. pc[r] = "new"
    BY <1>1 DEF PostCreate
  <2>2. ASSUME NEW i \in Inspection, NEW list \in Checklist,
               Create(r, [op |-> "create", id |-> i, form |-> <<>>], list)
        PROVE  Plans(r)
    <3> DEFINE c == [op |-> "create", id |-> i, form |-> <<>>]
    <3>1. c \in Call /\ c.op = "create"
      BY NoWorkType DEF Call
    <3>2. Create(r, c, list)
      BY <2>2
    <3> HIDE DEF c
    <3> QED
      BY <2>1, <3>1, <3>2 DEF Plans
  <2>3. ASSUME NEW role, Refused(r, role, Planner) PROVE Ends(r)
    BY <2>1, <2>3 DEF Refused, Ends
  <2>4. Fail(r, 500) => Ends(r)
    BY <2>1 DEF Ends
  <2>5. \/ Ends(r)
        \/ \E i \in Inspection, list \in Checklist :
              Create(r, [op |-> "create", id |-> i, form |-> <<>>], list)
    BY <1>1, <2>3, <2>4 DEF PostCreate
  <2> QED
    BY <2>2, <2>5 DEF Step
<1>2. ASSUME NEW r \in Request, PostExecute(r) PROVE Step(r)
  <2>1. pc[r] = "new"
    BY <1>2 DEF PostExecute
  <2>2. ASSUME NEW i \in Inspection, NEW f \in Form,
               Execute(r, [op |-> "execute", id |-> i, form |-> f])
        PROVE  Submits(r)
    <3> DEFINE c == [op |-> "execute", id |-> i, form |-> f]
    <3>1. c \in Call /\ c.op = "execute"
      BY DEF Call
    <3>2. Execute(r, c)
      BY <2>2
    <3> HIDE DEF c
    <3> QED
      BY <2>1, <3>1, <3>2 DEF Submits, Execute
  <2>3. ASSUME NEW role, Refused(r, role, Planner) PROVE Ends(r)
    BY <2>1, <2>3 DEF Refused, Ends
  <2>4. \/ Ends(r)
        \/ \E i \in Inspection, f \in Form :
              Execute(r, [op |-> "execute", id |-> i, form |-> f])
    BY <1>2, <2>3 DEF PostExecute
  <2> QED
    BY <2>2, <2>4 DEF Step
<1>3. ASSUME NEW r \in Request, PostReport(r) PROVE Step(r)
  <2>1. pc[r] = "new"
    BY <1>3 DEF PostReport
  <2>2. ASSUME NEW i \in Inspection,
               FindByID(r, [op |-> "report", id |-> i, form |-> <<>>])
        PROVE  Shows(r)
    <3> DEFINE c == [op |-> "report", id |-> i, form |-> <<>>]
    <3>1. c \in Call /\ c.op = "report"
      BY NoWorkType DEF Call
    <3>2. FindByID(r, c)
      BY <2>2
    <3> HIDE DEF c
    <3> QED
      BY <2>1, <3>1, <3>2 DEF Shows, FindByID
  <2>3. ASSUME NEW role, Refused(r, role, Role) PROVE Ends(r)
    BY <2>1, <2>3 DEF Refused, Ends
  <2>4. Fail(r, 500) => Ends(r)
    BY <2>1 DEF Ends
  <2>5. \/ Ends(r)
        \/ \E i \in Inspection :
              FindByID(r, [op |-> "report", id |-> i, form |-> <<>>])
    BY <1>3, <2>3, <2>4 DEF PostReport
  <2> QED
    BY <2>2, <2>5 DEF Step
<1>4. ASSUME NEW r \in Request, FindByIDForUpdate(r) PROVE Step(r)
  BY <1>4 DEF FindByIDForUpdate, Step, Ends, Locks, InFlight
<1>5. ASSUME NEW r \in Request, Abort(r) PROVE Step(r)
  BY <1>5 DEF Abort, Step, Ends
<1> QED
  BY <1>1, <1>2, <1>3, <1>4, <1>5 DEF Next, Progress, Step

(***************************************************************************)
(* Types                                                                   *)
(***************************************************************************)
Called == \A r \in Request : InFlight(r) => call[r] \in Call

Typed == TypeOK /\ Called

LEMMA TypedInit == Init => Typed
<1> SUFFICES ASSUME Init PROVE Typed
  OBVIOUS
<1>1. inspection \in [Inspection -> Header] /\ work \in [Request -> Work]
  BY NoWorkType DEF Init
<1> QED
  BY <1>1 DEF Init, Typed, TypeOK, Called, InFlight

LEMMA UnlockedType ==
    ASSUME lock \in [Inspection -> Request \cup {NoRequest}], NEW r
    PROVE  Unlocked(r) \in [Inspection -> Request \cup {NoRequest}]
BY DEF Unlocked

LEMMA TypedStep ==
    ASSUME Typed, NEW r \in Request, Step(r)
    PROVE  Typed'
<1> USE DEF Typed, TypeOK
<1>1. CASE Ends(r)
  <2>1. call' \in [Request -> Call \cup {NoCall}]
        /\ \A q \in Request : InFlight(q)' => call'[q] \in Call
    BY <1>1 DEF Ends, Fail, Called, InFlight
  <2>2. lock' \in [Inspection -> Request \cup {NoRequest}]
    BY <1>1, UnlockedType DEF Ends, Fail
  <2>3. work' \in [Request -> Work]
    BY <1>1, NoWorkType DEF Ends, Fail
  <2>4. reply' \in [Request -> {0, 200, 400, 401, 403, 409, 500}]
    BY <1>1 DEF Ends, Fail
  <2> QED
    BY <1>1, <2>1, <2>2, <2>3, <2>4 DEF Ends, Fail, Called, InFlight
<1>2. CASE Plans(r)
  <2>1. PICK c \in Call, list \in Checklist : Create(r, c, list)
    BY <1>2 DEF Plans
  <2>2. [NoWork EXCEPT !.head = Planned, !.list = list] \in Work
    BY NoWorkType DEF Work
  <2>3. work' \in [Request -> Work]
    BY <2>1, <2>2 DEF Create
  <2>4. /\ lock' \in [Inspection -> Request \cup {NoRequest}]
        /\ call' \in [Request -> Call \cup {NoCall}]
    BY <2>1 DEF Create
  <2> QED
    BY <2>1, <2>3, <2>4 DEF Create, Called, InFlight
<1>3. CASE Submits(r)
  BY <1>3 DEF Submits, Called, InFlight
<1>4. CASE Locks(r)
  <2>1. inspection[call[r].id] \in Header
    BY <1>4 DEF Locks, Called, Call, InFlight
  <2>2. work' \in [Request -> Work]
    BY <1>4, <2>1 DEF Locks, Work
  <2> QED
    BY <1>4, <2>2 DEF Locks, Called, InFlight
<1>5. CASE ListItems(r)
  <2>1. items[call[r].id] \in Checklist
    BY <1>5 DEF ListItems, Called, Call, InFlight
  <2>2. work' \in [Request -> Work]
    BY <1>5, <2>1 DEF ListItems, Work
  <2> QED
    BY <1>5, <2>2 DEF ListItems, Called, InFlight
<1>6. CASE UpdateItem(r)
  <2> DEFINE f == call[r].form
  <2>1. f \in Form /\ work[r].at \in Nat \ {0} /\ work[r].at <= Len(f)
    BY <1>6 DEF UpdateItem, Called, Call, InFlight, Work
  <2>2. f[work[r].at] \in Entry
    BY <2>1, FormType
  <2>3. Apply(work[r], f[work[r].at]) \in Work
    BY <2>2, ApplyType
  <2> QED
    BY <1>6, <2>3 DEF UpdateItem, Called, InFlight
<1>7. CASE SaveInspection(r)
  <2>1. Tallied(Recounted(work[r])) \in Work
    BY TalliedType
  <2> QED
    BY <1>7, <2>1 DEF SaveInspection, Called, InFlight
<1>8. CASE Commit(r)
  <2>1. work[r].head \in Header /\ work[r].list \in Checklist
    BY DEF Work
  <2>2. /\ inspection' \in [Inspection -> Header]
        /\ items' \in [Inspection -> Checklist]
        /\ planned' \in [Inspection -> Checklist]
    BY <1>8, <2>1 DEF Commit
  <2>3. reply' \in [Request -> {0, 200, 400, 401, 403, 409, 500}]
    BY <1>8 DEF Commit
  <2> QED
    BY <1>8, <2>2, <2>3, NoWorkType, UnlockedType DEF Commit, Called, InFlight
<1>9. CASE Shows(r)
  <2>1. PICK c \in Call : /\ call' = [call EXCEPT ![r] = c]
                          /\ work' = [work EXCEPT ![r].head = inspection[c.id]]
    BY <1>9 DEF Shows
  <2>2. inspection[c.id] \in Header
    BY DEF Call
  <2>3. work' \in [Request -> Work]
    BY <2>1, <2>2 DEF Work
  <2> QED
    BY <1>9, <2>1, <2>3 DEF Shows, Called, InFlight
<1>10. CASE ReadItems(r)
  <2>1. items[call[r].id] \in Checklist
    BY <1>10 DEF ReadItems, Called, Call, InFlight
  <2>2. work' \in [Request -> Work]
    BY <1>10, <2>1 DEF ReadItems, Work
  <2> QED
    BY <1>10, <2>2 DEF ReadItems, Called, InFlight
<1> QED
  BY <1>1, <1>2, <1>3, <1>4, <1>5, <1>6, <1>7, <1>8, <1>9, <1>10 DEF Step

LEMMA TypedNext == Typed /\ [Next]_vars => Typed'
<1> SUFFICES ASSUME Typed, [Next]_vars PROVE Typed'
  OBVIOUS
<1>1. CASE Restart
  BY <1>1, NoWorkType DEF Restart, Typed, TypeOK, Called, InFlight
<1>2. CASE UNCHANGED vars
  BY <1>2 DEF vars, Typed, TypeOK, Called, InFlight
<1> QED
  BY <1>1, <1>2, TypedStep, NextCases

(* Every variable keeps its type: in particular counts and scores are      *)
(* natural numbers, and an item never loses its verdict.                   *)
THEOREM TypeCorrect == Spec => []TypeOK
<1>1. Typed => TypeOK
  BY DEF Typed
<1> QED
  BY <1>1, TypedInit, TypedNext, PTL DEF Spec

(***************************************************************************)
(* The lock and what it protects                                           *)
(***************************************************************************)
(* An execution that has passed its check of the status, or the creation   *)
(* of the row, ready to commit.                                            *)
Executing(r) == \/ pc[r] \in {"list", "loop"}
                \/ pc[r] = "commit" /\ call[r].op = "execute"

Creating(r) == pc[r] = "commit" /\ call[r].op = "create"

(* Whoever is between its check and its commit holds the lock of its row,  *)
(* the row is still what it was checked to be, and what is to be committed *)
(* is a result for the items that are stored.                              *)
Protected(r) ==
    LET i == call[r].id IN
    /\ pc[r] \in {"lock", "list", "loop"} => call[r].op = "execute"
    /\ pc[r] = "commit" => call[r].op \in {"create", "execute"}
    /\ Executing(r) => lock[i] = r /\ inspection[i].status = "scheduled"
    /\ Creating(r) => /\ lock[i] = r
                      /\ inspection[i] = NoHeader /\ work[r].head = Planned
    /\ Executing(r) /\ pc[r] # "list" => DOMAIN work[r].list = DOMAIN items[i]
    /\ Executing(r) /\ pc[r] = "commit" =>
          /\ IsFinished(work[r].head)
          /\ work[r].head.status =
                IF work[r].head.issues = 0 THEN "completed" ELSE "failed"

Guarded == /\ \A r \in Request : Protected(r)
           /\ \A i \in Inspection : inspection[i].status # "in_progress"

LEMMA GuardedInit == Init => Guarded
BY DEF Init, Guarded, Protected, Executing, Creating, NoHeader, Planned, SeedDone

(* A step that leaves what request q holds and the row of its inspection   *)
(* alone leaves q protected.                                               *)
Undisturbed(q) ==
    /\ pc'[q] = pc[q] /\ call'[q] = call[q] /\ work'[q] = work[q]
    /\ Executing(q) \/ Creating(q) =>
          LET i == call[q].id IN
          lock'[i] = lock[i] /\ inspection'[i] = inspection[i] /\ items'[i] = items[i]

LEMMA StaysProtected ==
    ASSUME NEW q, Protected(q), Undisturbed(q)
    PROVE  Protected(q)'
BY DEF Protected, Undisturbed, Executing, Creating

(* A step of r disturbs nobody else: it writes only under its own lock.    *)
LEMMA OthersUndisturbed ==
    ASSUME Typed, Guarded, NEW r \in Request, Step(r), NEW q \in Request \ {r}
    PROVE  Undisturbed(q)
<1> USE DEF Typed, TypeOK
<1>1. /\ pc'[q] = pc[q] /\ call'[q] = call[q] /\ work'[q] = work[q]
  <2>1. CASE Ends(r)
    BY <2>1 DEF Ends, Fail
  <2>2. CASE Plans(r)
    BY <2>2 DEF Plans, Create
  <2>3. CASE Submits(r) \/ Locks(r) \/ ListItems(r)
    BY <2>3 DEF Submits, Locks, ListItems
  <2>4. CASE UpdateItem(r) \/ SaveInspection(r) \/ Commit(r)
    BY <2>4 DEF UpdateItem, SaveInspection, Commit
  <2>5. CASE Shows(r) \/ ReadItems(r)
    BY <2>5 DEF Shows, ReadItems
  <2> QED
    BY <2>1, <2>2, <2>3, <2>4, <2>5 DEF Step
<1> SUFFICES ASSUME Executing(q) \/ Creating(q)
             PROVE  LET i == call[q].id IN
                    /\ lock'[i] = lock[i]
                    /\ inspection'[i] = inspection[i]
                    /\ items'[i] = items[i]
  BY <1>1 DEF Undisturbed
<1> DEFINE i == call[q].id
<1>2. /\ i \in Inspection /\ lock[i] = q /\ q # NoRequest
      /\ pc[q] \in {"list", "loop", "commit"}
  BY InspectionAssumption DEF Guarded, Protected, Executing, Creating, Called, Call, InFlight
<1>3. lock'[i] = lock[i]
  <2>1. CASE Ends(r) \/ Commit(r)
    <3>1. lock' = Unlocked(r)
      BY <2>1 DEF Ends, Fail, Commit
    <3> QED
      BY <1>2, <3>1 DEF Unlocked
  <2>2. CASE Plans(r) \/ Locks(r)
    <3>1. PICK j : lock[j] = NoRequest /\ lock' = [lock EXCEPT ![j] = r]
      BY <2>2 DEF Plans, Create, Locks
    <3> QED
      BY <1>2, <3>1
  <2> QED
    BY <2>1, <2>2 DEF Step, Submits, ListItems, UpdateItem, SaveInspection, Shows,
                      ReadItems
<1>4. inspection'[i] = inspection[i] /\ items'[i] = items[i]
  <2>1. CASE Commit(r)
    <3>1. lock[call[r].id] = r
      BY <2>1 DEF Commit, Guarded, Protected, Executing, Creating
    <3>2. call[r].id # i
      BY <3>1, <1>2
    <3> QED
      BY <2>1, <3>2, <1>2 DEF Commit
  <2> QED
    BY <2>1 DEF Step, Ends, Fail, Plans, Create, Submits, Locks, ListItems,
                UpdateItem, SaveInspection, Shows, ReadItems
<1> QED
  BY <1>3, <1>4

(* The step of r itself: the lock is taken before the check, the items are *)
(* read under it, and it is given back only with the end of the request.   *)
LEMMA SelfProtected ==
    ASSUME Typed, Guarded, NEW r \in Request, Step(r)
    PROVE  Protected(r)'
<1> USE DEF Typed, TypeOK
<1>1. CASE Ends(r) \/ Shows(r) \/ ReadItems(r)
  <2>1. pc'[r] \in {"done", "items"}
    BY <1>1 DEF Ends, Fail, Shows, ReadItems
  <2> QED
    BY <2>1 DEF Protected, Executing, Creating
<1>2. CASE Plans(r)
  <2>1. PICK c \in Call, list \in Checklist : c.op = "create" /\ Create(r, c, list)
    BY <1>2 DEF Plans
  <2>2. /\ pc'[r] = "commit" /\ call'[r] = c /\ lock'[c.id] = r
        /\ work'[r] = [NoWork EXCEPT !.head = Planned, !.list = list]
        /\ inspection'[c.id] = NoHeader
    BY <2>1 DEF Create, Call
  <2>3. work'[r].head = Planned
    BY <2>2 DEF NoWork
  <2> QED
    BY <2>1, <2>2, <2>3 DEF Protected, Executing, Creating
<1>3. CASE Submits(r)
  <2>1. pc'[r] = "lock" /\ call'[r].op = "execute"
    BY <1>3 DEF Submits
  <2> QED
    BY <2>1 DEF Protected, Executing, Creating
<1>4. CASE Locks(r)
  <2>1. /\ pc'[r] = "list" /\ call' = call /\ inspection' = inspection
        /\ call[r].op = "execute" /\ call[r].id \in Inspection
    BY <1>4 DEF Locks, Guarded, Protected, Called, Call, InFlight
  <2>2. lock'[call[r].id] = r
    BY <1>4, <2>1 DEF Locks
  <2>3. inspection[call[r].id].status = "scheduled"
    BY <1>4, <2>1 DEF Locks, Guarded, Executable
  <2> QED
    BY <2>1, <2>2, <2>3 DEF Protected, Executing, Creating
<1>5. CASE ListItems(r)
  <2>1. /\ pc'[r] = "loop" /\ work'[r].list = items[call[r].id]
        /\ UNCHANGED <<call, inspection, lock, items>>
    BY <1>5 DEF ListItems, Work
  <2>2. /\ call[r].op = "execute" /\ lock[call[r].id] = r
        /\ inspection[call[r].id].status = "scheduled"
    BY <1>5 DEF ListItems, Guarded, Protected, Executing
  <2> QED
    BY <2>1, <2>2 DEF Protected, Executing, Creating
<1>6. CASE UpdateItem(r)
  <2> DEFINE f == call[r].form
  <2>1. f \in Form /\ work[r].at \in Nat \ {0} /\ work[r].at <= Len(f)
    BY <1>6 DEF UpdateItem, Called, Call, InFlight, Work
  <2>2. f[work[r].at] \in Entry
    BY <2>1, FormType
  <2>3. DOMAIN Apply(work[r], f[work[r].at]).list = DOMAIN work[r].list
    BY <2>2, ApplyType
  <2>4. DOMAIN work'[r].list = DOMAIN work[r].list
    BY <1>6, <2>3 DEF UpdateItem
  <2>5. pc[r] = "loop" /\ UNCHANGED <<pc, call, inspection, lock, items>>
    BY <1>6 DEF UpdateItem
  <2> QED
    BY <2>4, <2>5 DEF Guarded, Protected, Executing, Creating
<1>7. CASE SaveInspection(r)
  <2>1. /\ work'[r] = Tallied(Recounted(work[r]))
        /\ pc[r] = "loop" /\ pc'[r] = "commit"
        /\ UNCHANGED <<call, inspection, lock, items>>
    BY <1>7 DEF SaveInspection
  <2>2. /\ work'[r].list = work[r].list
        /\ work'[r].head.status =
              IF work'[r].head.issues = 0 THEN "completed" ELSE "failed"
        /\ IsFinished(work'[r].head)
    BY <2>1, TalliedType
  <2>3. /\ call[r].op = "execute" /\ lock[call[r].id] = r
        /\ inspection[call[r].id].status = "scheduled"
        /\ DOMAIN work[r].list = DOMAIN items[call[r].id]
    BY <2>1 DEF Guarded, Protected, Executing
  <2> QED
    BY <2>1, <2>2, <2>3 DEF Protected, Executing, Creating, IsFinished
<1>8. CASE Commit(r)
  <2>1. pc'[r] = "done"
    BY <1>8 DEF Commit
  <2> QED
    BY <2>1 DEF Protected, Executing, Creating
<1> QED
  BY <1>1, <1>2, <1>3, <1>4, <1>5, <1>6, <1>7, <1>8 DEF Step

LEMMA GuardedNext == Typed /\ Guarded /\ [Next]_vars => Guarded'
<1> SUFFICES ASSUME Typed, Guarded, [Next]_vars PROVE Guarded'
  OBVIOUS
<1>1. CASE Restart
  <2>1. \A r \in Request : pc'[r] \in {"new", "done", "killed"}
    BY <1>1 DEF Restart, InFlight, Typed, TypeOK
  <2>2. inspection' = inspection
    BY <1>1 DEF Restart
  <2> QED
    BY <2>1, <2>2 DEF Guarded, Protected, Executing, Creating
<1>2. CASE UNCHANGED vars
  <2>1. \A r \in Request : Undisturbed(r)
    BY <1>2 DEF vars, Undisturbed
  <2> QED
    BY <1>2, <2>1, StaysProtected DEF vars, Guarded
<1>3. ASSUME NEW r \in Request, Step(r) PROVE Guarded'
  <2>1. \A q \in Request : Protected(q)'
    BY <1>3, OthersUndisturbed, StaysProtected, SelfProtected DEF Guarded
  <2>2. \A i \in Inspection : inspection'[i].status # "in_progress"
    <3>1. CASE Commit(r)
      <4>1. work[r].head.status # "in_progress"
        BY <3>1 DEF Commit, Guarded, Protected, Executing, Creating, IsFinished,
                    Planned
      <4> QED
        BY <3>1, <4>1 DEF Commit, Guarded, Typed, TypeOK
    <3> QED
      BY <1>3, <3>1 DEF Step, Guarded, Ends, Fail, Plans, Create, Submits, Locks,
                        ListItems, UpdateItem, SaveInspection, Shows, ReadItems
  <2> QED
    BY <2>1, <2>2 DEF Guarded
<1> QED
  BY <1>1, <1>2, <1>3, NextCases

(***************************************************************************)
(* Executed once, final, reported whole                                    *)
(***************************************************************************)
LEMMA TableCases ==
    ASSUME [Next]_vars
    PROVE  UNCHANGED <<inspection, items, wrote, planned>> \/ \E r \in Request : Commit(r)
<1>1. ASSUME NEW r \in Request, Step(r)
      PROVE  UNCHANGED <<inspection, items, wrote, planned>> \/ Commit(r)
  BY <1>1 DEF Step, Ends, Fail, Plans, Create, Submits, Locks, ListItems,
              UpdateItem, SaveInspection, Shows, ReadItems
<1> QED
  BY <1>1, NextCases DEF Restart, vars

(* What a commit does: it makes a planned inspection of an absent one or a *)
(* finished one of a scheduled one, and touches no other.                  *)
LEMMA CommitWrites ==
    ASSUME Typed, Guarded, NEW r \in Request, Commit(r)
    PROVE  LET i == call[r].id IN
           /\ call[r] \in Call /\ i \in Inspection /\ call' = call
           /\ wrote' = [wrote EXCEPT ![r] = TRUE]
           /\ inspection' = [inspection EXCEPT ![i] = work[r].head]
           /\ items' = [items EXCEPT ![i] = work[r].list]
           /\ \/ /\ call[r].op = "create"
                 /\ inspection[i].status = "absent" /\ work[r].head = Planned
              \/ /\ call[r].op = "execute"
                 /\ inspection[i].status = "scheduled"
                 /\ IsFinished(work[r].head)
                 /\ work[r].head.status =
                      IF work[r].head.issues = 0 THEN "completed" ELSE "failed"
                 /\ DOMAIN work[r].list = DOMAIN items[i]
<1>1. pc[r] = "commit" /\ call[r] \in Call /\ call[r].id \in Inspection
  BY DEF Commit, Typed, Called, Call, InFlight
<1>2. Protected(r)
  BY DEF Guarded
<1>3. call[r].op \in {"create", "execute"}
  BY <1>1, <1>2 DEF Protected
<1>4. CASE call[r].op = "create"
  BY <1>1, <1>2, <1>4 DEF Commit, Protected, Creating, NoHeader
<1>5. CASE call[r].op = "execute"
  BY <1>1, <1>2, <1>5 DEF Commit, Protected, Executing
<1> QED
  BY <1>3, <1>4, <1>5

(* A finished inspection stays as it is.                                   *)
LEMMA FinishedStays ==
    ASSUME Typed, Guarded, [Next]_vars, NEW i \in Inspection,
           IsFinished(inspection[i])
    PROVE  inspection'[i] = inspection[i] /\ items'[i] = items[i]
<1>1. ASSUME NEW r \in Request, Commit(r)
      PROVE  inspection'[i] = inspection[i] /\ items'[i] = items[i]
  <2>1. call[r].id # i
    BY <1>1, CommitWrites DEF IsFinished
  <2> QED
    BY <1>1, <2>1, CommitWrites DEF Typed, TypeOK
<1> QED
  BY <1>1, TableCases

(* The result of a finished inspection never changes, whatever requests    *)
(* race for it and wherever they fail.                                     *)
THEOREM FinalResult == Spec => FinishedIsFinal
<1>1. Typed /\ Guarded /\ [Next]_vars =>
         [\A i \in Inspection : IsFinished(inspection[i]) =>
             inspection'[i] = inspection[i] /\ items'[i] = items[i]]_vars
  BY FinishedStays
<1> QED
  BY <1>1, TypedInit, TypedNext, GuardedInit, GuardedNext, PTL
     DEF Spec, FinishedIsFinal

(* Who wrote is done, and an inspection that was executed is finished.     *)
Settled ==
    \A r \in Request : wrote[r] =>
        /\ pc[r] = "done" /\ call[r] \in Call
        /\ call[r].op = "execute" => IsFinished(inspection[call[r].id])

(* A request that wrote stays as it ended.                                 *)
LEMMA DoneStays ==
    ASSUME Typed, Guarded, Settled, [Next]_vars, NEW q \in Request, wrote[q]
    PROVE  pc'[q] = "done" /\ call'[q] = call[q]
<1> USE DEF Typed, TypeOK
<1>1. ASSUME NEW r \in Request, Step(r)
      PROVE  pc'[q] = "done" /\ call'[q] = call[q]
  <2>1. pc[q] = "done"
    BY <1>1 DEF Settled
  <2>2. q # r
    BY <1>1, <2>1 DEF Step, Ends, InFlight, Plans, Submits, Locks, ListItems,
                      UpdateItem, SaveInspection, Commit, Shows, ReadItems
  <2> QED
    BY <1>1, <2>1, <2>2, OthersUndisturbed DEF Undisturbed
<1>2. CASE Restart
  BY <1>2 DEF Restart, InFlight, Settled
<1> QED
  BY <1>1, <1>2, NextCases DEF vars, Settled

LEMMA SettledStep ==
    ASSUME Typed, Guarded, Settled, ExecutedOnce, [Next]_vars
    PROVE  Settled' /\ ExecutedOnce'
<1> USE DEF Typed, TypeOK
<1>1. \A q \in Request : wrote[q] => pc'[q] = "done" /\ call'[q] = call[q]
  BY DoneStays
<1>2. CASE UNCHANGED <<inspection, items, wrote, planned>>
  BY <1>1, <1>2 DEF Settled, ExecutedOnce, Executions
<1>3. ASSUME NEW r \in Request, Commit(r) PROVE Settled' /\ ExecutedOnce'
  <2> DEFINE i == call[r].id
  <2>1. /\ i \in Inspection /\ call' = call /\ call[r] \in Call
        /\ wrote' = [wrote EXCEPT ![r] = TRUE]
        /\ inspection' = [inspection EXCEPT ![i] = work[r].head]
        /\ call[r].op = "execute" => /\ ~IsFinished(inspection[i])
                                     /\ IsFinished(work[r].head)
    BY <1>3, CommitWrites DEF IsFinished
  <2>2. pc'[r] = "done"
    BY <1>3 DEF Commit
  <2>3. ASSUME NEW q \in Request, wrote'[q], call[q].op = "execute"
        PROVE  IsFinished(inspection'[call[q].id])
    <3>1. CASE q = r
      BY <2>1, <2>3, <3>1
    <3>2. CASE q # r
      <4>1. wrote[q] /\ IsFinished(inspection[call[q].id])
            /\ call[q].id \in Inspection
        BY <2>1, <2>3, <3>2 DEF Settled, Call
      <4> QED
        BY <4>1, FinishedStays
    <3> QED
      BY <3>1, <3>2
  <2>4. Settled'
    BY <1>1, <2>1, <2>2, <2>3 DEF Settled
  <2>5. ASSUME NEW j \in Inspection, NEW p \in Executions(j)',
               NEW q \in Executions(j)'
        PROVE  p = q
    <3>1. CASE p # r /\ q # r
      BY <2>1, <2>5, <3>1 DEF Executions, ExecutedOnce
    <3>2. CASE p = r /\ q # r
      <4>1. q \in Request /\ wrote'[q] /\ call'[q].op = "execute" /\ call'[q].id = j
            /\ call'[r].op = "execute" /\ call'[r].id = j
        BY <2>5, <3>2 DEF Executions
      <4>2. q \in Request /\ wrote[q] /\ call[q].op = "execute" /\ call[q].id = j
            /\ call[r].op = "execute" /\ i = j
        BY <2>1, <3>2, <4>1
      <4>3. IsFinished(inspection[j])
        BY <4>2 DEF Settled
      <4> QED
        BY <2>1, <4>2, <4>3
    <3>3. CASE q = r /\ p # r
      <4>1. p \in Request /\ wrote'[p] /\ call'[p].op = "execute" /\ call'[p].id = j
            /\ call'[r].op = "execute" /\ call'[r].id = j
        BY <2>5, <3>3 DEF Executions
      <4>2. p \in Request /\ wrote[p] /\ call[p].op = "execute" /\ call[p].id = j
            /\ call[r].op = "execute" /\ i = j
        BY <2>1, <3>3, <4>1
      <4>3. IsFinished(inspection[j])
        BY <4>2 DEF Settled
      <4> QED
        BY <2>1, <4>2, <4>3
    <3> QED
      BY <3>1, <3>2, <3>3
  <2> QED
    BY <2>4, <2>5 DEF ExecutedOnce
<1> QED
  BY <1>2, <1>3, TableCases

LEMMA SettledAlways == Spec => [](Typed /\ Guarded /\ Settled /\ ExecutedOnce)
<1>1. Init => Settled /\ ExecutedOnce
  BY DEF Init, Settled, ExecutedOnce, Executions
<1>2. Typed /\ Guarded /\ Settled /\ ExecutedOnce /\ [Next]_vars
         => Settled' /\ ExecutedOnce'
  BY SettledStep
<1> QED
  BY <1>1, <1>2, TypedInit, TypedNext, GuardedInit, GuardedNext, PTL DEF Spec

(* An inspection is executed once at most, however many inspectors submit  *)
(* it at the same time or again after a lost answer.                       *)
THEOREM OneExecution == Spec => []ExecutedOnce
BY SettledAlways, PTL

(***************************************************************************)
(* A report                                                                *)
(***************************************************************************)
(* A report that read the header of a finished inspection holds the header *)
(* that is stored; once it has read the items, it holds those too.         *)
Shown(r) ==
    LET i == call[r].id IN
    /\ pc[r] = "items" => call[r] \in Call /\ call[r].op = "report"
    /\ call[r].op = "report" /\ IsFinished(work[r].head) =>
          /\ pc[r] = "items" => work[r].head = inspection[i]
          /\ pc[r] = "done" /\ reply[r] = 200 =>
                work[r].head = inspection[i] /\ work[r].list = items[i]

ShownAll == \A r \in Request : Shown(r)

LEMMA ShownInit == Init => ShownAll
BY DEF Init, ShownAll, Shown, NoWork, NoHeader, IsFinished

LEMMA ShownStep ==
    ASSUME Typed, Guarded, ShownAll, [Next]_vars
    PROVE  ShownAll'
<1> USE DEF Typed, TypeOK
<1> SUFFICES ASSUME NEW q \in Request PROVE Shown(q)'
  BY DEF ShownAll
<1>1. \A i \in Inspection : IsFinished(inspection[i]) =>
         inspection'[i] = inspection[i] /\ items'[i] = items[i]
  BY FinishedStays
<1>2. /\ call[q].op = "report" => call[q].id \in Inspection
      /\ Shown(q)
  BY DEF Call, NoCall, ShownAll
<1>3. ASSUME pc'[q] = pc[q], call'[q] = call[q], work'[q] = work[q],
             reply'[q] = reply[q]
      PROVE  Shown(q)'
  BY <1>1, <1>2, <1>3 DEF Shown
<1>4. CASE UNCHANGED vars
  BY <1>3, <1>4 DEF vars
<1>5. CASE Restart
  <2>1. InFlight(q) => pc'[q] = "killed"
    BY <1>5 DEF Restart
  <2>2. ~InFlight(q) => /\ pc'[q] = pc[q] /\ call'[q] = call[q]
                        /\ work'[q] = work[q] /\ reply'[q] = reply[q]
    BY <1>5 DEF Restart
  <2> QED
    BY <1>3, <2>1, <2>2 DEF Shown
<1>6. ASSUME NEW r \in Request, Step(r), r # q PROVE Shown(q)'
  <2>1. pc'[q] = pc[q] /\ call'[q] = call[q] /\ work'[q] = work[q]
    BY <1>6, OthersUndisturbed DEF Undisturbed
  <2>2. reply'[q] = reply[q]
    <3>1. CASE Ends(r)
      BY <1>6, <3>1 DEF Ends, Fail
    <3>2. CASE Commit(r) \/ ReadItems(r)
      BY <1>6, <3>2 DEF Commit, ReadItems
    <3> QED
      BY <1>6, <3>1, <3>2 DEF Step, Plans, Create, Submits, Locks, ListItems,
                              UpdateItem, SaveInspection, Shows
  <2> QED
    BY <1>3, <2>1, <2>2
<1>7. ASSUME Step(q) PROVE Shown(q)'
  <2>1. CASE Ends(q)
    <3>1. pc'[q] = "done" /\ reply'[q] # 200
      BY <2>1 DEF Ends, Fail
    <3> QED
      BY <3>1 DEF Shown
  <2>2. CASE Shows(q)
    <3>1. PICK c \in Call : /\ c.op = "report" /\ call' = [call EXCEPT ![q] = c]
                            /\ work' = [work EXCEPT ![q].head = inspection[c.id]]
      BY <2>2 DEF Shows
    <3>2. /\ pc'[q] = "items" /\ call'[q] = c
          /\ work'[q].head = inspection[c.id] /\ inspection' = inspection
      BY <2>2, <3>1 DEF Shows, Work
    <3> QED
      BY <3>1, <3>2 DEF Shown
  <2>3. CASE ReadItems(q)
    <3>1. /\ pc[q] = "items" /\ pc'[q] = "done" /\ call' = call
          /\ work'[q].head = work[q].head
          /\ work'[q].list = items[call[q].id]
          /\ UNCHANGED <<inspection, items>>
      BY <2>3 DEF ReadItems, Work
    <3>2. IsFinished(work[q].head) => work[q].head = inspection[call[q].id]
      BY <1>2, <3>1 DEF Shown
    <3>3. IsFinished(work'[q].head) =>
             /\ work'[q].head = inspection'[call'[q].id]
             /\ work'[q].list = items'[call'[q].id]
      BY <3>1, <3>2
    <3> QED
      BY <3>1, <3>3 DEF Shown
  <2>4. CASE Plans(q) \/ Submits(q)
    <3>1. pc'[q] \in {"commit", "lock"}
      <4>1. CASE Plans(q)
        BY <4>1 DEF Plans, Create
      <4>2. CASE Submits(q)
        BY <4>2 DEF Submits
      <4> QED
        BY <2>4, <4>1, <4>2
    <3> QED
      BY <3>1 DEF Shown
  <2>5. CASE Locks(q) \/ ListItems(q) \/ UpdateItem(q) \/ SaveInspection(q)
    <3>1. pc'[q] \in {"list", "loop", "commit"}
      BY <2>5 DEF Locks, ListItems, UpdateItem, SaveInspection
    <3> QED
      BY <3>1 DEF Shown
  <2>6. CASE Commit(q)
    <3>1. pc'[q] = "done" /\ work'[q] = NoWork
      BY <2>6 DEF Commit
    <3> QED
      BY <3>1 DEF Shown, NoWork, NoHeader, IsFinished
  <2> QED
    BY <1>7, <2>1, <2>2, <2>3, <2>4, <2>5, <2>6 DEF Step
<1> QED
  BY <1>4, <1>5, <1>6, <1>7, NextCases

(* The two reads of a report of a finished inspection fit together.        *)
THEOREM WholeReport == Spec => []ReportIsWhole
<1>1. ShownAll => ReportIsWhole
  BY DEF ShownAll, Shown, ReportIsWhole
<1>2. Typed /\ Guarded /\ ShownAll /\ [Next]_vars => ShownAll'
  BY ShownStep
<1> QED
  BY <1>1, <1>2, ShownInit, TypedInit, TypedNext, GuardedInit, GuardedNext, PTL
     DEF Spec

(***************************************************************************)
(* The walk through a submitted form                                       *)
(***************************************************************************)
(* The entries before the n-th that were counted with verdict v, and those *)
(* that gave a verdict on item x.                                          *)
Counted(f, list, n, v) ==
    {k \in DOMAIN f : k < n /\ f[k].item \in DOMAIN list /\ f[k].passed = v}

NamedBefore(f, n, x) == {k \in DOMAIN f : k < n /\ f[k].item = x}

(* Execution w of the inspection planned with list, before entry w.at of   *)
(* form f: an item has the last verdict given on it so far, and each       *)
(* verdict on an item of the inspection was counted.                       *)
Walked(w, f, list) ==
    /\ w.at <= Len(f) + 1
    /\ DOMAIN w.list = DOMAIN list
    /\ \A x \in DOMAIN list :
          \/ NamedBefore(f, w.at, x) = {} /\ w.list[x] = list[x]
          \/ \E k \in NamedBefore(f, w.at, x) :
                /\ \A j \in NamedBefore(f, w.at, x) : j <= k
                /\ w.list[x] = f[k].passed
    /\ w.passed = Cardinality(Counted(f, list, w.at, TRUE))
    /\ w.issues = Cardinality(Counted(f, list, w.at, FALSE))

(* The header that executing list with form f should store.                *)
Result(f, list) ==
    LET p == Tally(f, list, TRUE)
        n == Tally(f, list, FALSE)
    IN  [status |-> IF n = 0 THEN "completed" ELSE "failed",
         passed |-> p, issues |-> n, score |-> Score(p, p + n)]

(* An execution starts its walk from nothing, walks through the items as   *)
(* they were planned, and commits the result of its form on them.          *)
FromOneForm(r) ==
    LET i == call[r].id
        f == call[r].form
        w == work[r]
    IN  /\ pc[r] \in {"new", "lock"} => w = NoWork
        /\ Executing(r) => items[i] = planned[i]
        /\ pc[r] = "list" => w.passed = 0 /\ w.issues = 0 /\ w.at = 1
        /\ pc[r] = "loop" => Walked(w, f, planned[i])
        /\ Executing(r) /\ pc[r] = "commit" =>
              w.list = Verdicts(f, planned[i]) /\ w.head = Result(f, planned[i])

LEMMA FormShape ==
    ASSUME NEW f \in Form
    PROVE  /\ Len(f) \in Nat /\ DOMAIN f = 1..Len(f) /\ IsFiniteSet(DOMAIN f)
           /\ \A k \in DOMAIN f : f[k] \in Entry
<1>1. PICK n \in 0..MaxForm : f \in [1..n -> Entry]
  BY DEF Form
<1>2. n \in Nat /\ Len(f) = n /\ DOMAIN f = 1..n
  BY <1>1, InspectionAssumption
<1>3. IsFiniteSet(1..n)
  BY <1>2, FS_Interval
<1> QED
  BY <1>1, <1>2, <1>3

LEMMA ChecklistShape ==
    ASSUME NEW l \in Checklist
    PROVE  l \in [DOMAIN l -> BOOLEAN] /\ DOMAIN l \subseteq Item
BY DEF Checklist

LEMMA CountedIsFinite ==
    ASSUME NEW f \in Form, NEW list, NEW n, NEW v
    PROVE  /\ IsFiniteSet(Counted(f, list, n, v))
           /\ Cardinality(Counted(f, list, n, v)) \in Nat
<1>1. Counted(f, list, n, v) \subseteq DOMAIN f
  BY DEF Counted
<1>2. IsFiniteSet(Counted(f, list, n, v))
  BY <1>1, FormShape, FS_Subset
<1> QED
  BY <1>2, FS_CardinalityType

(* One entry further on, that entry is counted if it names an item.        *)
LEMMA CountedNext ==
    ASSUME NEW f \in Form, NEW list, NEW n \in DOMAIN f, NEW v
    PROVE  Cardinality(Counted(f, list, n + 1, v)) =
              IF f[n].item \in DOMAIN list /\ f[n].passed = v
              THEN Cardinality(Counted(f, list, n, v)) + 1
              ELSE Cardinality(Counted(f, list, n, v))
<1> DEFINE C == Counted(f, list, n, v)
<1>1. \A k \in DOMAIN f : k \in Nat /\ (k < n + 1 <=> k < n \/ k = n)
  BY FormShape
<1>2. CASE f[n].item \in DOMAIN list /\ f[n].passed = v
  <2>1. Counted(f, list, n + 1, v) = C \cup {n} /\ n \notin C
    BY <1>1, <1>2 DEF Counted
  <2>2. IsFiniteSet(C)
    BY CountedIsFinite
  <2> HIDE DEF C
  <2>3. Cardinality(C \cup {n}) = Cardinality(C) + 1
    BY <2>1, <2>2, FS_AddElement
  <2> QED
    BY <1>2, <2>1, <2>3 DEF C
<1>3. CASE ~(f[n].item \in DOMAIN list /\ f[n].passed = v)
  <2>1. Counted(f, list, n + 1, v) = C
    BY <1>1, <1>3 DEF Counted
  <2> QED
    BY <1>3, <2>1
<1> QED
  BY <1>2, <1>3

LEMMA NamedNext ==
    ASSUME NEW f \in Form, NEW n \in DOMAIN f, NEW x
    PROVE  /\ f[n].item = x => NamedBefore(f, n + 1, x) = NamedBefore(f, n, x) \cup {n}
           /\ f[n].item # x => NamedBefore(f, n + 1, x) = NamedBefore(f, n, x)
<1>1. \A k \in DOMAIN f : k \in Nat /\ (k < n + 1 <=> k < n \/ k = n)
  BY FormShape
<1> QED
  BY <1>1 DEF NamedBefore

(* The walk starts before the first entry with the items as they were read. *)
LEMMA WalkStarts ==
    ASSUME NEW w \in Work, NEW f \in Form, w.passed = 0, w.issues = 0, w.at = 1
    PROVE  Walked(w, f, w.list)
<1>1. \A k \in DOMAIN f : ~(k < 1)
  BY FormShape
<1>2. /\ \A x : NamedBefore(f, 1, x) = {}
      /\ \A v \in BOOLEAN : Counted(f, w.list, 1, v) = {}
  BY <1>1 DEF NamedBefore, Counted
<1>3. 1 <= Len(f) + 1
  BY FormShape
<1> QED
  BY <1>2, <1>3, FS_EmptySet DEF Walked

(* Every entry takes the walk one entry further.                           *)
LEMMA WalkStep ==
    ASSUME NEW w \in Work, NEW f \in Form, NEW list \in Checklist,
           Walked(w, f, list), w.at <= Len(f)
    PROVE  Walked(Apply(w, f[w.at]), f, list)
<1> DEFINE n == w.at
           e == f[n]
           u == Apply(w, e)
<1>1. n \in Nat /\ n \in DOMAIN f /\ e \in Entry
  BY FormType, FormShape DEF Work
<1>2. u \in Work /\ DOMAIN u.list = DOMAIN list /\ u.at = n + 1
  BY <1>1, ApplyType DEF Walked, Apply, Work
<1>3. u.at <= Len(f) + 1
  BY <1>1, <1>2, FormShape
<1>4. ASSUME NEW x \in DOMAIN list
      PROVE  \/ NamedBefore(f, u.at, x) = {} /\ u.list[x] = list[x]
             \/ \E k \in NamedBefore(f, u.at, x) :
                   /\ \A j \in NamedBefore(f, u.at, x) : j <= k
                   /\ u.list[x] = f[k].passed
  <2>1. CASE e.item = x
    <3>1. u.list[x] = e.passed
      BY <2>1 DEF Apply, Work, Walked
    <3>2. NamedBefore(f, u.at, x) = NamedBefore(f, n, x) \cup {n}
      BY <1>1, <1>2, <2>1, NamedNext
    <3>3. \A j \in NamedBefore(f, n, x) : j <= n
      BY <1>1, FormShape DEF NamedBefore
    <3>4. \A j \in NamedBefore(f, u.at, x) : j <= n
      BY <1>1, <3>2, <3>3
    <3> QED
      BY <3>1, <3>2, <3>4
  <2>2. CASE e.item # x
    <3>1. u.list[x] = w.list[x]
      BY <2>2 DEF Apply, Work, Walked
    <3>2. NamedBefore(f, u.at, x) = NamedBefore(f, n, x)
      BY <1>1, <1>2, <2>2, NamedNext
    <3> QED
      BY <3>1, <3>2 DEF Walked
  <2> QED
    BY <2>1, <2>2
<1>5. /\ u.passed = Cardinality(Counted(f, list, u.at, TRUE))
      /\ u.issues = Cardinality(Counted(f, list, u.at, FALSE))
  <2>1. e.passed \in BOOLEAN /\ DOMAIN w.list = DOMAIN list
    BY <1>1 DEF Entry, Walked
  <2>2. /\ u.passed = IF e.item \in DOMAIN list /\ e.passed = TRUE
                      THEN w.passed + 1 ELSE w.passed
        /\ u.issues = IF e.item \in DOMAIN list /\ e.passed = FALSE
                      THEN w.issues + 1 ELSE w.issues
    BY <2>1 DEF Apply, Work
  <2>3. ASSUME NEW v \in BOOLEAN
        PROVE  Cardinality(Counted(f, list, n + 1, v)) =
                  IF e.item \in DOMAIN list /\ e.passed = v
                  THEN Cardinality(Counted(f, list, n, v)) + 1
                  ELSE Cardinality(Counted(f, list, n, v))
    BY <1>1, CountedNext
  <2>4. /\ w.passed = Cardinality(Counted(f, list, n, TRUE))
        /\ w.issues = Cardinality(Counted(f, list, n, FALSE))
    BY DEF Walked
  <2> HIDE DEF n, e, u
  <2> QED
    BY <1>2, <2>2, <2>3, <2>4
<1> QED
  BY <1>2, <1>3, <1>4, <1>5 DEF Walked

(* The last entry for an item is the one behind which no other names it.   *)
LEMMA LastIsLast ==
    ASSUME NEW f \in Form, NEW x, NEW k \in DOMAIN f, f[k].item = x,
           \A j \in DOMAIN f : f[j].item = x => j <= k
    PROVE  LastNaming(f, x) = k
<1>1. \A m \in DOMAIN f : m \in Nat
  BY FormShape
<1> QED
  BY <1>1 DEF LastNaming

(* Behind the last entry, the items are what the form makes of the list,   *)
(* and saving the inspection makes of the counts what it should.           *)
LEMMA WalkEnds ==
    ASSUME NEW w \in Work, NEW f \in Form, NEW list \in Checklist,
           Walked(w, f, list), w.at > Len(f)
    PROVE  LET t == Tallied(Recounted(w)) IN
           t.list = Verdicts(f, list) /\ t.head = Result(f, list)
<1> DEFINE V == Verdicts(f, list)
           C(v) == Counted(f, list, w.at, v)
<1>1. \A k \in DOMAIN f : k < w.at
  BY FormShape DEF Work
<1>2. w.list = V
  <2>1. ASSUME NEW x \in DOMAIN list PROVE w.list[x] = V[x]
    <3>1. NamedBefore(f, w.at, x) = {k \in DOMAIN f : f[k].item = x}
      BY <1>1 DEF NamedBefore
    <3>2. CASE \A k \in DOMAIN f : f[k].item # x
      <4>1. w.list[x] = list[x]
        BY <3>1, <3>2 DEF Walked
      <4> QED
        BY <3>2, <4>1 DEF Verdicts
    <3>3. CASE \E k \in DOMAIN f : f[k].item = x
      <4>1. PICK k \in DOMAIN f : /\ f[k].item = x /\ w.list[x] = f[k].passed
                                  /\ \A j \in DOMAIN f : f[j].item = x => j <= k
        BY <3>1, <3>3 DEF Walked
      <4>2. LastNaming(f, x) = k
        BY <4>1, LastIsLast
      <4> QED
        BY <3>3, <4>1, <4>2 DEF Verdicts
    <3> QED
      BY <3>2, <3>3
  <2>2. w.list \in [DOMAIN list -> BOOLEAN]
    BY ChecklistShape DEF Work, Walked
  <2> QED
    BY <2>1, <2>2 DEF Verdicts
<1>3. \A v \in BOOLEAN : C(v) = {k \in Naming(f, list) : f[k].passed = v}
  BY <1>1 DEF Counted, Naming
<1>4. w.passed = Cardinality(C(TRUE)) /\ w.issues = Cardinality(C(FALSE))
  BY DEF Walked
<1>5. Naming(f, list) = {} <=> w.passed = 0 /\ w.issues = 0
  <2>1. \A v \in BOOLEAN : IsFiniteSet(C(v))
    BY CountedIsFinite
  <2>2. \A k \in Naming(f, list) : f[k].passed \in BOOLEAN
    BY FormShape DEF Naming, Entry
  <2>3. Naming(f, list) = {} <=> C(TRUE) = {} /\ C(FALSE) = {}
    BY <1>3, <2>2
  <2> HIDE DEF C
  <2> QED
    BY <1>4, <2>1, <2>3, FS_EmptySet
<1>6. PICK u : u = Recounted(w) /\ u.passed = Tally(f, list, TRUE)
               /\ u.issues = Tally(f, list, FALSE)
  <2>1. CASE Naming(f, list) = {}
    <3>1. w.list = list
      <4>1. \A x \in DOMAIN list : ~\E k \in DOMAIN f : f[k].item = x
        BY <2>1 DEF Naming
      <4>2. V = [x \in DOMAIN list |-> list[x]]
        BY <4>1 DEF Verdicts
      <4> QED
        BY <1>2, <4>2, ChecklistShape
    <3>2. \A v : Tally(f, list, v) = Cardinality(With(list, v))
      BY <2>1 DEF Tally
    <3>3. /\ Recounted(w).passed = Cardinality(With(list, TRUE))
          /\ Recounted(w).issues = Cardinality(With(list, FALSE))
      BY <1>5, <2>1, <3>1 DEF Recounted, Work
    <3> QED
      BY <3>2, <3>3
  <2>2. CASE Naming(f, list) # {}
    BY <1>3, <1>4, <1>5, <2>2 DEF Recounted, Tally
  <2> QED
    BY <2>1, <2>2
<1>7. Tallied(Recounted(w)).list = w.list
  BY TalliedType
<1>8. Tallied(u).head = Result(f, list)
  BY <1>6 DEF Tallied, Result, Recounted, Work
<1> QED
  BY <1>2, <1>6, <1>7, <1>8

(***************************************************************************)
(* The result of one form                                                  *)
(***************************************************************************)
FromOneFormAll == \A r \in Request : FromOneForm(r)

LEMMA FromOneFormInit == Init => FromOneFormAll /\ ResultOfOneForm
<1> SUFFICES ASSUME Init PROVE FromOneFormAll /\ ResultOfOneForm
  OBVIOUS
<1>1. FromOneFormAll
  BY DEF Init, FromOneFormAll, FromOneForm, Executing
<1>2. \A i \in Inspection : Executions(i) = {} /\ items[i] = planned[i]
  BY DEF Init, Executions
<1>3. \A i \in Inspection \ Seeded : ~IsFinished(inspection[i])
  BY DEF Init, IsFinished, NoHeader
<1> QED
  BY <1>1, <1>2, <1>3 DEF ResultOfOneForm

(* The commit of another request plans another inspection: the row of this *)
(* one is locked.                                                          *)
LEMMA PlannedStays ==
    ASSUME Typed, Guarded, NEW r \in Request, Step(r),
           NEW q \in Request \ {r}, Executing(q)
    PROVE  planned'[call[q].id] = planned[call[q].id]
<1> USE DEF Typed, TypeOK
<1>1. lock[call[q].id] = q
  BY DEF Guarded, Protected
<1>2. CASE Commit(r)
  <2>1. lock[call[r].id] = r
    BY <1>2 DEF Commit, Guarded, Protected, Executing, Creating
  <2>2. call[q].id # call[r].id
    BY <1>1, <2>1
  <2> QED
    BY <1>2, <2>2 DEF Commit
<1> QED
  BY <1>2 DEF Step, Ends, Fail, Plans, Create, Submits, Locks, ListItems,
              UpdateItem, SaveInspection, Shows, ReadItems

LEMMA SelfFromOneForm ==
    ASSUME Typed, Guarded, Settled, FromOneFormAll, ResultOfOneForm,
           NEW r \in Request, Step(r)
    PROVE  FromOneForm(r)'
<1> USE DEF Typed, TypeOK
<1> DEFINE i == call[r].id
           f == call[r].form
<1>1. FromOneForm(r)
  BY DEF FromOneFormAll
<1>2. InFlight(r) => call[r] \in Call /\ i \in Inspection /\ f \in Form
  BY DEF Called, Call
<1>3. CASE Ends(r) \/ Commit(r) \/ ReadItems(r) \/ Shows(r)
  <2>1. pc'[r] \in {"done", "items"}
    BY <1>3 DEF Ends, Fail, Commit, ReadItems, Shows
  <2> QED
    BY <2>1 DEF FromOneForm, Executing
<1>4. CASE Plans(r)
  <2>1. pc'[r] = "commit" /\ call'[r].op = "create"
    BY <1>4 DEF Plans, Create
  <2> QED
    BY <2>1 DEF FromOneForm, Executing
<1>5. CASE Submits(r)
  <2>1. pc[r] = "new" /\ pc'[r] = "lock" /\ work' = work
    BY <1>5 DEF Submits
  <2> QED
    BY <1>1, <2>1 DEF FromOneForm, Executing
<1>6. CASE Locks(r)
  <2>1. /\ pc[r] = "lock" /\ pc'[r] = "list" /\ inspection[i].status \in Executable
        /\ work'[r] = [work[r] EXCEPT !.head = inspection[i]]
        /\ UNCHANGED <<inspection, items, planned, call>>
    BY <1>6 DEF Locks
  <2>2. i \in Inspection
    BY <1>2, <2>1 DEF InFlight
  <2>3. Executions(i) = {}
    BY <2>1 DEF Executions, Settled, IsFinished, Executable
  <2>4. items'[i] = planned'[i]
    BY <2>1, <2>2, <2>3 DEF ResultOfOneForm
  <2>5. work'[r].passed = 0 /\ work'[r].issues = 0 /\ work'[r].at = 1
    BY <1>1, <2>1 DEF FromOneForm, NoWork
  <2> QED
    BY <2>1, <2>4, <2>5 DEF FromOneForm, Executing
<1>7. CASE ListItems(r)
  <2>1. /\ pc[r] = "list" /\ pc'[r] = "loop"
        /\ work'[r] = [work[r] EXCEPT !.list = items[i]]
        /\ UNCHANGED <<inspection, items, planned, call>>
    BY <1>7 DEF ListItems
  <2>2. items[i] = planned[i] /\ items[i] \in Checklist /\ f \in Form
    BY <1>1, <1>2, <2>1 DEF FromOneForm, Executing, InFlight
  <2>3. PICK u \in Work : /\ u = work'[r] /\ u.list = planned[i]
                          /\ u.passed = 0 /\ u.issues = 0 /\ u.at = 1
    BY <1>1, <2>1, <2>2 DEF FromOneForm, Work
  <2>4. Walked(u, f, planned[i])
    BY <2>2, <2>3, WalkStarts
  <2> QED
    BY <2>1, <2>2, <2>3, <2>4 DEF FromOneForm, Executing
<1>8. CASE UpdateItem(r)
  <2>1. /\ pc[r] = "loop" /\ pc' = pc /\ work[r].at <= Len(f)
        /\ work'[r] = Apply(work[r], f[work[r].at])
        /\ UNCHANGED <<inspection, items, planned, call>>
    BY <1>8 DEF UpdateItem
  <2>2. items[i] = planned[i] /\ planned[i] \in Checklist /\ f \in Form
        /\ Walked(work[r], f, planned[i])
    BY <1>1, <1>2, <2>1 DEF FromOneForm, Executing, InFlight
  <2>3. Walked(work'[r], f, planned[i])
    BY <2>1, <2>2, WalkStep
  <2> QED
    BY <2>1, <2>2, <2>3 DEF FromOneForm, Executing
<1>9. CASE SaveInspection(r)
  <2>1. /\ pc[r] = "loop" /\ pc'[r] = "commit" /\ work[r].at > Len(f)
        /\ work'[r] = Tallied(Recounted(work[r]))
        /\ UNCHANGED <<inspection, items, planned, call>>
    BY <1>9 DEF SaveInspection
  <2>2. items[i] = planned[i] /\ planned[i] \in Checklist /\ f \in Form
        /\ Walked(work[r], f, planned[i])
    BY <1>1, <1>2, <2>1 DEF FromOneForm, Executing, InFlight
  <2>3. /\ work'[r].list = Verdicts(f, planned[i])
        /\ work'[r].head = Result(f, planned[i])
    BY <2>1, <2>2, WalkEnds
  <2> QED
    BY <2>1, <2>2, <2>3 DEF FromOneForm, Executing
<1> QED
  BY <1>3, <1>4, <1>5, <1>6, <1>7, <1>8, <1>9 DEF Step

LEMMA FromOneFormNext ==
    ASSUME Typed, Guarded, Settled, FromOneFormAll, ResultOfOneForm, [Next]_vars
    PROVE  FromOneFormAll'
<1> USE DEF Typed, TypeOK
<1> SUFFICES ASSUME NEW q \in Request PROVE FromOneForm(q)'
  BY DEF FromOneFormAll
<1>1. FromOneForm(q)
  BY DEF FromOneFormAll
<1>2. CASE Restart
  <2>1. pc'[q] \in {"new", "done", "killed"}
    BY <1>2 DEF Restart, InFlight
  <2>2. pc'[q] = "new" => pc[q] = "new" /\ work'[q] = work[q]
    BY <1>2 DEF Restart, InFlight
  <2> QED
    BY <1>1, <2>1, <2>2 DEF FromOneForm, Executing
<1>3. CASE UNCHANGED vars
  BY <1>1, <1>3 DEF vars, FromOneForm, Executing
<1>4. ASSUME NEW r \in Request, Step(r), r # q PROVE FromOneForm(q)'
  <2>1. Undisturbed(q)
    BY <1>4, OthersUndisturbed
  <2>2. Executing(q) => planned'[call[q].id] = planned[call[q].id]
    BY <1>4, PlannedStays
  <2> QED
    BY <1>1, <2>1, <2>2 DEF FromOneForm, Undisturbed, Executing
<1> QED
  BY <1>2, <1>3, <1>4, SelfFromOneForm, NextCases

(* ResultOfOneForm, inspection by inspection.                              *)
ResultKnown(i) ==
    /\ Executions(i) = {} =>
          items[i] = planned[i] /\ (i \notin Seeded => ~IsFinished(inspection[i]))
    /\ \A r \in Executions(i) :
          LET f == call[r].form IN
          /\ items[i] = Verdicts(f, planned[i])
          /\ inspection[i] = Result(f, planned[i])

LEMMA ResultParts == ResultOfOneForm <=> \A i \in Inspection : ResultKnown(i)
BY DEF ResultOfOneForm, ResultKnown, Result

LEMMA ResultStep ==
    ASSUME Typed, Guarded, Settled, FromOneFormAll, ResultOfOneForm, [Next]_vars
    PROVE  ResultOfOneForm'
<1> USE DEF Typed, TypeOK
<1> SUFFICES ASSUME NEW i \in Inspection PROVE ResultKnown(i)'
  BY DEF ResultOfOneForm, ResultKnown, Result
<1>1. ResultKnown(i)
  BY ResultParts
<1>2. \A q \in Executions(i) : call'[q] = call[q] /\ q \in Request
  BY DoneStays DEF Executions
<1>3. ASSUME Executions(i)' = Executions(i), inspection'[i] = inspection[i],
             items'[i] = items[i], planned'[i] = planned[i]
      PROVE  ResultKnown(i)'
  BY <1>1, <1>2, <1>3 DEF ResultKnown
<1>4. CASE UNCHANGED <<inspection, items, wrote, planned>>
  <2>1. \A q \in Request : wrote[q] => call'[q] = call[q]
    BY DoneStays
  <2>2. Executions(i)' = Executions(i)
    BY <1>4, <2>1 DEF Executions
  <2> QED
    BY <1>3, <1>4, <2>2
<1>5. ASSUME NEW r \in Request, Commit(r) PROVE ResultKnown(i)'
  <2> DEFINE j == call[r].id
  <2>1. /\ j \in Inspection /\ call' = call /\ wrote' = [wrote EXCEPT ![r] = TRUE]
        /\ inspection' = [inspection EXCEPT ![j] = work[r].head]
        /\ items' = [items EXCEPT ![j] = work[r].list]
        /\ ~IsFinished(inspection[j])
    BY <1>5, CommitWrites DEF IsFinished
  <2>2. planned' = IF call[r].op = "create"
                   THEN [planned EXCEPT ![j] = work[r].list] ELSE planned
    BY <1>5 DEF Commit
  <2>3. CASE i # j
    <3>1. /\ inspection'[i] = inspection[i] /\ items'[i] = items[i]
          /\ planned'[i] = planned[i]
      BY <2>1, <2>2, <2>3
    <3>2. Executions(i)' = Executions(i)
      BY <2>1, <2>3 DEF Executions
    <3> QED
      BY <1>3, <3>1, <3>2
  <2>4. i = j => Executions(i) = {}
    BY <2>1 DEF Executions, Settled
  <2>5. CASE i = j /\ call[r].op = "create"
    <3>1. Executions(i)' = {}
      BY <2>1, <2>4, <2>5 DEF Executions
    <3>2. items'[i] = planned'[i]
      BY <2>1, <2>2, <2>5
    <3>3. work[r].head = Planned
      BY <1>5, <2>5, CommitWrites
    <3>4. ~IsFinished(inspection'[i])
      BY <2>1, <2>5, <3>3 DEF IsFinished, Planned
    <3> QED
      BY <3>1, <3>2, <3>4 DEF ResultKnown
  <2>6. CASE i = j /\ call[r].op = "execute"
    <3>1. Executions(i)' = {r}
      BY <2>1, <2>4, <2>6 DEF Executions
    <3>2. /\ work[r].list = Verdicts(call[r].form, planned[i])
          /\ work[r].head = Result(call[r].form, planned[i])
      BY <1>5, <2>6 DEF Commit, FromOneFormAll, FromOneForm, Executing
    <3>3. /\ items'[i] = Verdicts(call[r].form, planned[i])
          /\ inspection'[i] = Result(call[r].form, planned[i])
          /\ planned' = planned /\ call' = call
      BY <2>1, <2>2, <2>6, <3>2
    <3> QED
      BY <3>1, <3>3 DEF ResultKnown
  <2> QED
    BY <1>5, <2>3, <2>5, <2>6, CommitWrites
<1> QED
  BY <1>4, <1>5, TableCases

LEMMA FormAlways ==
    Spec => [](Typed /\ Guarded /\ Settled /\ FromOneFormAll /\ ResultOfOneForm)
<1>1. Typed /\ Guarded /\ Settled /\ FromOneFormAll /\ ResultOfOneForm
         /\ [Next]_vars => FromOneFormAll' /\ ResultOfOneForm'
  BY FromOneFormNext, ResultStep
<1> QED
  BY <1>1, FromOneFormInit, SettledAlways, PTL DEF Spec

(* All or nothing: the stored header and items of an inspection are those  *)
(* it was planned with, or the whole result of the one form that was       *)
(* committed, for any number of inspectors submitting any forms and any    *)
(* failure, lost answer or restart in between.                             *)
THEOREM OneForm == Spec => []ResultOfOneForm
BY FormAlways, PTL

(***************************************************************************)
(* What the result of a form says about the items                          *)
(***************************************************************************)
(* A set of natural numbers that is not empty has a least element, and a   *)
(* greatest one if it is bounded.                                          *)
LEMMA LeastNumber ==
    ASSUME NEW T \in SUBSET Nat, T # {}
    PROVE  \E m \in T : \A k \in T : m <= k
<1> DEFINE R == OpToRel(<, Nat)
<1>1. IsWellFoundedOn(R, Nat)
  BY NatLessThanWellFounded
<1>2. \A x \in Nat : \A y \in Nat : <<y, x>> \in R <=> y < x
  BY DEF OpToRel
<1> HIDE DEF R
<1>3. PICK m \in T : \A k \in T : ~(<<k, m>> \in R)
  BY <1>1, WFMin
<1>4. \A k \in T : k \in Nat /\ m \in Nat /\ ~(k < m)
  BY <1>2, <1>3
<1> QED
  BY <1>4

LEMMA GreatestNumber ==
    ASSUME NEW n \in Nat, NEW T \in SUBSET (0..n), T # {}
    PROVE  \E m \in T : \A k \in T : k <= m
<1> DEFINE U == {n - k : k \in T}
<1>1. U \in SUBSET Nat /\ U # {}
  <2>1. \A k \in T : n - k \in Nat
    OBVIOUS
  <2> QED
    BY <2>1
<1>2. PICK u \in U : \A v \in U : u <= v
  BY <1>1, LeastNumber
<1>3. PICK m \in T : u = n - m
  BY <1>2
<1>4. \A k \in T : n - m <= n - k
  BY <1>2, <1>3
<1> QED
  BY <1>4

(* Of an item that the form names, the verdict stored is the last one.     *)
LEMMA LastVerdict ==
    ASSUME NEW f \in Form, NEW list \in Checklist, NEW x \in DOMAIN list,
           \E k \in DOMAIN f : f[k].item = x
    PROVE  \E k \in DOMAIN f : /\ f[k].item = x
                               /\ Verdicts(f, list)[x] = f[k].passed
<1> DEFINE T == {k \in DOMAIN f : f[k].item = x}
<1>1. Len(f) \in Nat /\ T \in SUBSET (0..Len(f)) /\ T # {}
  BY FormShape
<1>2. PICK k \in T : \A j \in T : j <= k
  BY <1>1, GreatestNumber
<1>3. LastNaming(f, x) = k
  BY <1>2, LastIsLast
<1> QED
  BY <1>2, <1>3 DEF Verdicts

(* A form that names each item once is tallied as the items it leaves.     *)
LEMMA FullCounts ==
    ASSUME NEW f \in Form, NEW list \in Checklist, Full(f, list),
           NEW v \in BOOLEAN
    PROVE  Tally(f, list, v) = Cardinality(With(Verdicts(f, list), v))
<1> DEFINE V == Verdicts(f, list)
           S == {k \in Naming(f, list) : f[k].passed = v}
           T == With(V, v)
           g == [k \in S |-> f[k].item]
<1>1. DOMAIN V = DOMAIN list /\ {f[k].item : k \in DOMAIN f} = DOMAIN list
  BY DEF Verdicts, Full
<1>2. \A j, k \in DOMAIN f : f[j].item = f[k].item => j = k
  BY DEF Full
<1>3. ASSUME NEW k \in DOMAIN f
      PROVE  f[k].item \in DOMAIN list /\ V[f[k].item] = f[k].passed
  <2>1. f[k].item \in DOMAIN list
    BY <1>1
  <2>2. PICK j \in DOMAIN f : f[j].item = f[k].item /\ V[f[k].item] = f[j].passed
    BY <2>1, LastVerdict
  <2> QED
    BY <1>2, <2>1, <2>2
<1>4. CASE Naming(f, list) = {}
  <2>1. DOMAIN list = {}
    BY <1>1, <1>4 DEF Naming
  <2>2. With(list, v) = {} /\ T = {}
    BY <1>1, <2>1 DEF With
  <2> QED
    BY <1>4, <2>2 DEF Tally
<1>5. CASE Naming(f, list) # {}
  <2>1. g \in [S -> T]
    BY <1>1, <1>3 DEF With, Naming
  <2>2. \A a, b \in S : g[a] = g[b] => a = b
    BY <1>2 DEF Naming
  <2>3. \A t \in T : \E k \in S : g[k] = t
    <3>1. SUFFICES ASSUME NEW t \in T PROVE \E k \in S : g[k] = t
      OBVIOUS
    <3>2. t \in DOMAIN list /\ V[t] = v
      BY <1>1 DEF With
    <3>3. PICK k \in DOMAIN f : f[k].item = t
      BY <1>1, <3>2
    <3>4. k \in S
      BY <1>3, <3>2, <3>3 DEF Naming
    <3> QED
      BY <3>3, <3>4
  <2>4. IsFiniteSet(S)
    BY FormShape, FS_Subset DEF Naming
  <2> HIDE DEF S, T, g
  <2>5. g \in Bijection(S, T)
    BY <2>1, <2>2, <2>3, Fun_IsBij
  <2>6. Cardinality(T) = Cardinality(S)
    BY <2>4, <2>5, FS_Bijection DEF ExistsBijection
  <2> QED
    BY <1>5, <2>6 DEF Tally, S, T
<1> QED
  BY <1>4, <1>5

(* Who executed an inspection did it with a form, on a checklist.          *)
LEMMA ExecutedForm ==
    ASSUME Typed, Settled, NEW i \in Inspection, NEW r \in Executions(i)
    PROVE  call[r].form \in Form /\ planned[i] \in Checklist
BY DEF Typed, TypeOK, Settled, Executions, Call

LEMMA CountsFromResult ==
    Typed /\ Settled /\ ResultOfOneForm => CountsMatchItems
<1> SUFFICES ASSUME Typed, Settled, ResultOfOneForm,
                    NEW i \in Inspection, NEW r \in Executions(i),
                    Full(call[r].form, planned[i])
             PROVE  /\ inspection[i].passed = Cardinality(With(items[i], TRUE))
                    /\ inspection[i].issues = Cardinality(With(items[i], FALSE))
  BY DEF CountsMatchItems
<1>1. /\ items[i] = Verdicts(call[r].form, planned[i])
      /\ inspection[i] = Result(call[r].form, planned[i])
  BY ResultParts DEF ResultKnown
<1>2. \A v \in BOOLEAN : Tally(call[r].form, planned[i], v)
                            = Cardinality(With(items[i], v))
  BY <1>1, ExecutedForm, FullCounts
<1>3. /\ inspection[i].passed = Tally(call[r].form, planned[i], TRUE)
      /\ inspection[i].issues = Tally(call[r].form, planned[i], FALSE)
  BY <1>1 DEF Result
<1> QED
  BY <1>2, <1>3

(* If every form that was executed names each item once, as those of the   *)
(* frontend do, then the stored counts are those of the stored items.      *)
THEOREM CountsAreOfItems == Spec => []CountsMatchItems
BY SettledAlways, OneForm, CountsFromResult, PTL

(* A form that gives a verdict on every item, whatever else it names.      *)
Covers(f, list) == DOMAIN list \subseteq {f[k].item : k \in DOMAIN f}

(* If the form that was executed gave a verdict on every item, a completed *)
(* inspection has no item that did not pass.                               *)
CompletedWhenCovered ==
    \A i \in Inspection \ Seeded :
       /\ inspection[i].status = "completed"
       /\ \A r \in Executions(i) : Covers(call[r].form, planned[i])
       => With(items[i], FALSE) = {}

LEMMA CoveredFromResult ==
    Typed /\ Settled /\ ResultOfOneForm => CompletedWhenCovered
<1> SUFFICES ASSUME Typed, Settled, ResultOfOneForm,
                    NEW i \in Inspection \ Seeded,
                    inspection[i].status = "completed",
                    \A r \in Executions(i) : Covers(call[r].form, planned[i])
             PROVE  With(items[i], FALSE) = {}
  BY DEF CompletedWhenCovered
<1>1. PICK r : r \in Executions(i)
  BY ResultParts DEF ResultKnown, IsFinished
<1> DEFINE f == call[r].form
           list == planned[i]
<1>2. f \in Form /\ list \in Checklist
  BY <1>1, ExecutedForm
<1>3. items[i] = Verdicts(f, list) /\ Tally(f, list, FALSE) = 0
  <2>1. items[i] = Verdicts(f, list) /\ inspection[i] = Result(f, list)
    BY <1>1, ResultParts DEF ResultKnown
  <2>2. Result(f, list).status = "completed" => Tally(f, list, FALSE) = 0
    BY DEF Result
  <2> QED
    BY <2>1, <2>2
<1>4. SUFFICES ASSUME NEW x \in DOMAIN list, Verdicts(f, list)[x] = FALSE
               PROVE  FALSE
  <2>1. DOMAIN Verdicts(f, list) = DOMAIN list
    BY DEF Verdicts
  <2> QED
    BY <1>3, <2>1 DEF With
<1>5. \E k \in DOMAIN f : f[k].item = x
  BY <1>1 DEF Covers
<1>6. PICK k \in DOMAIN f : f[k].item = x /\ f[k].passed = FALSE
  BY <1>2, <1>4, <1>5, LastVerdict
<1> DEFINE S == {j \in Naming(f, list) : f[j].passed = FALSE}
<1>7. k \in S /\ Naming(f, list) # {}
  BY <1>6 DEF Naming
<1>8. Cardinality(S) = 0
  BY <1>3, <1>7 DEF Tally
<1>9. IsFiniteSet(S)
  BY <1>2, FormShape, FS_Subset DEF Naming
<1> QED
  BY <1>7, <1>8, <1>9, FS_EmptySet

(* A completed inspection may have items that did not pass, but only those *)
(* that the executed form left out: had Execute asked for a verdict on     *)
(* every item, all items of a completed inspection would have passed.      *)
THEOREM CompletedIfCovered == Spec => []CompletedWhenCovered
BY SettledAlways, OneForm, CoveredFromResult, PTL

(***************************************************************************)
(* The score                                                               *)
(***************************************************************************)
(* The exact score is the percentage rounded down.                         *)
LEMMA ExactBounds ==
    ASSUME NEW p \in Nat, NEW n \in Nat \ {0}
    PROVE  LET q == ExactScore(p, n) IN
           q \in Nat /\ q * n <= 100 * p /\ 100 * p < q * n + n
<1>1. 100 * p \in Nat
  OBVIOUS
<1>2. ASSUME NEW x \in Nat
      PROVE  /\ x \div n \in Nat
             /\ (x \div n) * n <= x /\ x < (x \div n) * n + n
  OBVIOUS
<1> QED
  BY <1>1, <1>2 DEF ExactScore

(* Where everything passed nothing is rounded.                             *)
LEMMA AllPassed ==
    ASSUME NEW n \in Nat \ {0}
    PROVE  Score(n, n) >= 100
<1> DEFINE H == Significand
           D == Denominator(n, n)
           m == Quotient(n, n)
           v == Percent(m)
<1>1. H \in Nat \ {0} /\ H % 128 = 0
  BY ScoreAssumption
<1>2. Power(n, n) = 1
  <2>1. 1 \in PowersOfTwo /\ Normalizes(1, n, n)
    BY DEF PowersOfTwo, Normalizes
  <2>2. ASSUME NEW e \in PowersOfTwo, e # 1 PROVE ~Normalizes(e, n, n)
    <3>1. e \in Nat /\ 2 <= e
      BY <2>2 DEF PowersOfTwo
    <3>2. 2 * n <= e * n /\ e * n = n * e
      BY <3>1, ProductGrows
    <3> QED
      BY <3>1, <3>2 DEF Normalizes
  <2> QED
    BY <2>1, <2>2, DenominatorType DEF Power
<1>3. D = H
  BY <1>1, <1>2 DEF Denominator
<1>4. /\ m \in Nat /\ v \in Nat /\ Excess(m) \in {64, 128}
      /\ 2 * (m * n) <= 2 * (n * H) + n /\ 2 * (n * H) <= 2 * (m * n) + n
  <2> HIDE DEF D, m
  <2>1. D = Denominator(n, n) /\ m = Quotient(n, n)
    BY DEF D, m
  <2> QED
    BY <1>3, <2>1, RoundedTwice
<1> HIDE DEF D, m
<1>5. m = H
  <2>1. n * H = H * n /\ H * n \in Nat /\ m * n \in Nat
    BY <1>1, <1>4
  <2>2. ~(m + 1 <= H)
    <3>1. SUFFICES ASSUME m + 1 <= H PROVE FALSE
      OBVIOUS
    <3>2. (m + 1) * n <= H * n
      BY <1>1, <1>4, <3>1, ProductGrows
    <3>3. (m + 1) * n = m * n + n
      BY <1>4
    <3> QED
      BY <1>4, <2>1, <3>2, <3>3
  <2>3. ~(H + 1 <= m)
    <3>1. SUFFICES ASSUME H + 1 <= m PROVE FALSE
      OBVIOUS
    <3>2. (H + 1) * n <= m * n
      BY <1>1, <1>4, <3>1, ProductGrows
    <3>3. (H + 1) * n = H * n + n
      BY <1>1
    <3> QED
      BY <1>4, <2>1, <3>2, <3>3
  <2> QED
    BY <1>1, <1>4, <2>2, <2>3
<1>6. v = 100 * H
  <2>1. Excess(m) = 64
    BY <1>1, <1>5 DEF Excess
  <2>2. (100 * H) % 64 = 0 /\ 100 * H = ((100 * H) \div 64) * 64
    BY <1>1
  <2>3. Nearest(100 * H, 64) = (100 * H) \div 64
    BY <1>1, <2>2 DEF Nearest
  <2> QED
    BY <1>1, <1>5, <2>1, <2>2, <2>3 DEF Percent
<1>7. Score(n, n) = v \div H
  BY <1>3 DEF Score, D, m
<1> HIDE DEF H, v
<1>8. PICK s \in Nat : s = v \div H /\ v < s * H + H
  BY <1>1, <1>4
<1>9. ~(s <= 99)
  <2>1. SUFFICES ASSUME s <= 99 PROVE FALSE
    OBVIOUS
  <2>2. s * H <= 99 * H
    BY <1>1, <2>1, ProductGrows
  <2> QED
    BY <1>1, <1>6, <1>8, <2>2
<1> QED
  BY <1>7, <1>8, <1>9

(* The score is the exact percentage rounded down, or one less; and where  *)
(* it is one less, the percentage was a whole number.                      *)
LEMMA ScoreBounds ==
    ASSUME NEW p \in Nat, NEW n \in Nat \ {0}, p <= n, InRange(n)
    PROVE  LET s == Score(p, n) IN
           /\ s \in Nat /\ s * n <= 100 * p /\ 100 * p <= s * n + n
           /\ p >= n => 100 * p < s * n + n
<1> DEFINE D == Denominator(p, n)
           m == Quotient(p, n)
           v == Percent(m)
           s == Score(p, n)
<1>1. D \in Nat \ {0} /\ 128 * n <= D
  BY DenominatorType, ScoreAssumption DEF InRange
<1>2. s = v \div D
  BY DEF Score
<1>3. /\ m \in Nat /\ v \in Nat
      /\ 2 * (m * n) <= 2 * (p * D) + n /\ 2 * (p * D) <= 2 * (m * n) + n
      /\ v <= 100 * m + 64 /\ 100 * m <= v + 64
  <2> HIDE DEF D, m
  <2>1. D = Denominator(p, n) /\ m = Quotient(p, n)
    BY DEF D, m
  <2> QED
    BY <2>1, RoundedTwice
<1> HIDE DEF D, m, v, s
<1>4. s \in Nat /\ s * D \in Nat /\ s * D <= v /\ v < s * D + D
  BY <1>1, <1>2, <1>3
<1>5. v * n <= 100 * (p * D) + 114 * n
  <2>1. v * n <= (100 * m + 64) * n /\ (100 * m + 64) * n = 100 * (m * n) + 64 * n
    BY <1>3, ProductGrows
  <2>2. v * n \in Nat /\ m * n \in Nat /\ p * D \in Nat
    BY <1>1, <1>3
  <2> QED
    BY <1>3, <2>1, <2>2
<1>6. 100 * (p * D) <= v * n + 114 * n
  <2>1. (100 * m) * n <= (v + 64) * n /\ (v + 64) * n = v * n + 64 * n
        /\ (100 * m) * n = 100 * (m * n)
    BY <1>3, ProductGrows
  <2>2. v * n \in Nat /\ m * n \in Nat /\ p * D \in Nat
    BY <1>1, <1>3
  <2> QED
    BY <1>3, <2>1, <2>2
<1>7. s * n \in Nat /\ p * D \in Nat /\ v * n \in Nat /\ (s * D) * n = (s * n) * D
  BY <1>1, <1>3, <1>4
<1>8. s * n <= 100 * p
  <2>1. SUFFICES ASSUME 100 * p + 1 <= s * n PROVE FALSE
    BY <1>7
  <2>2. (100 * p + 1) * D <= (s * n) * D
    BY <1>1, <1>7, <2>1, ProductGrows
  <2>3. (100 * p + 1) * D = 100 * (p * D) + D
    BY <1>1
  <2>4. (s * D) * n <= v * n
    BY <1>3, <1>4, ProductGrows
  <2> QED
    BY <1>1, <1>5, <1>7, <2>2, <2>3, <2>4
<1>9. 100 * p <= s * n + n
  <2>1. SUFFICES ASSUME s * n + n + 1 <= 100 * p PROVE FALSE
    BY <1>7
  <2>2. (s * n + n + 1) * D <= (100 * p) * D
    BY <1>1, <1>7, <2>1, ProductGrows
  <2>3. (100 * p) * D = 100 * (p * D) /\ n * D = D * n
    BY <1>1
  <2>4. (s * n + n + 1) * D = (s * n) * D + n * D + D
    BY <1>1, <1>7
  <2>5. v * n <= (s * D + D) * n
    BY <1>1, <1>3, <1>4, ProductGrows
  <2>6. (s * D + D) * n = (s * D) * n + D * n /\ D * n \in Nat
    BY <1>1, <1>4
  <2> QED
    BY <1>1, <1>6, <1>7, <2>2, <2>3, <2>4, <2>5, <2>6
<1>10. p >= n => 100 * p < s * n + n
  <2>1. SUFFICES ASSUME p = n PROVE 100 * p < s * n + n
    OBVIOUS
  <2>2. 100 <= s
    BY <2>1, AllPassed, <1>4 DEF s
  <2>3. 100 * n <= s * n
    BY <1>4, <2>2, ProductGrows
  <2> QED
    BY <1>7, <2>1, <2>3
<1> QED
  BY <1>4, <1>8, <1>9, <1>10 DEF s

(* Smaller totals are as well in range.                                    *)
LEMMA RangeDown ==
    ASSUME NEW k \in Nat, NEW n \in Nat, n <= k, InRange(k)
    PROVE  InRange(n)
BY ScoreAssumption DEF InRange

(* With an issue the score is below 100, without one it is 100.            *)
LEMMA FullScore ==
    ASSUME NEW p \in Nat, NEW i \in Nat, InRange(p + i)
    PROVE  Score(p, p + i) = 100 <=> Outcome(p, i) = "completed" /\ p + i > 0
<1> DEFINE n == p + i
           s == Score(p, n)
<1>1. CASE n = 0
  BY <1>1 DEF Score
<1>2. CASE n > 0
  <2>1. /\ s \in Nat /\ s * n <= 100 * p /\ 100 * p <= s * n + n
        /\ p >= n => 100 * p < s * n + n
    <3>1. n \in Nat \ {0} /\ p <= n /\ InRange(n)
      BY <1>2
    <3> HIDE DEF n
    <3> QED
      BY <3>1, ScoreBounds DEF s
  <2>2. Outcome(p, i) = "completed" <=> i = 0
    BY DEF Outcome
  <2> HIDE DEF s
  <2>3. s >= 100 => i = 0
    <3>1. SUFFICES ASSUME s >= 100 PROVE i = 0
      OBVIOUS
    <3>2. 100 * n <= s * n
      BY <2>1, <3>1, ProductGrows
    <3> QED
      BY <2>1, <3>2
  <2>4. s > 100 => FALSE
    <3>1. SUFFICES ASSUME 101 <= s PROVE FALSE
      BY <2>1
    <3>2. 101 * n <= s * n /\ s * n \in Nat
      BY <2>1, <3>1, ProductGrows
    <3> QED
      BY <1>2, <2>1, <3>2
  <2>5. i = 0 /\ s < 100 => FALSE
    <3>1. SUFFICES ASSUME i = 0, s <= 99 PROVE FALSE
      BY <2>1
    <3>2. s * n <= 99 * n /\ s * n \in Nat
      BY <2>1, <3>1, ProductGrows
    <3> QED
      BY <1>2, <2>1, <3>1, <3>2
  <2> QED
    BY <1>2, <2>1, <2>2, <2>3, <2>4, <2>5 DEF s
<1> QED
  BY <1>1, <1>2

(* One more passed item does not lower the score.                          *)
LEMMA PassedRaises ==
    ASSUME NEW p \in Nat, NEW i \in Nat, InRange(p + i + 1)
    PROVE  Score(p + 1, p + 1 + i) >= Score(p, p + i)
<1> DEFINE n == p + i
           s == Score(p, n)
           t == Score(p + 1, p + 1 + i)
<1>1. /\ p + 1 + i = n + 1 /\ n \in Nat /\ n + 1 \in Nat \ {0} /\ p + 1 \in Nat
      /\ p <= n /\ p + 1 <= n + 1
  OBVIOUS
<1>0. InRange(n) /\ InRange(n + 1)
  BY RangeDown
<1>2. /\ t \in Nat /\ t * (n + 1) <= 100 * (p + 1)
      /\ 100 * (p + 1) <= t * (n + 1) + (n + 1)
      /\ p + 1 >= n + 1 => 100 * (p + 1) < t * (n + 1) + (n + 1)
  <2> HIDE DEF n
  <2> QED
    BY <1>0, <1>1, ScoreBounds
<1>3. CASE n = 0
  <2>1. s = 0
    BY <1>3 DEF Score
  <2> QED
    BY <1>2, <2>1
<1>4. CASE n > 0
  <2>1. s \in Nat /\ s * n <= 100 * p
    BY <1>0, <1>1, <1>4, ScoreBounds
  <2> HIDE DEF s, t
  <2>2. SUFFICES ASSUME t + 1 <= s PROVE FALSE
    BY <1>2, <2>1 DEF s, t
  <2>3. (t + 1) * (n + 1) <= s * (n + 1)
    BY <1>1, <1>2, <2>1, <2>2, ProductGrows
  <2>4. (t + 1) * (n + 1) = t * (n + 1) + (n + 1) /\ s * (n + 1) = s * n + s
    BY <1>1, <1>2, <2>1
  <2>5. 100 <= s
    BY <1>1, <1>2, <2>1, <2>3, <2>4
  <2>6. 100 * n <= s * n
    BY <1>1, <2>1, <2>5, ProductGrows
  <2>7. p >= n /\ s * n = 100 * p /\ s * n \in Nat
    BY <1>1, <2>1, <2>6
  <2>8. p = n
    BY <2>7
  <2>9. ~(101 <= s)
    <3>1. SUFFICES ASSUME 101 <= s PROVE FALSE
      OBVIOUS
    <3>2. 101 * n <= s * n
      BY <1>1, <2>1, <3>1, ProductGrows
    <3> HIDE DEF n
    <3> QED
      BY <1>1, <1>4, <2>7, <2>8, <3>2
  <2> HIDE DEF n
  <2>10. t * (n + 1) \in Nat /\ s * n \in Nat
    BY <1>1, <1>2, <2>1
  <2> QED
    BY <1>1, <1>2, <2>1, <2>3, <2>4, <2>7, <2>8, <2>9, <2>10
<1> QED
  BY <1>1, <1>3, <1>4

(* One more issue does not raise it.                                       *)
LEMMA IssueLowers ==
    ASSUME NEW p \in Nat, NEW i \in Nat, InRange(p + i + 1)
    PROVE  Score(p, p + (i + 1)) <= Score(p, p + i)
<1> DEFINE n == p + i
           s == Score(p, n)
           t == Score(p, p + (i + 1))
<1>1. p + (i + 1) = n + 1 /\ n \in Nat /\ n + 1 \in Nat \ {0} /\ p <= n /\ p <= n + 1
  OBVIOUS
<1>0. InRange(n) /\ InRange(n + 1)
  BY RangeDown
<1>2. t \in Nat /\ t * (n + 1) <= 100 * p
  <2> HIDE DEF n
  <2> QED
    BY <1>0, <1>1, ScoreBounds
<1>3. CASE n = 0
  <2>1. s = 0 /\ p = 0
    BY <1>3 DEF Score
  <2>2. t * (n + 1) = t
    BY <1>2, <1>3
  <2> QED
    BY <1>2, <2>1, <2>2
<1>4. CASE n > 0
  <2>1. s \in Nat /\ 100 * p <= s * n + n
    BY <1>0, <1>1, <1>4, ScoreBounds
  <2> HIDE DEF s, t
  <2>2. SUFFICES ASSUME s + 1 <= t PROVE FALSE
    BY <1>2, <2>1 DEF s, t
  <2>3. (s + 1) * (n + 1) <= t * (n + 1)
    BY <1>1, <1>2, <2>1, <2>2, ProductGrows
  <2>4. (s + 1) * (n + 1) = s * n + n + s + 1
    BY <1>1, <2>1
  <2> QED
    BY <1>1, <1>2, <2>1, <2>3, <2>4
<1> QED
  BY <1>1, <1>3, <1>4

CountsInRange ==
    passed \in Nat /\ issues \in Nat /\ Total <= MaxItems

LEMMA TallyStarts == TallyInit => CountsInRange
BY TallyAssumption DEF TallyInit, CountsInRange, Total

LEMMA TallyStays == CountsInRange /\ [TallyNext]_tally => CountsInRange'
BY TallyAssumption DEF CountsInRange, TallyNext, CountPassed, CountIssue, tally, Total

(* Floating point costs at most one point: at any precision that has seven *)
(* bits more than the number of items, 53 bits among them, the two         *)
(* roundings and the truncation give the percentage rounded down or one    *)
(* less.                                                                   *)
THEOREM WithinOne == TallySpec => []ScoreWithinOne
<1>1. CountsInRange => ScoreWithinOne
  <2> DEFINE q == ExactScore(passed, Total)
             s == Score(passed, Total)
  <2>1. SUFFICES ASSUME CountsInRange PROVE q - s \in {0, 1}
    BY DEF ScoreWithinOne
  <2>2. passed \in Nat /\ Total \in Nat /\ passed <= Total /\ InRange(Total)
    BY <2>1, TallyAssumption, RangeDown DEF CountsInRange, Total
  <2>3. CASE Total = 0
    BY <2>3 DEF ExactScore, Score
  <2>4. CASE Total # 0
    <3> DEFINE n == Total
    <3>1. n \in Nat \ {0}
      BY <2>2, <2>4
    <3>2. q \in Nat /\ q * n <= 100 * passed /\ 100 * passed < q * n + n
      BY <2>2, <3>1, ExactBounds
    <3>3. s \in Nat /\ s * n <= 100 * passed /\ 100 * passed <= s * n + n
      BY <2>2, <3>1, ScoreBounds
    <3> HIDE DEF q, s, n
    <3>4. q * n \in Nat /\ s * n \in Nat
      BY <3>1, <3>2, <3>3
    <3>5. ~(q + 1 <= s)
      <4>1. q + 1 <= s => (q + 1) * n <= s * n
        BY <3>1, <3>2, <3>3, ProductGrows
      <4>2. (q + 1) * n = q * n + n
        BY <3>1, <3>2
      <4> QED
        BY <2>2, <3>1, <3>2, <3>3, <3>4, <4>1, <4>2
    <3>6. ~(s + 2 <= q)
      <4>1. s + 2 <= q => (s + 2) * n <= q * n
        BY <3>1, <3>2, <3>3, ProductGrows
      <4>2. (s + 2) * n = s * n + 2 * n
        BY <3>1, <3>3
      <4> QED
        BY <2>2, <3>1, <3>2, <3>3, <3>4, <4>1, <4>2
    <3> QED
      BY <3>2, <3>3, <3>5, <3>6
  <2> QED
    BY <2>3, <2>4
<1> QED
  BY <1>1, TallyStarts, TallyStays, PTL DEF TallySpec

(* The score is 100 exactly when the inspection is completed and counted   *)
(* an item, for any number of items in range.                              *)
THEOREM FullScoreIsCompleted == TallySpec => []FullScoreMeansCompleted
<1>1. CountsInRange => FullScoreMeansCompleted
  <2>1. CountsInRange => InRange(passed + issues)
    BY TallyAssumption, RangeDown DEF CountsInRange, Total
  <2> QED
    BY <2>1, FullScore DEF CountsInRange, FullScoreMeansCompleted, Total
<1> QED
  BY <1>1, TallyStarts, TallyStays, PTL DEF TallySpec

(* However the numbers round, a passed item never lowers the score and an  *)
(* issue never raises it, for any number of items in range.                *)
THEOREM Monotone == TallySpec => ScoreIsMonotone
<1> DEFINE Grows == LET before == Score(passed, Total)
                        after  == Score(passed', passed' + issues')
                    IN  IF issues' = issues THEN after >= before ELSE after <= before
<1>1. CountsInRange /\ [TallyNext]_tally => [Grows]_tally
  <2>1. SUFFICES ASSUME CountsInRange, TallyNext PROVE Grows
    OBVIOUS
  <2>2. Total + 1 <= MaxItems
    BY <2>1, TallyAssumption
       DEF TallyNext, CountPassed, CountIssue, CountsInRange, Total
  <2>3. InRange(passed + issues + 1)
    BY <2>1, <2>2, TallyAssumption, RangeDown DEF CountsInRange, Total
  <2>4. CASE CountPassed
    BY <2>1, <2>3, <2>4, PassedRaises DEF CountPassed, CountsInRange, Total
  <2>5. CASE CountIssue
    <3>1. issues' = issues + 1 /\ passed' = passed /\ issues' # issues
      BY <2>1, <2>5 DEF CountIssue, CountsInRange
    <3> QED
      BY <2>1, <2>3, <3>1, IssueLowers DEF CountsInRange, Total
  <2> QED
    BY <2>1, <2>4, <2>5 DEF TallyNext
<1> QED
  BY <1>1, TallyStarts, TallyStays, PTL DEF TallySpec, ScoreIsMonotone

(* An inspection that was executed has the score 100 exactly when it is    *)
(* completed and has a passed item.                                        *)
FullScoreStored ==
    \A i \in Inspection \ Seeded :
       IsFinished(inspection[i]) =>
          (inspection[i].score = 100 <=> /\ inspection[i].status = "completed"
                                         /\ inspection[i].passed > 0)

LEMMA TallyType ==
    ASSUME NEW f \in Form, NEW list \in Checklist, NEW v \in BOOLEAN
    PROVE  Tally(f, list, v) \in Nat
<1>1. IsFiniteSet({k \in Naming(f, list) : f[k].passed = v})
  BY FormShape, FS_Subset DEF Naming
<1> QED
  BY <1>1, WithType, FS_CardinalityType DEF Tally

LEMMA SumInRange ==
    ASSUME NEW S, IsFiniteSet(S), InRange(Cardinality(S)),
           NEW A \in SUBSET S, NEW B \in SUBSET S, A \cap B = {}
    PROVE  InRange(Cardinality(A) + Cardinality(B))
<1>1. IsFiniteSet(A) /\ IsFiniteSet(B) /\ A \cup B \in SUBSET S
  BY FS_Subset
<1>2. /\ Cardinality(A) \in Nat /\ Cardinality(B) \in Nat /\ Cardinality(S) \in Nat
      /\ Cardinality(A \cup B) <= Cardinality(S)
  BY <1>1, FS_CardinalityType, FS_Subset
<1>3. Cardinality(A \cup B) = Cardinality(A) + Cardinality(B)
  <2>1. Cardinality(A \cup B) = Cardinality(A) + Cardinality(B) - Cardinality(A \cap B)
    BY <1>1, FS_Union
  <2>2. Cardinality(A \cap B) = 0
    BY FS_EmptySet
  <2> QED
    BY <1>2, <2>1, <2>2
<1>4. PICK k \in Nat, n \in Nat : /\ k = Cardinality(S)
                                 /\ n = Cardinality(A) + Cardinality(B) /\ n <= k
  BY <1>2, <1>3
<1> QED
  BY <1>4, RangeDown

(* What Execute counts is no more than the entries of the form or, of a    *)
(* form that names none of them, the items.                                *)
LEMMA TallyInRange ==
    ASSUME NEW f \in Form, NEW list \in Checklist
    PROVE  InRange(Tally(f, list, TRUE) + Tally(f, list, FALSE))
<1> DEFINE A == {k \in Naming(f, list) : f[k].passed = TRUE}
           B == {k \in Naming(f, list) : f[k].passed = FALSE}
<1>1. CASE Naming(f, list) = {}
  <2>1. /\ With(list, TRUE) \in SUBSET Item /\ With(list, FALSE) \in SUBSET Item
        /\ With(list, TRUE) \cup With(list, FALSE) \in SUBSET Item
        /\ With(list, TRUE) \cap With(list, FALSE) = {}
    BY DEF With, Checklist
  <2> QED
    BY <1>1, <2>1, InspectionAssumption, SumInRange DEF Tally
<1>2. CASE Naming(f, list) # {}
  <2>1. PICK n \in 0 .. MaxForm : f \in [1 .. n -> Entry]
    BY DEF Form
  <2>2. n \in Nat /\ DOMAIN f = 1 .. n
    BY <2>1, InspectionAssumption
  <2>3. IsFiniteSet(1 .. n) /\ Cardinality(1 .. n) = n
    BY <2>2, FS_Interval
  <2>4. InRange(n)
    BY <2>1, <2>2, InspectionAssumption, RangeDown
  <2>5. A \in SUBSET (1 .. n) /\ B \in SUBSET (1 .. n) /\ A \cap B = {}
    BY <2>2 DEF Naming
  <2>6. Tally(f, list, TRUE) = Cardinality(A) /\ Tally(f, list, FALSE) = Cardinality(B)
    BY <1>2 DEF Tally
  <2> HIDE DEF A, B
  <2> QED
    BY <2>3, <2>4, <2>5, <2>6, SumInRange
<1> QED
  BY <1>1, <1>2

LEMMA StoredFromResult ==
    Typed /\ Settled /\ ResultOfOneForm => FullScoreStored
<1> SUFFICES ASSUME Typed, Settled, ResultOfOneForm,
                    NEW i \in Inspection \ Seeded, IsFinished(inspection[i])
             PROVE  inspection[i].score = 100 <=>
                       inspection[i].status = "completed" /\ inspection[i].passed > 0
  BY DEF FullScoreStored
<1>1. PICK r : r \in Executions(i)
  BY ResultParts DEF ResultKnown
<1>2. inspection[i] = Result(call[r].form, planned[i])
  BY <1>1, ResultParts DEF ResultKnown
<1>3. PICK p \in Nat, n \in Nat :
         /\ p = Tally(call[r].form, planned[i], TRUE)
         /\ n = Tally(call[r].form, planned[i], FALSE)
  BY <1>1, ExecutedForm, TallyType
<1>0. InRange(p + n)
  BY <1>1, <1>3, ExecutedForm, TallyInRange
<1>4. inspection[i] = [status |-> IF n = 0 THEN "completed" ELSE "failed",
                       passed |-> p, issues |-> n, score |-> Score(p, p + n)]
  BY <1>2, <1>3 DEF Result
<1>5. Score(p, p + n) = 100 <=> Outcome(p, n) = "completed" /\ p + n > 0
  BY <1>0, FullScore
<1> QED
  BY <1>4, <1>5 DEF Outcome

(* The two facts a manager reads off an executed inspection agree: a score *)
(* of 100 says that it is completed with something passed, and conversely. *)
THEOREM ScoreAgreesWithStatus == Spec => []FullScoreStored
BY SettledAlways, OneForm, StoredFromResult, PTL

(***************************************************************************)
(* Nobody waits for ever                                                   *)
(***************************************************************************)
(* A lock is held for its own row by a request past its wait: nobody holds *)
(* a lock while it waits for one, and no request that ended holds one.     *)
HeldByRunner ==
    \A i \in Inspection : lock[i] # NoRequest =>
        pc[lock[i]] \in {"list", "loop", "commit"} /\ call[lock[i]].id = i

LEMMA HeldInit == Init => HeldByRunner
BY DEF Init, HeldByRunner

LEMMA HeldNext == Typed /\ Guarded /\ HeldByRunner /\ [Next]_vars => HeldByRunner'
<1> SUFFICES ASSUME Typed, Guarded, HeldByRunner, [Next]_vars,
                    NEW i \in Inspection, lock'[i] # NoRequest
             PROVE  /\ pc'[lock'[i]] \in {"list", "loop", "commit"}
                    /\ call'[lock'[i]].id = i
  BY DEF HeldByRunner
<1> USE DEF Typed, TypeOK
<1>1. CASE Restart
  BY <1>1 DEF Restart
<1>2. CASE UNCHANGED vars
  BY <1>2 DEF vars, HeldByRunner
<1>3. ASSUME NEW r \in Request, Step(r)
      PROVE  /\ pc'[lock'[i]] \in {"list", "loop", "commit"}
             /\ call'[lock'[i]].id = i
(* Enough: a lock that stays with another request, and who took this one.  *)
  <2>1. ASSUME lock'[i] = lock[i], lock[i] # r
        PROVE  /\ pc'[lock'[i]] \in {"list", "loop", "commit"}
               /\ call'[lock'[i]].id = i
    <3>1. lock[i] \in Request \ {r}
      BY <1>3, <2>1
    <3>2. Undisturbed(lock[i])
      BY <1>3, <3>1, OthersUndisturbed
    <3> QED
      BY <1>3, <2>1, <3>2 DEF Undisturbed, HeldByRunner
  <2>2. CASE Ends(r) \/ Commit(r)
    <3>1. lock'[i] = IF lock[i] = r THEN NoRequest ELSE lock[i]
      BY <2>2 DEF Ends, Fail, Commit, Unlocked
    <3> QED
      BY <1>3, <2>1, <3>1
  <2>3. CASE Plans(r)
    <3>1. PICK c \in Call, list \in Checklist : Create(r, c, list)
      BY <2>3 DEF Plans
    <3>2. pc'[r] = "commit" /\ call'[r] = c /\ lock' = [lock EXCEPT ![c.id] = r]
      BY <3>1 DEF Create
    <3>3. CASE c.id = i
      BY <3>2, <3>3
    <3>4. CASE c.id # i
      <4>1. lock'[i] = lock[i]
        BY <3>2, <3>4
      <4>2. lock[i] # r
        BY <1>3, <2>3, <4>1 DEF Plans, HeldByRunner
      <4> QED
        BY <2>1, <4>1, <4>2
    <3> QED
      BY <3>3, <3>4
  <2>4. CASE Locks(r)
    <3>1. /\ pc[r] = "lock" /\ pc'[r] = "list" /\ call' = call
          /\ lock' = [lock EXCEPT ![call[r].id] = r]
      BY <2>4 DEF Locks
    <3>2. CASE call[r].id = i
      BY <3>1, <3>2
    <3>3. CASE call[r].id # i
      <4>1. lock'[i] = lock[i]
        BY <3>1, <3>3
      <4>2. lock[i] # r
        BY <1>3, <3>1, <4>1 DEF HeldByRunner
      <4> QED
        BY <2>1, <4>1, <4>2
    <3> QED
      BY <3>2, <3>3
  <2>5. CASE Submits(r) \/ Shows(r) \/ ReadItems(r)
    <3>1. lock' = lock /\ pc[r] \in {"new", "items"}
      BY <2>5 DEF Submits, Shows, ReadItems
    <3>2. lock[i] # r
      BY <1>3, <3>1 DEF HeldByRunner
    <3> QED
      BY <2>1, <3>1, <3>2
  <2>6. CASE ListItems(r) \/ UpdateItem(r) \/ SaveInspection(r)
    <3>1. lock' = lock /\ call' = call /\ pc'[r] \in {"loop", "commit"}
      BY <2>6 DEF ListItems, UpdateItem, SaveInspection
    <3>2. CASE lock[i] = r
      BY <1>3, <3>1, <3>2 DEF HeldByRunner
    <3> QED
      BY <2>1, <3>1, <3>2
  <2> QED
    BY <1>3, <2>2, <2>3, <2>4, <2>5, <2>6 DEF Step
<1> QED
  BY <1>1, <1>2, <1>3, NextCases

(* What the actions of Progress(r) ask for: a free lock, or nothing else.  *)
CanGoOn(r) ==
    \/ pc[r] = "lock" /\ lock[call[r].id] = NoRequest
    \/ pc[r] \in {"list", "loop", "commit", "items"}

NobodyStuck ==
    \A r \in Request : InFlight(r) => CanGoOn(r) \/ CanGoOn(lock[call[r].id])

(* A request that was accepted can go on, or waits for the lock of one     *)
(* that can: no execution waits for itself, in a circle, or for a          *)
(* transaction that was left open on some way out of the service.          *)
THEOREM NoDeadlock == Spec => []NobodyStuck
<1>1. Typed /\ HeldByRunner => NobodyStuck
  <2> SUFFICES ASSUME Typed, HeldByRunner, NEW r \in Request, InFlight(r), ~CanGoOn(r)
               PROVE  CanGoOn(lock[call[r].id])
    BY DEF NobodyStuck
  <2>1. pc[r] = "lock" /\ lock[call[r].id] # NoRequest
    BY DEF CanGoOn, InFlight
  <2>2. call[r].id \in Inspection
    BY DEF Typed, Called, Call
  <2> QED
    BY <2>1, <2>2 DEF CanGoOn, HeldByRunner
<1> QED
  BY <1>1, HeldInit, HeldNext, TypedInit, TypedNext, GuardedInit, GuardedNext, PTL
     DEF Spec

(* How many steps a request can still take before it has ended.            *)
Remaining(r) ==
    CASE pc[r] = "new"   -> MaxForm + 5
      [] pc[r] = "lock"  -> Len(call[r].form) + 4
      [] pc[r] = "list"  -> Len(call[r].form) + 3
      [] pc[r] = "loop"  -> Len(call[r].form) + 3 - work[r].at
      [] pc[r] \in {"commit", "items"} -> 1
      [] OTHER           -> 0

EveryStepAdvances ==
    [][/\ \A r \in Request : Remaining(r)' <= Remaining(r)
       /\ \E r \in Request : Remaining(r)' < Remaining(r)]_vars

LEMMA FormBound == ASSUME NEW f \in Form PROVE Len(f) \in 0..MaxForm
<1>1. PICK n \in 0..MaxForm : f \in [1..n -> Entry]
  BY DEF Form
<1> QED
  BY <1>1, InspectionAssumption

(* The values of Remaining, case by case.                                  *)
MeasureFits ==
    \A r \in Request :
        /\ Remaining(r) \in Nat
        /\ InFlight(r) => Remaining(r) \in 1..(MaxForm + 4)
        /\ pc[r] = "new" => Remaining(r) = MaxForm + 5
        /\ pc[r] \in {"done", "killed"} => Remaining(r) = 0

LEMMA MeasureHolds == Typed /\ FromOneFormAll => MeasureFits
<1> SUFFICES ASSUME Typed, FromOneFormAll, NEW r \in Request
             PROVE  /\ Remaining(r) \in Nat
                    /\ InFlight(r) => Remaining(r) \in 1..(MaxForm + 4)
                    /\ pc[r] = "new" => Remaining(r) = MaxForm + 5
                    /\ pc[r] \in {"done", "killed"} => Remaining(r) = 0
  BY DEF MeasureFits
<1> USE DEF Typed, TypeOK
<1>1. MaxForm \in Nat
  BY InspectionAssumption
<1>2. CASE pc[r] \in {"new", "commit", "items", "done", "killed"}
  BY <1>1, <1>2 DEF Remaining, InFlight
<1>3. CASE pc[r] \in {"lock", "list", "loop"}
  <2>1. call[r].form \in Form
    BY <1>3 DEF Called, InFlight, Call
  <2>2. Len(call[r].form) \in 0..MaxForm
    BY <2>1, FormBound
  <2>3. pc[r] = "loop" => work[r].at \in Nat \ {0} /\ work[r].at <= Len(call[r].form) + 1
    BY DEF FromOneFormAll, FromOneForm, Walked, Work
  <2> QED
    BY <1>1, <1>3, <2>2, <2>3 DEF Remaining, InFlight
<1> QED
  BY <1>2, <1>3

(* A request that takes a step comes nearer to its end.                    *)
LEMMA StepAdvances ==
    ASSUME Typed, FromOneFormAll, MeasureFits, MeasureFits',
           NEW r \in Request, Step(r)
    PROVE  Remaining(r)' < Remaining(r)
<1> USE DEF Typed, TypeOK
<1>1. MaxForm \in Nat
  BY InspectionAssumption
<1>2. /\ Remaining(r) \in Nat /\ Remaining(r)' \in Nat
      /\ InFlight(r) => Remaining(r) \in 1..(MaxForm + 4)
      /\ InFlight(r)' => Remaining(r)' \in 1..(MaxForm + 4)
      /\ pc[r] = "new" => Remaining(r) = MaxForm + 5
      /\ pc'[r] = "done" => Remaining(r)' = 0
  BY DEF MeasureFits
<1>3. CASE pc'[r] = "done"
  <2>1. pc[r] = "new" \/ InFlight(r)
    BY <1>3 DEF Step, Ends, Plans, Submits, Locks, ListItems, UpdateItem,
                SaveInspection, Commit, Shows, ReadItems, InFlight
  <2> QED
    BY <1>1, <1>2, <1>3, <2>1
<1>4. CASE Plans(r) \/ Submits(r) \/ Shows(r)
  <2>1. pc[r] = "new"
    BY <1>4 DEF Plans, Submits, Shows
  <2>2. Plans(r) => pc' = [pc EXCEPT ![r] = "commit"]
    BY DEF Plans, Create
  <2>3. pc'[r] \in {"commit", "lock", "items"}
    BY <1>4, <2>2 DEF Submits, Shows
  <2> QED
    BY <1>1, <1>2, <2>1, <2>3 DEF InFlight
<1> DEFINE n == Len(call[r].form)
<1>5. CASE Locks(r) \/ ListItems(r) \/ UpdateItem(r) \/ SaveInspection(r)
  <2>1. /\ call'[r] = call[r]
        /\ \/ pc[r] = "lock" /\ pc'[r] = "list"
           \/ pc[r] = "list" /\ pc'[r] = "loop" /\ work'[r].at = work[r].at
           \/ pc[r] = "loop" /\ pc'[r] = "loop" /\ work'[r].at = work[r].at + 1
           \/ pc[r] = "loop" /\ pc'[r] = "commit"
    <3>1. CASE Locks(r)
      BY <3>1 DEF Locks
    <3>2. CASE ListItems(r)
      BY <3>2 DEF ListItems, Work
    <3>3. CASE UpdateItem(r)
      <4>1. \A e : Apply(work[r], e).at = work[r].at + 1
        BY DEF Apply, Work
      <4> QED
        BY <3>3, <4>1 DEF UpdateItem
    <3>4. CASE SaveInspection(r)
      BY <3>4 DEF SaveInspection
    <3> QED
      BY <1>5, <3>1, <3>2, <3>3, <3>4
  <2>2. InFlight(r) /\ call[r].form \in Form
    BY <2>1 DEF Called, InFlight, Call
  <2>3. n \in Nat
    BY <2>2, FormBound, <1>1
  <2>4. /\ pc[r] = "list" => work[r].at = 1
        /\ pc[r] = "loop" => work[r].at \in Nat /\ work[r].at <= n + 1
    BY DEF FromOneFormAll, FromOneForm, Walked, Work
  <2> HIDE DEF n
  <2>5. CASE pc[r] = "lock" /\ pc'[r] = "list"
    <3>1. Remaining(r) = n + 4 /\ Remaining(r)' = n + 3
      BY <2>1, <2>5 DEF Remaining, n
    <3> QED
      BY <2>3, <3>1
  <2>6. CASE pc[r] = "list" /\ pc'[r] = "loop" /\ work'[r].at = work[r].at
    <3>1. Remaining(r) = n + 3 /\ Remaining(r)' = n + 3 - 1
      BY <2>1, <2>4, <2>6 DEF Remaining, n
    <3> QED
      BY <2>3, <3>1
  <2>7. CASE pc[r] = "loop" /\ pc'[r] = "loop" /\ work'[r].at = work[r].at + 1
    <3>1. Remaining(r) = n + 3 - work[r].at /\ Remaining(r)' = n + 3 - (work[r].at + 1)
      BY <2>1, <2>7 DEF Remaining, n
    <3> QED
      BY <2>3, <2>4, <2>7, <3>1
  <2>8. CASE pc[r] = "loop" /\ pc'[r] = "commit"
    <3>1. Remaining(r) = n + 3 - work[r].at /\ Remaining(r)' = 1
      BY <2>1, <2>8 DEF Remaining, n
    <3> QED
      BY <2>3, <2>4, <2>8, <3>1
  <2> QED
    BY <2>1, <2>5, <2>6, <2>7, <2>8
<1>6. Ends(r) \/ Commit(r) \/ ReadItems(r) => pc'[r] = "done"
  BY DEF Ends, Fail, Commit, ReadItems
<1> QED
  BY <1>3, <1>4, <1>5, <1>6 DEF Step

(* Every step, a restart included, brings a request nearer to its end and  *)
(* none further away from it: each takes at most MaxForm + 5 steps, however *)
(* the requests interleave.  With NoDeadlock this is all of                *)
(* EveryRequestEnds but the fairness.                                      *)
THEOREM StepsAdvance == Spec => EveryStepAdvances
<1>1. ASSUME Typed, Guarded, FromOneFormAll, MeasureFits, MeasureFits', [Next]_vars
      PROVE  [/\ \A r \in Request : Remaining(r)' <= Remaining(r)
              /\ \E r \in Request : Remaining(r)' < Remaining(r)]_vars
  <2>1. CASE Restart
    <3>1. PICK q \in Request : InFlight(q)
      BY <2>1 DEF Restart
    <3>2. ASSUME NEW r \in Request, InFlight(r)
          PROVE  Remaining(r)' < Remaining(r)
      <4>1. pc'[r] = "killed"
        BY <2>1, <3>2 DEF Restart
      <4> QED
        BY <1>1, <3>2, <4>1, InspectionAssumption DEF MeasureFits
    <3>3. ASSUME NEW r \in Request, ~InFlight(r)
          PROVE  Remaining(r)' <= Remaining(r)
      <4>1. pc'[r] = pc[r] /\ pc[r] \in {"new", "done", "killed"}
        BY <1>1, <2>1, <3>3 DEF Restart, InFlight, Typed, TypeOK
      <4>2. Remaining(r)' = Remaining(r)
        BY <4>1 DEF Remaining
      <4> QED
        BY <1>1, <4>2 DEF MeasureFits
    <3>4. \A r \in Request : Remaining(r) \in Nat /\ Remaining(r)' \in Nat
      BY <1>1 DEF MeasureFits
    <3> QED
      BY <3>1, <3>2, <3>3, <3>4
  <2>2. ASSUME NEW r \in Request, Step(r)
        PROVE  /\ \A q \in Request : Remaining(q)' <= Remaining(q)
               /\ \E q \in Request : Remaining(q)' < Remaining(q)
    <3>1. Remaining(r)' < Remaining(r)
      BY <1>1, <2>2, StepAdvances
    <3>2. ASSUME NEW q \in Request \ {r} PROVE Remaining(q)' = Remaining(q)
      <4>1. Undisturbed(q)
        BY <1>1, <2>2, OthersUndisturbed
      <4> QED
        BY <4>1 DEF Undisturbed, Remaining
    <3>3. \A q \in Request : Remaining(q) \in Nat /\ Remaining(q)' \in Nat
      BY <1>1 DEF MeasureFits
    <3> QED
      BY <3>1, <3>2, <3>3
  <2> QED
    BY <1>1, <2>1, <2>2, NextCases
<1>2. Typed /\ Guarded /\ FromOneFormAll /\ MeasureFits /\ MeasureFits' /\ [Next]_vars
         => [/\ \A r \in Request : Remaining(r)' <= Remaining(r)
             /\ \E r \in Request : Remaining(r)' < Remaining(r)]_vars
  BY <1>1
<1> QED
  BY <1>2, FormAlways, MeasureHolds, PTL DEF Spec, EveryStepAdvances

(***************************************************************************)
(* Refinement                                                              *)
(***************************************************************************)
LEMMA BookInitHolds == Init => Book!BookInit
BY DEF Init, Book!BookInit, NoHeader, Planned, SeedDone

LEMMA BookStep ==
    ASSUME Typed, Guarded, [Next]_vars
    PROVE  [Book!BookNext]_(Book!book)
<1> USE DEF Typed, TypeOK
<1>1. ASSUME NEW r \in Request, Commit(r) PROVE Book!BookNext
  <2>1. PICK i \in Inspection, h \in Header, l \in Checklist :
          /\ i = call[r].id /\ h = work[r].head /\ l = work[r].list
          /\ inspection' = [inspection EXCEPT ![i] = h]
          /\ items' = [items EXCEPT ![i] = l]
          /\ \/ inspection[i].status = "absent" /\ h = Planned
             \/ /\ inspection[i].status = "scheduled"
                /\ h.status = IF h.issues = 0 THEN "completed" ELSE "failed"
                /\ DOMAIN l = DOMAIN items[i]
    BY <1>1, CommitWrites DEF Work
  <2>2. inspection'[i] = h /\ items'[i] = l
    BY <2>1
  <2>3. Book!Only(i)
    BY <2>1, <2>2 DEF Book!Only
  <2>4. Book!PlanInspection(i) \/ Book!FinishInspection(i)
    BY <2>1, <2>2, <2>3 DEF Book!PlanInspection, Book!FinishInspection, Planned
  <2> QED
    BY <2>4 DEF Book!BookNext
<1> QED
  BY <1>1, TableCases DEF Book!book

(* Seen through the header and the items of its row, an inspection is      *)
(* planned and finished in one atomic step each.                           *)
THEOREM ImplementsLifecycle == Spec => FollowsLifecycle
<1>1. Typed /\ Guarded /\ [Next]_vars => [Book!BookNext]_(Book!book)
  BY BookStep
<1> QED
  BY <1>1, BookInitHolds, TypedInit, TypedNext, GuardedInit, GuardedNext, PTL
     DEF Spec, FollowsLifecycle, Book!BookSpec
=============================================================================
