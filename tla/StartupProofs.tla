---------------------------- MODULE StartupProofs ----------------------------
(***************************************************************************)
(* However many faults and starts there are: no preset row is stored twice *)
(* and none is stored without the rows it means, under their ids.          *)
(***************************************************************************)
EXTENDS Startup, TLAPS

\* The first n preset rows are stored, each once.
Prefix(n) == copies = [k \in Preset |-> IF k <= n THEN 1 ELSE 0]

\* What is stored is a prefix of the preset rows.  While Seed runs it is what this
\* run of Seed has stored, and otherwise it is empty unless there are users.
InOrder ==
    /\ \E n \in 0 .. 16 : Prefix(n)
    /\ phase = "seeding" => Prefix(at - 1)
    /\ phase \in {"down", "starting"} => at = 1

\* The ids that this run of Seed gives next: users follow one another, however far
\* they are shifted, and inspections begin with 1 as long as none was inserted.
Numbered ==
    /\ \A m \in Named : Stored(m) =>
          id[m] = Place(m) + (IF m \in Users THEN UsersShift ELSE 0)
    /\ phase = "seeding" /\ at \in 2 .. 4 => nextId["users"] = at + UsersShift
    /\ ~Stored(1) \/ (phase = "seeding" /\ at <= 8) => nextId["inspections"] = 1
    /\ phase = "seeding" /\ at = 9 => nextId["inspections"] = 2

Ordered == TypeOK /\ InOrder

IInv == Ordered /\ Numbered

\* A stored prefix without a user is empty: the users come first.
LEMMA NoUserNoRow ==
    ASSUME NEW n \in 0 .. 16, Prefix(n), ~UserExists
    PROVE  n = 0
<1>1. ~Stored(1)
  BY DEF UserExists, Users
<1>2. copies[1] = IF 1 <= n THEN 1 ELSE 0
  BY DEF Prefix, Preset
<1> QED
  BY <1>1, <1>2 DEF Stored

LEMMA InitInOrder == Init => IInv
<1> SUFFICES ASSUME Init PROVE IInv
  OBVIOUS
<1>1. TypeOK
  BY StartupAssumption
  DEF Init, TypeOK, Empty, Full, Phase, Preset, NoId, First, Last, Place, Named, Users, Inspections
<1>2. CASE copies = Empty /\ nextId = First
  <2>1. Prefix(0)
    BY <1>2 DEF Prefix, Empty, Preset
  <2>2. \A k \in Preset : ~Stored(k)
    BY <1>2 DEF Empty, Stored
  <2>3. Numbered
    BY <1>2, <2>2 DEF Numbered, Init, First, Table, Named, Preset, Users, Inspections
  <2> QED
    BY <1>1, <2>1, <2>3 DEF IInv, Ordered, InOrder, Init
<1>3. CASE copies = Full /\ id = [m \in Named |-> Place(m)]
  <2>1. Prefix(16)
    BY <1>3 DEF Prefix, Full, Preset
  <2>2. Stored(1) /\ UsersShift = 0
    <3>1. Stored(1)
      BY <1>3 DEF Full, Stored, Preset
    <3>2. id[1] = 1
      BY <1>3 DEF Named, Users, Place
    <3> QED
      BY <3>1, <3>2 DEF UsersShift
  <2>3. Numbered
    <3>1. \A m \in Named : id[m] = Place(m) + (IF m \in Users THEN UsersShift ELSE 0)
      BY <1>3, <2>2 DEF Place, Named, Users, Inspections
    <3> QED
      BY <2>2, <3>1 DEF Numbered, Init
  <2> QED
    BY <1>1, <2>1, <2>3 DEF IInv, Ordered, InOrder, Init
<1> QED
  BY <1>2, <1>3 DEF Init

\* A row that is stored next extends the prefix by one.
LEMMA StoreNext ==
    ASSUME TypeOK, at \in Preset, Prefix(at - 1),
           copies' = [copies EXCEPT ![at] = @ + 1]
    PROVE  /\ copies' = [k \in Preset |-> IF k <= at THEN 1 ELSE 0]
           /\ copies' \in [Preset -> Nat]
<1>1. copies = [k \in Preset |-> IF k <= at - 1 THEN 1 ELSE 0]
  BY DEF Prefix
<1>2. \A k \in Preset : copies'[k] = IF k <= at THEN 1 ELSE 0
  <2>1. ASSUME NEW k \in Preset PROVE copies'[k] = IF k <= at THEN 1 ELSE 0
    <3>1. CASE k = at
      BY <1>1, <3>1 DEF Preset
    <3>2. CASE k # at
      BY <1>1, <3>2 DEF Preset
    <3> QED
      BY <3>1, <3>2
  <2> QED
    BY <2>1
<1>3. copies \in [Preset -> Nat] /\ copies' \in [Preset -> Nat]
  BY <1>1 DEF TypeOK
<1>4. copies' = [k \in Preset |-> IF k <= at THEN 1 ELSE 0]
  BY <1>2, <1>3
<1> QED
  BY <1>3, <1>4

LEMMA NextOrdered == IInv /\ [Next]_vars => Ordered'
<1> SUFFICES ASSUME IInv, [Next]_vars PROVE Ordered'
  OBVIOUS
<1> USE StartupAssumption DEF Phase, stored
<1>1. TypeOK /\ InOrder
  BY DEF IInv, Ordered
<1>2. PICK n \in 0 .. 16 : Prefix(n)
  BY <1>1 DEF InOrder
<1>3. ASSUME UNCHANGED copies, phase' # "seeding",
             phase' \in {"down", "starting"} => at' = 1
      PROVE  InOrder'
  BY <1>2, <1>3 DEF InOrder, Prefix
<1>4. CASE Start
  BY <1>1, <1>3, <1>4 DEF Start, Ordered, InOrder, TypeOK
<1>5. CASE CountUsers
  <2>1. TypeOK'
    BY <1>1, <1>5 DEF CountUsers, Fault, Dies, TypeOK
  <2>2. ASSUME phase' = "seeding" PROVE InOrder'
    <3>1. ~UserExists /\ UNCHANGED <<copies, at>>
      BY <1>5, <2>2 DEF CountUsers, Dies
    <3>2. Prefix(0)
      BY <1>2, <3>1, NoUserNoRow
    <3>3. at = 1
      BY <1>1, <1>5 DEF CountUsers, InOrder
    <3> QED
      BY <2>2, <3>1, <3>2, <3>3 DEF InOrder, Prefix
  <2> QED
    BY <1>1, <1>3, <1>5, <2>1, <2>2 DEF Ordered, CountUsers, Dies, InOrder
<1>6. CASE Insert
  <2>1. at \in Preset /\ Prefix(at - 1)
    BY <1>1, <1>6 DEF Insert, InOrder
  <2>2. ASSUME Store(at),
               \/ at' = at + 1 /\ UNCHANGED <<phase, faults>>
               \/ Fault /\ Dies
        PROVE  Ordered'
    <3>1. copies' = [k \in Preset |-> IF k <= at THEN 1 ELSE 0] /\ copies' \in [Preset -> Nat]
      BY <1>1, <2>1, <2>2, StoreNext DEF Store
    <3>2. id' \in [Named -> Nat] /\ nextId' \in [Table -> Nat]
      BY <1>1, <2>2 DEF Store, TypeOK, Table, TableOf
    <3>7. TypeOK'
      BY <1>1, <1>6, <2>1, <2>2, <3>1, <3>2 DEF Insert, Fault, Dies, TypeOK, Preset
    <3>3. at \in 0 .. 16
      BY <2>1 DEF Preset
    <3>4. \E m \in 0 .. 16 : Prefix(m)'
      BY <3>1, <3>3 DEF Prefix
    <3>5. ASSUME phase' = "seeding" PROVE Prefix(at - 1)'
      <4>1. at' = at + 1 /\ at' - 1 = at
        BY <2>2, <3>3, <3>5 DEF Dies
      <4> QED
        BY <3>1, <4>1 DEF Prefix
    <3>6. phase' \in {"down", "starting"} => at' = 1
      BY <1>6, <2>2 DEF Insert, Dies
    <3> QED
      BY <3>4, <3>5, <3>6, <3>7 DEF Ordered, InOrder
  <2>3. ASSUME UNCHANGED copies, Dies, faults' \in 0 .. MaxFaults, nextId' \in [Table -> Nat],
             UNCHANGED id PROVE Ordered'
    BY <1>1, <1>3, <1>6, <2>3 DEF Insert, Dies, Ordered, TypeOK
  <2>4. ASSUME Duplicate(at) \/ faults < MaxFaults,
               faults' = IF Duplicate(at) THEN faults ELSE faults + 1
        PROVE  faults' \in 0 .. MaxFaults
    BY <1>1, <2>4 DEF TypeOK
  <2>5. ASSUME NotStored(at) PROVE nextId' \in [Table -> Nat] /\ UNCHANGED <<copies, id>>
    BY <1>1, <2>5 DEF NotStored, TypeOK, Table, TableOf
  <2> QED
    BY <1>6, <2>2, <2>3, <2>4, <2>5 DEF Insert
<1>7. CASE Seeded
  BY <1>1, <1>3, <1>7 DEF Seeded, Ordered, TypeOK
<1>8. CASE Register
  BY <1>1, <1>3, <1>8 DEF Register, Ordered, TypeOK
<1>9. CASE Crash
  BY <1>1, <1>3, <1>9 DEF Crash, Fault, Dies, Ordered, TypeOK
<1>10. CASE UNCHANGED vars
  BY <1>1, <1>10 DEF vars, stored, Ordered, TypeOK, InOrder, Prefix
<1> QED
  BY <1>4, <1>5, <1>6, <1>7, <1>8, <1>9, <1>10 DEF Next

\* A step that stores no row keeps the ids in order: Seed goes on only if none was
\* used up, and begins anew only if no user is stored.
LEMMA NothingNumbered ==
    ASSUME IInv, Ordered', UNCHANGED <<copies, id>>,
           phase' = "seeding" /\ at' > 1 =>
               phase = "seeding" /\ at' = at /\ UNCHANGED nextId,
           Stored(1) \/ nextId'["inspections"] = nextId["inspections"]
    PROVE  Numbered'
<1>1. UsersShift' = UsersShift /\ \A k \in Preset : Stored(k)' = Stored(k)
  BY DEF UsersShift, Stored
<1>2. phase' = "seeding" /\ at' = 1 => ~Stored(1)
  BY <1>1 DEF Ordered, InOrder, Prefix, Stored, Preset
<1>3. at' \in 1 .. 17
  BY DEF Ordered, TypeOK
<1>4. 1 \in Preset /\ Named \subseteq Preset
  BY DEF Preset, Named, Users, Inspections
<1>5. ASSUME phase' = "seeding", at' > 1 PROVE phase = "seeding" /\ at' = at /\ nextId' = nextId
  BY <1>5
<1>6. ~Stored(1) => nextId'["inspections"] = 1
  BY DEF IInv, Numbered
<1>7. \A m \in Named : Stored(m)' =>
          id'[m] = Place(m) + (IF m \in Users THEN UsersShift' ELSE 0)
  BY <1>1, <1>4 DEF IInv, Numbered
<1>8. ~Stored(1)' \/ (phase' = "seeding" /\ at' <= 8) => nextId'["inspections"] = 1
  BY <1>1, <1>2, <1>3, <1>4, <1>5, <1>6 DEF IInv, Numbered
<1> QED
  BY <1>1, <1>3, <1>5, <1>7, <1>8 DEF IInv, Numbered

\* A row that is stored gets the id that follows.
LEMMA RowNumbered ==
    ASSUME IInv, phase = "seeding", at \in Preset, Store(at),
           phase' = "seeding" => at' = at + 1
    PROVE  Numbered'
<1>1. /\ copies = [k \in Preset |-> IF k <= at - 1 THEN 1 ELSE 0]
      /\ id \in [Named -> Nat] /\ nextId \in [Table -> Nat]
  BY DEF IInv, Ordered, TypeOK, InOrder, Prefix
<1>2. copies' = [k \in Preset |-> IF k <= at THEN 1 ELSE 0]
  BY StoreNext DEF IInv, Ordered, InOrder, Store
<1>3. \A k \in Preset : (Stored(k) <=> k < at) /\ (Stored(k)' <=> k <= at)
  BY <1>1, <1>2 DEF Stored, Preset
<1>4. 1 \in Preset /\ Named \subseteq Preset /\ 1 \in Named /\ 1 \in Users /\ at \in 1 .. 16
  BY DEF Preset, Named, Users, Inspections
<1>5. \A m \in Named : m < at => id[m] = Place(m) + (IF m \in Users THEN UsersShift ELSE 0)
  BY <1>3, <1>4 DEF IInv, Numbered
<1>6. Stored(1)' /\ UsersShift' = id'[1] - 1
  BY <1>3, <1>4 DEF UsersShift
<1>7. at > 1 => UsersShift = id[1] - 1
  BY <1>3, <1>4 DEF UsersShift
<1>8. at <= 8 => nextId["inspections"] = 1
  BY <1>3, <1>4 DEF IInv, Numbered
<1>9. CASE at = 1
  <2>1. /\ id' = [id EXCEPT ![1] = nextId["users"]]
        /\ nextId' = [nextId EXCEPT !["users"] = @ + 1]
    BY <1>4, <1>9 DEF Store, TableOf
  <2>2. id'[1] = nextId["users"] /\ nextId'["users"] = id'[1] + 1 /\ id'[1] \in Nat
        /\ nextId'["inspections"] = 1
    BY <1>1, <1>4, <1>8, <1>9, <2>1 DEF Table
  <2>3. \A m \in Named : Stored(m)' => m = 1
    BY <1>3, <1>4, <1>9 DEF Named, Users, Inspections
  <2>4. Place(1) = 1
    BY DEF Place, Users
  <2> QED
    BY <1>4, <1>6, <1>9, <2>2, <2>3, <2>4 DEF Numbered
<1>10. CASE at \in 2 .. 4
  <2>1. at \in Named /\ at \in Users /\ Place(at) = at
    BY <1>10 DEF Named, Users, Place
  <2>2. /\ id' = [id EXCEPT ![at] = nextId["users"]]
        /\ nextId' = [nextId EXCEPT !["users"] = @ + 1]
    BY <2>1 DEF Store, TableOf
  <2>3. nextId["users"] = at + UsersShift
    BY <1>10 DEF IInv, Numbered
  <2>4. UsersShift' = UsersShift /\ UsersShift \in Int
    BY <1>1, <1>4, <1>6, <1>7, <1>10, <2>2
  <2>5. nextId'["users"] = at + 1 + UsersShift /\ nextId'["inspections"] = 1
    BY <1>1, <1>8, <1>10, <2>2, <2>3, <2>4 DEF Table
  <2>6. \A m \in Named : Stored(m)' =>
            id'[m] = Place(m) + (IF m \in Users THEN UsersShift' ELSE 0)
    <3>1. ASSUME NEW m \in Named, m <= at
          PROVE  id'[m] = Place(m) + (IF m \in Users THEN UsersShift ELSE 0)
      <4>1. CASE m = at
        BY <4>1, <1>1, <2>1, <2>2, <2>3
      <4>2. CASE m # at
        BY <4>2, <3>1, <1>1, <1>4, <1>5, <2>2 DEF Preset
      <4> QED
        BY <4>1, <4>2
    <3> QED
      BY <3>1, <1>3, <1>4, <2>4
  <2> QED
    BY <1>6, <1>10, <2>4, <2>5, <2>6 DEF Numbered
<1>11. CASE at \in Inspections
  <2>1. at \in Named /\ at \notin Users /\ at \in {8, 9}
    BY <1>11 DEF Named, Users, Inspections
  <2>2. /\ id' = [id EXCEPT ![at] = nextId["inspections"]]
        /\ nextId' = [nextId EXCEPT !["inspections"] = @ + 1]
    BY <2>1 DEF Store, TableOf
  <2>3. nextId["inspections"] = Place(at)
    BY <1>8, <2>1 DEF IInv, Numbered, Place
  <2>4. UsersShift' = UsersShift
    BY <1>1, <1>4, <1>6, <1>7, <2>1, <2>2
  <2>5. at = 8 => nextId'["inspections"] = 2
    BY <1>1, <1>8, <2>2 DEF Table
  <2>6. \A m \in Named : Stored(m)' =>
            id'[m] = Place(m) + (IF m \in Users THEN UsersShift' ELSE 0)
    <3>1. ASSUME NEW m \in Named, m <= at
          PROVE  id'[m] = Place(m) + (IF m \in Users THEN UsersShift ELSE 0)
      <4>1. CASE m = at
        BY <4>1, <1>1, <2>1, <2>2, <2>3 DEF Place
      <4>2. CASE m # at
        BY <4>2, <3>1, <1>1, <1>4, <1>5, <2>2 DEF Preset
      <4> QED
        BY <4>1, <4>2
    <3> QED
      BY <3>1, <1>3, <1>4, <2>4
  <2> QED
    BY <1>6, <2>1, <2>5, <2>6 DEF Numbered
<1>12. CASE at \notin Named
  <2>1. UNCHANGED <<id, nextId>> /\ at > 4 /\ at \notin {8, 9}
    BY <1>4, <1>12 DEF Store, Named, Users, Inspections
  <2>2. UsersShift' = UsersShift
    BY <1>4, <1>6, <1>7, <2>1
  <2>3. \A m \in Named : Stored(m)' => m < at
    BY <1>3, <1>4, <1>12 DEF Named, Users, Inspections
  <2>4. \A m \in Named : Stored(m)' =>
            id'[m] = Place(m) + (IF m \in Users THEN UsersShift' ELSE 0)
    BY <1>5, <2>1, <2>2, <2>3
  <2>5. phase' = "seeding" => at' > 5 /\ at' # 9 /\ (at' <= 8 => at <= 8)
    BY <1>4, <2>1
  <2> QED
    BY <1>6, <1>8, <2>1, <2>4, <2>5 DEF Numbered
<1> QED
  BY <1>4, <1>9, <1>10, <1>11, <1>12 DEF Named, Users

LEMMA NextNumbered == IInv /\ [Next]_vars => Numbered'
<1> SUFFICES ASSUME IInv, [Next]_vars PROVE Numbered'
  OBVIOUS
<1>1. Ordered'
  BY NextOrdered
<1>2. CASE Start \/ Seeded \/ Register \/ Crash
  BY <1>1, <1>2, NothingNumbered DEF Start, Seeded, Register, Crash, Dies, stored
<1>3. CASE CountUsers
  <2>1. UNCHANGED stored /\ at' = 1
    BY <1>3 DEF CountUsers, Dies, IInv, Ordered, InOrder
  <2> QED
    BY <1>1, <2>1, NothingNumbered DEF stored
<1>4. CASE Insert
  <2>1. phase = "seeding" /\ at \in Preset
    BY <1>4 DEF Insert
  <2>2. CASE Store(at)
    <3>1. phase' = "seeding" => at' = at + 1
      BY <1>4, <2>2 DEF Insert, Dies, Store, NotStored
    <3> QED
      BY <2>1, <2>2, <3>1, RowNumbered
  <2>3. CASE NotStored(at) /\ Dies
    <3>1. Stored(1) \/ nextId'["inspections"] = nextId["inspections"]
      <4>1. at # 1 => Stored(1)
        BY <2>1 DEF IInv, Ordered, InOrder, Prefix, Stored, Preset
      <4>2. at = 1 => nextId'["inspections"] = nextId["inspections"]
        BY <2>3 DEF NotStored, TableOf, Users, IInv, Ordered, TypeOK, Table
      <4> QED
        BY <4>1, <4>2
    <3> QED
      BY <1>1, <2>3, <3>1, NothingNumbered DEF NotStored, Dies
  <2> QED
    BY <1>4, <2>2, <2>3 DEF Insert
<1>5. CASE UNCHANGED vars
  BY <1>1, <1>5, NothingNumbered DEF vars, stored
<1> QED
  BY <1>2, <1>3, <1>4, <1>5 DEF Next

LEMMA NextInOrder == IInv /\ [Next]_vars => IInv'
BY NextOrdered, NextNumbered DEF IInv

LEMMA Inductive == Spec => []IInv
BY InitInOrder, NextInOrder, PTL DEF Spec

\* What a stored prefix means for the rows.
LEMMA InOrderMeans == IInv => TypeOK /\ NoPresetTwice /\ ReferencesHold
<1> SUFFICES ASSUME IInv PROVE NoPresetTwice /\ ReferencesHold
  BY DEF IInv, Ordered
<1>1. PICK n \in 0 .. 16 : Prefix(n)
  BY DEF IInv, Ordered, InOrder
<1>2. \A k \in Preset : copies[k] = IF k <= n THEN 1 ELSE 0
  BY <1>1 DEF Prefix
<1>3. NoPresetTwice
  BY <1>2 DEF NoPresetTwice, Preset
<1>4. ASSUME NEW k \in Preset PROVE \A m \in RefersTo(k) : m \in Preset /\ m <= k /\ m \in Named
  BY <1>4 DEF RefersTo, Preset, Named, Users, Inspections, Items
<1>5. ReferencesHold
  <2> SUFFICES ASSUME NEW k \in Preset, Stored(k), NEW m \in RefersTo(k)
               PROVE  /\ Stored(m)
                      /\ id[m] = Place(m) + (IF m \in Users THEN UsersShift ELSE 0)
    BY DEF ReferencesHold
  <2>1. m \in Preset /\ m <= k /\ m \in Named
    BY <1>4
  <2>2. k <= n
    BY <1>2 DEF Stored
  <2>3. Stored(m)
    BY <1>2, <2>1, <2>2 DEF Stored, Preset
  <2> QED
    BY <2>1, <2>3 DEF IInv, Numbered
<1> QED
  BY <1>3, <1>5

\* The start keeps its types.
THEOREM StartupTypes == Spec => []TypeOK
BY Inductive, InOrderMeans, PTL

\* No sequence of faults and starts stores a preset row twice.
THEOREM PresetsOnce == Spec => []NoPresetTwice
BY Inductive, InOrderMeans, PTL

\* No sequence of faults and starts stores a row without those it means, and the ids
\* of those are the ones written in it, the users' shifted by what was used up
\* before the first of them was stored.
THEOREM ReferencesStored == Spec => []ReferencesHold
BY Inductive, InOrderMeans, PTL

-----------------------------------------------------------------------------
\* Without a fault the preset rows are all stored before anybody is served, and
\* between two runs of Seed all of them are stored or none.
WholeUnlessFault ==
    faults = 0 =>
      /\ phase \in {"down", "starting"} => Prefix(0) \/ Prefix(16)
      /\ phase = "serving" \/ registered > 0 => Prefix(16)

LEMMA WholeInit == Init => WholeUnlessFault
<1>1. Empty = [k \in Preset |-> IF k <= 0 THEN 1 ELSE 0]
  BY DEF Empty, Preset
<1>2. Full = [k \in Preset |-> IF k <= 16 THEN 1 ELSE 0]
  BY DEF Full, Preset
<1> QED
  BY <1>1, <1>2 DEF Init, WholeUnlessFault, Prefix

\* An insertion without a fault does not meet a duplicate.
LEMMA NoDuplicate ==
    ASSUME at \in Preset, Prefix(at - 1)
    PROVE  ~Duplicate(at)
<1>1. copies[at] = 0
  BY DEF Prefix, Preset
<1> QED
  BY <1>1 DEF Duplicate, Stored

LEMMA WholeStep == IInv /\ WholeUnlessFault /\ [Next]_vars => WholeUnlessFault'
<1> SUFFICES ASSUME IInv, WholeUnlessFault, [Next]_vars, faults' = 0
             PROVE  /\ phase' \in {"down", "starting"} => Prefix(0)' \/ Prefix(16)'
                    /\ phase' = "serving" \/ registered' > 0 => Prefix(16)'
  BY DEF WholeUnlessFault
<1> USE StartupAssumption DEF stored
<1>1. TypeOK /\ InOrder
  BY DEF IInv, Ordered
<1>2. faults \in Nat
  BY <1>1 DEF TypeOK
<1>3. ASSUME UNCHANGED <<copies, registered>>, faults = 0,
             phase' \in {"down", "starting"} => phase \in {"down", "starting"},
             phase' = "serving" => phase = "serving" \/ Prefix(16)
      PROVE  /\ phase' \in {"down", "starting"} => Prefix(0)' \/ Prefix(16)'
             /\ phase' = "serving" \/ registered' > 0 => Prefix(16)'
  BY <1>3 DEF WholeUnlessFault, Prefix
<1>4. ~Fault
  BY <1>2 DEF Fault
<1>5. CASE Start
  BY <1>3, <1>5 DEF Start
<1>6. CASE CountUsers
  <2>1. phase = "starting" /\ phase' = (IF UserExists THEN "serving" ELSE "seeding")
        /\ UNCHANGED <<copies, registered, faults>>
    BY <1>4, <1>6 DEF CountUsers
  <2>2. UserExists => Prefix(16)
    <3>1. ASSUME Prefix(0) PROVE \A k \in Users : ~Stored(k)
      BY <3>1 DEF Prefix, Users, Stored, Preset
    <3>2. UserExists => registered > 0 \/ ~Prefix(0)
      BY <3>1 DEF UserExists
    <3> QED
      BY <2>1, <3>2 DEF WholeUnlessFault
  <2> QED
    BY <1>3, <2>1, <2>2
<1>7. CASE Insert
  <2>1. at \in Preset /\ phase = "seeding" /\ Prefix(at - 1)
    BY <1>1, <1>7 DEF Insert, InOrder
  <2>2. ~Duplicate(at)
    BY <2>1, NoDuplicate
  <2>3. copies' = [copies EXCEPT ![at] = @ + 1]
        /\ phase' = "seeding" /\ registered' = registered /\ faults = 0
    BY <1>2, <1>4, <1>7, <2>1, <2>2 DEF Insert, Store
  <2>4. ~Prefix(16)
    <3>1. Prefix(16) => copies[at] = 1
      BY <2>1 DEF Prefix, Preset
    <3>2. copies[at] = 0
      BY <2>1 DEF Prefix, Preset
    <3> QED
      BY <3>1, <3>2
  <2>5. ~(registered > 0)
    BY <2>3, <2>4 DEF WholeUnlessFault
  <2> QED
    BY <2>3, <2>5
<1>8. CASE Seeded
  <2>1. at = 17
    BY <1>1, <1>8 DEF Seeded, TypeOK, Preset
  <2>2. Prefix(16)
    BY <1>1, <1>8, <2>1 DEF Seeded, InOrder
  <2> QED
    BY <1>3, <1>8, <2>2 DEF Seeded
<1>9. CASE Register
  BY <1>9 DEF Register, WholeUnlessFault, Prefix
<1>10. CASE Crash
  BY <1>4, <1>10 DEF Crash
<1>11. CASE UNCHANGED vars
  BY <1>3, <1>11 DEF vars
<1> QED
  BY <1>5, <1>6, <1>7, <1>8, <1>9, <1>10, <1>11 DEF Next

LEMMA AllStored == Prefix(16) => \A k \in Preset : Stored(k)
BY DEF Prefix, Preset, Stored

\* As long as no database call has failed and the process has not died, a server
\* that serves has stored all preset rows.  With one fault it need not have:
\* startup_cut_off shows it.
THEOREM FaultlessIsSeeded == Spec => [](faults = 0 => ServingMeansSeeded)
<1>1. WholeUnlessFault => (faults = 0 => ServingMeansSeeded)
  BY AllStored DEF WholeUnlessFault, ServingMeansSeeded
<1> QED
  BY <1>1, Inductive, WholeInit, WholeStep, PTL DEF Spec

LEMMA FullStays == copies = Full /\ Init /\ [][Next]_vars => []ServingMeansSeeded
<1> DEFINE Whole == copies = Full /\ phase # "seeding"
<1>1. Init /\ copies = Full => Whole
  BY DEF Init
<1>2. Whole /\ [Next]_vars => Whole'
  <2> SUFFICES ASSUME Whole, [Next]_vars PROVE Whole'
    OBVIOUS
  <2>1. UserExists
    <3>1. 1 \in Users /\ copies[1] = 1
      BY DEF Users, Full, Preset
    <3> QED
      BY <3>1 DEF UserExists, Stored
  <2> QED
    BY <2>1 DEF Next, Start, CountUsers, Insert, Seeded, Register, Crash, Dies, vars, stored
<1>3. Whole => ServingMeansSeeded
  BY DEF Full, ServingMeansSeeded, Stored
<1> HIDE DEF Whole
<1> QED
  BY <1>1, <1>2, <1>3, PTL

\* A database that init.sql has filled stays whole, whatever fails or dies later:
\* Seed finds its users and leaves it alone.
THEOREM FilledStaysFilled == copies = Full /\ Spec => []ServingMeansSeeded
BY FullStays DEF Spec

-----------------------------------------------------------------------------
\* How many steps of main lie before the server serves.
Distance ==
    CASE phase = "down"     -> 20
      [] phase = "starting" -> 19
      [] phase = "seeding"  -> 18 - at
      [] phase = "serving"  -> 0

\* Without a fault, a server that serves goes on to serve, and every step of one
\* that does not comes nearer to it.
StartAdvances ==
    [][faults' = faults =>
          IF phase = "serving" THEN phase' = "serving" ELSE Distance' < Distance]_vars

LEMMA AdvancesStep ==
    ASSUME IInv, [Next]_vars, faults' = faults, vars' # vars
    PROVE  IF phase = "serving" THEN phase' = "serving" ELSE Distance' < Distance
<1> USE StartupAssumption DEF stored
<1>1. TypeOK /\ InOrder
  BY DEF IInv, Ordered
<1>2. ~Fault
  BY <1>1 DEF Fault, TypeOK
<1>3. CASE Start
  BY <1>3 DEF Start, Distance
<1>4. CASE CountUsers
  <2>1. phase = "starting" /\ phase' \in {"serving", "seeding"} /\ at' = at
    BY <1>2, <1>4 DEF CountUsers
  <2>2. at \in 1 .. 17
    BY <1>1 DEF TypeOK
  <2> QED
    BY <2>1, <2>2 DEF Distance
<1>5. CASE Insert
  <2>1. at \in Preset /\ phase = "seeding" /\ Prefix(at - 1)
    BY <1>1, <1>5 DEF Insert, InOrder
  <2>2. ~Duplicate(at)
    BY <2>1, NoDuplicate
  <2>3. at' = at + 1 /\ phase' = phase
    BY <1>1, <1>2, <1>5, <2>2 DEF Insert, TypeOK
  <2> QED
    BY <2>1, <2>3 DEF Distance, Preset
<1>6. CASE Seeded
  <2>1. at = 17
    BY <1>1, <1>6 DEF Seeded, TypeOK, Preset
  <2> QED
    BY <1>6, <2>1 DEF Seeded, Distance
<1>7. CASE Register
  BY <1>7 DEF Register
<1>8. CASE Crash
  BY <1>2, <1>8 DEF Crash
<1> QED
  BY <1>3, <1>4, <1>5, <1>6, <1>7, <1>8 DEF Next

LEMMA SafelyAdvances == Init /\ [][Next]_vars => StartAdvances
<1>1. IInv /\ [Next]_vars =>
         [faults' = faults =>
             IF phase = "serving" THEN phase' = "serving" ELSE Distance' < Distance]_vars
  BY AdvancesStep
<1> QED
  BY <1>1, InitInOrder, NextInOrder, PTL DEF StartAdvances

\* What is stored never stops a start: no row that Seed is about to insert is a
\* duplicate of a stored one, wherever earlier starts were cut off.
THEOREM NoDeadEnd == Spec => [](phase = "seeding" /\ at \in Preset => ~Duplicate(at))
<1>1. IInv => (phase = "seeding" /\ at \in Preset => ~Duplicate(at))
  BY NoDuplicate DEF IInv, Ordered, InOrder
<1> QED
  BY <1>1, Inductive, PTL

\* A start takes at most 20 steps to serve once nothing fails any more.  Together
\* with NoDeadEnd this is all of ServesAgain but the fairness.
THEOREM AdvancesToServing == Spec => StartAdvances
BY SafelyAdvances DEF Spec
=============================================================================
