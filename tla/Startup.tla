------------------------------- MODULE Startup -------------------------------
(***************************************************************************)
(* The start of the server: it seeds the database and then serves          *)
(* (src/backend/cmd/server/main.go, internal/service/seed.go).             *)
(*                                                                         *)
(* The preset rows are inserted one by one, each in a transaction of its   *)
(* own, and only when no user exists.  The process may die between any two *)
(* of them, and is started again by its container.  The database may also  *)
(* have been filled by database/init.sql before the first start.           *)
(***************************************************************************)
EXTENDS Integers

CONSTANTS
    MaxFaults,     \* bound: failing database calls and deaths of the process
    MaxRegistered  \* bound: the users that register

ASSUME StartupAssumption == MaxFaults \in Nat /\ MaxRegistered \in Nat

VARIABLES
    phase,       \* what the process is doing
    at,          \* the preset row it inserts next
    copies,      \* preset row -> how often it is stored
    id,          \* a row that others mean -> the id it was stored under
    nextId,      \* table -> the id that its AUTO_INCREMENT gives next
    registered,  \* how many other users are stored
    faults       \* the faults so far

stored == <<copies, id, nextId>>

vars == <<phase, at, stored, registered, faults>>

-----------------------------------------------------------------------------
\* The rows of Seed, in the order in which they are inserted.
Users == 1 .. 4
Incidents == 5 .. 7
Inspections == 8 .. 9
Items == 10 .. 12
Trainings == 13 .. 14
Certifications == 15 .. 16
Preset == 1 .. 16

\* The rows that a row means by the ids written in it: reporter and persons
\* involved, inspector, inspection, participants, owner.
RefersTo(k) ==
    CASE k \in {5, 6} -> {3, 4}
      [] k = 7 -> {2, 4}
      [] k \in Inspections -> {3}
      [] k \in Items -> {8}
      [] k \in {13, 15} -> {4}
      [] k = 16 -> {3}
      [] OTHER -> {}

\* The rows that others mean, and the tables that number them.
Named == Users \cup Inspections
Table == {"users", "inspections"}
TableOf(m) == IF m \in Users THEN "users" ELSE "inspections"

\* The place of a row in its table, which is the id that seed.go writes in the
\* rows that mean it, and that init.sql gives it.
Place(m) == IF m \in Users THEN m ELSE m - 7

Phase == {"down", "starting", "seeding", "serving"}

Empty == [k \in Preset |-> 0]
Full == [k \in Preset |-> 1]

\* What is numbered starts at 1; init.sql leaves off after the last row.
NoId == [m \in Named |-> 0]
First == [t \in Table |-> 1]
Last == [t \in Table |-> IF t = "users" THEN 5 ELSE 3]

Init ==
    /\ phase = "down" /\ at = 1 /\ registered = 0 /\ faults = 0
    /\ \/ copies = Empty /\ id = NoId /\ nextId = First
       \/ copies = Full /\ id = [m \in Named |-> Place(m)] /\ nextId = Last

Stored(k) == copies[k] > 0

\* The process ends: os.Exit(1), a signal, or a crash.
Dies ==
    /\ phase' = "down" /\ at' = 1

\* A fault the bound has room for.
Fault == faults < MaxFaults /\ faults' = faults + 1

-----------------------------------------------------------------------------
\* The container starts the process, which connects and migrates the tables.
Start ==
    /\ phase = "down"
    /\ phase' = "starting"
    /\ UNCHANGED <<at, stored, registered, faults>>

UserExists == registered > 0 \/ \E k \in Users : Stored(k)

(* Mutant: the rows are inserted at every start. *)
CountUsersIgnored ==
    /\ phase = "starting"
    /\ \/ phase' = "seeding" /\ UNCHANGED <<at, faults>>
       \/ Fault /\ Dies
    /\ UNCHANGED <<stored, registered>>

\* Seed begins: users, whoever they are, mean that there is nothing to do.
CountUsers ==
    /\ phase = "starting"
    /\ \/ phase' = (IF UserExists THEN "serving" ELSE "seeding") /\ UNCHANGED <<at, faults>>
       \/ Fault /\ Dies
    /\ UNCHANGED <<stored, registered>>

\* The phone number of a user is unique.
Duplicate(k) == k \in Users /\ Stored(k)

\* Row k is stored under the next id of its table; of rows that nobody means the
\* ids are left out.
Store(k) ==
    /\ ~Duplicate(k)
    /\ copies' = [copies EXCEPT ![k] = @ + 1]
    /\ IF k \in Named
       THEN /\ id' = [id EXCEPT ![k] = nextId[TableOf(k)]]
            /\ nextId' = [nextId EXCEPT ![TableOf(k)] = @ + 1]
       ELSE UNCHANGED <<id, nextId>>

\* Row k is not stored, but may have used up an id: the database takes one before
\* the insertion fails, and does not give it back.
NotStored(k) ==
    /\ UNCHANGED <<copies, id>>
    /\ \/ UNCHANGED nextId
       \/ k \in Named /\ nextId' = [nextId EXCEPT ![TableOf(k)] = @ + 1]

(* Mutant: a row that could not be inserted is left out. *)
InsertOrSkip ==
    /\ phase = "seeding" /\ at \in Preset
    /\ at' = at + 1
    /\ \/ Store(at) /\ UNCHANGED faults
       \/ Fault /\ NotStored(at)
    /\ UNCHANGED <<phase, registered>>

(* Mutant: a row whose insertion was not confirmed is inserted again. *)
InsertAgain ==
    /\ phase = "seeding" /\ at \in Preset
    /\ Store(at)
    /\ \/ at' = at + 1 /\ UNCHANGED faults
       \/ Fault /\ UNCHANGED at
    /\ UNCHANGED <<phase, registered>>

\* One row: stored, or Seed returns the error and main exits, be it that the
\* row is a duplicate, was not stored, or was stored and the answer was lost.
Insert ==
    /\ phase = "seeding" /\ at \in Preset
    /\ \/ /\ Store(at)
          /\ \/ at' = at + 1 /\ UNCHANGED <<phase, faults>>
             \/ Fault /\ Dies
       \/ /\ Duplicate(at) \/ faults < MaxFaults
          /\ faults' = IF Duplicate(at) THEN faults ELSE faults + 1
          /\ Dies
          /\ NotStored(at)
    /\ UNCHANGED registered

(* Mutant: the server listens in a state nobody knows. *)
SeededMisspelt ==
    /\ phase = "seeding" /\ at \notin Preset
    /\ phase' = "listening"
    /\ UNCHANGED <<at, stored, registered, faults>>

\* Seed returns and the server listens.
Seeded ==
    /\ phase = "seeding" /\ at \notin Preset
    /\ phase' = "serving"
    /\ UNCHANGED <<at, stored, registered, faults>>

\* Users are added while the server runs, and never removed.  Seed inserts nothing
\* after one was added, so the ids that are left for it matter no more.
Register ==
    /\ phase = "serving" /\ registered < MaxRegistered
    /\ registered' = registered + 1
    /\ UNCHANGED <<phase, at, stored, faults>>

\* The process is killed, or shut down by a signal.
Crash ==
    /\ phase # "down"
    /\ Fault /\ Dies
    /\ UNCHANGED <<stored, registered>>

Next == Start \/ CountUsers \/ Insert \/ Seeded \/ Register \/ Crash

\* The container restarts a process that ended, or who stopped it starts it
\* again, and the steps of main are taken when they can be.
Fairness == WF_vars(Start \/ CountUsers \/ Insert \/ Seeded)

Spec == Init /\ [][Next]_vars /\ Fairness

-----------------------------------------------------------------------------
\* Types: the next row is a preset row or the one after the last.
TypeOK ==
    /\ phase \in Phase
    /\ at \in 1 .. 17
    /\ copies \in [Preset -> Nat]
    /\ id \in [Named -> Nat]
    /\ nextId \in [Table -> Nat]
    /\ registered \in 0 .. MaxRegistered
    /\ faults \in 0 .. MaxFaults

\* However often the server is started, dies and is started again, no preset row is
\* stored twice, although only the users have an index that would prevent it.
NoPresetTwice == \A k \in Preset : copies[k] <= 1

\* How many ids were used up before the first user was stored.
UsersShift == IF Stored(1) THEN id[1] - 1 ELSE 0

\* A preset row is stored only when the rows it means are, wherever the seeding was
\* cut off, and they have the ids that are written in it: no item without
\* its inspection, no incident that names a reporter whose id is another's.  The
\* tables have no foreign keys.  The only ids that may be off are those of the users,
\* all by the same number: by the ids that insertions of the first user have used up
\* in earlier starts, since any stored user keeps Seed from inserting again.
ReferencesHold ==
    \A k \in Preset : Stored(k) =>
        \A m \in RefersTo(k) :
            /\ Stored(m)
            /\ id[m] = Place(m) + (IF m \in Users THEN UsersShift ELSE 0)

\* After the last fault the server serves again: no stored rows make
\* the start fail for ever.
ServesAgain == []<>(phase = "serving")

\* What Seed says of itself, and README of the accounts: whenever the server runs,
\* the preset rows are there.
ServingMeansSeeded == phase = "serving" => \A k \in Preset : Stored(k)
=============================================================================
