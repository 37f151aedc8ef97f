---------------------------- MODULE IncidentTable ----------------------------
(***************************************************************************)
(* What the incident API does to its table, with no handlers, answers or   *)
(* callers: a transition takes a copy of a row whose status admits it and  *)
(* saves the copy later, whatever the row has become meanwhile, or never.  *)
(* Unlike IncidentLifecycle, the state machine of the documents, this is   *)
(* what the code keeps to when transitions of one incident overlap too:    *)
(* SafetyIncidents implements it without a condition.                      *)
(***************************************************************************)
CONSTANT Incident       \* incident ids

VARIABLES stage,        \* [Incident -> Stage], the status of each row
          copies        \* the copies that may be saved: <<incident, status>>

rows == <<stage, copies>>

Stage == {"absent", "reported", "investigating", "resolved", "closed"}

Rank == [absent |-> 0, reported |-> 1, investigating |-> 2, resolved |-> 3,
         closed |-> 4]

(* The status that a transition of a row leads to.                         *)
Successor == [reported |-> "investigating", investigating |-> "resolved",
              resolved |-> "closed"]

TableInit == stage \in [Incident -> Stage] /\ copies = {}

(* The row of incident i has the status that the transition to s asks for. *)
Admits(i, s) == stage[i] \in DOMAIN Successor /\ Successor[stage[i]] = s

(* The whole row is saved, with status s.                                  *)
Overwrite(i, s) == stage' = [stage EXCEPT ![i] = s]

ReportRow(i) ==
    /\ stage[i] = "absent"
    /\ Overwrite(i, "reported")
    /\ UNCHANGED copies

FindRow(i, s) ==
    /\ Admits(i, s)
    /\ copies' = copies \cup {<<i, s>>}
    /\ UNCHANGED stage

(* Other requests may hold the same copy.                                  *)
SaveRow(i, s) ==
    /\ <<i, s>> \in copies
    /\ Overwrite(i, s)
    /\ copies' \in {copies, copies \ {<<i, s>>}}

(* Saves that failed, and requests that were killed.                       *)
DropCopies ==
    /\ copies' \in SUBSET copies
    /\ UNCHANGED stage

TableNext ==
    \/ DropCopies
    \/ \E i \in Incident : \/ ReportRow(i)
                           \/ \E s \in Stage : FindRow(i, s) \/ SaveRow(i, s)

TableSpec == TableInit /\ [][TableNext]_rows
=============================================================================
