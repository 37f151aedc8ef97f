------------------------------ MODULE Trainings ------------------------------
(***************************************************************************)
(* Safety trainings: created, and recorded once they were held             *)
(* (src/backend/internal/service/safety_training_service.go and its        *)
(* handler and repository).                                                *)
(*                                                                         *)
(* A record reads the row, overlays the list of participants if one was    *)
(* sent, sets the pass rate, and saves the whole row.  A rate that was not *)
(* sent arrives as 0, which the service cannot tell from a rate of 0: the  *)
(* rate is always overwritten.                                             *)
(***************************************************************************)
EXTENDS Handlers, Integers

CONSTANTS Training,   \* ids of rows of safety_trainings
          Roster,     \* lists of participants
          NoRoster,   \* the list that was not sent
          EmptyRoster,
          Rates       \* pass rates that are sent

ASSUME TrainingsAssumption == /\ NoRoster \notin Roster /\ EmptyRoster \in Roster
                              /\ 0 \in Rates /\ Rates \subseteq Nat

VARIABLE training     \* the table: [Training -> Session \cup {NoSession}]

Session == [participants : Roster, rate : Rates]

NoSession == [rate |-> -1]

Creation == [op : {"create"}]

Record == [op : {"record"}, id : Training, participants : Roster \cup {NoRoster},
           rate : Rates]

TrainingsInit == training \in [Training -> Session \cup {NoSession}]

(* A list that is missing is stored as an empty one.                       *)
Value(list) == IF list = NoRoster THEN EmptyRoster ELSE list

Held == {t \in Training : training[t] # NoSession}

CreateTraining(r) ==
    /\ pc[r] = "insert" /\ call[r].op = "create"
    /\ \/ \E t \in Training \ Held :
             /\ training' = [training EXCEPT ![t] = draft[r]]
             /\ Took(r, call[r])
       \/ InternalError(r) /\ UNCHANGED training

UpdateTraining(r) ==
    /\ pc[r] = "save" /\ call[r].op = "record"
    /\ \/ /\ training' = [training EXCEPT ![call[r].id] = draft[r]]
          /\ Took(r, call[r])
       \/ InternalError(r) /\ UNCHANGED training

(* Mutant: a rate of 0 is taken for one that was not sent. *)
OverlaidUnlessZero(row, c) ==
    [row EXCEPT !.participants = IF c.participants = NoRoster THEN @ ELSE c.participants,
                !.rate = IF c.rate > 0 THEN c.rate ELSE @]

(* Mutant: a list that was not sent empties the stored one. *)
OverlaidAlways(row, c) ==
    [row EXCEPT !.participants = Value(c.participants), !.rate = c.rate]

Overlaid(row, c) ==
    [row EXCEPT !.participants = IF c.participants = NoRoster THEN @ ELSE c.participants,
                !.rate = IF c.rate >= 0 THEN c.rate ELSE @]

RecordTraining(r, c) ==
    \/ InternalError(r)
    \/ c.id \in Held /\ Hold(r, c, Overlaid(training[c.id], c), "save")

(* A missing token, a role that may neither create nor record, a body that *)
(* does not parse: refused.                                                *)
PostTraining(r) ==
    /\ pc[r] = "new"
    /\ UNCHANGED training
    /\ \/ Fail(r)
       \/ \E list \in Roster \cup {NoRoster} :
             Hold(r, [op |-> "create"], [participants |-> Value(list), rate |-> 0],
                  "insert")
       \/ \E c \in Record : RecordTraining(r, c)

TrainingStep(r) == PostTraining(r) \/ CreateTraining(r) \/ UpdateTraining(r)

-----------------------------------------------------------------------------
(* The records of training t that took effect, and those with a list.      *)
Recorded(t) == {r \in Written : call[r].op = "record" /\ call[r].id = t}

Listed(t) == {r \in Recorded(t) : call[r].participants # NoRoster}

(* The rate that is stored is the one of a record that took effect and     *)
(* that no later record had seen: a newer rate is not undone by an older   *)
(* one unless the two overlapped.                                          *)
RateOfLastRecord ==
    \A t \in Training : Recorded(t) # {} =>
        \E r \in Recorded(t) :
            /\ training[t].rate = call[r].rate
            /\ \A q \in Recorded(t) : r \notin seen[q]

(* The participants that a record listed are stored, unless another record *)
(* listed others afterwards or the two overlapped: a record without a list *)
(* loses none that had been saved when it read the row.                    *)
RosterLostOnlyByOverlap ==
    \A t \in Training : \A q \in Listed(t) :
        \/ training[t].participants = call[q].participants
        \/ \E r \in Recorded(t) \ (seen[q] \cup {q}) :
              q \notin seen[r] \/ r \in Listed(t)
=============================================================================
