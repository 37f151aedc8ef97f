------------------------- MODULE InspectionLifecycle -------------------------
(***************************************************************************)
(* What the inspection API promises: an inspection is planned with its     *)
(* checklist and later finished once, header and checklist together, in    *)
(* one atomic step.  Inspections, where this takes a transaction of many   *)
(* database calls under a row lock, refines it.                            *)
(***************************************************************************)
CONSTANT Inspection     \* inspection ids

VARIABLES header,       \* by id: its status, counts and score
          checklist     \* by id: its items with their verdicts

book == <<header, checklist>>

BookInit == \A i \in Inspection :
               header[i].status \in {"absent", "scheduled", "completed"}

(* Only the record of inspection i changes.                                *)
Only(i) == /\ header' = [header EXCEPT ![i] = header'[i]]
           /\ checklist' = [checklist EXCEPT ![i] = checklist'[i]]

PlanInspection(i) ==
    /\ header[i].status = "absent"
    /\ Only(i)
    /\ header'[i].status = "scheduled"

(* Verdicts change, the set of items does not.                             *)
FinishInspection(i) ==
    /\ header[i].status = "scheduled"
    /\ Only(i)
    /\ header'[i].status = IF header'[i].issues = 0 THEN "completed" ELSE "failed"
    /\ DOMAIN checklist'[i] = DOMAIN checklist[i]

BookNext == \E i \in Inspection : PlanInspection(i) \/ FinishInspection(i)

BookSpec == BookInit /\ [][BookNext]_book
=============================================================================
