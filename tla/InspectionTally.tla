--------------------------- MODULE InspectionTally ---------------------------
(***************************************************************************)
(* The tally that Execute keeps while it walks through the items of an     *)
(* inspection, and the score and the status it derives from it: every      *)
(* tally of up to MaxItems items is a state.                               *)
(***************************************************************************)
EXTENDS InspectionScore

CONSTANT MaxItems       \* bound on the items of an inspection

ASSUME TallyAssumption == MaxItems \in Nat /\ InRange(MaxItems)

VARIABLES passed, issues

tally == <<passed, issues>>

Total == passed + issues

(* No issue completes an inspection, an empty one included.                *)
Outcome(p, i) == IF i = 0 THEN "completed" ELSE "failed"

TallyInit == passed = 0 /\ issues = 0

CountPassed == Total < MaxItems /\ passed' = passed + 1 /\ UNCHANGED issues

CountIssue == Total < MaxItems /\ issues' = issues + 1 /\ UNCHANGED passed

TallyNext == CountPassed \/ CountIssue

TallySpec == TallyInit /\ [][TallyNext]_tally

(* Floating point costs at most one point: the score is the exact          *)
(* percentage rounded down, or one less.                                   *)
ScoreWithinOne ==
    ExactScore(passed, Total) - Score(passed, Total) \in {0, 1}

(* The score and the status agree: 100 is the score of the inspections     *)
(* that completed with at least one item, and of no others.                *)
FullScoreMeansCompleted ==
    Score(passed, Total) = 100 <=> Outcome(passed, issues) = "completed" /\ Total > 0

(* One more passed item never lowers the score and one more issue never    *)
(* raises it, wherever rounding strikes.                                   *)
ScoreIsMonotone ==
    [][LET before == Score(passed, Total)
           after  == Score(passed', passed' + issues')
       IN  IF issues' = issues THEN after >= before ELSE after <= before]_tally
=============================================================================
