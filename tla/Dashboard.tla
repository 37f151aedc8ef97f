------------------------------ MODULE Dashboard ------------------------------
(***************************************************************************)
(* The dashboard: one request that makes nine queries, one after another,  *)
(* with nothing around them (src/backend/internal/service/                 *)
(* dashboard_service.go), while inspections are planned and executed and   *)
(* trainings are created and recorded.  Each of its two rates is the       *)
(* quotient of two counts that were taken at different times.              *)
(***************************************************************************)
EXTENDS Integers

CONSTANT MaxRows   \* bound on the rows of each table

ASSUME DashboardAssumption == MaxRows \in Nat

VARIABLES
    inspections,   \* those of the month, completed or not
    trainings,     \* those of the month, with a pass rate above 0 or not
    query,         \* the query that the dashboard makes next
    shown          \* its counts so far

tables == <<inspections, trainings>>
board == <<query, shown>>
dashboard == <<tables, board>>

(* A table is told by how many of its rows are done and how many are not.  *)
Table == [done : 0 .. MaxRows, todo : 0 .. MaxRows]

Size(table) == table.done + table.todo

(* The query that follows each; after the last the dashboard is shown.     *)
Following == [trend |-> "severity", severity |-> "pending",
              pending |-> "count", count |-> "inspections",
              inspections |-> "completed", completed |-> "trainings",
              trainings |-> "recorded", recorded |-> "expiring",
              expiring |-> "shown"]

Query == DOMAIN Following \cup {"shown", "failed"}

NoCount == [inspections |-> 0, completed |-> 0, trainings |-> 0, recorded |-> 0]

DashboardInit ==
    /\ inspections \in {t \in Table : Size(t) <= MaxRows}
    /\ trainings \in {t \in Table : Size(t) <= MaxRows}
    /\ query = "trend" /\ shown = NoCount

(* Mutant: the rows that are done are counted before all of them are. *)
AnswerDoneFirst(q) ==
    CASE q = "inspections" -> [shown EXCEPT !.completed = inspections.done]
      [] q = "completed"   -> [shown EXCEPT !.inspections = Size(inspections)]
      [] q = "trainings"   -> [shown EXCEPT !.recorded = trainings.done]
      [] q = "recorded"    -> [shown EXCEPT !.trainings = Size(trainings)]
      [] OTHER             -> shown

(* The counts after query q.  The others fill lists and charts of their    *)
(* own, and the number of all inspections ever planned.                    *)
AnswerOf(q) ==
    CASE q = "inspections" -> [shown EXCEPT !.inspections = Size(inspections)]
      [] q = "completed"   -> [shown EXCEPT !.completed = inspections.done]
      [] q = "trainings"   -> [shown EXCEPT !.trainings = Size(trainings)]
      [] q = "recorded"    -> [shown EXCEPT !.recorded = trainings.done]
      [] OTHER             -> shown

(* The next query, or its failure, which answers the request with 500.     *)
Stats ==
    /\ query \in DOMAIN Following
    /\ \/ query' = Following[query] /\ shown' = AnswerOf(query)
       \/ query' = "failed" /\ shown' = NoCount
    /\ UNCHANGED tables

AddInspection ==
    /\ Size(inspections) < MaxRows
    /\ inspections' = [inspections EXCEPT !.todo = @ + 1]
    /\ UNCHANGED <<trainings, board>>

(* An execution that finds no issue; one that does changes no count.       *)
CompleteInspection ==
    /\ inspections.todo > 0
    /\ inspections' = [inspections EXCEPT !.todo = @ - 1, !.done = @ + 1]
    /\ UNCHANGED <<trainings, board>>

AddTraining ==
    /\ Size(trainings) < MaxRows
    /\ trainings' = [trainings EXCEPT !.todo = @ + 1]
    /\ UNCHANGED <<inspections, board>>

(* A record sets the rate, and a later one without a rate resets it to 0.  *)
RateTraining ==
    /\ \/ /\ trainings.todo > 0
          /\ trainings' = [trainings EXCEPT !.todo = @ - 1, !.done = @ + 1]
       \/ /\ trainings.done > 0
          /\ trainings' = [trainings EXCEPT !.todo = @ + 1, !.done = @ - 1]
    /\ UNCHANGED <<inspections, board>>

DashboardNext ==
    \/ Stats \/ AddInspection \/ CompleteInspection
    \/ AddTraining \/ RateTraining

DashboardSpec == DashboardInit /\ [][DashboardNext]_dashboard

-----------------------------------------------------------------------------
(* Is part / whole at least the share of the table that is done?           *)
AtLeast(part, whole, table) == part * Size(table) >= table.done * whole

(* A rate on the dashboard never understates progress: when its second     *)
(* count is taken, the quotient is at least the share of the rows that are *)
(* done by then, however many rows were added or finished in between.      *)
(* (A table that was empty at the first count is shown as 0.)              *)
RateNotUnderstated ==
    [][/\ query = "completed" /\ query' = "trainings" =>
              AtLeast(shown'.completed, shown'.inspections, inspections)
       /\ query = "recorded" /\ query' = "expiring" =>
              AtLeast(shown'.recorded, shown'.trainings, trainings)]_dashboard
=============================================================================
