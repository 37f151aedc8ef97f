-------------------------- MODULE IncidentLifecycle --------------------------
(***************************************************************************)
(* What the incident API promises its clients, with no handlers, rows or   *)
(* database: an incident is reported, then investigated, then rectified    *)
(* with exactly one plan, then closed, each stage entered once and in one  *)
(* atomic step.  It is the state machine the documents call the            *)
(* "IncidentService 状态机".  SafetyIncidents refines it when the calls     *)
(* on one incident do not overlap.                                         *)
(***************************************************************************)
CONSTANTS Incident,     \* incident ids
          Plan,         \* rectification plans (measures and deadline together)
          NoPlan        \* the plan of an incident that has none

VARIABLES stage,        \* [Incident -> Stage]
          agreed        \* [Incident -> Plan \cup {NoPlan}]

lifecycle == <<stage, agreed>>

Stage == {"absent", "reported", "investigating", "resolved", "closed"}

(* Incidents that were seeded may start at any stage, with or without a    *)
(* plan; every other incident starts absent.                               *)
LifecycleInit ==
    /\ stage \in [Incident -> Stage]
    /\ agreed \in [Incident -> Plan \cup {NoPlan}]
    /\ \A i \in Incident : stage[i] = "absent" => agreed[i] = NoPlan

ReportStage(i) ==
    /\ stage[i] = "absent"
    /\ stage' = [stage EXCEPT ![i] = "reported"]
    /\ UNCHANGED agreed

AssignStage(i) ==
    /\ stage[i] = "reported"
    /\ stage' = [stage EXCEPT ![i] = "investigating"]
    /\ UNCHANGED agreed

RectifyStage(i, p) ==
    /\ stage[i] = "investigating"
    /\ stage' = [stage EXCEPT ![i] = "resolved"]
    /\ agreed' = [agreed EXCEPT ![i] = p]

CloseStage(i) ==
    /\ stage[i] = "resolved"
    /\ stage' = [stage EXCEPT ![i] = "closed"]
    /\ UNCHANGED agreed

LifecycleNext ==
    \E i \in Incident : \/ ReportStage(i)
                        \/ AssignStage(i)
                        \/ \E p \in Plan : RectifyStage(i, p)
                        \/ CloseStage(i)

LifecycleSpec == LifecycleInit /\ [][LifecycleNext]_lifecycle
=============================================================================
