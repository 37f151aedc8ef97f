--------------------------- MODULE IncidentDetail ---------------------------
(***************************************************************************)
(* The details of an incident in the browser: the modal of IncidentManage  *)
(* and its hook useIncident (src/frontend/src/pages/IncidentManage.tsx,    *)
(* hooks/useIncident.ts), over the table as the server treats it.          *)
(*                                                                         *)
(* The modal shows the incident that was loaded last, offers the action of *)
(* its status, and loads it again once the action was accepted.  Loads and *)
(* actions overlap, fail, and are answered in any order.  The server finds *)
(* and saves the row of an action in two steps; the requests of other      *)
(* clients, whose copies IncidentTable keeps, run before, between and      *)
(* after them, and may move a row on or back.                              *)
(***************************************************************************)
EXTENDS IncidentTable, Integers, FiniteSets

CONSTANTS NoIncident,
          MaxClicks,   \* bound on what the user opens and clicks
          MaxCopies    \* bound on the copies that other clients' requests hold

ASSUME DetailAssumption ==
    NoIncident \notin Incident /\ MaxClicks \in Nat /\ MaxCopies \in Nat

VARIABLES detailId,    \* the incident whose modal is open
          incident,    \* the one that is shown
          clicks,      \* how often the user has opened or clicked something
          loading,     \* the loads on their way
          acting,      \* the actions on their way
          reached,     \* history: the stages each row has had
          back         \* history: the incidents whose row has moved back

modal == <<detailId, incident, clicks, loading, acting>>

past == <<reached, back>>

(* What the modal shows: the row, the click that it goes back to, and for  *)
(* the reload of an accepted action the stage that the action led to.      *)
Shown == [nr : 1 .. MaxClicks, id : Incident, after : Stage, status : Stage]

NothingShown == [nr |-> 0, id |-> NoIncident, after |-> "absent", status |-> "absent"]

(* A load that the server has not read yet.                                *)
Unread == [nr : 1 .. MaxClicks, id : Incident, after : Stage]

(* An action: the status it leads to, and how far the server is with it.   *)
Action == [nr : 1 .. MaxClicks, id : Incident, to : Stage,
           at : {"sent", "found", "saved"}]

DetailInit ==
    /\ TableInit
    /\ detailId = NoIncident /\ incident = NothingShown
    /\ clicks = 0 /\ loading = {} /\ acting = {}
    /\ reached = [i \in Incident |-> {stage[i]}] /\ back = {}

UserActs == clicks < MaxClicks /\ clicks' = clicks + 1

(* The history of the rows, in every step of the server.                   *)
History ==
    /\ reached' = [i \in Incident |-> reached[i] \cup {stage'[i]}]
    /\ back' = back \cup {i \in Incident : Rank[stage'[i]] < Rank[stage[i]]}

ServerRests == UNCHANGED <<rows, past>>

(* 详情 of a row of the list: the effect of a new id loads it; until then  *)
(* the modal shows what it showed before.                                  *)
Open(i) ==
    /\ UserActs /\ i # detailId /\ stage[i] # "absent"
    /\ detailId' = i
    /\ loading' = loading \cup {[nr |-> clicks', id |-> i, after |-> "absent"]}
    /\ UNCHANGED <<incident, acting>> /\ ServerRests

Dismiss ==
    /\ detailId # NoIncident /\ detailId' = NoIncident
    /\ UNCHANGED <<incident, clicks, loading, acting>> /\ ServerRests

(* The server reads the row of an incident that is asked for.              *)
ReadRow(l) ==
    /\ l \in Unread
    /\ loading' = (loading \ {l}) \cup
          {[nr |-> l.nr, id |-> l.id, after |-> l.after, status |-> stage[l.id]]}
    /\ UNCHANGED <<detailId, incident, clicks, acting>> /\ ServerRests

(* setIncident: whatever answer arrives is shown.                          *)
Loaded(l) ==
    /\ l \in Shown
    /\ loading' = loading \ {l}
    /\ incident' = l
    /\ UNCHANGED <<detailId, clicks, acting>> /\ ServerRests

LoadFails(l) ==
    /\ loading' = loading \ {l}
    /\ UNCHANGED <<detailId, incident, clicks, acting>> /\ ServerRests

(* Mutant: the new status is shown before the server has accepted it. *)
ClickOptimistic ==
    /\ UserActs /\ detailId # NoIncident
    /\ incident.status \in DOMAIN Successor
    /\ acting' = acting \cup {[nr |-> clicks', id |-> incident.id,
                               to |-> Successor[incident.status], at |-> "sent"]}
    /\ incident' = [incident EXCEPT !.status = Successor[@]]
    /\ UNCHANGED <<detailId, loading>> /\ ServerRests

(* The button of the status that is shown: assign, rectify or close.       *)
Click ==
    /\ UserActs /\ detailId # NoIncident
    /\ incident.status \in DOMAIN Successor
    /\ acting' = acting \cup {[nr |-> clicks', id |-> incident.id,
                               to |-> Successor[incident.status], at |-> "sent"]}
    /\ UNCHANGED <<detailId, incident, loading>> /\ ServerRests

(* The server finds the row, with the status that the action asks for.     *)
Find(a) ==
    /\ a.at = "sent" /\ Admits(a.id, a.to)
    /\ acting' = (acting \ {a}) \cup {[a EXCEPT !.at = "found"]}
    /\ UNCHANGED <<detailId, incident, clicks, loading>> /\ ServerRests

(* It saves its copy, whatever the row is by now.                          *)
SaveFound(a) ==
    /\ a.at = "found" /\ Overwrite(a.id, a.to) /\ History
    /\ acting' = (acting \ {a}) \cup {[a EXCEPT !.at = "saved"]}
    /\ UNCHANGED <<detailId, incident, clicks, loading, copies>>

(* Mutant: the hook does not await the action before it loads. *)
AcceptedUnawaited(a) ==
    /\ loading' = loading \cup {[nr |-> a.nr, id |-> a.id, after |-> a.to]}
    /\ UNCHANGED <<detailId, incident, clicks, acting>> /\ ServerRests

(* The action was accepted, and the incident is loaded again.              *)
Accepted(a) ==
    /\ a.at = "saved"
    /\ acting' = acting \ {a}
    /\ loading' = loading \cup {[nr |-> a.nr, id |-> a.id, after |-> a.to]}
    /\ UNCHANGED <<detailId, incident, clicks>> /\ ServerRests

(* It was refused, or its answer is lost: nothing is loaded.  If the       *)
(* server goes on with it, that is a step of another client.               *)
ActionFails(a) ==
    /\ acting' = acting \ {a}
    /\ UNCHANGED <<detailId, incident, clicks, loading>> /\ ServerRests

OtherClient ==
    /\ TableNext /\ History
    /\ Cardinality(copies') <= MaxCopies
    /\ UNCHANGED modal

DetailNext ==
    \/ \E i \in Incident : Open(i)
    \/ Dismiss \/ Click \/ OtherClient
    \/ \E l \in loading : ReadRow(l) \/ Loaded(l) \/ LoadFails(l)
    \/ \E a \in acting : Find(a) \/ SaveFound(a) \/ Accepted(a) \/ ActionFails(a)

DetailSpec == DetailInit /\ [][DetailNext]_<<rows, past, modal>>

-----------------------------------------------------------------------------
(* The modal shows only what the row has been: however answers are late or *)
(* out of order, and rows are moved on and back by others, no refused or   *)
(* lost action is ever shown as made.                                      *)
ShownStageIsPast ==
    incident # NothingShown => incident.status \in reached[incident.id]

(* What is shown as the reload of an accepted action has its effect: the   *)
(* stage it led to or a later one, unless overlapping transitions have     *)
(* moved the row of the incident back.                                     *)
ReloadShowsAction ==
    incident # NothingShown /\ incident.id \notin back =>
        Rank[incident.status] >= Rank[incident.after]
=============================================================================
