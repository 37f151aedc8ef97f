----------------------------- MODULE PagesProofs -----------------------------
(***************************************************************************)
(* What the pages show: the list and the details of incidents, for any     *)
(* number of incidents, pages, requests and clicks, the dashboard, for     *)
(* tables of any size, and the list of the audit log, for any number of    *)
(* entries.  The proof about the list rests on the numbers of its          *)
(* requests, which only grow: the newest one is told from all that were    *)
(* asked for before it.  The proofs about the details rest on the history  *)
(* of the rows: what a load has read is in it.                             *)
(***************************************************************************)
EXTENDS IncidentList, IncidentDetail, Dashboard, AuditLogList,
        FiniteSetTheorems, TLAPS

(***************************************************************************)
(* The list                                                                *)
(***************************************************************************)
(* Request q is not newer than the n-th, and if it is the n-th, it asked   *)
(* for page p and filter f.                                                *)
Fits(q, n, p, f) ==
    /\ q.nr \in Nat /\ q.nr <= n
    /\ q.nr = n => q.page = p /\ q.filters = f

ListInv ==
    /\ fetches \in Nat \ {0}
    /\ \A q \in fetching \cup {list} : Fits(q, fetches, page, filters)

LEMMA ListStarts == ListInit => ListInv
<1> SUFFICES ASSUME ListInit PROVE ListInv
  OBVIOUS
<1>1. Fits(list, fetches, page, filters)
  BY DEF ListInit, NoList, Fits
<1>2. \A q \in fetching : Fits(q, fetches, page, filters)
  BY DEF ListInit, Fits
<1> QED
  BY <1>1, <1>2 DEF ListInit, ListInv

(* Asking for what is selected makes that request the newest.              *)
LEMMA FetchFits ==
    ASSUME ListInv, NEW p, NEW f, FetchList(p, f),
           page' = p, filters' = f, list' = list
    PROVE  ListInv'
<1>1. fetches' = fetches + 1 /\ fetches' \in Nat \ {0}
  BY DEF FetchList, ListInv
<1>2. ASSUME NEW q \in fetching \cup {list} PROVE Fits(q, fetches', page', filters')
  <2>1. q.nr \in Nat /\ q.nr <= fetches /\ fetches \in Nat
    BY <1>2 DEF ListInv, Fits
  <2> QED
    BY <2>1, <1>1 DEF Fits
<1>3. Fits([nr |-> fetches + 1, page |-> p, filters |-> f], fetches', page', filters')
  BY <1>1 DEF Fits
<1>4. fetching' = fetching \cup {[nr |-> fetches + 1, page |-> p, filters |-> f]}
  BY DEF FetchList
<1> QED
  BY <1>1, <1>2, <1>3, <1>4 DEF ListInv

LEMMA ListSteps == ListInv /\ [ListNext]_listing => ListInv'
<1> SUFFICES ASSUME ListInv, [ListNext]_listing PROVE ListInv'
  OBVIOUS
<1>1. ASSUME NEW f \in Filters, Select(f) PROVE ListInv'
  BY <1>1, FetchFits DEF Select
<1>2. ASSUME NEW p \in 1 .. MaxPage, TurnPage(p) PROVE ListInv'
  BY <1>2, FetchFits DEF TurnPage
<1>3. CASE Revisit
  BY <1>3, FetchFits DEF Revisit
<1>4. CASE Report
  BY <1>4 DEF Report, ListInv
<1>5. CASE Reported
  <2>1. CASE page' = 1 /\ page # 1 /\ FetchList(1, filters)
    BY <1>5, <2>1, FetchFits DEF Reported
  <2>2. CASE UNCHANGED <<page, fetches, fetching>>
    BY <1>5, <2>2 DEF Reported, ListInv
  <2> QED
    BY <1>5, <2>1, <2>2 DEF Reported
<1>6. ASSUME NEW q \in fetching, Arrives(q) PROVE ListInv'
  BY <1>6 DEF Arrives, ListInv
<1>7. CASE UNCHANGED listing
  BY <1>7 DEF listing, ListInv
<1> QED
  BY <1>1, <1>2, <1>3, <1>4, <1>5, <1>6, <1>7 DEF ListNext

(* The answer of the newest request always fits what is selected.          *)
THEOREM NewestIsCurrent == ListSpec => []NewestListIsCurrent
<1>1. ListInv => NewestListIsCurrent
  BY DEF ListInv, NewestListIsCurrent, Fits
<1> QED
  BY <1>1, ListStarts, ListSteps, PTL DEF ListSpec

(***************************************************************************)
(* The details                                                             *)
(***************************************************************************)
ActionSent == [nr : Nat, id : Incident, to : Stage, at : {"sent", "found", "saved"}]

(* Unless the row of incident i has moved back, s is not behind stage t.   *)
AtLeastAt(i, s, t) == i \notin back => Rank[s] >= Rank[t]

(* A row that was read is one that the incident has had, and not behind    *)
(* the action it is the reload of.                                         *)
ReadFits(row) ==
    /\ row.id \in Incident /\ row.status \in Stage /\ row.after \in Stage
    /\ row.status \in reached[row.id]
    /\ AtLeastAt(row.id, row.status, row.after)

(* A row still to be read will be.                                         *)
LoadFits(l) ==
    /\ l.id \in Incident /\ l.after \in Stage
    /\ AtLeastAt(l.id, stage[l.id], l.after)

ActionFits(a) ==
    /\ a \in ActionSent
    /\ a.at = "saved" => AtLeastAt(a.id, stage[a.id], a.to)

DetailTypes ==
    /\ stage \in [Incident -> Stage] /\ clicks \in Nat
    /\ reached \in [Incident -> SUBSET Stage]
    /\ \A i \in Incident : stage[i] \in reached[i]

DetailInv ==
    /\ DetailTypes
    /\ incident # NothingShown => ReadFits(incident)
    /\ \A l \in loading : LoadFits(l) /\ (l \in Shown => ReadFits(l))
    /\ \A a \in acting : ActionFits(a)

LEMMA RankIsNat == Rank \in [Stage -> Nat]
BY DEF Rank, Stage

(* A load that the server has not read shows nothing.                      *)
LEMMA UnreadNotShown ==
    ASSUME NEW n, NEW i, NEW t PROVE [nr |-> n, id |-> i, after |-> t] \notin Shown
<1>1. DOMAIN [nr |-> n, id |-> i, after |-> t] = {"nr", "id", "after"}
  OBVIOUS
<1>2. \A s \in Shown : DOMAIN s = {"nr", "id", "after", "status"}
  BY DEF Shown
<1> QED
  BY <1>1, <1>2

LEMMA DetailStarts == DetailInit => DetailInv
BY DEF DetailInit, TableInit, DetailInv, DetailTypes

(* A step that leaves the rows alone.                                      *)
LEMMA FitsRest ==
    ASSUME UNCHANGED <<rows, past>>
    PROVE  /\ \A row : ReadFits(row)' <=> ReadFits(row)
           /\ \A l : LoadFits(l)' <=> LoadFits(l)
           /\ \A a : ActionFits(a)' <=> ActionFits(a)
BY DEF rows, past, ReadFits, LoadFits, ActionFits, AtLeastAt

(* A step of the server changes the rows of no incident or of one, and the *)
(* history tells.                                                          *)
LEMMA RowsChange ==
    ASSUME DetailTypes, TableNext \/ (\E i \in Incident, s \in Stage : Overwrite(i, s))
    PROVE  stage' \in [Incident -> Stage]
<1>1. stage' = stage \/ \E i \in Incident, s \in Stage : Overwrite(i, s)
  BY DEF TableNext, DropCopies, ReportRow, FindRow, SaveRow, Stage
<1> QED
  BY <1>1 DEF DetailTypes, Overwrite

(* Whatever the server does to the rows, what fitted still fits.           *)
LEMMA FitsStay ==
    ASSUME DetailTypes, stage' \in [Incident -> Stage], History
    PROVE  /\ reached' \in [Incident -> SUBSET Stage]
           /\ \A i \in Incident : stage'[i] \in reached'[i]
           /\ \A row : ReadFits(row) => ReadFits(row)'
           /\ \A l : LoadFits(l) => LoadFits(l)'
           /\ \A a : ActionFits(a) => ActionFits(a)'
<1> USE DEF DetailTypes
<1>1. /\ reached' \in [Incident -> SUBSET Stage]
      /\ \A i \in Incident : stage'[i] \in reached'[i] /\ reached[i] \subseteq reached'[i]
  BY DEF History
<1>2. back \subseteq back'
  BY DEF History
<1>3. ASSUME NEW i \in Incident, i \notin back'
      PROVE  Rank[stage'[i]] >= Rank[stage[i]]
  <2>1. ~(Rank[stage'[i]] < Rank[stage[i]])
    BY <1>3 DEF History
  <2>2. Rank[stage'[i]] \in Nat /\ Rank[stage[i]] \in Nat
    BY RankIsNat
  <2> QED
    BY <2>1, <2>2
<1>4. ASSUME NEW row, ReadFits(row) PROVE ReadFits(row)'
  BY <1>1, <1>2, <1>4 DEF ReadFits, AtLeastAt
<1>5. ASSUME NEW i \in Incident, NEW t \in Stage, AtLeastAt(i, stage[i], t)
      PROVE  i \notin back' => Rank[stage'[i]] >= Rank[t]
  <2>1. Rank[stage'[i]] \in Nat /\ Rank[stage[i]] \in Nat /\ Rank[t] \in Nat
    BY RankIsNat
  <2> QED
    BY <1>2, <1>3, <1>5, <2>1 DEF AtLeastAt
<1>6. ASSUME NEW l, LoadFits(l) PROVE LoadFits(l)'
  BY <1>5, <1>6 DEF LoadFits, AtLeastAt
<1>7. ASSUME NEW a, ActionFits(a) PROVE ActionFits(a)'
  BY <1>5, <1>7 DEF ActionFits, ActionSent, AtLeastAt
<1> QED
  BY <1>1, <1>4, <1>6, <1>7

LEMMA DetailSteps == DetailInv /\ [DetailNext]_<<rows, past, modal>> => DetailInv'
<1> SUFFICES ASSUME DetailInv, [DetailNext]_<<rows, past, modal>> PROVE DetailInv'
  OBVIOUS
<1> USE DEF DetailInv
<1>0. ServerRests => /\ UNCHANGED <<stage, reached, rows, past>>
                     /\ \A row : ReadFits(row)' <=> ReadFits(row)
                     /\ \A l : LoadFits(l)' <=> LoadFits(l)
                     /\ \A a : ActionFits(a)' <=> ActionFits(a)
  BY FitsRest DEF ServerRests, rows, past
<1>1. ASSUME NEW i \in Incident, Open(i) PROVE DetailInv'
  <2> DEFINE l == [nr |-> clicks', id |-> i, after |-> "absent"]
  <2>1. /\ loading' = loading \cup {l} /\ clicks' = clicks + 1
        /\ UNCHANGED <<incident, acting>> /\ ServerRests
    BY <1>1 DEF Open, UserActs
  <2>2. l \notin Shown
    BY UnreadNotShown
  <2>3. LoadFits(l)
    <3>1. Rank[stage[i]] \in Nat /\ Rank["absent"] = 0 /\ "absent" \in Stage
      BY RankIsNat DEF DetailTypes, Rank, Stage
    <3> QED
      BY <3>1 DEF LoadFits, AtLeastAt
  <2> HIDE DEF l
  <2> QED
    BY <1>0, <2>1, <2>2, <2>3 DEF DetailTypes
<1>2. CASE Dismiss
  BY <1>0, <1>2 DEF Dismiss, DetailTypes
<1>3. CASE Click
  <2> DEFINE a == [nr |-> clicks', id |-> incident.id,
                   to |-> Successor[incident.status], at |-> "sent"]
  <2>1. /\ acting' = acting \cup {a} /\ clicks' = clicks + 1
        /\ UNCHANGED <<incident, loading>> /\ ServerRests
        /\ incident.status \in DOMAIN Successor
    BY <1>3 DEF Click, UserActs
  <2>2. incident # NothingShown
    BY <2>1 DEF NothingShown, Successor
  <2>3. incident.id \in Incident /\ Successor[incident.status] \in Stage
    BY <2>1, <2>2 DEF ReadFits, Successor, Stage
  <2>4. ActionFits(a)
    BY <2>1, <2>3 DEF ActionFits, ActionSent, DetailTypes
  <2> HIDE DEF a
  <2> QED
    BY <1>0, <2>1, <2>4 DEF DetailTypes
<1>4. CASE OtherClient
  <2>1. TableNext /\ History /\ UNCHANGED <<incident, clicks, loading, acting>>
    BY <1>4 DEF OtherClient, modal
  <2>2. stage' \in [Incident -> Stage]
    BY <2>1, RowsChange
  <2> QED
    BY <2>1, <2>2, FitsStay DEF DetailTypes
<1>5. ASSUME NEW l \in loading, ReadRow(l) PROVE DetailInv'
  <2> DEFINE row == [nr |-> l.nr, id |-> l.id, after |-> l.after, status |-> stage[l.id]]
  <2>1. /\ loading' = (loading \ {l}) \cup {row}
        /\ UNCHANGED <<incident, clicks, acting>> /\ ServerRests
    BY <1>5 DEF ReadRow
  <2>2. LoadFits(l)
    OBVIOUS
  <2>3. LoadFits(row) /\ ReadFits(row)
    BY <2>2 DEF LoadFits, ReadFits, AtLeastAt, DetailTypes
  <2> HIDE DEF row
  <2> QED
    BY <1>0, <2>1, <2>3 DEF DetailTypes
<1>6. ASSUME NEW l \in loading, Loaded(l) PROVE DetailInv'
  <2>1. /\ l \in Shown /\ incident' = l /\ loading' \subseteq loading
        /\ UNCHANGED <<clicks, acting>> /\ ServerRests
    BY <1>6 DEF Loaded
  <2>2. ReadFits(l)
    BY <2>1
  <2> QED
    BY <1>0, <2>1, <2>2 DEF DetailTypes
<1>7. ASSUME NEW l \in loading, LoadFails(l) PROVE DetailInv'
  BY <1>0, <1>7 DEF LoadFails, DetailTypes
<1>8. ASSUME NEW a \in acting, Find(a) PROVE DetailInv'
  <2> DEFINE b == [a EXCEPT !.at = "found"]
  <2>1. /\ acting' = (acting \ {a}) \cup {b}
        /\ UNCHANGED <<incident, clicks, loading>> /\ ServerRests
    BY <1>8 DEF Find
  <2>2. b \in ActionSent /\ b.at # "saved"
    BY DEF ActionFits, ActionSent
  <2>3. ActionFits(b)
    BY <2>2 DEF ActionFits
  <2> HIDE DEF b
  <2> QED
    BY <1>0, <2>1, <2>3 DEF DetailTypes
<1>9. ASSUME NEW a \in acting, SaveFound(a) PROVE DetailInv'
  <2> DEFINE b == [a EXCEPT !.at = "saved"]
  <2>1. /\ acting' = (acting \ {a}) \cup {b} /\ Overwrite(a.id, a.to) /\ History
        /\ UNCHANGED <<incident, clicks, loading>>
    BY <1>9 DEF SaveFound
  <2>2. a \in ActionSent /\ a.id \in Incident /\ a.to \in Stage
    BY DEF ActionFits, ActionSent
  <2>3. b \in ActionSent /\ b.id = a.id /\ b.to = a.to
    BY <2>2 DEF ActionSent
  <2>4. stage' \in [Incident -> Stage] /\ stage'[b.id] = b.to
    BY <2>1, <2>2, <2>3 DEF Overwrite, DetailTypes
  <2> HIDE DEF b
  <2>5. ActionFits(b)'
    <3>1. Rank[b.to] \in Nat
      BY <2>2, <2>3, RankIsNat
    <3> QED
      BY <2>3, <2>4, <3>1 DEF ActionFits, AtLeastAt
  <2>6. /\ reached' \in [Incident -> SUBSET Stage]
        /\ \A i \in Incident : stage'[i] \in reached'[i]
        /\ incident # NothingShown => ReadFits(incident)'
        /\ \A l \in loading : LoadFits(l)' /\ (l \in Shown => ReadFits(l)')
        /\ \A c \in acting : ActionFits(c)'
    BY <2>1, <2>4, FitsStay
  <2> QED
    BY <2>1, <2>4, <2>5, <2>6 DEF DetailTypes
<1>10. ASSUME NEW a \in acting, Accepted(a) PROVE DetailInv'
  <2> DEFINE l == [nr |-> a.nr, id |-> a.id, after |-> a.to]
  <2>1. /\ a.at = "saved" /\ loading' = loading \cup {l} /\ acting' \subseteq acting
        /\ UNCHANGED <<incident, clicks>> /\ ServerRests
    BY <1>10 DEF Accepted
  <2>2. l \notin Shown
    BY UnreadNotShown
  <2>3. LoadFits(l)
    BY <2>1 DEF ActionFits, ActionSent, LoadFits
  <2> HIDE DEF l
  <2> QED
    BY <1>0, <2>1, <2>2, <2>3 DEF DetailTypes
<1>11. ASSUME NEW a \in acting, ActionFails(a) PROVE DetailInv'
  BY <1>0, <1>11 DEF ActionFails, DetailTypes
<1>12. CASE UNCHANGED <<rows, past, modal>>
  BY <1>0, <1>12 DEF ServerRests, modal, DetailTypes
<1> QED
  BY <1>1, <1>2, <1>3, <1>4, <1>5, <1>6, <1>7, <1>8, <1>9, <1>10, <1>11, <1>12 DEF DetailNext

LEMMA DetailInvariant == DetailSpec => []DetailInv
BY DetailStarts, DetailSteps, PTL DEF DetailSpec

(* The modal shows only what the row has been.                             *)
THEOREM ShowsThePast == DetailSpec => []ShownStageIsPast
<1>1. DetailInv => ShownStageIsPast
  BY DEF DetailInv, ReadFits, ShownStageIsPast
<1> QED
  BY <1>1, DetailInvariant, PTL

(* The reload of an accepted action shows its effect or a later one, but   *)
(* for incidents that overlapping transitions have moved back.             *)
THEOREM ReloadShowsEffect == DetailSpec => []ReloadShowsAction
<1>1. DetailInv => ReloadShowsAction
  BY DEF DetailInv, ReadFits, AtLeastAt, ReloadShowsAction
<1> QED
  BY <1>1, DetailInvariant, PTL

(***************************************************************************)
(* The dashboard.  Rows are added between the two counts of a rate and are *)
(* never removed, so the first count is at most what the table holds when  *)
(* the second is taken: that is the inductive invariant.                   *)
(***************************************************************************)
Counted == [done : Nat, todo : Nat]

(* What has been counted first is still there.                             *)
TotalIsStale ==
    /\ query = "completed" => shown.inspections <= Size(inspections)
    /\ query = "recorded" => shown.trainings <= Size(trainings)

RateInv ==
    /\ inspections \in Counted /\ trainings \in Counted
    /\ query \in Query
    /\ shown \in [inspections : Nat, completed : Nat, trainings : Nat, recorded : Nat]
    /\ TotalIsStale

LEMMA SizeIsNat == ASSUME NEW t \in Counted PROVE Size(t) \in Nat
BY DEF Counted, Size

(* Which query precedes each of the two that make a rate.                  *)
LEMMA Preceding ==
    ASSUME NEW q \in DOMAIN Following
    PROVE  /\ Following[q] \in Query
           /\ Following[q] = "completed" => q = "inspections"
           /\ Following[q] = "recorded" => q = "trainings"
<1>1. q \in {"trend", "severity", "pending", "count", "inspections", "completed",
             "trainings", "recorded", "expiring"}
  BY DEF Following
<1>2. CASE q \in {"trend", "severity", "pending", "count"}
  BY <1>2 DEF Following, Query
<1>3. CASE q \in {"inspections", "completed", "trainings", "recorded", "expiring"}
  BY <1>3 DEF Following, Query
<1> QED
  BY <1>1, <1>2, <1>3

LEMMA RateInit == DashboardInit => RateInv
<1> SUFFICES ASSUME DashboardInit PROVE RateInv
  OBVIOUS
<1>1. \A t \in Table : t \in Counted
  BY DashboardAssumption DEF Table, Counted
<1>2. query \in Query
  BY DEF DashboardInit, Query, Following
<1> QED
  BY <1>1, <1>2 DEF DashboardInit, RateInv, TotalIsStale, NoCount

LEMMA RateNext == RateInv /\ [DashboardNext]_dashboard => RateInv'
<1> SUFFICES ASSUME RateInv, [DashboardNext]_dashboard PROVE RateInv'
  OBVIOUS
<1>1. CASE Stats
  <2>1. UNCHANGED <<inspections, trainings>>
    BY <1>1 DEF Stats, tables
  <2>2. CASE query' = "failed" /\ shown' = NoCount
    BY <2>1, <2>2 DEF RateInv, TotalIsStale, Query, NoCount
  <2>3. CASE query' = Following[query] /\ shown' = AnswerOf(query)
    <3>1. Size(inspections) \in Nat /\ Size(trainings) \in Nat
      BY SizeIsNat DEF RateInv
    <3>2. inspections.done \in Nat /\ trainings.done \in Nat
      BY DEF RateInv, Counted
    <3>3. shown' \in [inspections : Nat, completed : Nat, trainings : Nat, recorded : Nat]
      BY <2>3, <3>1, <3>2 DEF RateInv, AnswerOf
    <3>4. query \in DOMAIN Following
      BY <1>1 DEF Stats
    <3>5. query' \in Query
      BY <2>3, <3>4, Preceding
    <3>6. query' = "completed" => query = "inspections"
      BY <2>3, <3>4, Preceding
    <3>7. query' = "recorded" => query = "trainings"
      BY <2>3, <3>4, Preceding
    <3>8. ASSUME query' = "completed" PROVE shown'.inspections <= Size(inspections)'
      <4>1. shown' = [shown EXCEPT !.inspections = Size(inspections)]
        BY <2>3, <3>6, <3>8 DEF AnswerOf
      <4>2. shown'.inspections = Size(inspections) /\ Size(inspections)' = Size(inspections)
        BY <4>1, <2>1 DEF RateInv, Size
      <4> QED
        BY <4>2, <3>1
    <3>9. ASSUME query' = "recorded" PROVE shown'.trainings <= Size(trainings)'
      <4>1. shown' = [shown EXCEPT !.trainings = Size(trainings)]
        BY <2>3, <3>7, <3>9 DEF AnswerOf
      <4>2. shown'.trainings = Size(trainings) /\ Size(trainings)' = Size(trainings)
        BY <4>1, <2>1 DEF RateInv, Size
      <4> QED
        BY <4>2, <3>1
    <3> QED
      BY <2>1, <3>3, <3>5, <3>8, <3>9 DEF RateInv, TotalIsStale
  <2> QED
    BY <1>1, <2>2, <2>3 DEF Stats
<1>2. CASE AddInspection \/ CompleteInspection
  <2>1. UNCHANGED <<trainings, query, shown>>
    BY <1>2 DEF AddInspection, CompleteInspection, board
  <2>2. inspections' \in Counted /\ Size(inspections) <= Size(inspections)'
    <3>1. inspections \in Counted /\ inspections.done \in Nat /\ inspections.todo \in Nat
      BY DEF RateInv, Counted
    <3>2. CASE inspections' = [inspections EXCEPT !.todo = @ + 1]
      BY <3>1, <3>2 DEF Counted, Size
    <3>3. CASE /\ inspections.todo > 0
               /\ inspections' = [inspections EXCEPT !.todo = @ - 1, !.done = @ + 1]
      <4>1. inspections' = [done |-> inspections.done + 1, todo |-> inspections.todo - 1]
        BY <3>3 DEF RateInv, Counted
      <4>2. inspections.done + 1 \in Nat /\ inspections.todo - 1 \in Nat
        BY <3>1, <3>3
      <4>3. inspections' \in Counted
        BY <4>1, <4>2 DEF Counted
      <4>4. Size(inspections)' = (inspections.done + 1) + (inspections.todo - 1)
        BY <4>1 DEF Size
      <4> QED
        BY <4>3, <4>4, <3>1 DEF Size
    <3> QED
      BY <1>2, <3>2, <3>3 DEF AddInspection, CompleteInspection
  <2>3. Size(inspections) \in Nat /\ Size(inspections)' \in Nat
    BY <2>2, SizeIsNat DEF RateInv, Counted, Size
  <2>4. shown.inspections \in Nat /\ Size(trainings)' = Size(trainings)
    BY <2>1 DEF RateInv, Size
  <2>5. query = "completed" => shown.inspections <= Size(inspections)'
    BY <2>2, <2>3, <2>4 DEF RateInv, TotalIsStale
  <2> QED
    BY <2>1, <2>2, <2>4, <2>5 DEF RateInv, TotalIsStale
<1>3. CASE AddTraining \/ RateTraining
  <2>1. UNCHANGED <<inspections, query, shown>>
    BY <1>3 DEF AddTraining, RateTraining, board
  <2>2. trainings' \in Counted /\ Size(trainings) <= Size(trainings)'
    <3>1. trainings \in Counted /\ trainings.done \in Nat /\ trainings.todo \in Nat
      BY DEF RateInv, Counted
    <3>2. CASE trainings' = [trainings EXCEPT !.todo = @ + 1]
      BY <3>1, <3>2 DEF Counted, Size
    <3>3. CASE /\ trainings.todo > 0
               /\ trainings' = [trainings EXCEPT !.todo = @ - 1, !.done = @ + 1]
      <4>1. trainings' = [done |-> trainings.done + 1, todo |-> trainings.todo - 1]
        BY <3>3 DEF RateInv, Counted
      <4>2. trainings.done + 1 \in Nat /\ trainings.todo - 1 \in Nat
        BY <3>1, <3>3
      <4>3. trainings' \in Counted
        BY <4>1, <4>2 DEF Counted
      <4>4. Size(trainings)' = (trainings.done + 1) + (trainings.todo - 1)
        BY <4>1 DEF Size
      <4> QED
        BY <4>3, <4>4, <3>1 DEF Size
    <3>4. CASE /\ trainings.done > 0
               /\ trainings' = [trainings EXCEPT !.todo = @ + 1, !.done = @ - 1]
      <4>1. trainings' = [done |-> trainings.done - 1, todo |-> trainings.todo + 1]
        BY <3>4 DEF RateInv, Counted
      <4>2. trainings.done - 1 \in Nat /\ trainings.todo + 1 \in Nat
        BY <3>1, <3>4
      <4>3. trainings' \in Counted
        BY <4>1, <4>2 DEF Counted
      <4>4. Size(trainings)' = (trainings.done - 1) + (trainings.todo + 1)
        BY <4>1 DEF Size
      <4> QED
        BY <4>3, <4>4, <3>1 DEF Size
    <3> QED
      BY <1>3, <3>2, <3>3, <3>4 DEF AddTraining, RateTraining
  <2>3. Size(trainings) \in Nat /\ Size(trainings)' \in Nat
    BY <2>2, SizeIsNat DEF RateInv, Counted, Size
  <2>4. shown.trainings \in Nat /\ Size(inspections)' = Size(inspections)
    BY <2>1 DEF RateInv, Size
  <2>5. query = "recorded" => shown.trainings <= Size(trainings)'
    BY <2>2, <2>3, <2>4 DEF RateInv, TotalIsStale
  <2> QED
    BY <2>1, <2>2, <2>4, <2>5 DEF RateInv, TotalIsStale
<1>4. CASE UNCHANGED dashboard
  BY <1>4 DEF dashboard, tables, board, RateInv, TotalIsStale, Size
<1> QED
  BY <1>1, <1>2, <1>3, <1>4 DEF DashboardNext

(* A smaller whole makes the quotient no smaller.                          *)
LEMMA SmallerWhole ==
    ASSUME NEW d \in Nat, NEW whole \in Nat, NEW size \in Nat, whole <= size
    PROVE  d * size >= d * whole
<1>1. PICK k \in Nat : size = whole + k
  <2>1. size - whole \in Nat /\ size = whole + (size - whole)
    OBVIOUS
  <2> QED
    BY <2>1
<1> QED
  BY <1>1

(* One step shows no rate that is too low.                                 *)
LEMMA RateStep ==
    ASSUME RateInv, DashboardNext
    PROVE  /\ query = "completed" /\ query' = "trainings" =>
                  AtLeast(shown'.completed, shown'.inspections, inspections)
           /\ query = "recorded" /\ query' = "expiring" =>
                  AtLeast(shown'.recorded, shown'.trainings, trainings)
<1>1. ASSUME query # query' PROVE Stats
  BY <1>1 DEF DashboardNext, AddInspection, CompleteInspection, AddTraining, RateTraining, board
<1>2. ASSUME query = "completed", query' = "trainings"
      PROVE  AtLeast(shown'.completed, shown'.inspections, inspections)
  <2>1. shown' = [shown EXCEPT !.completed = inspections.done]
    BY <1>1, <1>2 DEF Stats, AnswerOf
  <2>2. shown'.completed = inspections.done /\ shown'.inspections = shown.inspections
    BY <2>1 DEF RateInv
  <2>3. shown.inspections <= Size(inspections)
    BY <1>2 DEF RateInv, TotalIsStale
  <2>4. inspections.done \in Nat /\ Size(inspections) \in Nat /\ shown.inspections \in Nat
    BY SizeIsNat DEF RateInv, Counted
  <2>5. inspections.done * Size(inspections) >= inspections.done * shown.inspections
    BY <2>3, <2>4, SmallerWhole
  <2> QED
    BY <2>2, <2>5 DEF AtLeast
<1>3. ASSUME query = "recorded", query' = "expiring"
      PROVE  AtLeast(shown'.recorded, shown'.trainings, trainings)
  <2>1. shown' = [shown EXCEPT !.recorded = trainings.done]
    BY <1>1, <1>3 DEF Stats, AnswerOf
  <2>2. shown'.recorded = trainings.done /\ shown'.trainings = shown.trainings
    BY <2>1 DEF RateInv
  <2>3. shown.trainings <= Size(trainings)
    BY <1>3 DEF RateInv, TotalIsStale
  <2>4. trainings.done \in Nat /\ Size(trainings) \in Nat /\ shown.trainings \in Nat
    BY SizeIsNat DEF RateInv, Counted
  <2>5. trainings.done * Size(trainings) >= trainings.done * shown.trainings
    BY <2>3, <2>4, SmallerWhole
  <2> QED
    BY <2>2, <2>5 DEF AtLeast
<1> QED
  BY <1>2, <1>3

(* A rate on the dashboard is at least the share of the rows that are done *)
(* when its second count is taken, however the tables change meanwhile.    *)
THEOREM RatesNotUnderstated == DashboardSpec => RateNotUnderstated
<1> DEFINE StepIsFair ==
        /\ query = "completed" /\ query' = "trainings" =>
               AtLeast(shown'.completed, shown'.inspections, inspections)
        /\ query = "recorded" /\ query' = "expiring" =>
               AtLeast(shown'.recorded, shown'.trainings, trainings)
<1>1. RateInv /\ [DashboardNext]_dashboard => [StepIsFair]_dashboard
  BY RateStep
<1>2. DashboardSpec => [][StepIsFair]_dashboard
  <2> HIDE DEF StepIsFair
  <2> QED
    BY <1>1, RateInit, RateNext, PTL DEF DashboardSpec
<1> QED
  BY <1>2 DEF RateNotUnderstated

(***************************************************************************)
(* The audit log                                                           *)
(***************************************************************************)
(* How many entries of the order precede what was not yet asked for.       *)
Passed ==
    LET q == Normalize(pageQuery)
    IN  IF step = "answered" THEN q.page * q.page_size ELSE (q.page - 1) * q.page_size

AuditTypes ==
    /\ entries \in SUBSET Id
    /\ before \subseteq entries /\ read \subseteq entries
    /\ pageQuery \in [page : Nat, page_size : Nat]
    /\ step \in {"count", "find", "answered"}

(* An entry of the beginning that was not read lies beyond the pages that  *)
(* were: other entries only move it on.                                    *)
UnreadIsAhead == \A i \in before \ read : Position(i) >= Passed

AuditInv == AuditTypes /\ UnreadIsAhead /\ NoEntrySkipped

LEMMA NormalizeType ==
    ASSUME NEW q \in [page : Nat, page_size : Nat]
    PROVE  /\ Normalize(q) \in [page : Nat, page_size : Nat]
           /\ Normalize(q).page >= 1
  BY AuditListAssumption DEF Normalize

LEMMA NewerFinite ==
    ASSUME NEW S \in SUBSET Id, NEW i
    PROVE  IsFiniteSet({k \in S : k > i})
<1>1. IsFiniteSet(Id)
  BY FS_Interval, AuditListAssumption DEF Id
<1>2. {k \in S : k > i} \in SUBSET Id
  OBVIOUS
<1> QED
  BY <1>1, <1>2, FS_Subset

(* Of two entries the newer one is not behind, and positions only grow.    *)
LEMMA PositionOrder ==
    ASSUME entries \in SUBSET Id
    PROVE  /\ \A i \in Id : Position(i) \in Nat
           /\ \A i, j \in Id : i > j => Position(i) <= Position(j)
<1>1. \A i \in Id : IsFiniteSet({k \in entries : k > i})
  BY NewerFinite
<1>2. ASSUME NEW i \in Id PROVE Position(i) \in Nat
  BY <1>1, FS_CardinalityType DEF Position
<1>3. ASSUME NEW i \in Id, NEW j \in Id, i > j PROVE Position(i) <= Position(j)
  <2>1. {k \in entries : k > i} \subseteq {k \in entries : k > j}
    <3> SUFFICES ASSUME NEW k \in entries, k > i PROVE k > j
      OBVIOUS
    <3>1. k \in Int /\ i \in Int /\ j \in Int
      BY AuditListAssumption DEF Id
    <3> QED
      BY <3>1, <1>3
  <2> QED
    BY <2>1, <1>1, FS_Subset DEF Position
<1> QED
  BY <1>2, <1>3

LEMMA PositionGrows ==
    ASSUME entries \in SUBSET Id, entries' \in SUBSET Id, entries \subseteq entries'
    PROVE  \A i \in Id : Position(i)' >= Position(i)
<1> SUFFICES ASSUME NEW i \in Id PROVE Position(i)' >= Position(i)
  OBVIOUS
<1>1. IsFiniteSet({k \in entries' : k > i})
  BY NewerFinite
<1>2. {k \in entries : k > i} \subseteq {k \in entries' : k > i}
  OBVIOUS
<1>3. /\ Cardinality({k \in entries : k > i}) <= Cardinality({k \in entries' : k > i})
      /\ Cardinality({k \in entries : k > i}) \in Nat
      /\ Cardinality({k \in entries' : k > i}) \in Nat
  BY <1>1, <1>2, FS_Subset, FS_CardinalityType
<1> QED
  BY <1>3 DEF Position

LEMMA AuditStarts == AuditListInit => AuditInv
<1> SUFFICES ASSUME AuditListInit PROVE AuditInv
  OBVIOUS
<1>1. AuditTypes
  BY DEF AuditListInit, AuditTypes, AuditListAssumption
<1>2. NoEntrySkipped
  BY DEF AuditListInit, NoEntrySkipped
<1>3. UnreadIsAhead
  <2>1. Passed = 0
    <3>1. Normalize(pageQuery).page = 1
      BY DEF AuditListInit, Normalize
    <3>2. Normalize(pageQuery).page_size \in Nat
      BY <1>1, NormalizeType DEF AuditTypes
    <3> QED
      BY <3>1, <3>2 DEF Passed, AuditListInit
  <2>2. \A i \in before : Position(i) \in Nat
    BY <1>1, PositionOrder DEF AuditTypes
  <2> QED
    BY <2>1, <2>2 DEF UnreadIsAhead
<1> QED
  BY <1>1, <1>2, <1>3 DEF AuditInv

(* Nothing is read, and the pages asked for stay as many.                  *)
LEMMA NothingRead ==
    ASSUME AuditInv, AuditTypes', read' = read, before' = before,
           entries \subseteq entries', Passed' = Passed, Passed \in Nat
    PROVE  AuditInv'
<1>1. ASSUME NEW i \in before' \ read' PROVE Position(i)' >= Passed'
  <2>1. i \in Id /\ Position(i) >= Passed
    BY <1>1 DEF AuditInv, AuditTypes, UnreadIsAhead
  <2>2. Position(i)' >= Position(i)
    BY <2>1, PositionGrows DEF AuditInv, AuditTypes
  <2>3. Position(i) \in Nat
    BY <2>1, PositionOrder DEF AuditInv, AuditTypes
  <2>4. Position(i)' \in Nat
    <3>1. IsFiniteSet({k \in entries' : k > i})
      BY NewerFinite DEF AuditTypes
    <3> QED
      BY <3>1, FS_CardinalityType DEF Position
  <2> QED
    BY <2>1, <2>2, <2>3, <2>4
<1> QED
  BY <1>1 DEF AuditInv, UnreadIsAhead, NoEntrySkipped

(* The page that is read holds every entry up to its end that was missing. *)
LEMMA PageRead ==
    ASSUME AuditInv, step = "find", step' = "answered",
           read' = read \cup {i \in entries : OnPage(Normalize(pageQuery), i)},
           UNCHANGED <<entries, pageQuery, total, before>>
    PROVE  AuditInv'
<1> DEFINE q == Normalize(pageQuery)
<1>1. q \in [page : Nat, page_size : Nat] /\ Normalize(pageQuery)' = q
  BY NormalizeType DEF AuditInv, AuditTypes, Normalize
<1>2. AuditTypes'
  BY DEF AuditInv, AuditTypes
<1>3. \A i \in Id : Position(i) \in Nat /\ Position(i)' = Position(i)
  BY PositionOrder DEF AuditInv, AuditTypes, Position
<1>4. (q.page - 1) * q.page_size = Passed
  BY DEF Passed
<1>5. Passed' = q.page * q.page_size
  BY <1>1 DEF Passed
<1>6. \A i \in before \ read : Position(i) >= Passed
  BY DEF AuditInv, UnreadIsAhead
<1>7. \A i \in entries : OnPage(q, i) <=> Passed <= Position(i) /\ Position(i) < Passed'
  BY <1>4, <1>5 DEF OnPage
<1>8. Passed \in Int /\ Passed' \in Int
  BY <1>1, <1>4, <1>5
<1> HIDE DEF q
<1>9. UnreadIsAhead'
  <2> SUFFICES ASSUME NEW i \in before \ read' PROVE Position(i) >= Passed'
    BY <1>3 DEF UnreadIsAhead, AuditInv, AuditTypes
  <2>1. i \in entries /\ i \in Id /\ i \notin read /\ ~OnPage(q, i)
    BY DEF AuditInv, AuditTypes, q
  <2> QED
    BY <2>1, <1>3, <1>6, <1>7, <1>8
<1>10. NoEntrySkipped'
  <2> SUFFICES ASSUME NEW i \in before, NEW j \in read', i > j, i \notin read'
               PROVE  FALSE
    BY DEF NoEntrySkipped
  <2>1. i \in entries /\ i \in Id /\ i \notin read /\ ~OnPage(q, i) /\ Position(i) >= Passed
    BY <1>6 DEF AuditInv, AuditTypes, q
  <2>2. CASE j \in read
    BY <2>1, <2>2 DEF AuditInv, NoEntrySkipped
  <2>3. CASE j \in entries /\ OnPage(q, j)
    <3>1. j \in Id /\ Position(i) <= Position(j)
      BY <2>1, <2>3, PositionOrder DEF AuditInv, AuditTypes
    <3> QED
      BY <2>1, <2>3, <3>1, <1>3, <1>7, <1>8
  <2> QED
    BY <2>2, <2>3 DEF q
<1> QED
  BY <1>2, <1>9, <1>10 DEF AuditInv

LEMMA AuditSteps == AuditInv /\ [AuditListNext]_auditing => AuditInv'
<1> SUFFICES ASSUME AuditInv, [AuditListNext]_auditing PROVE AuditInv'
  OBVIOUS
<1> DEFINE q == Normalize(pageQuery)
<1>1. q \in [page : Nat, page_size : Nat] /\ q.page >= 1
  BY NormalizeType DEF AuditInv, AuditTypes
<1>2. /\ (q.page - 1) * q.page_size \in Nat /\ q.page * q.page_size \in Nat
      /\ Passed \in Nat
  <2>1. q.page - 1 \in Nat
    BY <1>1
  <2> QED
    BY <1>1, <2>1 DEF Passed
<1>3. CASE step # "answered" /\ ListFails
  <2>1. AuditTypes'
    BY <1>3 DEF ListFails, AuditInv, AuditTypes
  <2>2. Passed' = Passed
    BY <1>3 DEF ListFails, Passed, Normalize
  <2> QED
    BY <1>2, <1>3, <2>1, <2>2, NothingRead DEF ListFails
<1>4. CASE CountEntries
  <2>1. CASE ListFails
    BY <1>3, <1>4, <2>1 DEF CountEntries
  <2>2. CASE step' = "find" /\ UNCHANGED <<entries, pageQuery, read, before>>
    <3>1. AuditTypes'
      BY <2>2 DEF AuditInv, AuditTypes
    <3>2. Passed' = Passed
      BY <1>4, <2>2 DEF CountEntries, Passed, Normalize
    <3> QED
      BY <1>2, <2>2, <3>1, <3>2, NothingRead
  <2> QED
    BY <1>4, <2>1, <2>2 DEF CountEntries
<1>5. CASE FindEntries
  BY <1>3, <1>5, PageRead DEF FindEntries
<1>6. CASE NextPage
  <2>1. /\ step = "answered" /\ step' = "count" /\ pageQuery' = [q EXCEPT !.page = @ + 1]
        /\ UNCHANGED <<entries, read, before>>
    BY <1>6 DEF NextPage
  <2>2. AuditTypes'
    BY <1>1, <2>1 DEF AuditInv, AuditTypes
  <2>3. CASE q.page_size > 0
    <3>1. Normalize(pageQuery)' = [page |-> q.page + 1, page_size |-> q.page_size]
      BY <1>1, <2>1, <2>3 DEF Normalize
    <3>2. Normalize(pageQuery)'.page - 1 = q.page /\ Normalize(pageQuery)'.page_size = q.page_size
      BY <1>1, <3>1
    <3>3. Passed' = (Normalize(pageQuery)'.page - 1) * Normalize(pageQuery)'.page_size
      BY <2>1 DEF Passed
    <3>4. Passed' = Passed
      BY <2>1, <3>2, <3>3 DEF Passed
    <3> QED
      BY <1>2, <2>1, <2>2, <3>4, NothingRead
  <2>4. q.page_size > 0
    BY AuditListAssumption DEF Normalize, AuditInv, AuditTypes
  <2> QED
    BY <2>3, <2>4
<1>7. CASE InsertEntry
  <2>1. AuditTypes' /\ entries \subseteq entries'
    BY <1>7 DEF InsertEntry, AuditInv, AuditTypes
  <2>2. Passed' = Passed
    BY <1>7 DEF InsertEntry, Passed, Normalize
  <2> QED
    BY <1>2, <1>7, <2>1, <2>2, NothingRead DEF InsertEntry
<1>8. CASE UNCHANGED auditing
  <2>1. AuditTypes' /\ Passed' = Passed
    BY <1>8 DEF auditing, AuditInv, AuditTypes, Passed, Normalize
  <2> QED
    BY <1>2, <1>8, <2>1, NothingRead DEF auditing
<1> QED
  BY <1>4, <1>5, <1>6, <1>7, <1>8 DEF AuditListNext

(* A client that reads the audit log page by page misses no entry between  *)
(* those it reads, for any page size and any entries added meanwhile.      *)
THEOREM NoneSkipped == AuditListSpec => []NoEntrySkipped
<1>1. AuditInv => NoEntrySkipped
  BY DEF AuditInv
<1> QED
  BY <1>1, AuditStarts, AuditSteps, PTL DEF AuditListSpec
=============================================================================
