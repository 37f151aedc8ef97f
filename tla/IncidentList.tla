---------------------------- MODULE IncidentList ----------------------------
(***************************************************************************)
(* The list of incidents in the browser: the page IncidentManage and the   *)
(* store it shares with every other visit of the page                      *)
(* (src/frontend/src/pages/IncidentManage.tsx, stores/incidentStore.ts).   *)
(*                                                                         *)
(* A change of page or filter asks the server for the list, and whatever   *)
(* answer arrives is shown: nothing cancels an older request.  The list is *)
(* abstracted to the request that it answers.                              *)
(***************************************************************************)
EXTENDS Integers

CONSTANTS Filter,      \* values of the two selects
          NoFilter,
          MaxPage,     \* bound on the pages
          MaxFetches   \* bound on the lists that are asked for

ASSUME ListAssumption == NoFilter \notin Filter /\ MaxPage \in Nat \ {0} /\ MaxFetches \in Nat \ {0}

VARIABLES page,        \* the page that is selected
          filters,     \* the filter that is; one select replaces the other
          fetches,     \* how many lists were asked for
          fetching,    \* the requests without an answer
          list,        \* the request whose answer is shown
          reporting    \* is the report of a new incident on its way?

listing == <<page, filters, fetches, fetching, list, reporting>>

Filters == Filter \cup {NoFilter}

Fetch == [nr : 1 .. MaxFetches, page : 1 .. MaxPage, filters : Filters]

NoList == [nr |-> 0]

(* The effect of the first rendering asks for the first list.              *)
ListInit ==
    /\ page = 1 /\ filters = NoFilter
    /\ fetches = 1
    /\ fetching = {[nr |-> 1, page |-> 1, filters |-> NoFilter]}
    /\ list = NoList
    /\ reporting = FALSE

(* The effect of a rendering with page p or filter f changed.              *)
FetchList(p, f) ==
    /\ fetches < MaxFetches
    /\ fetches' = fetches + 1
    /\ fetching' = fetching \cup {[nr |-> fetches + 1, page |-> p, filters |-> f]}

(* Mutant: the effect does not depend on the filter. *)
SelectUnnoticed(f) ==
    /\ filters' = f /\ page' = 1
    /\ IF page = 1 THEN UNCHANGED <<fetches, fetching>> ELSE FetchList(1, f)
    /\ UNCHANGED <<list, reporting>>

Select(f) ==
    /\ filters' = f /\ page' = 1
    /\ FetchList(1, f)
    /\ UNCHANGED <<list, reporting>>

TurnPage(p) ==
    /\ p # page
    /\ page' = p
    /\ FetchList(p, filters)
    /\ UNCHANGED <<filters, list, reporting>>

(* The page is left and entered again; the store and the requests stay.    *)
Revisit ==
    /\ page' = 1 /\ filters' = NoFilter
    /\ FetchList(1, NoFilter)
    /\ reporting' = FALSE
    /\ UNCHANGED list

Report ==
    /\ ~reporting /\ reporting' = TRUE
    /\ UNCHANGED <<page, filters, fetches, fetching, list>>

(* A reported incident leads to the first page, which is asked for only if *)
(* another one is selected by now; a failure leads nowhere.                *)
Reported ==
    /\ reporting /\ reporting' = FALSE
    /\ \/ /\ page' = 1
          /\ IF page = 1 THEN UNCHANGED <<fetches, fetching>> ELSE FetchList(1, filters)
       \/ UNCHANGED <<page, fetches, fetching>>
    /\ UNCHANGED <<filters, list>>

(* An answer is shown, a failure is not.                                   *)
Arrives(q) ==
    /\ fetching' = fetching \ {q}
    /\ list' \in {q, list}
    /\ UNCHANGED <<page, filters, fetches, reporting>>

ListNext ==
    \/ \E f \in Filters : Select(f)
    \/ \E p \in 1 .. MaxPage : TurnPage(p)
    \/ Revisit \/ Report \/ Reported
    \/ \E q \in fetching : Arrives(q)

ListSpec == ListInit /\ [][ListNext]_listing

-----------------------------------------------------------------------------
(* A list that is not the one selected is an older request's: it waits for *)
(* the answer of the newest request, or that one failed or was overtaken.  *)
(* The newest answer always fits the selection, however often the page is  *)
(* left, filtered or turned and whatever a report does to it meanwhile.    *)
NewestListIsCurrent ==
    list.nr = fetches => list.page = page /\ list.filters = filters
=============================================================================
