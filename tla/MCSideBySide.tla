---------------------------- MODULE MCSideBySide ----------------------------
(***************************************************************************)
(* Six small machines that share no state, each explored on a small        *)
(* instance while the others rest: the tally of an inspection, the         *)
(* certifications and trainings, the dashboard, the list and the details   *)
(* of incidents in the browser, and the list of the audit log.  Their      *)
(* product has nothing that they have not.                                 *)
(***************************************************************************)
EXTENDS InspectionTally, Records, Dashboard, IncidentList, IncidentDetail, AuditLogList

VARIABLE machine   \* the one that runs

all == <<tally, records, dashboard, listing, modal, past, rows, auditing, machine>>

Init ==
    /\ machine \in {"tally", "records", "dashboard", "list", "detail", "audit"}
    /\ TallyInit /\ ListInit
    /\ RecordsInit
    /\ machine # "records" =>
          /\ cert = [k \in Cert |-> NoCert]
          /\ training = [t \in Training |-> NoSession]
    /\ DashboardInit
    /\ machine # "dashboard" => Size(inspections) = 0 /\ Size(trainings) = 0
    /\ DetailInit
    /\ \A i \in Incident :
          stage[i] \in IF machine = "detail" THEN {"absent", "reported"} ELSE {"absent"}
    /\ AuditListInit
    /\ machine # "audit" => entries = {} /\ pageQuery = [page |-> 0, page_size |-> 0]

Next ==
    /\ UNCHANGED machine
    /\ \/ /\ machine = "tally" /\ TallyNext
          /\ UNCHANGED <<records, dashboard, listing, modal, past, rows, auditing>>
       \/ /\ machine = "records" /\ RecordsNext
          /\ UNCHANGED <<tally, dashboard, listing, modal, past, rows, auditing>>
       \/ /\ machine = "dashboard" /\ DashboardNext
          /\ UNCHANGED <<tally, records, listing, modal, past, rows, auditing>>
       \/ /\ machine = "list" /\ ListNext
          /\ UNCHANGED <<tally, records, dashboard, modal, past, rows, auditing>>
       \/ /\ machine = "detail" /\ DetailNext
          /\ UNCHANGED <<tally, records, dashboard, listing, auditing>>
       \/ /\ machine = "audit" /\ AuditListNext
          /\ UNCHANGED <<tally, records, dashboard, listing, modal, past, rows>>

Spec == Init /\ [][Next]_all
=============================================================================
