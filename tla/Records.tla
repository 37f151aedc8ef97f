------------------------------- MODULE Records -------------------------------
(***************************************************************************)
(* The certifications and the trainings as one server handles them: the    *)
(* requests are of either kind, overlap, and are killed by a stop of the   *)
(* server, which both tables survive.                                      *)
(***************************************************************************)
EXTENDS Certifications, Trainings

records == <<calls, cert, training>>

RecordsInit == CallsInit /\ CertsInit /\ TrainingsInit

RecordsStep(r) ==
    \/ CertStep(r) /\ UNCHANGED training
    \/ TrainingStep(r) /\ UNCHANGED cert

StopRecords == KillCalls /\ UNCHANGED <<cert, training>>

RecordsNext == StopRecords \/ \E r \in Request : RecordsStep(r)

RecordsSpec == RecordsInit /\ [][RecordsNext]_records

-----------------------------------------------------------------------------
(* Types of both tables and of the requests.                               *)
RecordsTypeOK ==
    /\ cert \in [Cert -> Certificate \cup {NoCert}]
    /\ training \in [Training -> Session \cup {NoSession}]
    /\ pc \in [Request -> {"new", "insert", "save", "done", "killed"}]
    /\ call \in [Request -> Submission \cup Review \cup Creation \cup Record \cup {NoCall}]
    /\ draft \in [Request -> Certificate \cup Session \cup {NoDraft}]
    /\ reply \in [Request -> Reply]
    /\ wrote \in [Request -> BOOLEAN]
    /\ seen \in [Request -> SUBSET Request]
=============================================================================
