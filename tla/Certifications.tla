--------------------------- MODULE Certifications ---------------------------
(***************************************************************************)
(* Certifications of workers: submitted by any caller, decided by a        *)
(* manager (src/backend/internal/service/worker_certification_service.go   *)
(* and its handler and repository).                                        *)
(*                                                                         *)
(* A review reads the row, refuses it unless it is pending, and saves the  *)
(* whole row with the decision: two managers may both find it pending.     *)
(***************************************************************************)
EXTENDS Handlers

CONSTANTS Cert,       \* ids of rows of worker_certifications
          Holder      \* the users whose certifications they are

VARIABLE cert         \* the table: [Cert -> Certificate \cup {NoCert}]

Decision == {"approved", "rejected"}

(* A row: whose certification it is, and what became of it.  Its texts and *)
(* dates are stored as they were submitted and never changed.              *)
Certificate == [owner : Holder, status : {"pending"} \cup Decision]

NoCert == [status |-> "absent"]

Submission == [op : {"submit"}, id : Cert \cup {"none"}]

Review == [op : {"review"}, id : Cert, status : Decision]

(* Rows may be there before: the seed has decided and pending ones.        *)
CertsInit == cert \in [Cert -> Certificate \cup {NoCert}]

FindCertByID(k) == cert[k] # NoCert

CreateCert(r) ==
    /\ pc[r] = "insert" /\ call[r].op = "submit"
    /\ \/ \E k \in Cert :
             /\ ~FindCertByID(k)
             /\ cert' = [cert EXCEPT ![k] = draft[r]]
             /\ Took(r, [call[r] EXCEPT !.id = k])
       \/ InternalError(r) /\ UNCHANGED cert

UpdateCert(r) ==
    /\ pc[r] = "save" /\ call[r].op = "review"
    /\ \/ /\ cert' = [cert EXCEPT ![call[r].id] = draft[r]]
          /\ Took(r, call[r])
       \/ InternalError(r) /\ UNCHANGED cert

(* Mutant: the status is another than the one reviews look for. *)
SubmitCertMisspelt(r, u) ==
    \/ InternalError(r)
    \/ Hold(r, [op |-> "submit", id |-> "none"], [owner |-> u, status |-> "submitted"], "insert")

(* The owner named is looked up, and need not be the caller.               *)
SubmitCert(r, u) ==
    \/ InternalError(r)
    \/ Hold(r, [op |-> "submit", id |-> "none"], [owner |-> u, status |-> "pending"], "insert")

(* Mutant: the status is not checked. *)
ReviewUnchecked(r, k, decision) ==
    \/ InternalError(r)
    \/ /\ FindCertByID(k)
       /\ Hold(r, [op |-> "review", id |-> k, status |-> decision],
               [cert[k] EXCEPT !.status = decision], "save")

ReviewCert(r, k, decision) ==
    \/ InternalError(r)
    \/ FindCertByID(k) /\ cert[k].status # "pending" /\ Fail(r)
    \/ /\ FindCertByID(k) /\ cert[k].status = "pending"
       /\ Hold(r, [op |-> "review", id |-> k, status |-> decision],
               [cert[k] EXCEPT !.status = decision], "save")

(* A missing token, a role that may not review, a body that does not parse *)
(* or names another decision: refused.                                     *)
PostCert(r) ==
    /\ pc[r] = "new"
    /\ UNCHANGED cert
    /\ \/ Fail(r)
       \/ \E u \in Holder : SubmitCert(r, u)
       \/ \E k \in Cert, decision \in Decision : ReviewCert(r, k, decision)

CertStep(r) == PostCert(r) \/ CreateCert(r) \/ UpdateCert(r)

-----------------------------------------------------------------------------
(* The reviews of certification k that took effect.                        *)
Reviewed(k) == {r \in Written : call[r].op = "review" /\ call[r].id = k}

(* A certification is decided once: two reviews take effect only when they *)
(* overlap, each having read the row before the other was saved.           *)
DecidedOnce ==
    \A k \in Cert : \A q, r \in Reviewed(k) : q \notin seen[r]
=============================================================================
