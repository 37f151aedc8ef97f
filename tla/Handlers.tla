------------------------------ MODULE Handlers ------------------------------
(***************************************************************************)
(* What the handlers of users, certifications and trainings have in        *)
(* common: a request is refused at once, or its service reads what it      *)
(* needs and then makes one write, a later database call of its own.       *)
(* Nothing holds the rows in between, neither a lock nor a transaction.    *)
(* The write takes effect and is answered, takes effect but its answer is  *)
(* an error, or has no effect; a stop of the server kills what is in       *)
(* flight.  Each module that extends this one adds its table.              *)
(***************************************************************************)
CONSTANT Request    \* HTTP requests, each of them sent once

VARIABLES pc,       \* where each request is
          call,     \* what each request asks, if it was not refused
          draft,    \* the row it is about to insert or to save
          reply,    \* how it was answered
          wrote,    \* history: did its write take effect?
          seen      \* history: whose writes had taken effect when it read

calls == <<pc, call, draft, reply, wrote, seen>>

NoCall == [op |-> "none"]

NoDraft == [kind |-> "none"]

(* How a request was answered: as asked for, with a 4xx status because it  *)
(* was refused, or with 500 because something failed, a row that was not   *)
(* found included.                                                         *)
Reply == {"none", "ok", "refused", "error"}

CallsInit ==
    /\ pc = [r \in Request |-> "new"]
    /\ call = [r \in Request |-> NoCall]
    /\ draft = [r \in Request |-> NoDraft]
    /\ reply = [r \in Request |-> "none"]
    /\ wrote = [r \in Request |-> FALSE]
    /\ seen = [r \in Request |-> {}]

Written == {r \in Request : wrote[r]}

InFlight(r) == pc[r] \in {"insert", "save"}

(* The handler replies; what was asked matters no more and is not kept.    *)
Answer(r, how) ==
    /\ pc' = [pc EXCEPT ![r] = "done"]
    /\ call' = [call EXCEPT ![r] = NoCall]
    /\ draft' = [draft EXCEPT ![r] = NoDraft]
    /\ reply' = [reply EXCEPT ![r] = how]
    /\ seen' = [seen EXCEPT ![r] = {}]
    /\ UNCHANGED wrote

(* An error that carries one: invalid, unauthorized, forbidden, conflict.  *)
Fail(r) == Answer(r, "refused")

(* An error that carries no code of the application.                       *)
InternalError(r) == Answer(r, "error")

(* The service has read the rows and calls the repository with its own.    *)
Hold(r, c, row, write) ==
    /\ pc' = [pc EXCEPT ![r] = write]
    /\ call' = [call EXCEPT ![r] = c]
    /\ draft' = [draft EXCEPT ![r] = row]
    /\ seen' = [seen EXCEPT ![r] = Written]
    /\ UNCHANGED <<reply, wrote>>

(* The write of request r, now known as call c, took effect; the answer of *)
(* the database may be lost.                                               *)
Took(r, c) ==
    /\ pc' = [pc EXCEPT ![r] = "done"]
    /\ call' = [call EXCEPT ![r] = c]
    /\ draft' = [draft EXCEPT ![r] = NoDraft]
    /\ \E how \in {"ok", "error"} : reply' = [reply EXCEPT ![r] = how]
    /\ wrote' = [wrote EXCEPT ![r] = TRUE]
    /\ UNCHANGED seen

(* The process ends with requests in flight; the tables survive.           *)
KillCalls ==
    /\ pc' = [r \in Request |-> IF InFlight(r) THEN "killed" ELSE pc[r]]
    /\ call' = [r \in Request |-> IF InFlight(r) THEN NoCall ELSE call[r]]
    /\ draft' = [r \in Request |-> NoDraft]
    /\ seen' = [r \in Request |-> IF InFlight(r) THEN {} ELSE seen[r]]
    /\ UNCHANGED <<reply, wrote>>
=============================================================================
