--------------------------- MODULE HandlersProofs ----------------------------
(***************************************************************************)
(* What every request of the handlers keeps to, whatever its table: only   *)
(* an answered request has written, and what it had seen when it read the  *)
(* rows had been written by then.  The proofs about users, certifications  *)
(* and trainings rest on the five lemmas of this module, one for each way  *)
(* in which a request, or the stop of the server, moves on.                *)
(***************************************************************************)
EXTENDS Handlers, TLAPS

CallsInv ==
    /\ pc \in [Request -> {"new", "insert", "save", "done", "killed"}]
    /\ call = [r \in Request |-> call[r]]
    /\ draft = [r \in Request |-> draft[r]]
    /\ reply \in [Request -> Reply]
    /\ wrote \in [Request -> BOOLEAN]
    /\ seen \in [Request -> SUBSET Request]
    /\ \A r \in Request : wrote[r] => pc[r] = "done"
    /\ \A r \in Request : seen[r] \subseteq Written

(* Request q does nothing.                                                 *)
Rests(q) ==
    /\ pc'[q] = pc[q] /\ call'[q] = call[q] /\ draft'[q] = draft[q]
    /\ reply'[q] = reply[q] /\ seen'[q] = seen[q]

(* All the requests but r do nothing.                                      *)
OthersRest(r) == \A q \in Request \ {r} : Rests(q)

(* What was written stays as it was written.                               *)
HistoryGrows ==
    /\ Written \subseteq Written'
    /\ \A q \in Written : call'[q] = call[q] /\ seen'[q] = seen[q] /\ reply'[q] = reply[q]

LEMMA CallsStart == CallsInit => CallsInv
BY DEF CallsInit, CallsInv, Reply, Written

LEMMA CallsRest == CallsInv /\ UNCHANGED calls => CallsInv' /\ HistoryGrows
BY DEF CallsInv, calls, HistoryGrows, Written

(* A request is answered and has written nothing.                          *)
LEMMA Answered ==
    ASSUME CallsInv, NEW r \in Request, pc[r] # "done", NEW how \in Reply, Answer(r, how)
    PROVE  /\ CallsInv' /\ OthersRest(r) /\ HistoryGrows /\ Written' = Written
           /\ pc'[r] = "done" /\ call'[r] = NoCall /\ draft'[r] = NoDraft
           /\ r \notin Written
<1>1. Written' = Written
  BY DEF Answer, Written
<1>2. r \notin Written
  BY DEF CallsInv, Written
<1>3. OthersRest(r)
  BY DEF Answer, OthersRest, Rests, CallsInv
<1>4. pc'[r] = "done" /\ call'[r] = NoCall /\ draft'[r] = NoDraft /\ seen'[r] = {}
  BY DEF Answer, CallsInv
<1>5. CallsInv'
  <2>1. /\ pc' \in [Request -> {"new", "insert", "save", "done", "killed"}]
        /\ call' = [q \in Request |-> call'[q]]
        /\ draft' = [q \in Request |-> draft'[q]]
        /\ reply' \in [Request -> Reply]
        /\ wrote' \in [Request -> BOOLEAN]
        /\ seen' \in [Request -> SUBSET Request]
    BY DEF Answer, CallsInv
  <2>2. \A q \in Request : wrote'[q] => pc'[q] = "done"
    BY <1>4, <1>3 DEF CallsInv, OthersRest, Rests, Answer
  <2>3. \A q \in Request : seen'[q] \subseteq Written'
    BY <1>1, <1>4, <1>3 DEF CallsInv, OthersRest, Rests
  <2> QED
    BY <2>1, <2>2, <2>3 DEF CallsInv
<1>6. HistoryGrows
  BY <1>1, <1>2, <1>3 DEF HistoryGrows, OthersRest, Rests, Written
<1> QED
  BY <1>1, <1>2, <1>3, <1>4, <1>5, <1>6

(* A request has read the rows and is about to write.                      *)
LEMMA Holds ==
    ASSUME CallsInv, NEW r \in Request, pc[r] # "done", NEW c, NEW row,
           NEW write \in {"insert", "save"}, Hold(r, c, row, write)
    PROVE  /\ CallsInv' /\ OthersRest(r) /\ HistoryGrows /\ Written' = Written
           /\ pc'[r] = write /\ call'[r] = c /\ draft'[r] = row /\ seen'[r] = Written
           /\ r \notin Written
<1>1. Written' = Written
  BY DEF Hold, Written
<1>2. r \notin Written
  BY DEF CallsInv, Written
<1>3. OthersRest(r)
  BY DEF Hold, OthersRest, Rests, CallsInv
<1>4. pc'[r] = write /\ call'[r] = c /\ draft'[r] = row /\ seen'[r] = Written
  BY DEF Hold, CallsInv
<1>5. CallsInv'
  <2>1. Written \subseteq Request
    BY DEF Written
  <2>2. /\ pc' \in [Request -> {"new", "insert", "save", "done", "killed"}]
        /\ call' = [q \in Request |-> call'[q]]
        /\ draft' = [q \in Request |-> draft'[q]]
        /\ reply' \in [Request -> Reply]
        /\ wrote' \in [Request -> BOOLEAN]
        /\ seen' \in [Request -> SUBSET Request]
    BY <2>1 DEF Hold, CallsInv
  <2>3. \A q \in Request : wrote'[q] => pc'[q] = "done"
    BY <1>2, <1>3 DEF CallsInv, OthersRest, Rests, Hold, Written
  <2>4. \A q \in Request : seen'[q] \subseteq Written'
    BY <1>1, <1>4, <1>3 DEF CallsInv, OthersRest, Rests
  <2> QED
    BY <2>2, <2>3, <2>4 DEF CallsInv
<1>6. HistoryGrows
  BY <1>1, <1>2, <1>3 DEF HistoryGrows, OthersRest, Rests, Written
<1> QED
  BY <1>1, <1>2, <1>3, <1>4, <1>5, <1>6

(* The write of a request takes effect; nobody had seen it before.         *)
LEMMA Taken ==
    ASSUME CallsInv, NEW r \in Request, pc[r] # "done", NEW c, Took(r, c)
    PROVE  /\ CallsInv' /\ OthersRest(r) /\ HistoryGrows
           /\ Written' = Written \cup {r} /\ r \notin Written
           /\ pc'[r] = "done" /\ call'[r] = c /\ draft'[r] = NoDraft
           /\ seen' = seen /\ \A q \in Request : r \notin seen[q]
<1>1. PICK how \in {"ok", "error"} : reply' = [reply EXCEPT ![r] = how]
  BY DEF Took
<1>2. r \notin Written
  BY DEF CallsInv, Written
<1>3. Written' = Written \cup {r}
  BY DEF Took, CallsInv, Written
<1>4. OthersRest(r)
  BY <1>1 DEF Took, OthersRest, Rests, CallsInv
<1>5. pc'[r] = "done" /\ call'[r] = c /\ draft'[r] = NoDraft /\ seen' = seen
  BY DEF Took, CallsInv
<1>6. CallsInv'
  <2>1. /\ pc' \in [Request -> {"new", "insert", "save", "done", "killed"}]
        /\ call' = [q \in Request |-> call'[q]]
        /\ draft' = [q \in Request |-> draft'[q]]
        /\ reply' \in [Request -> Reply]
        /\ wrote' \in [Request -> BOOLEAN]
        /\ seen' \in [Request -> SUBSET Request]
    BY <1>1 DEF Took, CallsInv, Reply
  <2>2. \A q \in Request : wrote'[q] => pc'[q] = "done"
    <3> TAKE q \in Request
    <3>1. CASE q = r
      BY <3>1, <1>5
    <3>2. CASE q # r
      <4>1. wrote'[q] = wrote[q] /\ pc'[q] = pc[q]
        BY <3>2, <1>4 DEF Took, CallsInv, OthersRest, Rests
      <4> QED
        BY <4>1 DEF CallsInv
    <3> QED
      BY <3>1, <3>2
  <2>3. \A q \in Request : seen'[q] \subseteq Written'
    BY <1>3, <1>5 DEF CallsInv
  <2> QED
    BY <2>1, <2>2, <2>3 DEF CallsInv
<1>7. HistoryGrows
  BY <1>2, <1>3, <1>4 DEF HistoryGrows, OthersRest, Rests, Written
<1>8. \A q \in Request : r \notin seen[q]
  BY <1>2 DEF CallsInv
<1> QED
  BY <1>2, <1>3, <1>4, <1>5, <1>6, <1>7, <1>8

(* A stop kills what is in flight and nothing else.                        *)
LEMMA Killed ==
    ASSUME CallsInv, KillCalls
    PROVE  /\ CallsInv' /\ HistoryGrows /\ Written' = Written
           /\ \A q \in Request :
                 /\ pc'[q] \notin {"insert", "save"} /\ draft'[q] = NoDraft
                 /\ \/ call'[q] = NoCall
                    \/ call'[q] = call[q] /\ pc'[q] = pc[q]
<1>1. Written' = Written
  BY DEF KillCalls, Written
<1>2. ASSUME NEW q \in Request
      PROVE  /\ pc'[q] \notin {"insert", "save"} /\ draft'[q] = NoDraft
             /\ pc'[q] = pc[q] => call'[q] = call[q] /\ seen'[q] = seen[q]
             /\ pc'[q] # pc[q] => call'[q] = NoCall /\ seen'[q] = {} /\ pc[q] # "done"
  BY DEF KillCalls, InFlight, CallsInv
<1>3. CallsInv'
  <2>1. /\ pc' \in [Request -> {"new", "insert", "save", "done", "killed"}]
        /\ call' = [q \in Request |-> call'[q]]
        /\ draft' = [q \in Request |-> draft'[q]]
        /\ reply' \in [Request -> Reply]
        /\ wrote' \in [Request -> BOOLEAN]
        /\ seen' \in [Request -> SUBSET Request]
    BY DEF KillCalls, CallsInv, InFlight
  <2>2. \A q \in Request : wrote'[q] => pc'[q] = "done"
    BY <1>2 DEF CallsInv, KillCalls
  <2>3. \A q \in Request : seen'[q] \subseteq Written'
    BY <1>1, <1>2 DEF CallsInv
  <2> QED
    BY <2>1, <2>2, <2>3 DEF CallsInv
<1>4. HistoryGrows
  BY <1>1, <1>2 DEF HistoryGrows, CallsInv, Written, KillCalls
<1> QED
  BY <1>1, <1>2, <1>3, <1>4
=============================================================================
