---------------------------- MODULE RecordsProofs ----------------------------
(***************************************************************************)
(* Certifications and trainings, for any number of rows and requests.  The *)
(* inductive invariant says of every request in flight how the row it is   *)
(* about to save relates to what it had seen: a review has seen no other   *)
(* of its certification, and a record that sends no list saves the one     *)
(* that was there.                                                         *)
(***************************************************************************)
EXTENDS Records, HandlersProofs

(* The list of record q gave way to that of a record that was not undone   *)
(* by it.                                                                  *)
Replaced(t, q) ==
    \E p \in Recorded(t) \ (seen[q] \cup {q}) : q \notin seen[p] \/ p \in Listed(t)

(* What a request in flight is about to write.                             *)
Inserting(r) ==
    \/ call[r] \in Submission /\ draft[r] \in Certificate
    \/ call[r] \in Creation /\ draft[r] \in Session

SavingReview(r) ==
    /\ call[r] \in Review /\ draft[r] \in Certificate
    /\ draft[r].status = call[r].status
    /\ \A q \in seen[r] : q \notin Reviewed(call[r].id)

SavingRecord(r) ==
    /\ call[r] \in Record /\ draft[r] \in Session
    /\ draft[r].rate = call[r].rate
    /\ IF call[r].participants # NoRoster
       THEN draft[r].participants = call[r].participants
       ELSE \A q \in seen[r] : q \in Listed(call[r].id) =>
                \/ draft[r].participants = call[q].participants
                \/ Replaced(call[r].id, q)

Typed(r) ==
    /\ call[r] \in Submission \cup Review \cup Creation \cup Record \cup {NoCall}
    /\ draft[r] \in Certificate \cup Session \cup {NoDraft}

RequestInv(r) ==
    /\ Typed(r)
    /\ pc[r] = "insert" => Inserting(r)
    /\ pc[r] = "save" => SavingReview(r) \/ SavingRecord(r)

(* What the tables owe to the requests that took effect.                   *)
CertInv ==
    /\ cert \in [Cert -> Certificate \cup {NoCert}]
    /\ \A k \in Cert : Reviewed(k) # {} => cert[k].status \in Decision
    /\ DecidedOnce

TrainingInv ==
    /\ training \in [Training -> Session \cup {NoSession}]
    /\ \A t \in Training : Recorded(t) # {} => t \in Held
    /\ RateOfLastRecord
    /\ \A t \in Training : \A q \in Listed(t) :
          training[t].participants = call[q].participants \/ Replaced(t, q)

RecordsInv ==
    CallsInv /\ (\A r \in Request : RequestInv(r)) /\ CertInv /\ TrainingInv

(* The kinds of calls are told by their op.                                *)
LEMMA Kinds ==
    /\ \A c \in Submission : c.op = "submit"
    /\ \A c \in Creation : c.op = "create"
    /\ \A c \in Review : c.op = "review" /\ c.id \in Cert /\ c.status \in Decision
    /\ \A c \in Record : c.op = "record" /\ c.id \in Training /\ c.rate \in Rates
                         /\ c.participants \in Roster \cup {NoRoster}
    /\ NoCall.op = "none"
BY DEF Submission, Creation, Review, Record, NoCall

(* What was reviewed and recorded stays so, in the same order.             *)
LEMMA SetsGrow ==
    ASSUME HistoryGrows
    PROVE  /\ \A k \in Cert : \A q \in Written : q \in Reviewed(k)' <=> q \in Reviewed(k)
           /\ \A t \in Training : \A q \in Written :
                 /\ q \in Recorded(t)' <=> q \in Recorded(t)
                 /\ q \in Listed(t)' <=> q \in Listed(t)
BY DEF HistoryGrows, Reviewed, Recorded, Listed

LEMMA ReplacedStays ==
    ASSUME HistoryGrows, NEW t \in Training, NEW q \in Written, Replaced(t, q)
    PROVE  Replaced(t, q)'
<1>1. PICK p \in Recorded(t) \ (seen[q] \cup {q}) : q \notin seen[p] \/ p \in Listed(t)
  BY DEF Replaced
<1>2. p \in Written
  BY DEF Recorded
<1>3. seen'[q] = seen[q] /\ seen'[p] = seen[p]
  BY <1>2 DEF HistoryGrows
<1>4. p \in Recorded(t)' /\ (p \in Listed(t) => p \in Listed(t)')
  BY <1>2, SetsGrow
<1> QED
  BY <1>1, <1>3, <1>4 DEF Replaced

(* A request that rests is as it was, whatever is written meanwhile.       *)
LEMMA RestingRequest ==
    ASSUME CallsInv, HistoryGrows, NEW q \in Request, RequestInv(q), Rests(q)
    PROVE  RequestInv(q)'
<1>1. /\ pc'[q] = pc[q] /\ call'[q] = call[q] /\ draft'[q] = draft[q] /\ seen'[q] = seen[q]
      /\ seen[q] \subseteq Written
  BY DEF Rests, CallsInv
<1>2. Typed(q)'
  BY <1>1 DEF RequestInv, Typed
<1>3. Inserting(q) => Inserting(q)'
  BY <1>1 DEF Inserting
<1>4. ASSUME SavingReview(q) PROVE SavingReview(q)'
  <2>1. call[q].id \in Cert
    BY <1>4, Kinds DEF SavingReview
  <2>2. \A p \in seen[q] : p \notin Reviewed(call[q].id)'
    <3> DEFINE k == call[q].id
    <3>1. \A p \in Written : p \in Reviewed(k) <=>
              p \in Written /\ call[p].op = "review" /\ call[p].id = k
      BY DEF Reviewed
    <3>2. \A p \in Written : /\ p \in Written' /\ call'[p] = call[p]
      BY DEF HistoryGrows
    <3> QED
      BY <1>1, <1>4, <3>1, <3>2 DEF SavingReview, Reviewed
  <2> QED
    BY <1>1, <1>4, <2>2 DEF SavingReview
<1>5. ASSUME SavingRecord(q) PROVE SavingRecord(q)'
  <2> DEFINE t == call[q].id
  <2>1. t \in Training
    BY <1>5, Kinds DEF SavingRecord
  <2>2. call'[q].id = t
    BY <1>1
  <2>3. ASSUME call[q].participants = NoRoster, NEW p \in seen[q], p \in Listed(t)'
        PROVE  draft[q].participants = call'[p].participants \/ Replaced(t, p)'
    <3>1. p \in Written /\ call'[p] = call[p]
      BY <1>1 DEF HistoryGrows
    <3>2. p \in Listed(t)
      BY <2>1, <2>2, <2>3, <3>1 DEF HistoryGrows, Listed, Recorded
    <3>3. draft[q].participants = call[p].participants \/ Replaced(t, p)
      BY <1>5, <2>3, <3>2 DEF SavingRecord
    <3> QED
      BY <3>1, <3>3, <2>1, <2>2, ReplacedStays
  <2> QED
    BY <1>1, <1>5, <2>3 DEF SavingRecord
<1> QED
  BY <1>1, <1>2, <1>3, <1>4, <1>5 DEF RequestInv

(* The sets of requests that took effect, after a step.                    *)
LEMMA SetsSame ==
    ASSUME HistoryGrows, Written' = Written
    PROVE  /\ \A k \in Cert : Reviewed(k)' = Reviewed(k)
           /\ \A t \in Training : Recorded(t)' = Recorded(t) /\ Listed(t)' = Listed(t)
BY DEF HistoryGrows, Reviewed, Recorded, Listed

(* A table that no request wrote to keeps what it owes.                    *)
LEMMA CertRests ==
    ASSUME CertInv, HistoryGrows, cert' = cert,
           \A k \in Cert : Reviewed(k)' = Reviewed(k)
    PROVE  CertInv'
<1>1. \A k \in Cert : \A q \in Reviewed(k) : call'[q] = call[q] /\ seen'[q] = seen[q]
  BY DEF Reviewed, HistoryGrows
<1>2. DecidedOnce'
  BY <1>1 DEF CertInv, DecidedOnce
<1> QED
  BY <1>2 DEF CertInv

LEMMA TrainingRests ==
    ASSUME TrainingInv, HistoryGrows, training' = training,
           \A t \in Training : Recorded(t)' = Recorded(t)
    PROVE  TrainingInv'
<1>1. \A t \in Training : \A q \in Recorded(t) : call'[q] = call[q] /\ seen'[q] = seen[q]
  BY DEF Recorded, HistoryGrows
<1>2. \A t \in Training : Listed(t)' = Listed(t)
  BY <1>1 DEF Listed
<1>3. RateOfLastRecord'
  BY <1>1 DEF TrainingInv, RateOfLastRecord
<1>4. ASSUME NEW t \in Training, NEW q \in Listed(t)
      PROVE  training[t].participants = call'[q].participants \/ Replaced(t, q)'
  <2>1. q \in Recorded(t) /\ q \in Written
    BY DEF Listed, Recorded
  <2>2. training[t].participants = call[q].participants \/ Replaced(t, q)
    BY DEF TrainingInv
  <2> QED
    BY <2>1, <2>2, <1>1, ReplacedStays
<1>5. Held' = Held
  BY DEF Held
<1> QED
  BY <1>2, <1>3, <1>4, <1>5 DEF TrainingInv

(* A step that writes to neither table.                                    *)
LEMMA QuietStep ==
    ASSUME RecordsInv, CallsInv', HistoryGrows, Written' = Written,
           UNCHANGED <<cert, training>>,
           \A q \in Request : Rests(q) \/ RequestInv(q)'
    PROVE  RecordsInv'
<1>1. \A q \in Request : RequestInv(q)'
  BY RestingRequest DEF RecordsInv
<1>2. CertInv' /\ TrainingInv'
  BY SetsSame, CertRests, TrainingRests DEF RecordsInv
<1> QED
  BY <1>1, <1>2 DEF RecordsInv

LEMMA AnsweredStep ==
    ASSUME RecordsInv, NEW r \in Request, pc[r] # "done", NEW how \in Reply,
           Answer(r, how), UNCHANGED <<cert, training>>
    PROVE  RecordsInv'
<1>1. /\ CallsInv' /\ OthersRest(r) /\ HistoryGrows /\ Written' = Written
      /\ pc'[r] = "done" /\ call'[r] = NoCall /\ draft'[r] = NoDraft
  BY Answered DEF RecordsInv
<1>2. RequestInv(r)'
  BY <1>1 DEF RequestInv, Typed
<1> QED
  BY <1>1, <1>2, QuietStep DEF OthersRest

(* A refusal or a failure is such an answer.                               *)
LEMMA FailedStep ==
    ASSUME RecordsInv, NEW r \in Request, pc[r] # "done", Fail(r) \/ InternalError(r),
           UNCHANGED <<cert, training>>
    PROVE  RecordsInv'
BY AnsweredStep DEF Fail, InternalError, Reply

LEMMA HeldStep ==
    ASSUME RecordsInv, NEW r \in Request, pc[r] # "done", NEW c, NEW row,
           NEW write \in {"insert", "save"}, Hold(r, c, row, write),
           RequestInv(r)', UNCHANGED <<cert, training>>
    PROVE  RecordsInv'
<1>1. CallsInv' /\ OthersRest(r) /\ HistoryGrows /\ Written' = Written
  BY Holds DEF RecordsInv
<1> QED
  BY <1>1, QuietStep DEF OthersRest

(* Requests after the write of one of them.                                *)
LEMMA TakenRequests ==
    ASSUME RecordsInv, NEW r \in Request, pc[r] # "done", NEW c, Took(r, c),
           c \in Submission \cup Review \cup Creation \cup Record
    PROVE  /\ \A q \in Request : RequestInv(q)'
           /\ CallsInv' /\ HistoryGrows /\ Written' = Written \cup {r} /\ r \notin Written
           /\ call'[r] = c /\ seen' = seen /\ \A q \in Request : r \notin seen[q]
<1>1. /\ CallsInv' /\ OthersRest(r) /\ HistoryGrows
      /\ Written' = Written \cup {r} /\ r \notin Written
      /\ pc'[r] = "done" /\ call'[r] = c /\ draft'[r] = NoDraft
      /\ seen' = seen /\ \A q \in Request : r \notin seen[q]
  BY Taken DEF RecordsInv
<1>2. RequestInv(r)'
  BY <1>1 DEF RequestInv, Typed
<1>3. \A q \in Request \ {r} : RequestInv(q)'
  BY <1>1, RestingRequest DEF RecordsInv, OthersRest
<1> QED
  BY <1>1, <1>2, <1>3

LEMMA SetsAfter ==
    ASSUME HistoryGrows, NEW r \in Request, r \notin Written, Written' = Written \cup {r}
    PROVE  /\ \A k \in Cert : Reviewed(k)' =
                  IF call'[r].op = "review" /\ call'[r].id = k
                  THEN Reviewed(k) \cup {r} ELSE Reviewed(k)
           /\ \A t \in Training : Recorded(t)' =
                  IF call'[r].op = "record" /\ call'[r].id = t
                  THEN Recorded(t) \cup {r} ELSE Recorded(t)
BY DEF HistoryGrows, Reviewed, Recorded

(***************************************************************************)
(* The handlers                                                            *)
(***************************************************************************)
LEMMA PostCertStep ==
    ASSUME RecordsInv, NEW r \in Request, PostCert(r), UNCHANGED training
    PROVE  RecordsInv'
<1>1. pc[r] # "done" /\ UNCHANGED <<cert, training>>
  BY DEF PostCert
<1>2. CASE Fail(r) \/ InternalError(r)
  BY <1>1, <1>2, FailedStep
<1>3. ASSUME NEW u \in Holder,
             Hold(r, [op |-> "submit", id |-> "none"], [owner |-> u, status |-> "pending"], "insert")
      PROVE  RecordsInv'
  <2>1. /\ pc'[r] = "insert" /\ call'[r] = [op |-> "submit", id |-> "none"]
        /\ draft'[r] = [owner |-> u, status |-> "pending"]
    BY <1>1, <1>3, Holds DEF RecordsInv
  <2>2. call'[r] \in Submission /\ draft'[r] \in Certificate
    BY <2>1 DEF Submission, Certificate
  <2>3. RequestInv(r)'
    BY <2>1, <2>2 DEF RequestInv, Typed, Inserting
  <2> QED
    BY <1>1, <1>3, <2>3, HeldStep
<1>4. ASSUME NEW k \in Cert, NEW decision \in Decision, cert[k].status = "pending",
             FindCertByID(k),
             Hold(r, [op |-> "review", id |-> k, status |-> decision],
                  [cert[k] EXCEPT !.status = decision], "save")
      PROVE  RecordsInv'
  <2> DEFINE c == [op |-> "review", id |-> k, status |-> decision]
             row == [cert[k] EXCEPT !.status = decision]
  <2>1. /\ HistoryGrows /\ Written' = Written
        /\ pc'[r] = "save" /\ call'[r] = c /\ draft'[r] = row /\ seen'[r] = Written
    BY <1>1, <1>4, Holds DEF RecordsInv
  <2>2. c \in Review /\ c.status = decision /\ c.id = k
    BY DEF Review
  <2>3. row \in Certificate /\ row.status = decision
    <3>1. cert[k] \in Certificate
      BY <1>4 DEF RecordsInv, CertInv, FindCertByID
    <3> QED
      BY <3>1 DEF Certificate
  <2>4. Reviewed(k)' = {}
    <3>1. Reviewed(k) = {}
      BY <1>4 DEF RecordsInv, CertInv, Decision
    <3> QED
      BY <3>1, <2>1, SetsSame
  <2> HIDE DEF c, row
  <2>5. \A q \in seen'[r] : ~ (q \in Written' /\ call'[q].op = "review" /\ call'[q].id = k)
    BY <2>4, <2>1 DEF Reviewed, Written
  <2>6. SavingReview(r)'
    BY <2>1, <2>2, <2>3, <2>5 DEF SavingReview, Reviewed
  <2>7. RequestInv(r)'
    BY <2>1, <2>2, <2>3, <2>6 DEF RequestInv, Typed
  <2> QED
    BY <1>1, <1>4, <2>7, HeldStep DEF c, row
<1> QED
  BY <1>2, <1>3, <1>4 DEF PostCert, SubmitCert, ReviewCert

LEMMA PostTrainingStep ==
    ASSUME RecordsInv, NEW r \in Request, PostTraining(r), UNCHANGED cert
    PROVE  RecordsInv'
<1>1. pc[r] # "done" /\ UNCHANGED <<cert, training>>
  BY DEF PostTraining
<1>2. CASE Fail(r) \/ InternalError(r)
  BY <1>1, <1>2, FailedStep
<1>3. ASSUME NEW list \in Roster \cup {NoRoster},
             Hold(r, [op |-> "create"], [participants |-> Value(list), rate |-> 0], "insert")
      PROVE  RecordsInv'
  <2>1. /\ pc'[r] = "insert" /\ call'[r] = [op |-> "create"]
        /\ draft'[r] = [participants |-> Value(list), rate |-> 0]
    BY <1>1, <1>3, Holds DEF RecordsInv
  <2>2. call'[r] \in Creation /\ draft'[r] \in Session
    BY <2>1, TrainingsAssumption DEF Creation, Session, Value
  <2>3. RequestInv(r)'
    BY <2>1, <2>2 DEF RequestInv, Typed, Inserting
  <2> QED
    BY <1>1, <1>3, <2>3, HeldStep
<1>4. ASSUME NEW c \in Record, c.id \in Held, Hold(r, c, Overlaid(training[c.id], c), "save")
      PROVE  RecordsInv'
  <2> DEFINE row == Overlaid(training[c.id], c)
             t == c.id
  <2>1. /\ HistoryGrows /\ Written' = Written /\ CallsInv'
        /\ pc'[r] = "save" /\ call'[r] = c /\ draft'[r] = row /\ seen'[r] = Written
    BY <1>1, <1>4, Holds DEF RecordsInv
  <2>2. t \in Training /\ c.rate \in Rates /\ c.participants \in Roster \cup {NoRoster}
    BY Kinds
  <2>3. training[t] \in Session
    BY <1>4 DEF RecordsInv, TrainingInv, Held
  <2>4. c.rate >= 0
    <3>1. Rates \subseteq Nat
      BY TrainingsAssumption
    <3>2. c.rate \in Nat
      BY <2>2, <3>1
    <3> QED
      BY <3>2
  <2>5. /\ row \in Session /\ row.rate = c.rate
        /\ row.participants = IF c.participants = NoRoster THEN training[t].participants
                                                          ELSE c.participants
    BY <2>2, <2>3, <2>4 DEF Overlaid, Session
  <2> HIDE DEF row
  <2>6. ASSUME c.participants = NoRoster, NEW q \in seen'[r], q \in Listed(t)'
        PROVE  row.participants = call'[q].participants \/ Replaced(t, q)'
    <3>1. q \in Written /\ call'[q] = call[q] /\ q \in Listed(t)
      BY <2>1, <2>2, <2>6, SetsSame DEF HistoryGrows
    <3>2. training[t].participants = call[q].participants \/ Replaced(t, q)
      BY <3>1, <2>2 DEF RecordsInv, TrainingInv
    <3> QED
      BY <3>1, <3>2, <2>1, <2>2, <2>5, <2>6, ReplacedStays
  <2>7. SavingRecord(r)'
    BY <2>1, <2>5, <2>6 DEF SavingRecord
  <2>8. RequestInv(r)'
    BY <2>1, <2>5, <2>7 DEF RequestInv, Typed
  <2> QED
    BY <1>1, <1>4, <2>8, HeldStep DEF row
<1> QED
  BY <1>2, <1>3, <1>4 DEF PostTraining, RecordTraining

(***************************************************************************)
(* The writes                                                              *)
(***************************************************************************)
LEMMA CreateCertStep ==
    ASSUME RecordsInv, NEW r \in Request, CreateCert(r), UNCHANGED training
    PROVE  RecordsInv'
<1>1. pc[r] = "insert" /\ call[r].op = "submit"
  BY DEF CreateCert
<1>2. call[r] \in Submission /\ draft[r] \in Certificate
  BY <1>1, Kinds DEF RecordsInv, RequestInv, Inserting
<1>3. CASE InternalError(r) /\ UNCHANGED cert
  BY <1>1, <1>3, FailedStep
<1>4. ASSUME NEW k \in Cert, ~FindCertByID(k), cert' = [cert EXCEPT ![k] = draft[r]],
             Took(r, [call[r] EXCEPT !.id = k])
      PROVE  RecordsInv'
  <2> DEFINE c == [call[r] EXCEPT !.id = k]
  <2>1. c \in Submission /\ c.op = "submit"
    BY <1>2, Kinds DEF Submission
  <2>2. /\ \A q \in Request : RequestInv(q)'
        /\ CallsInv' /\ HistoryGrows /\ Written' = Written \cup {r} /\ r \notin Written
        /\ call'[r] = c
    BY <1>1, <1>4, <2>1, TakenRequests
  <2> HIDE DEF c
  <2>3. /\ \A j \in Cert : Reviewed(j)' = Reviewed(j)
        /\ \A t \in Training : Recorded(t)' = Recorded(t)
    BY <2>1, <2>2, SetsAfter
  <2>4. TrainingInv'
    BY <2>2, <2>3, TrainingRests DEF RecordsInv
  <2>5. Reviewed(k) = {}
    BY <1>4 DEF RecordsInv, CertInv, FindCertByID, NoCert, Decision
  <2>6. \A j \in Cert : \A q \in Reviewed(j) : call'[q] = call[q] /\ seen'[q] = seen[q]
    BY <2>2 DEF Reviewed, HistoryGrows
  <2>7. cert' \in [Cert -> Certificate \cup {NoCert}]
    BY <1>2, <1>4 DEF RecordsInv, CertInv
  <2>8. \A j \in Cert : Reviewed(j) # {} => cert'[j] = cert[j]
    BY <1>4, <2>5 DEF RecordsInv, CertInv
  <2>9. DecidedOnce'
    BY <2>3, <2>6 DEF RecordsInv, CertInv, DecidedOnce
  <2>10. \A j \in Cert : Reviewed(j)' # {} => cert'[j].status \in Decision
    BY <2>3, <2>8 DEF RecordsInv, CertInv
  <2> QED
    BY <2>2, <2>4, <2>7, <2>9, <2>10 DEF RecordsInv, CertInv
<1> QED
  BY <1>3, <1>4 DEF CreateCert

LEMMA UpdateCertStep ==
    ASSUME RecordsInv, NEW r \in Request, UpdateCert(r), UNCHANGED training
    PROVE  RecordsInv'
<1>1. pc[r] = "save" /\ call[r].op = "review"
  BY DEF UpdateCert
<1>2. SavingReview(r)
  BY <1>1, Kinds DEF RecordsInv, RequestInv, SavingRecord
<1>3. CASE InternalError(r) /\ UNCHANGED cert
  BY <1>1, <1>3, FailedStep
<1>4. CASE cert' = [cert EXCEPT ![call[r].id] = draft[r]] /\ Took(r, call[r])
  <2>1. PICK k \in Cert : k = call[r].id
    BY <1>2, Kinds DEF SavingReview
  <2>2. /\ call[r] \in Review /\ draft[r] \in Certificate
        /\ draft[r].status = call[r].status /\ call[r].status \in Decision
    BY <1>2, Kinds DEF SavingReview
  <2>3. /\ \A q \in Request : RequestInv(q)'
        /\ CallsInv' /\ HistoryGrows /\ Written' = Written \cup {r} /\ r \notin Written
        /\ call'[r] = call[r] /\ seen' = seen /\ \A q \in Request : r \notin seen[q]
    BY <1>1, <1>4, <2>2, TakenRequests
  <2>4. /\ \A j \in Cert : Reviewed(j)' = IF j = k THEN Reviewed(j) \cup {r} ELSE Reviewed(j)
        /\ \A t \in Training : Recorded(t)' = Recorded(t)
    BY <1>1, <2>1, <2>3, SetsAfter
  <2>5. TrainingInv'
    BY <2>3, <2>4, TrainingRests DEF RecordsInv
  <2>6. \A j \in Cert : \A q \in Reviewed(j) : q \in Request /\ call'[q] = call[q]
    BY <2>3 DEF Reviewed, HistoryGrows, Written
  <2>7. /\ cert' \in [Cert -> Certificate \cup {NoCert}]
        /\ cert'[k] = draft[r] /\ \A j \in Cert \ {k} : cert'[j] = cert[j]
    BY <1>4, <2>1, <2>2 DEF RecordsInv, CertInv
  <2>8. DecidedOnce'
    <3>1. ASSUME NEW j \in Cert, NEW p \in Reviewed(j)', NEW q \in Reviewed(j)'
          PROVE  p \notin seen[q]
      <4>1. CASE p = r
        BY <4>1, <2>3, <2>4, <2>6
      <4>2. CASE p # r /\ q = r
        <5>1. j = k /\ p \in Reviewed(k)
          BY <4>2, <2>4, <2>3 DEF Reviewed
        <5> QED
          BY <5>1, <4>2, <1>2, <2>1 DEF SavingReview
      <4>3. CASE p # r /\ q # r
        BY <4>3, <2>4 DEF RecordsInv, CertInv, DecidedOnce
      <4> QED
        BY <4>1, <4>2, <4>3
    <3> QED
      BY <3>1, <2>3 DEF DecidedOnce
  <2>9. \A j \in Cert : Reviewed(j)' # {} => cert'[j].status \in Decision
    BY <2>2, <2>4, <2>7 DEF RecordsInv, CertInv
  <2> QED
    BY <2>3, <2>5, <2>7, <2>8, <2>9 DEF RecordsInv, CertInv
<1> QED
  BY <1>3, <1>4 DEF UpdateCert

LEMMA CreateTrainingStep ==
    ASSUME RecordsInv, NEW r \in Request, CreateTraining(r), UNCHANGED cert
    PROVE  RecordsInv'
<1>1. pc[r] = "insert" /\ call[r].op = "create"
  BY DEF CreateTraining
<1>2. call[r] \in Creation /\ draft[r] \in Session
  BY <1>1, Kinds DEF RecordsInv, RequestInv, Inserting
<1>3. CASE InternalError(r) /\ UNCHANGED training
  BY <1>1, <1>3, FailedStep
<1>4. ASSUME NEW t \in Training \ Held, training' = [training EXCEPT ![t] = draft[r]],
             Took(r, call[r])
      PROVE  RecordsInv'
  <2>1. /\ \A q \in Request : RequestInv(q)'
        /\ CallsInv' /\ HistoryGrows /\ Written' = Written \cup {r} /\ r \notin Written
        /\ call'[r] = call[r]
    BY <1>1, <1>2, <1>4, TakenRequests
  <2>2. /\ \A k \in Cert : Reviewed(k)' = Reviewed(k)
        /\ \A s \in Training : Recorded(s)' = Recorded(s)
    BY <1>1, <2>1, SetsAfter
  <2>3. CertInv'
    BY <2>1, <2>2, CertRests DEF RecordsInv
  <2>4. Recorded(t) = {}
    BY DEF RecordsInv, TrainingInv
  <2>5. /\ training' \in [Training -> Session \cup {NoSession}]
        /\ \A s \in Training \ {t} : training'[s] = training[s]
    BY <1>2, <1>4 DEF RecordsInv, TrainingInv
  <2>6. \A s \in Training : \A q \in Recorded(s) : call'[q] = call[q] /\ seen'[q] = seen[q]
    BY <2>1 DEF Recorded, HistoryGrows
  <2>7. \A s \in Training : Listed(s)' = Listed(s) /\ Listed(s) \subseteq Recorded(s)
    BY <2>2, <2>6 DEF Listed
  <2>8. RateOfLastRecord'
    BY <2>2, <2>4, <2>5, <2>6 DEF RecordsInv, TrainingInv, RateOfLastRecord
  <2>9. ASSUME NEW s \in Training, NEW q \in Listed(s)
        PROVE  training'[s].participants = call'[q].participants \/ Replaced(s, q)'
    <3>1. s # t /\ q \in Recorded(s) /\ q \in Written
      BY <2>4, <2>7 DEF Recorded
    <3>2. training[s].participants = call[q].participants \/ Replaced(s, q)
      BY DEF RecordsInv, TrainingInv
    <3> QED
      BY <3>1, <3>2, <2>1, <2>5, <2>6, ReplacedStays
  <2>10. \A s \in Training : Recorded(s)' # {} => s \in Held'
    BY <2>2, <2>4, <2>5 DEF RecordsInv, TrainingInv, Held
  <2> QED
    BY <2>1, <2>3, <2>5, <2>7, <2>8, <2>9, <2>10 DEF RecordsInv, TrainingInv
<1> QED
  BY <1>3, <1>4 DEF CreateTraining

LEMMA UpdateTrainingStep ==
    ASSUME RecordsInv, NEW r \in Request, UpdateTraining(r), UNCHANGED cert
    PROVE  RecordsInv'
<1>1. pc[r] = "save" /\ call[r].op = "record"
  BY DEF UpdateTraining
<1>2. SavingRecord(r)
  BY <1>1, Kinds DEF RecordsInv, RequestInv, SavingReview
<1>3. CASE InternalError(r) /\ UNCHANGED training
  BY <1>1, <1>3, FailedStep
<1>4. CASE training' = [training EXCEPT ![call[r].id] = draft[r]] /\ Took(r, call[r])
  <2>1. PICK t \in Training : t = call[r].id
    BY <1>2, Kinds DEF SavingRecord
  <2>2. /\ call[r] \in Record /\ draft[r] \in Session /\ draft[r].rate = call[r].rate
    BY <1>2 DEF SavingRecord
  <2>3. /\ \A q \in Request : RequestInv(q)'
        /\ CallsInv' /\ HistoryGrows /\ Written' = Written \cup {r} /\ r \notin Written
        /\ call'[r] = call[r] /\ seen' = seen /\ \A q \in Request : r \notin seen[q]
    BY <1>1, <1>4, <2>2, TakenRequests
  <2>4. /\ \A k \in Cert : Reviewed(k)' = Reviewed(k)
        /\ \A s \in Training : Recorded(s)' = IF s = t THEN Recorded(s) \cup {r} ELSE Recorded(s)
    BY <1>1, <2>1, <2>3, SetsAfter
  <2>5. CertInv'
    BY <2>3, <2>4, CertRests DEF RecordsInv
  <2>6. \A s \in Training : \A q \in Recorded(s) : q \in Request /\ q \in Written /\ call'[q] = call[q]
    BY <2>3 DEF Recorded, HistoryGrows, Written
  <2>7. /\ training' \in [Training -> Session \cup {NoSession}]
        /\ training'[t] = draft[r] /\ \A s \in Training \ {t} : training'[s] = training[s]
    BY <1>4, <2>1, <2>2 DEF RecordsInv, TrainingInv
  <2>8. RateOfLastRecord'
    <3>1. ASSUME NEW s \in Training, Recorded(s)' # {}
          PROVE  \E p \in Recorded(s)' : /\ training'[s].rate = call'[p].rate
                                         /\ \A q \in Recorded(s)' : p \notin seen'[q]
      <4>1. CASE s = t
        <5>1. r \in Recorded(s)' /\ training'[s].rate = call'[r].rate
          BY <4>1, <2>2, <2>3, <2>4, <2>7
        <5>2. \A q \in Recorded(s)' : r \notin seen'[q]
          BY <4>1, <2>3, <2>4, <2>6
        <5> QED
          BY <5>1, <5>2
      <4>2. CASE s # t
        BY <3>1, <4>2, <2>3, <2>4, <2>6, <2>7 DEF RecordsInv, TrainingInv, RateOfLastRecord
      <4> QED
        BY <4>1, <4>2
    <3> QED
      BY <3>1 DEF RateOfLastRecord
  <2>9. \A s \in Training : Recorded(s)' # {} => s \in Held'
    BY <2>2, <2>4, <2>7 DEF RecordsInv, TrainingInv, Held, Session, NoSession
  <2>10. ASSUME NEW s \in Training, NEW q \in Listed(s)'
         PROVE  training'[s].participants = call'[q].participants \/ Replaced(s, q)'
    <3>1. CASE s # t
      <4>1. q \in Listed(s) /\ q \in Written /\ call'[q] = call[q]
        BY <3>1, <2>4, <2>6 DEF Listed
      <4>2. training[s].participants = call[q].participants \/ Replaced(s, q)
        BY <4>1 DEF RecordsInv, TrainingInv
      <4> QED
        BY <3>1, <4>1, <4>2, <2>3, <2>7, ReplacedStays
    <3>2. CASE s = t /\ q = r
      <4>1. call[r].participants # NoRoster
        BY <3>2, <2>3 DEF Listed
      <4> QED
        BY <3>2, <4>1, <1>2, <2>3, <2>7 DEF SavingRecord
    <3>3. CASE s = t /\ q # r
      <4>1. q \in Listed(t) /\ q \in Written /\ q \in Request /\ call'[q] = call[q]
        BY <3>3, <2>4, <2>6 DEF Listed
      <4>2. r \in Recorded(t)' /\ r \notin seen'[q]
        BY <4>1, <2>3, <2>4
      <4>3. CASE call[r].participants # NoRoster
        <5>1. r \in Listed(t)'
          BY <4>2, <4>3, <2>3 DEF Listed
        <5> QED
          BY <5>1, <4>2, <3>3 DEF Replaced
      <4>4. CASE call[r].participants = NoRoster /\ q \notin seen[r]
        BY <4>4, <4>2, <3>3, <2>3 DEF Replaced
      <4>5. CASE call[r].participants = NoRoster /\ q \in seen[r]
        <5>1. draft[r].participants = call[q].participants \/ Replaced(t, q)
          BY <4>1, <4>5, <1>2, <2>1 DEF SavingRecord
        <5> QED
          BY <5>1, <4>1, <3>3, <2>3, <2>7, ReplacedStays
      <4> QED
        BY <4>3, <4>4, <4>5
    <3> QED
      BY <3>1, <3>2, <3>3
  <2> QED
    BY <2>3, <2>5, <2>7, <2>8, <2>9, <2>10 DEF RecordsInv, TrainingInv
<1> QED
  BY <1>3, <1>4 DEF UpdateTraining

(***************************************************************************)
(* The invariant and what follows from it                                  *)
(***************************************************************************)
LEMMA RecordsStart == RecordsInit => RecordsInv
<1> SUFFICES ASSUME RecordsInit PROVE RecordsInv
  OBVIOUS
<1>1. CallsInv
  BY CallsStart DEF RecordsInit
<1>2. Written = {}
  BY DEF RecordsInit, CallsInit, Written
<1>3. (\A k \in Cert : Reviewed(k) = {}) /\ \A t \in Training : Recorded(t) = {} /\ Listed(t) = {}
  BY <1>2 DEF Reviewed, Recorded, Listed
<1>4. CertInv
  BY <1>3 DEF RecordsInit, CertsInit, CertInv, DecidedOnce
<1>5. TrainingInv
  BY <1>3 DEF RecordsInit, TrainingsInit, TrainingInv, RateOfLastRecord
<1>6. \A r \in Request : RequestInv(r)
  BY DEF RecordsInit, CallsInit, RequestInv, Typed
<1> QED
  BY <1>1, <1>4, <1>5, <1>6 DEF RecordsInv

LEMMA StopStep ==
    ASSUME RecordsInv, StopRecords
    PROVE  RecordsInv'
<1>1. /\ CallsInv' /\ HistoryGrows /\ Written' = Written
      /\ \A q \in Request :
            /\ pc'[q] \notin {"insert", "save"} /\ draft'[q] = NoDraft
            /\ \/ call'[q] = NoCall
               \/ call'[q] = call[q] /\ pc'[q] = pc[q]
  BY Killed DEF RecordsInv, StopRecords
<1>2. \A q \in Request : RequestInv(q)'
  BY <1>1 DEF RecordsInv, RequestInv, Typed
<1> QED
  BY <1>1, <1>2, QuietStep DEF StopRecords

LEMMA RecordsSteps == RecordsInv /\ [RecordsNext]_records => RecordsInv'
<1> SUFFICES ASSUME RecordsInv, [RecordsNext]_records PROVE RecordsInv'
  OBVIOUS
<1>1. ASSUME NEW r \in Request, CertStep(r), UNCHANGED training PROVE RecordsInv'
  BY <1>1, PostCertStep, CreateCertStep, UpdateCertStep DEF CertStep
<1>2. ASSUME NEW r \in Request, TrainingStep(r), UNCHANGED cert PROVE RecordsInv'
  BY <1>2, PostTrainingStep, CreateTrainingStep, UpdateTrainingStep DEF TrainingStep
<1>3. CASE UNCHANGED records
  <2>1. CallsInv' /\ HistoryGrows
    BY <1>3, CallsRest DEF RecordsInv, records
  <2>2. \A q \in Request : Rests(q)
    BY <1>3 DEF records, calls, Rests
  <2>3. Written' = Written
    BY <1>3 DEF records, calls, Written
  <2> QED
    BY <1>3, <2>1, <2>2, <2>3, QuietStep DEF records
<1> QED
  BY <1>1, <1>2, <1>3, StopStep DEF RecordsNext, RecordsStep

LEMMA RecordsInvariant == RecordsSpec => []RecordsInv
BY RecordsStart, RecordsSteps, PTL DEF RecordsSpec

(* The tables and the requests keep their types.                           *)
THEOREM RecordsTyped == RecordsSpec => []RecordsTypeOK
<1>1. RecordsInv => RecordsTypeOK
  <2> SUFFICES ASSUME RecordsInv PROVE RecordsTypeOK
    OBVIOUS
  <2>1. call \in [Request -> Submission \cup Review \cup Creation \cup Record \cup {NoCall}]
    <3>1. call = [r \in Request |-> call[r]]
      BY DEF RecordsInv, CallsInv
    <3> QED
      BY <3>1 DEF RecordsInv, RequestInv, Typed
  <2>2. draft \in [Request -> Certificate \cup Session \cup {NoDraft}]
    <3>1. draft = [r \in Request |-> draft[r]]
      BY DEF RecordsInv, CallsInv
    <3> QED
      BY <3>1 DEF RecordsInv, RequestInv, Typed
  <2> QED
    BY <2>1, <2>2 DEF RecordsInv, CallsInv, CertInv, TrainingInv, RecordsTypeOK
<1> QED
  BY <1>1, RecordsInvariant, PTL

(* Two reviews of a certification take effect only when they overlap.      *)
THEOREM ReviewedOnce == RecordsSpec => []DecidedOnce
<1>1. RecordsInv => DecidedOnce
  BY DEF RecordsInv, CertInv
<1> QED
  BY <1>1, RecordsInvariant, PTL

(* The rate that is stored is that of a record that no later one had seen. *)
THEOREM StoredRateIsLast == RecordsSpec => []RateOfLastRecord
<1>1. RecordsInv => RateOfLastRecord
  BY DEF RecordsInv, TrainingInv
<1> QED
  BY <1>1, RecordsInvariant, PTL

(* Participants that were saved are lost only to an overlapping record.    *)
THEOREM RosterKept == RecordsSpec => []RosterLostOnlyByOverlap
<1>1. RecordsInv => RosterLostOnlyByOverlap
  BY DEF RecordsInv, TrainingInv, RosterLostOnlyByOverlap, Replaced
<1> QED
  BY <1>1, RecordsInvariant, PTL
=============================================================================
