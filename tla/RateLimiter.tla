----------------------------- MODULE RateLimiter -----------------------------
(***************************************************************************)
(* The token buckets that limit registration and login, one per address    *)
(* (src/backend/internal/middleware/rate_limiter.go).                      *)
(*                                                                         *)
(* The limiter decides under its mutex, the reading of the clock included, *)
(* so a request is one step.  Time is counted in ticks, Minute of them to  *)
(* the minute; it starts at 0 with the process, and the buckets, which are *)
(* in memory, last as long as the process.  The history variables asked,   *)
(* served and awake record what callers did and saw; the limiter does not  *)
(* read them.                                                              *)
(***************************************************************************)
EXTENDS Integers, Sequences

CONSTANTS
    Address,     \* the addresses requests come from
    Configured,  \* RATE_LIMIT_PER_MINUTE
    Minute,      \* ticks of the clock in a minute
    Horizon,     \* bound: the last tick considered
    MaxCalls     \* bound: the requests of one address

ASSUME LimiterAssumption ==
    /\ Configured \in Int
    /\ Minute \in Nat \ {0}
    /\ Horizon \in Nat
    /\ MaxCalls \in Nat

VARIABLES
    now,      \* the clock
    buckets,  \* address -> its bucket, or NoBucket before its first request
    answer,   \* address -> how its last request was answered, 0 before the first
    asked,    \* address -> the times of its requests
    served,   \* address -> the times of those that were let through
    awake     \* address -> when its last pause of a whole minute ended

vars == <<now, buckets, answer, asked, served, awake>>

-----------------------------------------------------------------------------
\* NewRateLimiter: a limit that makes no sense is replaced, and the bucket
\* holds as many tokens as are added in a minute.
PerMin == IF Configured <= 0 THEN 120 ELSE Configured
Capacity == PerMin

Time == 0 .. Horizon
Bucket == [tokens : Int, lastFill : Time]
NoBucket == [tokens |-> -1, lastFill |-> 0]

Init ==
    /\ now = 0
    /\ buckets = [a \in Address |-> NoBucket]
    /\ answer = [a \in Address |-> 0]
    /\ asked = [a \in Address |-> <<>>]
    /\ served = [a \in Address |-> <<>>]
    /\ awake = [a \in Address |-> 0]

-----------------------------------------------------------------------------
\* The bucket the address has, or the full one it is given.
Found(a) ==
    IF buckets[a] = NoBucket
    THEN [tokens |-> Capacity, lastFill |-> now]
    ELSE buckets[a]

(* Mutant: the refill is not capped, pauses are saved up. *)
FilledUncapped(b) ==
    [tokens |-> b.tokens + ((now - b.lastFill) \div Minute) * PerMin,
     lastFill |-> now]

(* Mutant: a minute begun counts as a minute. *)
FilledRoundedUp(b) ==
    LET tokens == b.tokens + ((now - b.lastFill + Minute - 1) \div Minute) * PerMin
    IN  [tokens |-> IF tokens > Capacity THEN Capacity ELSE tokens,
         lastFill |-> now]

(* Mutant: one token is added per minute. *)
FilledOneByOne(b) ==
    LET tokens == b.tokens + (now - b.lastFill) \div Minute
    IN  [tokens |-> IF tokens > Capacity THEN Capacity ELSE tokens,
         lastFill |-> now]

\* Only whole minutes count, and the time is taken as filled in any case.
Filled(b) ==
    LET tokens == b.tokens + ((now - b.lastFill) \div Minute) * PerMin
    IN  [tokens |-> IF tokens > Capacity THEN Capacity ELSE tokens,
         lastFill |-> now]

\* The last request of an address, to tell a pause.
Paused(a) == asked[a] = <<>> \/ now - asked[a][Len(asked[a])] >= Minute

Arrive(a) ==
    /\ Len(asked[a]) < MaxCalls
    /\ asked' = [asked EXCEPT ![a] = Append(@, now)]
    /\ awake' = IF Paused(a) THEN [awake EXCEPT ![a] = now] ELSE awake
    /\ UNCHANGED now

\* An empty bucket: 429, and the handler does not run.
Refuse(a) ==
    /\ Arrive(a)
    /\ Filled(Found(a)).tokens <= 0
    /\ buckets' = [buckets EXCEPT ![a] = Filled(Found(a))]
    /\ answer' = [answer EXCEPT ![a] = 429]
    /\ UNCHANGED served

\* A token is taken and the handler runs.
Admit(a) ==
    /\ Arrive(a)
    /\ Filled(Found(a)).tokens > 0
    /\ buckets' = [buckets EXCEPT ![a] = [Filled(Found(a)) EXCEPT !.tokens = @ - 1]]
    /\ answer' = [answer EXCEPT ![a] = 200]
    /\ served' = [served EXCEPT ![a] = Append(@, now)]

Tick ==
    /\ now < Horizon
    /\ now' = now + 1
    /\ UNCHANGED <<buckets, answer, asked, served, awake>>

Next ==
    \/ Tick
    \/ \E a \in Address : Admit(a) \/ Refuse(a)

Spec == Init /\ [][Next]_vars

-----------------------------------------------------------------------------
\* The types, with the number of tokens between none and a full bucket.
TypeOK ==
    /\ now \in Time
    /\ buckets \in [Address -> [tokens : 0 .. Capacity, lastFill : Time] \cup {NoBucket}]
    /\ answer \in [Address -> {0, 200, 429}]
    /\ asked \in [Address -> Seq(Time)]
    /\ served \in [Address -> Seq(Time)]
    /\ awake \in [Address -> Time]

\* The limit.  Between any two requests of an address that are let through lie
\* at most PerMin of them for every minute begun, so within less than a
\* minute no more than PerMin pass, wherever that minute is laid; the refill in
\* whole minutes does not let a burst through on either side of a boundary.
RateIsLimited ==
    \A a \in Address : \A j \in 1 .. Len(served[a]) : \A i \in 1 .. j :
        j - i + 1 <= PerMin * (1 + (served[a][j] - served[a][i]) \div Minute)

\* Nobody is refused who did not use up a full bucket: whoever is answered 429 had
\* PerMin requests let through since its last pause of a whole minute, so after
\* such a pause PerMin requests pass, whatever came before.
RefusedAfterBurst ==
    \A a \in Address :
        answer[a] = 429 =>
            /\ Len(served[a]) >= PerMin
            /\ served[a][Len(served[a]) - PerMin + 1] >= awake[a]

\* What the answer 429 says ("requests too frequent"): the address made more
\* than PerMin requests within a minute.
OnlyFrequentIsRefused ==
    \A a \in Address :
        answer[a] = 429 =>
            /\ Len(asked[a]) > PerMin
            /\ asked[a][Len(asked[a])] - asked[a][Len(asked[a]) - PerMin] < Minute

=============================================================================
