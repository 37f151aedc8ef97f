-------------------------- MODULE RateLimiterProofs --------------------------
(***************************************************************************)
(* For any addresses, any configured limit, any resolution of the clock    *)
(* and any number of requests: the limiter of RateLimiter lets no more     *)
(* than PerMin requests through for every minute begun, and refuses nobody *)
(* who did not have PerMin requests let through since its last pause.      *)
(***************************************************************************)
EXTENDS RateLimiter, TLAPS

(***************************************************************************)
(* Arithmetic                                                              *)
(***************************************************************************)
\* The limit is a positive number, whatever is configured.
LEMMA PerMinIsPositive == PerMin \in Nat /\ PerMin >= 1
BY LimiterAssumption DEF PerMin

\* The whole minutes of a time.
LEMMA WholeMinutes ==
    ASSUME NEW x \in Nat
    PROVE  /\ x \div Minute \in Nat
           /\ Minute * (x \div Minute) <= x
           /\ x < Minute * (x \div Minute) + Minute
BY LimiterAssumption

\* Products of naturals are monotone.
LEMMA ProductMonotone ==
    ASSUME NEW k \in Nat, NEW m \in Nat, NEW n \in Nat, m <= n
    PROVE  k * m \in Nat /\ k * n \in Nat /\ k * m <= k * n
<1>1. k * n = k * m + k * (n - m)
  OBVIOUS
<1>2. k * m \in Nat /\ k * (n - m) \in Nat
  OBVIOUS
<1> QED
  BY <1>1, <1>2

\* A time that holds k times a minute has at least k whole minutes.
LEMMA MinutesFit ==
    ASSUME NEW x \in Nat, NEW k \in Nat, Minute * k <= x
    PROVE  k <= x \div Minute
<1> DEFINE d == x \div Minute
<1>1. d \in Nat /\ x < Minute * d + Minute
  BY WholeMinutes
<1>2. SUFFICES ASSUME d + 1 <= k PROVE FALSE
  BY <1>1
<1>3. Minute * (d + 1) <= Minute * k
  BY <1>1, <1>2, ProductMonotone, LimiterAssumption
<1>4. Minute * (d + 1) = Minute * d + Minute
  BY <1>1, LimiterAssumption
<1> QED
  BY <1>1, <1>3, <1>4, LimiterAssumption

\* Two times together have at least the whole minutes of each.
LEMMA MinutesAdd ==
    ASSUME NEW x \in Nat, NEW y \in Nat
    PROVE  (x \div Minute) + (y \div Minute) <= (x + y) \div Minute
<1> DEFINE d == x \div Minute
           e == y \div Minute
<1>1. /\ d \in Nat /\ e \in Nat
      /\ Minute * d <= x /\ Minute * e <= y
  BY WholeMinutes
<1>2. Minute * (d + e) = Minute * d + Minute * e
  BY <1>1, LimiterAssumption
<1>3. Minute * (d + e) <= x + y
  BY <1>1, <1>2, LimiterAssumption
<1> QED
  BY <1>1, <1>3, MinutesFit

\* Less than a minute has no whole minute, a minute or more has one.
LEMMA MinuteStarts ==
    ASSUME NEW x \in Nat
    PROVE  /\ x < Minute => x \div Minute = 0
           /\ x >= Minute => x \div Minute >= 1
<1>1. ASSUME x < Minute PROVE x \div Minute = 0
  <2> DEFINE d == x \div Minute
  <2>1. d \in Nat /\ Minute * d <= x
    BY WholeMinutes
  <2>2. SUFFICES ASSUME 1 <= d PROVE FALSE
    BY <2>1
  <2>3. Minute * 1 <= Minute * d
    BY <2>1, <2>2, ProductMonotone, LimiterAssumption
  <2> QED
    BY <1>1, <2>1, <2>3, LimiterAssumption
<1>2. ASSUME x >= Minute PROVE x \div Minute >= 1
  BY <1>2, MinutesFit, LimiterAssumption
<1> QED
  BY <1>1, <1>2

(***************************************************************************)
(* The inductive invariant, address by address                             *)
(*                                                                         *)
(* RateIsLimited compares two requests of the past.  What keeps it true is *)
(* the account of every past request i with the bucket as it is now:       *)
(* those served since, together with the tokens left, do not exceed        *)
(* PerMin for every minute begun since.  RefusedAfterBurst looks at an     *)
(* empty bucket; what leads there is that the tokens missing from a bucket *)
(* were all spent since the last pause.                                    *)
(***************************************************************************)
\* The history fits the clock and the bucket: the bucket was filled last
\* when its address last asked.
Timely(a) ==
    IF buckets[a] = NoBucket
    THEN /\ asked[a] = <<>> /\ served[a] = <<>> /\ answer[a] = 0
    ELSE /\ asked[a] # <<>>
         /\ asked[a][Len(asked[a])] = buckets[a].lastFill
         /\ buckets[a].lastFill <= now
         /\ awake[a] <= buckets[a].lastFill
         /\ \A i \in 1 .. Len(served[a]) : served[a][i] <= buckets[a].lastFill

\* What was served since request i, with what may still be.
Accounted(a) ==
    buckets[a] # NoBucket =>
        \A i \in 1 .. Len(served[a]) :
            Len(served[a]) - i + 1 + buckets[a].tokens
                <= PerMin * (1 + (buckets[a].lastFill - served[a][i]) \div Minute)

\* The tokens missing were spent since the last pause.
SpentAwake(a) ==
    buckets[a] # NoBucket =>
        /\ PerMin - buckets[a].tokens <= Len(served[a])
        /\ \A k \in 1 .. Len(served[a]) :
              k > Len(served[a]) - (PerMin - buckets[a].tokens) => served[a][k] >= awake[a]

\* A refusal leaves an empty bucket.
RefusalEmpties(a) == answer[a] = 429 => buckets[a].tokens = 0

\* RateIsLimited for one address.
Limited(a) ==
    \A j \in 1 .. Len(served[a]) : \A i \in 1 .. j :
        j - i + 1 <= PerMin * (1 + (served[a][j] - served[a][i]) \div Minute)

Sound(a) ==
    Timely(a) /\ Accounted(a) /\ SpentAwake(a) /\ RefusalEmpties(a) /\ Limited(a)

AllSound == \A a \in Address : Sound(a)

IInv == TypeOK /\ AllSound

(***************************************************************************)
(* The refill                                                              *)
(***************************************************************************)
\* The bucket a request finds has a token count and a time of the past.
LEMMA FoundBucket ==
    ASSUME TypeOK, NEW a \in Address, Timely(a)
    PROVE  /\ Found(a) = [tokens |-> Found(a).tokens, lastFill |-> Found(a).lastFill]
           /\ Found(a).tokens \in 0 .. PerMin
           /\ Found(a).lastFill \in Nat
           /\ now \in Nat
           /\ Found(a).lastFill <= now
<1>1. now \in Nat
  BY LimiterAssumption DEF TypeOK, Time
<1>2. CASE buckets[a] = NoBucket
  BY <1>1, <1>2, PerMinIsPositive DEF Found, Capacity
<1>3. CASE buckets[a] # NoBucket
  <2>1. buckets[a] \in [tokens : 0 .. Capacity, lastFill : Time]
    BY <1>3 DEF TypeOK
  <2>2. Found(a) = buckets[a]
    BY <1>3 DEF Found
  <2>3. buckets[a].lastFill <= now
    BY <1>3 DEF Timely
  <2> QED
    BY <1>1, <2>1, <2>2, <2>3, LimiterAssumption DEF Capacity, Time
<1> QED
  BY <1>2, <1>3

\* The refill adds PerMin tokens for every whole minute, up to a full bucket.
LEMMA Refill ==
    ASSUME NEW b, b.tokens \in 0 .. PerMin, b.lastFill \in Nat, now \in Nat,
           b.lastFill <= now
    PROVE  LET e == (now - b.lastFill) \div Minute IN
           /\ e \in Nat
           /\ Filled(b).lastFill = now
           /\ Filled(b).tokens \in 0 .. PerMin
           /\ Filled(b).tokens <= b.tokens + PerMin * e
           /\ e = 0 => Filled(b).tokens = b.tokens
           /\ e >= 1 => Filled(b).tokens = PerMin
<1> DEFINE e == (now - b.lastFill) \div Minute
<1>1. now - b.lastFill \in Nat
  OBVIOUS
<1>2. e \in Nat
  BY <1>1, WholeMinutes
<1>3. e * PerMin = PerMin * e /\ PerMin * e \in Nat
  BY <1>2, PerMinIsPositive
<1>4. e = 0 => PerMin * e = 0
  BY <1>2, PerMinIsPositive
<1>5. ASSUME e >= 1 PROVE PerMin <= PerMin * e
  <2>1. PerMin * 1 <= PerMin * e
    BY <1>2, <1>5, PerMinIsPositive, ProductMonotone
  <2> QED
    BY <2>1, PerMinIsPositive
<1>6. /\ Filled(b).lastFill = now
      /\ Filled(b).tokens = IF b.tokens + e * PerMin > PerMin
                            THEN PerMin ELSE b.tokens + e * PerMin
  BY DEF Filled, Capacity
<1> HIDE DEF e
<1>7. /\ Filled(b).tokens \in 0 .. PerMin
      /\ Filled(b).tokens <= b.tokens + PerMin * e
  BY <1>2, <1>3, <1>6, PerMinIsPositive
<1>8. e = 0 => Filled(b).tokens = b.tokens
  BY <1>3, <1>4, <1>6, PerMinIsPositive
<1>9. e >= 1 => Filled(b).tokens = PerMin
  BY <1>3, <1>5, <1>6, PerMinIsPositive
<1> QED
  BY <1>2, <1>6, <1>7, <1>8, <1>9 DEF e

\* What holds of the refilled bucket before a token is taken.
LEMMA Refilled ==
    ASSUME TypeOK, NEW a \in Address, Sound(a), Arrive(a)
    PROVE  /\ now \in Nat
           /\ Filled(Found(a)).tokens \in 0 .. PerMin
           /\ Filled(Found(a)).lastFill = now
           /\ awake'[a] \in Nat /\ awake'[a] <= now
           /\ \A i \in 1 .. Len(served[a]) : served[a][i] \in Nat /\ served[a][i] <= now
           /\ \A i \in 1 .. Len(served[a]) :
                 Len(served[a]) - i + 1 + Filled(Found(a)).tokens
                     <= PerMin * (1 + (now - served[a][i]) \div Minute)
           /\ PerMin - Filled(Found(a)).tokens <= Len(served[a])
           /\ \A k \in 1 .. Len(served[a]) :
                 k > Len(served[a]) - (PerMin - Filled(Found(a)).tokens)
                     => served[a][k] >= awake'[a]
<1> DEFINE n == Len(served[a])
           b == Found(a)
           f == Filled(b).tokens
           e == (now - b.lastFill) \div Minute
<1>1. /\ now \in Nat /\ b.tokens \in 0 .. PerMin
      /\ b.lastFill \in Nat /\ b.lastFill <= now
  BY FoundBucket DEF Sound
<1>2. /\ e \in Nat /\ f \in 0 .. PerMin /\ Filled(b).lastFill = now
      /\ f <= b.tokens + PerMin * e
      /\ e = 0 => f = b.tokens
      /\ e >= 1 => f = PerMin
  BY <1>1, Refill
<1>3. /\ served[a] \in Seq(Time) /\ asked[a] \in Seq(Time) /\ awake[a] \in Nat
      /\ awake \in [Address -> Time]
  BY LimiterAssumption DEF TypeOK, Time
<1>4. n \in Nat /\ \A i \in 1 .. n : served[a][i] \in Nat
  <2>1. \A i \in 1 .. n : served[a][i] \in Time
    BY <1>3
  <2> QED
    BY <1>3, <2>1, LimiterAssumption DEF Time
<1>5. awake'[a] = IF Paused(a) THEN now ELSE awake[a]
  BY <1>3 DEF Arrive
<1> HIDE DEF n, f, e
<1>6. CASE buckets[a] = NoBucket
  <2>1. n = 0 /\ Paused(a)
    BY <1>6 DEF Sound, Timely, Paused, n
  <2>2. b = [tokens |-> PerMin, lastFill |-> now]
    BY <1>6 DEF Found, Capacity
  <2>3. e = 0
    <3>1. now - b.lastFill = 0
      BY <1>1, <2>2
    <3> QED
      BY <3>1, MinuteStarts, LimiterAssumption DEF e
  <2>4. f = PerMin
    BY <1>2, <2>2, <2>3
  <2> QED
    BY <1>1, <1>2, <1>4, <1>5, <2>1, <2>4, PerMinIsPositive DEF n, f
<1>7. CASE buckets[a] # NoBucket
  <2>1. b = buckets[a]
    BY <1>7 DEF Found
  <2>2. /\ Paused(a) <=> now - b.lastFill >= Minute
        /\ awake[a] <= b.lastFill
        /\ \A i \in 1 .. n : served[a][i] <= b.lastFill
    BY <1>7, <2>1 DEF Sound, Timely, Paused, n
  <2>3. (Paused(a) => e >= 1) /\ (~Paused(a) => e = 0)
    <3>1. now - b.lastFill \in Nat
      BY <1>1
    <3>2. /\ now - b.lastFill < Minute => e = 0
          /\ now - b.lastFill >= Minute => e >= 1
      BY <3>1, MinuteStarts DEF e
    <3> QED
      BY <1>1, <2>2, <3>2, LimiterAssumption
  <2>4. ASSUME NEW i \in 1 .. n
        PROVE  n - i + 1 + f <= PerMin * (1 + (now - served[a][i]) \div Minute)
    <3> DEFINE d == (b.lastFill - served[a][i]) \div Minute
               w == (now - served[a][i]) \div Minute
    <3>1. /\ b.lastFill - served[a][i] \in Nat /\ now - b.lastFill \in Nat
          /\ (b.lastFill - served[a][i]) + (now - b.lastFill) = now - served[a][i]
      BY <1>1, <1>4, <2>2
    <3>2. d \in Nat /\ w \in Nat /\ d + e <= w
      <4> DEFINE x == b.lastFill - served[a][i]
                 y == now - b.lastFill
      <4>1. x \in Nat /\ y \in Nat /\ x + y = now - served[a][i]
        BY <3>1
      <4> HIDE DEF x, y, d, w
      <4>2. /\ x \div Minute \in Nat /\ (x + y) \div Minute \in Nat
            /\ (x \div Minute) + (y \div Minute) <= (x + y) \div Minute
        <5>1. x + y \in Nat
          BY <4>1
        <5>2. x \div Minute \in Nat /\ (x + y) \div Minute \in Nat
          BY <4>1, <5>1, WholeMinutes
        <5>3. (x \div Minute) + (y \div Minute) <= (x + y) \div Minute
          BY <4>1, MinutesAdd
        <5> QED
          BY <5>2, <5>3
      <4>3. d = x \div Minute /\ e = y \div Minute
        BY DEF x, y, e, d
      <4>4. w = (x + y) \div Minute
        BY <4>1 DEF w
      <4> QED
        BY <4>2, <4>3, <4>4
    <3>3. n - i + 1 + b.tokens <= PerMin * (1 + d)
      BY <1>7, <2>1 DEF Sound, Accounted, n
    <3> HIDE DEF d, w
    <3>4. PerMin * (1 + d) + PerMin * e = PerMin * (1 + d + e)
      BY <1>2, <3>2, PerMinIsPositive
    <3>5. PerMin * (1 + d + e) <= PerMin * (1 + w)
      BY <1>2, <3>2, PerMinIsPositive, ProductMonotone
    <3>6. /\ PerMin * (1 + d) \in Int /\ PerMin * e \in Int
          /\ PerMin * (1 + d + e) \in Int /\ PerMin * (1 + w) \in Int
      BY <1>2, <3>2, PerMinIsPositive
    <3>7. n - i + 1 + f <= PerMin * (1 + w)
      BY <1>1, <1>2, <1>4, <3>3, <3>4, <3>5, <3>6, PerMinIsPositive
    <3> QED
      BY <3>7 DEF w
  <2>5. awake'[a] \in Nat /\ awake'[a] <= now
    BY <1>1, <1>3, <1>5, <2>2
  <2>6. /\ PerMin - f <= n
        /\ \A k \in 1 .. n : k > n - (PerMin - f) => served[a][k] >= awake'[a]
    <3>1. CASE Paused(a)
      BY <1>2, <1>4, <2>3, <3>1, PerMinIsPositive
    <3>2. CASE ~Paused(a)
      BY <1>2, <1>5, <1>7, <2>1, <2>3, <3>2 DEF Sound, SpentAwake, n
    <3> QED
      BY <3>1, <3>2
  <2>7. \A i \in 1 .. n : served[a][i] <= now
    BY <1>1, <1>4, <2>2
  <2> QED
    BY <1>1, <1>2, <1>4, <2>4, <2>5, <2>6, <2>7 DEF n, f
<1> QED
  BY <1>6, <1>7

(***************************************************************************)
(* The steps                                                               *)
(***************************************************************************)
\* A refusal keeps the account of its address.
LEMMA RefuseKeeps ==
    ASSUME TypeOK, NEW a \in Address, Sound(a), Refuse(a)
    PROVE  Sound(a)'
<1> DEFINE f == Filled(Found(a)).tokens
<1>1. Arrive(a) /\ f <= 0 /\ served' = served /\ now' = now
  BY DEF Refuse, Arrive
<1>2. /\ now \in Nat /\ f \in 0 .. PerMin /\ Filled(Found(a)).lastFill = now
      /\ awake'[a] \in Nat /\ awake'[a] <= now
      /\ \A i \in 1 .. Len(served[a]) : served[a][i] \in Nat /\ served[a][i] <= now
      /\ \A i \in 1 .. Len(served[a]) :
            Len(served[a]) - i + 1 + f <= PerMin * (1 + (now - served[a][i]) \div Minute)
      /\ PerMin - f <= Len(served[a])
      /\ \A k \in 1 .. Len(served[a]) :
            k > Len(served[a]) - (PerMin - f) => served[a][k] >= awake'[a]
  BY <1>1, Refilled
<1>3. buckets'[a].tokens = f /\ buckets'[a].lastFill = now
  BY <1>2 DEF Refuse, TypeOK
<1> HIDE DEF f
<1>4. f = 0 /\ buckets'[a] # NoBucket
  BY <1>1, <1>2, <1>3, PerMinIsPositive DEF NoBucket
<1>5. asked'[a] = Append(asked[a], now) /\ asked[a] \in Seq(Time) /\ now \in Time
  BY <1>1 DEF Arrive, TypeOK
<1>6. asked'[a] # <<>> /\ asked'[a][Len(asked'[a])] = now
  BY <1>5
<1>7. Timely(a)'
  BY <1>1, <1>2, <1>3, <1>4, <1>6 DEF Timely
<1>8. Accounted(a)'
  BY <1>1, <1>2, <1>3 DEF Accounted
<1>9. SpentAwake(a)'
  BY <1>1, <1>2, <1>3 DEF SpentAwake
<1>10. RefusalEmpties(a)' /\ Limited(a)'
  BY <1>1, <1>3, <1>4 DEF RefusalEmpties, Limited, Sound
<1> QED
  BY <1>7, <1>8, <1>9, <1>10 DEF Sound

\* A request let through keeps the account of its address.
LEMMA AdmitKeeps ==
    ASSUME TypeOK, NEW a \in Address, Sound(a), Admit(a)
    PROVE  Sound(a)'
<1> DEFINE f == Filled(Found(a)).tokens
           n == Len(served[a])
           s == served[a]
           t == served'[a]
<1>1. Arrive(a) /\ f > 0 /\ now' = now
  BY DEF Admit, Arrive
<1>2. /\ now \in Nat /\ f \in 0 .. PerMin /\ Filled(Found(a)).lastFill = now
      /\ awake'[a] \in Nat /\ awake'[a] <= now
      /\ \A i \in 1 .. n : s[i] \in Nat /\ s[i] <= now
      /\ \A i \in 1 .. n : n - i + 1 + f <= PerMin * (1 + (now - s[i]) \div Minute)
      /\ PerMin - f <= n
      /\ \A k \in 1 .. n : k > n - (PerMin - f) => s[k] >= awake'[a]
  BY <1>1, Refilled
<1>3. buckets'[a].tokens = f - 1 /\ buckets'[a].lastFill = now
  <2>1. Filled(Found(a)) = [tokens |-> f, lastFill |-> now]
    BY DEF Filled
  <2>2. buckets'[a] = [Filled(Found(a)) EXCEPT !.tokens = @ - 1]
    BY DEF Admit, TypeOK
  <2> HIDE DEF f
  <2> QED
    BY <2>1, <2>2
<1>4. asked'[a] = Append(asked[a], now) /\ asked[a] \in Seq(Time) /\ now \in Time
  BY <1>1 DEF Arrive, TypeOK
<1>5. asked'[a] # <<>> /\ asked'[a][Len(asked'[a])] = now
  BY <1>4
<1>6. /\ s \in Seq(Time) /\ t = Append(s, now)
  BY DEF Admit, TypeOK
<1>7. n \in Nat /\ Len(t) = n + 1 /\ t[n + 1] = now /\ \A i \in 1 .. n : t[i] = s[i]
  BY <1>4, <1>6
<1>8. answer'[a] = 200
  BY DEF Admit, TypeOK
<1> HIDE DEF f, n, s, t
<1>9. buckets'[a] # NoBucket
  BY <1>1, <1>2, <1>3, PerMinIsPositive DEF NoBucket
<1>10. Timely(a)'
  <2>1. \A i \in 1 .. n + 1 : t[i] <= now
    BY <1>2, <1>7
  <2> QED
    BY <1>1, <1>2, <1>3, <1>5, <1>7, <1>9, <2>1 DEF Timely, t
<1>11. (now - now) \div Minute = 0 /\ PerMin * (1 + 0) = PerMin
  BY <1>2, MinuteStarts, PerMinIsPositive, LimiterAssumption
<1>12. Accounted(a)'
  <2>1. ASSUME NEW i \in 1 .. n + 1
        PROVE  (n + 1) - i + 1 + (f - 1) <= PerMin * (1 + (now - t[i]) \div Minute)
    <3>1. CASE i \in 1 .. n
      <4>1. (n + 1) - i + 1 + (f - 1) = n - i + 1 + f
        BY <1>2, <1>7, <3>1
      <4> QED
        BY <1>2, <1>7, <3>1, <4>1
    <3>2. CASE i = n + 1
      <4>1. (n + 1) - i + 1 + (f - 1) <= PerMin
        BY <1>2, <1>7, <3>2, PerMinIsPositive
      <4>2. (now - t[i]) \div Minute = 0
        BY <1>7, <1>11, <3>2
      <4> QED
        BY <1>11, <4>1, <4>2
    <3> QED
      BY <1>7, <3>1, <3>2
  <2> QED
    BY <1>3, <1>7, <2>1 DEF Accounted, t
<1>13. SpentAwake(a)'
  <2>1. PerMin - (f - 1) <= n + 1
    BY <1>2, <1>7, PerMinIsPositive
  <2>2. ASSUME NEW k \in 1 .. n + 1, k > n + 1 - (PerMin - (f - 1))
        PROVE  t[k] >= awake'[a]
    <3>1. k > n - (PerMin - f)
      BY <1>2, <1>7, <2>2, PerMinIsPositive
    <3>2. CASE k \in 1 .. n
      BY <1>2, <1>7, <3>1, <3>2
    <3>3. CASE k = n + 1
      BY <1>2, <1>7, <3>3
    <3> QED
      BY <1>7, <3>2, <3>3
  <2>3. /\ PerMin - buckets'[a].tokens <= Len(t)
        /\ \A k \in 1 .. Len(t) :
              k > Len(t) - (PerMin - buckets'[a].tokens) => t[k] >= awake'[a]
    <3>1. PerMin - buckets'[a].tokens = PerMin - (f - 1)
      BY <1>3
    <3>2. PerMin - (f - 1) \in Int
      BY <1>2, PerMinIsPositive
    <3> DEFINE m == PerMin - (f - 1)
    <3> HIDE DEF m
    <3>3. m \in Int /\ PerMin - buckets'[a].tokens = m /\ m <= n + 1
      BY <2>1, <3>1, <3>2 DEF m
    <3>4. \A k \in 1 .. n + 1 : k > n + 1 - m => t[k] >= awake'[a]
      BY <2>2 DEF m
    <3> QED
      BY <1>7, <3>3, <3>4
  <2> QED
    BY <2>3 DEF SpentAwake, t
<1>14. RefusalEmpties(a)'
  BY <1>8 DEF RefusalEmpties
<1>15. Limited(a)'
  <2>1. ASSUME NEW j \in 1 .. n + 1, NEW i \in 1 .. j
        PROVE  j - i + 1 <= PerMin * (1 + (t[j] - t[i]) \div Minute)
    <3>1. CASE j \in 1 .. n
      <4>1. t[j] = s[j] /\ t[i] = s[i]
        BY <1>7, <3>1
      <4>2. j - i + 1 <= PerMin * (1 + (s[j] - s[i]) \div Minute)
        BY <3>1 DEF Sound, Limited, s, n
      <4> QED
        BY <4>1, <4>2
    <3>2. CASE j = n + 1 /\ i = n + 1
      <4>1. (t[j] - t[i]) \div Minute = 0
        BY <1>7, <1>11, <3>2
      <4>2. j - i + 1 <= PerMin
        BY <1>7, <3>2, PerMinIsPositive
      <4> QED
        BY <1>11, <4>1, <4>2
    <3>3. CASE j = n + 1 /\ i \in 1 .. n
      <4> DEFINE w == (now - s[i]) \div Minute
      <4>1. n - i + 1 + f <= PerMin * (1 + w)
        BY <1>2, <3>3
      <4>2. w \in Nat
        <5>1. now - s[i] \in Nat
          BY <1>2, <3>3
        <5> QED
          BY <5>1, WholeMinutes
      <4>3. t[j] = now /\ t[i] = s[i]
        BY <1>7, <3>3
      <4> HIDE DEF w
      <4>4. PerMin * (1 + w) \in Int
        BY <4>2, PerMinIsPositive
      <4>5. j - i + 1 <= PerMin * (1 + w)
        BY <1>1, <1>2, <1>7, <3>3, <4>1, <4>4
      <4> QED
        BY <4>3, <4>5 DEF w
    <3> QED
      BY <1>7, <3>1, <3>2, <3>3
  <2> QED
    BY <1>7, <2>1 DEF Limited, t
<1> QED
  BY <1>10, <1>12, <1>13, <1>14, <1>15 DEF Sound

\* The account of an address depends on its own rows, and on the clock only in
\* that time does not run backwards.
LEMMA SoundFrame ==
    ASSUME NEW a \in Address, Sound(a), now \in Nat, now' \in Nat, now <= now',
           TypeOK,
           buckets'[a] = buckets[a], answer'[a] = answer[a], asked'[a] = asked[a],
           served'[a] = served[a], awake'[a] = awake[a]
    PROVE  Sound(a)'
<1>1. buckets[a] # NoBucket => buckets[a].lastFill \in Nat
  BY LimiterAssumption DEF TypeOK, Time
<1>2. Timely(a)'
  BY <1>1 DEF Sound, Timely
<1> QED
  BY <1>2 DEF Sound, Accounted, SpentAwake, RefusalEmpties, Limited

(***************************************************************************)
(* Types                                                                   *)
(***************************************************************************)
LEMMA TypeInit == Init => TypeOK
<1>1. 0 \in Time
  BY LimiterAssumption DEF Time
<1> QED
  BY <1>1 DEF Init, TypeOK

LEMMA TypeStep ==
    ASSUME TypeOK, AllSound, [Next]_vars PROVE TypeOK'
<1>1. ASSUME NEW a \in Address, Arrive(a),
             NEW b \in [tokens : 0 .. Capacity, lastFill : Time],
             buckets' = [buckets EXCEPT ![a] = b],
             answer' \in [Address -> {0, 200, 429}],
             served' \in [Address -> Seq(Time)]
      PROVE  TypeOK'
  <2>1. now' = now /\ now \in Time
    BY <1>1 DEF Arrive, TypeOK
  <2>2. asked' \in [Address -> Seq(Time)] /\ awake' \in [Address -> Time]
    BY <1>1, <2>1 DEF Arrive, TypeOK
  <2>3. buckets' \in [Address -> [tokens : 0 .. Capacity, lastFill : Time] \cup {NoBucket}]
    BY <1>1 DEF TypeOK
  <2> QED
    BY <1>1, <2>1, <2>2, <2>3 DEF TypeOK
<1>2. ASSUME NEW a \in Address, Arrive(a)
      PROVE  /\ Filled(Found(a)).tokens \in 0 .. PerMin
             /\ Filled(Found(a)) = [tokens |-> Filled(Found(a)).tokens, lastFill |-> now]
             /\ now \in Time
  <2>1. Filled(Found(a)).tokens \in 0 .. PerMin
    BY <1>2, Refilled DEF AllSound
  <2> QED
    BY <2>1 DEF Filled, TypeOK
<1>3. ASSUME NEW a \in Address, Admit(a) PROVE TypeOK'
  <2> DEFINE f == Filled(Found(a)).tokens
             b == [Filled(Found(a)) EXCEPT !.tokens = @ - 1]
  <2>1. Arrive(a) /\ f > 0
    BY <1>3 DEF Admit
  <2>2. /\ f \in 0 .. PerMin /\ now \in Time
        /\ Filled(Found(a)) = [tokens |-> f, lastFill |-> now]
    BY <1>2, <2>1
  <2> HIDE DEF f
  <2>3. b = [tokens |-> f - 1, lastFill |-> now]
    BY <2>2
  <2>4. b \in [tokens : 0 .. Capacity, lastFill : Time]
    BY <2>1, <2>2, <2>3, PerMinIsPositive DEF Capacity
  <2>5. /\ buckets' = [buckets EXCEPT ![a] = b]
        /\ answer' \in [Address -> {0, 200, 429}]
        /\ served' \in [Address -> Seq(Time)]
    BY <1>3, <2>2 DEF Admit, TypeOK
  <2> HIDE DEF b
  <2> QED
    BY <1>1, <2>1, <2>4, <2>5
<1>4. ASSUME NEW a \in Address, Refuse(a) PROVE TypeOK'
  <2> DEFINE b == Filled(Found(a))
  <2>1. Arrive(a)
    BY <1>4 DEF Refuse
  <2>2. b \in [tokens : 0 .. Capacity, lastFill : Time]
    BY <1>2, <2>1 DEF Capacity
  <2>3. /\ buckets' = [buckets EXCEPT ![a] = b]
        /\ answer' \in [Address -> {0, 200, 429}]
        /\ served' \in [Address -> Seq(Time)]
    BY <1>4 DEF Refuse, TypeOK
  <2> HIDE DEF b
  <2> QED
    BY <1>1, <2>1, <2>2, <2>3
<1>5. CASE Tick
  <2>1. now' \in Time
    BY <1>5, LimiterAssumption DEF Tick, TypeOK, Time
  <2> QED
    BY <1>5, <2>1 DEF Tick, TypeOK
<1>6. CASE UNCHANGED vars
  BY <1>6 DEF vars, TypeOK
<1> QED
  BY <1>3, <1>4, <1>5, <1>6 DEF Next

(***************************************************************************)
(* The theorems                                                            *)
(***************************************************************************)
LEMMA SoundInit == Init => AllSound
<1> SUFFICES ASSUME Init, NEW a \in Address PROVE Sound(a)
  BY DEF AllSound
<1>1. /\ buckets[a] = NoBucket /\ answer[a] = 0
      /\ asked[a] = <<>> /\ served[a] = <<>> /\ awake[a] = 0
  BY DEF Init
<1>2. Len(served[a]) = 0
  BY <1>1
<1> QED
  BY <1>1, <1>2 DEF Sound, Timely, Accounted, SpentAwake, RefusalEmpties, Limited

LEMMA SoundStep ==
    ASSUME TypeOK, AllSound, [Next]_vars PROVE AllSound'
<1> SUFFICES ASSUME NEW a \in Address PROVE Sound(a)'
  BY DEF AllSound
<1>1. Sound(a) /\ now \in Nat
  BY LimiterAssumption DEF AllSound, TypeOK, Time
<1>2. ASSUME NEW b \in Address, Admit(b) \/ Refuse(b) PROVE Sound(a)'
  <2>1. CASE b = a
    BY <1>1, <1>2, <2>1, AdmitKeeps, RefuseKeeps
  <2>2. CASE b # a
    <3>1. /\ buckets'[a] = buckets[a] /\ answer'[a] = answer[a] /\ asked'[a] = asked[a]
          /\ served'[a] = served[a] /\ awake'[a] = awake[a] /\ now' = now
      BY <1>2, <2>2 DEF Admit, Refuse, Arrive, TypeOK
    <3> QED
      BY <1>1, <3>1, SoundFrame
  <2> QED
    BY <2>1, <2>2
<1>3. CASE Tick
  <2>1. now' \in Nat /\ now <= now'
    BY <1>1, <1>3 DEF Tick
  <2> QED
    BY <1>1, <1>3, <2>1, SoundFrame DEF Tick
<1>4. CASE UNCHANGED vars
  BY <1>1, <1>4, SoundFrame DEF vars
<1> QED
  BY <1>2, <1>3, <1>4 DEF Next

LEMMA Inductive == Spec => []IInv
<1>1. Init => IInv
  BY TypeInit, SoundInit DEF IInv
<1>2. IInv /\ [Next]_vars => IInv'
  BY TypeStep, SoundStep DEF IInv
<1> QED
  BY <1>1, <1>2, PTL DEF Spec

\* The limiter keeps its types: no bucket ever holds less than no token or more
\* than a full bucket, whatever limit is configured.
THEOREM LimiterTypes == Spec => []TypeOK
<1>1. IInv => TypeOK
  BY DEF IInv
<1> QED
  BY <1>1, Inductive, PTL

\* At most PerMin requests of an address pass for every minute begun, for any
\* window between two of them.
THEOREM RateLimited == Spec => []RateIsLimited
<1>1. IInv => RateIsLimited
  BY DEF IInv, AllSound, Sound, Limited, RateIsLimited
<1> QED
  BY <1>1, Inductive, PTL

LEMMA DeservedBurst == IInv => RefusedAfterBurst
<1> SUFFICES ASSUME IInv, NEW a \in Address, answer[a] = 429
             PROVE  /\ Len(served[a]) >= PerMin
                    /\ served[a][Len(served[a]) - PerMin + 1] >= awake[a]
  BY DEF RefusedAfterBurst
<1>1. Sound(a) /\ served[a] \in Seq(Time)
  BY DEF IInv, AllSound, TypeOK
<1>2. buckets[a].tokens = 0 /\ buckets[a] # NoBucket
  BY <1>1 DEF Sound, RefusalEmpties, Timely
<1>3. Len(served[a]) \in Nat /\ PerMin <= Len(served[a])
  BY <1>1, <1>2, PerMinIsPositive DEF Sound, SpentAwake
<1> DEFINE k == Len(served[a]) - PerMin + 1
<1>4. k \in 1 .. Len(served[a]) /\ k > Len(served[a]) - (PerMin - 0)
  BY <1>3, PerMinIsPositive
<1>5. served[a][k] >= awake[a]
  BY <1>1, <1>2, <1>4 DEF Sound, SpentAwake
<1> QED
  BY <1>3, <1>5

\* Only an address that had PerMin requests let through since its last pause of
\* a whole minute is refused.
THEOREM BurstBeforeRefusal == Spec => []RefusedAfterBurst
BY DeservedBurst, Inductive, PTL

(***************************************************************************)
(* When a refusal tells the truth                                          *)
(***************************************************************************)
\* The times of what was served ascend.
Ordered(a) ==
    \A i, j \in 1 .. Len(served[a]) : i <= j => served[a][i] <= served[a][j]

\* Request by request from the last one back, what was asked is no older than what
\* was served.
AskedAfter(a) ==
    /\ Len(served[a]) <= Len(asked[a])
    /\ \A k \in 1 .. Len(served[a]) :
          asked[a][Len(asked[a]) - k + 1] >= served[a][Len(served[a]) - k + 1]

\* After a refusal one request more was asked.
RefusedAfter(a) ==
    answer[a] = 429 =>
        /\ Len(served[a]) < Len(asked[a])
        /\ \A k \in 1 .. Len(served[a]) :
              asked[a][Len(asked[a]) - k] >= served[a][Len(served[a]) - k + 1]

Lagging(a) == Ordered(a) /\ AskedAfter(a) /\ RefusedAfter(a)

AllLagging == \A a \in Address : Lagging(a)

\* Whoever is refused less than a minute after its last pause ended did make more
\* than PerMin requests within a minute, as the answer says.
TruthfulAfterPause ==
    \A a \in Address :
        answer[a] = 429 /\ asked[a][Len(asked[a])] - awake[a] < Minute =>
            /\ Len(asked[a]) > PerMin
            /\ asked[a][Len(asked[a])] - asked[a][Len(asked[a]) - PerMin] < Minute

LEMMA LaggingInit == Init => AllLagging
<1> SUFFICES ASSUME Init, NEW a \in Address PROVE Lagging(a)
  BY DEF AllLagging
<1>1. answer[a] = 0 /\ asked[a] = <<>> /\ served[a] = <<>>
  BY DEF Init
<1>2. Len(asked[a]) = 0 /\ Len(served[a]) = 0
  BY <1>1
<1> QED
  BY <1>1, <1>2 DEF Lagging, Ordered, AskedAfter, RefusedAfter

\* An element of a sequence after one was appended.
LEMMA AppendedAt ==
    ASSUME NEW S, NEW s \in Seq(S), NEW x \in S
    PROVE  /\ Append(s, x) \in Seq(S)
           /\ Len(Append(s, x)) = Len(s) + 1
           /\ Append(s, x)[Len(s) + 1] = x
           /\ \A i \in 1 .. Len(s) : Append(s, x)[i] = s[i]
OBVIOUS

LEMMA LaggingArrives ==
    ASSUME TypeOK, AllSound, AllLagging, NEW a \in Address, Admit(a) \/ Refuse(a)
    PROVE  Lagging(a)'
<1> DEFINE n == Len(asked[a])
           m == Len(served[a])
<1>1. /\ asked[a] \in Seq(Time) /\ served[a] \in Seq(Time) /\ now \in Time
      /\ n \in Nat /\ m \in Nat
  BY DEF TypeOK
<1>2. \A k \in 1 .. m : asked[a][n - k + 1] >= served[a][m - k + 1]
  BY DEF AllLagging, Lagging, AskedAfter
<1>9. \A i, j \in 1 .. m : i <= j => served[a][i] <= served[a][j]
  BY DEF AllLagging, Lagging, Ordered
<1>10. m \in Nat /\ n \in Nat /\ m <= n
  BY <1>1 DEF AllLagging, Lagging, AskedAfter
<1>3. asked'[a] = Append(asked[a], now)
  BY DEF Admit, Refuse, Arrive, TypeOK
<1>4. /\ Len(asked'[a]) = n + 1 /\ asked'[a][n + 1] = now
      /\ \A i \in 1 .. n : asked'[a][i] = asked[a][i]
  BY <1>1, <1>3, AppendedAt
<1>5. \A i \in 1 .. m : served[a][i] \in Nat /\ served[a][i] <= now
  <2>1. \A i \in 1 .. m : served[a][i] \in Nat
    BY <1>1, LimiterAssumption DEF Time
  <2>2. CASE buckets[a] = NoBucket
    BY <2>2 DEF AllSound, Sound, Timely
  <2>3. CASE buckets[a] # NoBucket
    <3>1. buckets[a].lastFill \in Nat /\ now \in Nat
      BY <2>3, LimiterAssumption DEF TypeOK, Time
    <3>2. /\ buckets[a].lastFill <= now
          /\ \A i \in 1 .. m : served[a][i] <= buckets[a].lastFill
      BY <2>3 DEF AllSound, Sound, Timely
    <3> QED
      BY <2>1, <3>1, <3>2
  <2> QED
    BY <2>2, <2>3
<1>6. now \in Nat
  BY <1>1, LimiterAssumption DEF Time
<1> HIDE DEF n, m
<1>7. CASE Admit(a)
  <2>1. served'[a] = Append(served[a], now) /\ answer'[a] = 200
    BY <1>7 DEF Admit, TypeOK
  <2>2. /\ Len(served'[a]) = m + 1 /\ served'[a][m + 1] = now
        /\ \A i \in 1 .. m : served'[a][i] = served[a][i]
    BY <1>1, <2>1, AppendedAt DEF m
  <2>3. ASSUME NEW k \in 1 .. m + 1
        PROVE  asked'[a][(n + 1) - k + 1] >= served'[a][(m + 1) - k + 1]
    <3>1. CASE k = 1
      BY <1>1, <1>4, <1>6, <2>2, <3>1
    <3>2. CASE k # 1
      <4>1. /\ k - 1 \in 1 .. m
            /\ (n + 1) - k + 1 = n - (k - 1) + 1
            /\ (m + 1) - k + 1 = m - (k - 1) + 1
        BY <1>1, <3>2
      <4>2. n - (k - 1) + 1 \in 1 .. n /\ m - (k - 1) + 1 \in 1 .. m
        BY <1>10, <4>1
      <4> QED
        BY <1>2, <1>4, <2>2, <4>1, <4>2
    <3> QED
      BY <3>1, <3>2
  <2>4. ASSUME NEW i \in 1 .. m + 1, NEW j \in 1 .. m + 1, i <= j
        PROVE  served'[a][i] <= served'[a][j]
    <3>1. CASE j = m + 1
      BY <1>1, <1>5, <1>6, <2>2, <2>4, <3>1
    <3>2. CASE j # m + 1
      <4>1. i \in 1 .. m /\ j \in 1 .. m
        BY <1>1, <2>4, <3>2
      <4> QED
        BY <1>9, <2>2, <2>4, <4>1
    <3> QED
      BY <3>1, <3>2
  <2>5. Ordered(a)'
    BY <2>2, <2>4 DEF Ordered
  <2>6. AskedAfter(a)'
    <3>1. Len(asked'[a]) = n + 1 /\ Len(served'[a]) = m + 1 /\ m + 1 <= n + 1
      BY <1>4, <1>10, <2>2
    <3> QED
      BY <2>3, <3>1 DEF AskedAfter
  <2>7. RefusedAfter(a)'
    BY <2>1 DEF RefusedAfter
  <2> QED
    BY <2>5, <2>6, <2>7 DEF Lagging
<1>8. CASE Refuse(a)
  <2>1. served'[a] = served[a]
    BY <1>8 DEF Refuse
  <2>2. ASSUME NEW k \in 1 .. m
        PROVE  asked'[a][(n + 1) - k] >= served[a][m - k + 1]
    <3>1. (n + 1) - k = n - k + 1 /\ n - k + 1 \in 1 .. n
      BY <1>10
    <3> QED
      BY <1>2, <1>4, <3>1
  <2>3. ASSUME NEW k \in 1 .. m
        PROVE  asked'[a][(n + 1) - k + 1] >= served[a][m - k + 1]
    <3>1. CASE k = 1
      BY <1>1, <1>4, <1>5, <1>6, <3>1
    <3>2. CASE k # 1
      <4>1. /\ k - 1 \in 1 .. m
            /\ (n + 1) - k + 1 = n - (k - 1) + 1
            /\ n - (k - 1) + 1 \in 1 .. n
            /\ m - (k - 1) + 1 \in 1 .. m /\ m - k + 1 \in 1 .. m
            /\ m - k + 1 <= m - (k - 1) + 1
        BY <1>10, <3>2
      <4> DEFINE x == asked[a][n - (k - 1) + 1]
                 y == served[a][m - (k - 1) + 1]
                 z == served[a][m - k + 1]
      <4>2. x >= y
        BY <1>2, <4>1
      <4>3. z <= y
        BY <1>9, <4>1
      <4>4. x \in Nat /\ y \in Nat /\ z \in Nat
        BY <1>1, <1>5, <4>1, LimiterAssumption DEF n, Time
      <4>5. asked'[a][(n + 1) - k + 1] = x
        BY <1>4, <4>1
      <4> HIDE DEF x, y
      <4> QED
        BY <4>2, <4>3, <4>4, <4>5
    <3> QED
      BY <3>1, <3>2
  <2>4. Ordered(a)'
    BY <1>9, <2>1 DEF Ordered, m
  <2>5. AskedAfter(a)'
    BY <1>4, <1>10, <2>1, <2>3 DEF AskedAfter, m
  <2>6. RefusedAfter(a)'
    BY <1>4, <1>10, <2>1, <2>2 DEF RefusedAfter, m
  <2> QED
    BY <2>4, <2>5, <2>6 DEF Lagging
<1> QED
  BY <1>7, <1>8

LEMMA LaggingFrame ==
    ASSUME NEW a \in Address, Lagging(a), answer'[a] = answer[a],
           asked'[a] = asked[a], served'[a] = served[a]
    PROVE  Lagging(a)'
<1>1. Ordered(a)'
  BY DEF Lagging, Ordered
<1>2. AskedAfter(a)'
  BY DEF Lagging, AskedAfter
<1>3. RefusedAfter(a)'
  BY DEF Lagging, RefusedAfter
<1> QED
  BY <1>1, <1>2, <1>3 DEF Lagging

LEMMA LaggingStep ==
    ASSUME TypeOK, AllSound, AllLagging, [Next]_vars PROVE AllLagging'
<1> SUFFICES ASSUME NEW a \in Address PROVE Lagging(a)'
  BY DEF AllLagging
<1>1. ASSUME NEW b \in Address, Admit(b) \/ Refuse(b) PROVE Lagging(a)'
  <2>1. CASE b = a
    BY <1>1, <2>1, LaggingArrives
  <2>2. CASE b # a
    <3>1. answer'[a] = answer[a] /\ asked'[a] = asked[a] /\ served'[a] = served[a]
      BY <1>1, <2>2 DEF Admit, Refuse, Arrive, TypeOK
    <3> QED
      BY <3>1, LaggingFrame DEF AllLagging
  <2> QED
    BY <2>1, <2>2
<1>2. CASE Tick \/ UNCHANGED vars
  BY <1>2, LaggingFrame DEF Tick, vars, AllLagging
<1> QED
  BY <1>1, <1>2 DEF Next

\* Within the first minute after a pause of an address a refusal is deserved: more
\* than PerMin requests were made in less than a minute.  Later it need not be,
\* since every request starts the minute of the refill anew: limiter_slow_caller
\* shows a caller that asks every half minute and is refused.
THEOREM RefusalTruthful == Spec => []TruthfulAfterPause
<1>1. IInv /\ AllLagging => TruthfulAfterPause
  <2> SUFFICES ASSUME IInv, AllLagging, NEW a \in Address,
                      answer[a] = 429, asked[a][Len(asked[a])] - awake[a] < Minute
               PROVE  /\ Len(asked[a]) > PerMin
                      /\ asked[a][Len(asked[a])] - asked[a][Len(asked[a]) - PerMin] < Minute
    BY DEF TruthfulAfterPause
  <2> DEFINE n == Len(asked[a])
             m == Len(served[a])
  <2>1. /\ n \in Nat /\ m \in Nat /\ awake[a] \in Nat
        /\ \A i \in 1 .. n : asked[a][i] \in Nat
        /\ \A i \in 1 .. m : served[a][i] \in Nat
    BY LimiterAssumption DEF IInv, TypeOK, Time
  <2>2. m >= PerMin /\ served[a][m - PerMin + 1] >= awake[a]
    BY DeservedBurst DEF RefusedAfterBurst
  <2>3. m < n /\ \A k \in 1 .. m : asked[a][n - k] >= served[a][m - k + 1]
    BY DEF AllLagging, Lagging, RefusedAfter
  <2>4. Minute \in Nat
    BY LimiterAssumption
  <2> HIDE DEF n, m
  <2>5. PerMin \in 1 .. m /\ n - PerMin \in 1 .. n /\ m - PerMin + 1 \in 1 .. m /\ n \in 1 .. n
    BY <2>1, <2>2, <2>3, PerMinIsPositive
  <2>6. asked[a][n - PerMin] >= awake[a]
    BY <2>1, <2>2, <2>3, <2>5
  <2>7. asked[a][n] - awake[a] < Minute
    BY DEF n
  <2> DEFINE first == asked[a][n - PerMin]
             last == asked[a][n]
             woken == awake[a]
  <2>8. last - first < Minute
    <3>1. first \in Nat /\ last \in Nat /\ woken \in Nat
      BY <2>1, <2>5
    <3>2. first >= woken /\ last - woken < Minute
      BY <2>6, <2>7
    <3> HIDE DEF first, last, woken
    <3> QED
      BY <2>4, <3>1, <3>2
  <2> QED
    BY <2>1, <2>3, <2>5, <2>8 DEF n
<1>2. IInv /\ AllLagging /\ [Next]_vars => AllLagging'
  BY LaggingStep DEF IInv
<1> QED
  BY <1>1, <1>2, LaggingInit, Inductive, PTL DEF Spec
=============================================================================
