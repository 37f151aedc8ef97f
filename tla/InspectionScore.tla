--------------------------- MODULE InspectionScore ---------------------------
(***************************************************************************)
(* The score of an executed inspection,                                    *)
(*                                                                         *)
(*     score = int(float64(passed) / float64(total) * 100)                 *)
(*                                                                         *)
(* with its two roundings: of the quotient and of the product, each to the *)
(* nearest floating-point number, the even one of two as near.  A number   *)
(* is m / S with an integer significand m of at least Significand, and at  *)
(* most twice that, over a power of two.  Significand is 2^52 for the      *)
(* doubles of the code, and any precision else.                            *)
(***************************************************************************)
EXTENDS Integers

CONSTANT Significand

ASSUME ScoreAssumption == Significand \in Nat \ {0} /\ Significand % 128 = 0

(* As many powers of two as totals of up to a million need.                *)
PowersOfTwo == {1, 2, 4, 8, 16, 32, 64, 128, 256, 512, 1024, 2048, 4096, 8192,
                16384, 32768, 65536, 131072, 262144, 524288, 1048576}

(* The totals whose scores this module is about.                           *)
InRange(total) == total <= 1048576 /\ 128 * total <= Significand

(* The percentage rounded down, in exact arithmetic.                       *)
ExactScore(passed, total) ==
    IF total = 0 THEN 0 ELSE (100 * passed) \div total

(* The integer nearest to x / y, the even one of two.                      *)
Nearest(x, y) ==
    IF \/ 2 * (x % y) < y
       \/ 2 * (x % y) = y /\ (x \div y) % 2 = 0
    THEN x \div y
    ELSE x \div y + 1

(* Brings passed / total to the significands: passed * e / total is at     *)
(* least 1 and less than 2.  Any power serves for 0.                       *)
Normalizes(e, passed, total) ==
    passed = 0 \/ (total <= passed * e /\ passed * e < 2 * total)

Power(passed, total) ==
    CHOOSE e \in PowersOfTwo :
        \/ Normalizes(e, passed, total)
        \/ \A d \in PowersOfTwo : ~Normalizes(d, passed, total)

(* The denominator of the quotient as a floating-point number.             *)
Denominator(passed, total) == Significand * Power(passed, total)

(* passed / total is about Quotient(passed, total) / Denominator.          *)
Quotient(passed, total) == Nearest(passed * Denominator(passed, total), total)

(* 100 * m has 6 or 7 bits more than the significand holds.                *)
Excess(m) == IF 100 * m < 128 * Significand THEN 64 ELSE 128

(* 100 * m over the denominator of m, as a floating-point number.          *)
Percent(m) == Nearest(100 * m, Excess(m)) * Excess(m)

(* Mutant: rounds to the nearest percent. *)
ScoreRounded(passed, total) ==
    IF total = 0 THEN 0 ELSE (200 * passed + total) \div (2 * total)

(* Mutant: the conversions to float64 are forgotten. *)
ScoreOfInts(passed, total) == IF total = 0 THEN 0 ELSE (passed \div total) * 100

(* Mutant: every passed item weighs a whole number of points. *)
ScoreByWeight(passed, total) ==
    IF total = 0 THEN 0 ELSE passed * (100 \div total)

Score(passed, total) ==
    IF total = 0 THEN 0
    ELSE Percent(Quotient(passed, total)) \div Denominator(passed, total)
=============================================================================
