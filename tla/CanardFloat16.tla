---------------------------- MODULE CanardFloat16 ----------------------------
(***************************************************************************)
(* canardConvertNativeFloatToFloat16 and canardConvertFloat16ToNativeFloat.  A     *)
(* native float is its 32-bit word without the sign bit, which both functions     *)
(* carry over: 8 bits of exponent over 23 of significand.                       *)
(***************************************************************************)
EXTENDS Integers

Exponent(u) == u \div 2^23
Significand(u) == u % 2^23
Infinity32 == 255 * 2^23
Infinity16 == 31 * 2^23
FiniteHalves == 0 .. 31 * 2^10 - 1

(* The product of a finite float with a power of two, 2^-112 and 2^112.  The first  *)
(* may be denormal: it is rounded to the nearest, of two to the even one.        *)
RoundedQuotient(n, k) ==
    LET q == n \div 2^k
        rest == n % 2^k
    IN  IF 2 * rest > 2^k \/ (2 * rest = 2^k /\ q % 2 = 1) THEN q + 1 ELSE q

TimesTwoToMinus112(u) ==
    LET e == Exponent(u)
        whole == IF e = 0 THEN Significand(u) ELSE Significand(u) + 2^23
        shift == 113 - (IF e = 0 THEN 1 ELSE e)
    IN  IF e > 112 THEN u - 112 * 2^23
        ELSE IF shift > 25 THEN 0
        ELSE RoundedQuotient(whole, shift)

(* The float m * 2^(e - 149), for m below 2^24. *)
Scaled(m, e) ==
    IF m = 0 THEN 0
    ELSE LET k == CHOOSE i \in 0 .. 23 : 2^i <= m /\ m < 2^(i + 1)
         IN  (k + e - 22) * 2^23 + (m - 2^k) * 2^(23 - k)

TimesTwoTo112(u) ==
    IF Exponent(u) = 0 THEN Scaled(Significand(u), 112) ELSE u + 112 * 2^23

(* Seeded defect: the bits below the significand of the result are cut off. *)
canardConvertNativeFloatToFloat16_Cuts(u) ==
    IF u >= Infinity32 THEN IF u > Infinity32 THEN 32767 ELSE 31744
    ELSE LET scaled == TimesTwoToMinus112(u - (u % 4096))
         IN  (IF scaled > Infinity16 THEN Infinity16 ELSE scaled) \div 2^13

(* The lowest 12 bits are cleared, and half a unit of the result is added.         *)
canardConvertNativeFloatToFloat16(u) ==
    IF u >= Infinity32 THEN IF u > Infinity32 THEN 32767 ELSE 31744
    ELSE LET scaled == TimesTwoToMinus112(u - (u % 4096)) + 4096
         IN  (IF scaled > Infinity16 THEN Infinity16 ELSE scaled) \div 2^13

canardConvertFloat16ToNativeFloat(h) ==
    LET u == TimesTwoTo112(h * 2^13)
    IN  IF u >= (127 + 16) * 2^23 THEN Infinity32 + Significand(u) ELSE u

(* The float half-way between the finite half-precision numbers h and h + 1. *)
Midpoint(h) ==
    IF h < 1024 THEN Scaled(2 * h + 1, 124)
    ELSE canardConvertFloat16ToNativeFloat(h) + 4096
=============================================================================
