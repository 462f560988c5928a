------------------------------ MODULE Binary64 ------------------------------
(* Binary floating point: src/float.c, and the conversions to and from       *)
(* decimal of src/float_format.c. The products that the code takes from its  *)
(* tables of powers of 5, cut off at the bits it shifts out, are exact here. *)
EXTENDS Decimal

CONSTANTS MANTISSA_BITS, EXPONENT_BITS,     \* 52 and 11
          LeastExponent, GreatestExponent,  \* -324 and 308
          IntegerBits                       \* 64, the width of a long long

Hidden == 2 ^ MANTISSA_BITS
BIAS == 2 ^ (EXPONENT_BITS - 1) - 1
Special == 2 ^ EXPONENT_BITS - 1
SignBit == 2 ^ (MANTISSA_BITS + EXPONENT_BITS)
Value == 0..2 * SignBit - 1

INF == Special * Hidden
NAN_BITS == INF + Hidden \div 2
Signed64(negative, bits) == IF negative THEN SignBit + bits ELSE bits

ieee64_breakup(value) ==
  LET exponent == (value \div Hidden) % (Special + 1)
      significand == value % Hidden
  IN  [negative |-> value >= SignBit, exponent |-> exponent, significand |-> significand,
       type |-> IF exponent = Special THEN IF significand # 0 THEN "nan" ELSE "infinity"
                ELSE IF exponent # 0 \/ significand # 0 THEN "normal" ELSE "zero"]
------------------------------------------------------------------------------
Fails == [ok |-> FALSE, n |-> 0]
Cast(n) == [ok |-> TRUE, n |-> n]

(* A magnitude whose bits behind the binary point are masked.                *)
AnyFraction(v, exp) == TRUE
NoFraction(v, exp) ==
  exp >= MANTISSA_BITS \/ v.significand % 2 ^ (MANTISSA_BITS - exp) = 0
Integral(v, exp) ==
  IF ~NoFraction(v, exp) THEN Fails
  ELSE IF exp >= MANTISSA_BITS THEN Cast((Hidden + v.significand) * 2 ^ (exp - MANTISSA_BITS))
  ELSE Cast((Hidden + v.significand) \div 2 ^ (MANTISSA_BITS - exp))

MostNegative == SignBit + (BIAS + IntegerBits - 1) * Hidden
binary64_to_integer(value) ==
  LET v == ieee64_breakup(value)
      exp == v.exponent - BIAS
  IN  IF value % SignBit = 0 THEN Cast(0)
      ELSE IF value = MostNegative THEN Cast(-(2 ^ (IntegerBits - 1)))
      ELSE IF exp \notin 0..IntegerBits - 2 THEN Fails
      ELSE [Integral(v, exp) EXCEPT !.n = IF v.negative THEN -@ ELSE @]

binary64_to_unsigned(value) ==
  LET v == ieee64_breakup(value)
      exp == v.exponent - BIAS
  IN  IF value % SignBit = 0 THEN Cast(0)
      ELSE IF v.negative \/ exp \notin 0..IntegerBits - 1 THEN Fails
      ELSE Integral(v, exp)
------------------------------------------------------------------------------
log2pow5(e) == (e * 1217359) \div 2 ^ 19
ceil_log2pow5(e) == log2pow5(e) + 1
log10Pow2(e) == (e * 78913) \div 2 ^ 18
log10Pow5(e) == (e * 732923) \div 2 ^ 20

(* The powers of ten of numbers that have less than ten digits, as all have  *)
(* in small formats.                                                         *)
Powers == 0..8

(* Trailing zeros are stripped, for which there is a decimal exponent.       *)
Stripped(significand) ==
  LET zeros == Max({k \in Powers : significand % 10 ^ k = 0})
  IN  [significand |-> significand \div 10 ^ zeros, exponent |-> zeros]

(* Digits are removed from the value and the ends of the interval around it  *)
(* while these differ, and then, if the lower end belongs to the interval    *)
(* and its digits so far were zeros, as long as they are.                    *)
Differing(vp, vm) ==
  Min({k \in Powers : vp \div 10 ^ (k + 1) <= vm \div 10 ^ (k + 1)})
TrailingZeros(v) == Max({k \in Powers : v % 10 ^ k = 0})
ZerosAbove(v, removed) == removed = 0 \/ v % 10 ^ (removed - 1) = 0
LastRemoved(v, removed) == IF removed = 0 THEN 0 ELSE (v \div 10 ^ (removed - 1)) % 10

RoundsUp(vrIsTrailingZeros, last, vr) ==
  last >= 5 /\ ~(vrIsTrailingZeros /\ last = 5 /\ vr % 2 = 0)

Shortened(vr, vp, vm, vrZeros, vmZeros, acceptBounds) ==
  LET differing == Differing(vp, vm)
      lower == vmZeros /\ vm % 10 ^ differing = 0
      removed == IF lower THEN TrailingZeros(vm) ELSE differing
      r == vr \div 10 ^ removed
      up == \/ r = vm \div 10 ^ removed /\ ~(acceptBounds /\ lower)
            \/ RoundsUp(vrZeros /\ ZerosAbove(vr, removed), LastRemoved(vr, removed), r)
  IN  [significand |-> IF up THEN r + 1 ELSE r, exponent |-> removed]

(* m * 2^e2 / 10^q, cut off.                                                 *)
mulShiftAll64(m, e2, q) ==
  IF e2 >= 0 THEN (m * 2 ^ (e2 - q)) \div 5 ^ q ELSE (m * 5 ^ (-e2 - q)) \div 2 ^ q

(* The interval of the numbers that round to the value is vm..vp, scaled by  *)
(* a power of ten so that its ends are integers or cut off to such.          *)
ryu_decode(ieee) ==
  LET e2 == Max({ieee.exponent, 1}) - BIAS - MANTISSA_BITS - 2
      m2 == ieee.significand + (IF ieee.exponent = 0 THEN 0 ELSE Hidden)
      even == m2 % 2 = 0
      mv == 4 * m2
      lowest == mv - (IF ieee.significand # 0 \/ ieee.exponent <= 1 THEN 2 ELSE 1)
      q == IF e2 >= 0 THEN log10Pow2(e2) - (IF e2 > 3 THEN 1 ELSE 0)
           ELSE log10Pow5(-e2) - (IF e2 < -1 THEN 1 ELSE 0)
      scaled(m) == mulShiftAll64(m, e2, q)
      divides(m) == m % (IF e2 >= 0 THEN 5 ^ q ELSE 2 ^ q) = 0
      vrZeros == IF e2 >= 0 THEN mv % 5 = 0 /\ divides(mv) ELSE q <= 1 \/ divides(mv)
      vmZeros == /\ even
                 /\ IF e2 >= 0 THEN mv % 5 # 0 /\ divides(lowest) ELSE q <= 1 /\ lowest = mv - 2
      closes == /\ ~even
                /\ IF e2 >= 0 THEN mv % 5 # 0 /\ divides(mv + 2) ELSE q <= 1
      digits == Shortened(scaled(mv), scaled(mv + 2) - (IF closes THEN 1 ELSE 0),
                          scaled(lowest), vrZeros, vmZeros, even)
  IN  [digits EXCEPT !.exponent = @ + q + (IF e2 >= 0 THEN 0 ELSE e2)]

(* Integers of the width of a mantissa have their own digits.                *)
IsSmallInteger(ieee) ==
  LET e2 == BIAS + MANTISSA_BITS - ieee.exponent
  IN  e2 \in 0..MANTISSA_BITS /\ (Hidden + ieee.significand) % 2 ^ e2 = 0
binary64_to_decimal(value) ==
  LET ieee == ieee64_breakup(value)
      e2 == BIAS + MANTISSA_BITS - ieee.exponent
  IN  [type |-> ieee.type, negative |-> ieee.negative] @@
      (IF ieee.type # "normal" THEN [significand |-> 0, exponent |-> 0]
       ELSE IF IsSmallInteger(ieee) THEN Stripped((Hidden + ieee.significand) \div 2 ^ e2)
       ELSE ryu_decode(ieee))
------------------------------------------------------------------------------
(* Up to three digits are rounded off a significand that is too long.        *)
ryu_overflow == 2 ^ (MANTISSA_BITS + 4)
Excess(significand) ==
  IF significand < ryu_overflow THEN 0
  ELSE IF significand >= ryu_overflow * 100 THEN 3
  ELSE IF significand >= ryu_overflow * 10 THEN 2 ELSE 1
scale_back(dec) ==
  LET k == Excess(dec.significand)
      up == dec.significand % 10 ^ k >= (10 ^ k) \div 2
  IN  IF k = 0 THEN dec
      ELSE [dec EXCEPT !.significand = @ \div 10 ^ k + (IF up THEN 1 ELSE 0), !.exponent = @ + k]

(* x * 2^k, cut off.                                                         *)
Shift(x, k) == IF k >= 0 THEN x * 2 ^ k ELSE x \div 2 ^ (-k)
Divisible(x, k) == k <= 0 \/ x % 2 ^ k = 0

RoundsAwayAlways(last, zeros, even) == last
RoundsAway(last, zeros, even) == last /\ (~zeros \/ ~even)

ryu_encode(dec) ==
  LET e == dec.exponent
      top == floor_log2(dec.significand) + e - (MANTISSA_BITS + 1)
      e2 == IF e >= 0 THEN top + log2pow5(e) ELSE top - ceil_log2pow5(-e)
      m2 == IF e >= 0 THEN Shift(dec.significand * 5 ^ e, e - e2)
            ELSE Shift(dec.significand, e - e2) \div 5 ^ (-e)
      divides == IF e >= 0 THEN Divisible(dec.significand, e2 - e)
                 ELSE dec.significand % 5 ^ (-e) = 0
      ieee_e2 == Max({0, e2 + BIAS + floor_log2(m2)})
      shift == Max({ieee_e2, 1}) - e2 - BIAS - MANTISSA_BITS
      roundUp == RoundsAway((m2 \div 2 ^ (shift - 1)) % 2 = 1,
                            divides /\ m2 % 2 ^ (shift - 1) = 0, (m2 \div 2 ^ shift) % 2 = 0)
      ieee_m2 == (m2 \div 2 ^ shift + (IF roundUp THEN 1 ELSE 0)) % Hidden
      carry == IF ieee_m2 = 0 /\ roundUp THEN 1 ELSE 0
  IN  IF ieee_e2 >= Special THEN Fails
      ELSE [ok |-> TRUE, n |-> Signed64(dec.negative, (ieee_e2 + carry) * Hidden + ieee_m2)]

binary64_from_decimal(dec) ==
  LET dec2 == scale_back(dec)
      encoded == ryu_encode(dec2)
      Too(bits) == [ok |-> FALSE, value |-> Signed64(dec.negative, bits)]
  IN  CASE dec.type = "nan" -> [ok |-> TRUE, value |-> Signed64(dec.negative, NAN_BITS)]
        [] dec.type = "infinity" -> [ok |-> TRUE, value |-> Signed64(dec.negative, INF)]
        [] dec.type = "zero" -> [ok |-> TRUE, value |-> Signed64(dec.negative, 0)]
        [] dec.type = "normal" ->
             IF dec2.exponent < LeastExponent THEN Too(0)
             ELSE IF dec2.exponent > GreatestExponent \/ ~encoded.ok THEN Too(INF)
             ELSE [ok |-> encoded.n # 0, value |-> encoded.n]

binary64_from_string(s) ==
  LET dec == parse_decimal(s)
      converted == binary64_from_decimal(dec)
  IN  IF dec.count < 0 THEN [count |-> -1, value |-> 0, errno |-> "EILSEQ"]
      ELSE [count |-> dec.count, value |-> converted.value,
            errno |-> IF converted.ok THEN dec.errno ELSE "ERANGE"]

special_value_names(type, negative) ==
  (IF negative THEN <<MINUS>> ELSE <<>>) \o
  (CASE type = "nan" -> NAN
     [] type = "infinity" -> INFINITY
     [] type = "zero" -> IF negative THEN <<0, DOT, 0>> ELSE <<0>>)
binary64_format(value) ==
  LET dec == binary64_to_decimal(value)
  IN  IF dec.type = "normal" THEN format_normal(dec)
      ELSE special_value_names(dec.type, dec.negative)
------------------------------------------------------------------------------
(* Magnitudes in the order of their bits, and the numbers that they stand    *)
(* for: m * 2^k. A number s * 10^e is compared to one of those: less, equal  *)
(* or greater by the sign.                                                   *)
Significand(n) == IF n < Hidden THEN n ELSE Hidden + (n % Hidden)
Exponent(n) == Max({n \div Hidden, 1}) - BIAS - MANTISSA_BITS
Compared(s, e, m, k) ==
  LET twos == IF e - k >= 0 THEN <<s * 2 ^ (e - k), m>> ELSE <<s, m * 2 ^ (k - e)>>
  IN  IF e >= 0 THEN twos[1] * 5 ^ e - twos[2] ELSE twos[1] - twos[2] * 5 ^ (-e)

(* The numbers between which a magnitude is the nearest one, those in the    *)
(* middle belonging to the even one.                                         *)
AboveMiddle(s, e, n) ==
  LET d == Compared(s, e, 2 * Significand(n) + 1, Exponent(n) - 1)
  IN  d > 0 \/ (d = 0 /\ n % 2 = 1)
RoundsTo(s, e, n) ==
  /\ n = 0 \/ AboveMiddle(s, e, n - 1)
  /\ n = INF \/ ~AboveMiddle(s, e, n)

(* The integer that a value is, if it is one.                                *)
IsInteger(n) == Significand(n) % 2 ^ Max({0, Min({MANTISSA_BITS + 1, -Exponent(n)})}) = 0
                /\ (Exponent(n) < -MANTISSA_BITS => n = 0)
IntegerOf(n) == Shift(Significand(n), Exponent(n))
==============================================================================
