------------------------------- MODULE Decimal -------------------------------
(* Decimal floating point in src/float_format.c: binary64_parse_decimal()    *)
(* and binary64_format().                                                    *)
EXTENDS Integers, Sequences, FiniteSets, FiniteSetsExt, SequencesExt

CONSTANTS Modulus,          \* 2^64, the numbers a uint64_t tells apart
          ExponentModulus   \* 2^32, those of an int32_t

(* The characters that mean something: the digits, and those below; letters  *)
(* of either case.                                                           *)
Digit == 0..9
DOT == 10
E == 11
PLUS == 12
MINUS == 13
N == 14
A == 15
I == 16
F == 17
T == 18
Y == 19
STOP == 20

Uint(x) == x % Modulus
Signed(x, modulus) ==
  IF x % modulus >= modulus \div 2 THEN (x % modulus) - modulus ELSE x % modulus
MAX == Modulus - 1

At(s, p) == IF p <= Len(s) THEN s[p] ELSE STOP
Skip(s, p, chars) == Min({q \in p..Len(s) + 1 : At(s, q) \notin chars})
------------------------------------------------------------------------------
(* parse_big_unsigned() carries from the integral part to the fraction where *)
(* it started, the number and its magnitude, the zeros that are held back    *)
(* and whether the number is exact; it is full once those do not fit in.     *)
NULL == 0
Big == [start |-> NULL, n |-> 0, magnitude |-> 0, trailing_zeros |-> 0,
        exact |-> TRUE, full |-> FALSE]

Fitting(big) ==
  Max({k \in 0..big.trailing_zeros : k = 0 \/ big.n * 10 ^ (k - 1) <= MAX \div 10})
Filled(big, zeros) ==
  [big EXCEPT !.n = @ * 10 ^ zeros, !.magnitude = @ + zeros, !.trailing_zeros = @ - zeros]
FillZeros(big) == Filled(big, Fitting(big))

AddsUpTo(n, digit) == n <= MAX \div 10
AddsUp(n, digit) == n <= MAX \div 10 /\ Uint(10 * n + digit) >= Uint(10 * n)
Rounded(big, digit) ==
  IF digit < 5 THEN big
  ELSE IF big.n < MAX THEN [big EXCEPT !.n = @ + 1]
  ELSE [big EXCEPT !.n = (@ \div 10) + 1, !.magnitude = @ - 1]

AddDigit(big, digit) ==
  IF big.trailing_zeros > 0 THEN [big EXCEPT !.full = TRUE]
  ELSE IF AddsUp(big.n, digit) THEN [big EXCEPT !.n = Uint(10 * @ + digit), !.magnitude = @ + 1]
  ELSE [Rounded(big, digit) EXCEPT !.exact = FALSE]
DigitStep(big, digit) ==
  IF ~big.exact \/ big.full THEN big
  ELSE IF digit = 0 THEN [big EXCEPT !.trailing_zeros = @ + 1]
  ELSE AddDigit(FillZeros(big), digit)

Digits(s, from, big) == FoldLeft(DigitStep, big, SubSeq(s, from, Skip(s, from, Digit) - 1))

StartAt(big, first) ==
  [big EXCEPT !.start = IF @ = NULL THEN first ELSE @, !.full = FALSE]
DigitsFrom(s, first, big) == Digits(s, first, StartAt(big, first))
parse_big_unsigned(s, p, big) ==
  IF At(s, p) \notin Digit THEN [p |-> NULL, big |-> big]
  ELSE [p |-> Skip(s, p, Digit),
        big |-> DigitsFrom(s, IF big.n = 0 THEN Skip(s, p, {0}) ELSE p, big)]

(* The place where the significand ends; its digits; and its exponent, which *)
(* is not set for zero. A buffer has fewer characters than an int32_t tells  *)
(* apart.                                                                    *)
WithExponent(number, exponent) ==
  number @@ [exponent |-> IF number.p = NULL \/ number.big.n = 0 THEN 0 ELSE exponent]
WithFraction(integral_magnitude, fraction) ==
  WithExponent(fraction, IF integral_magnitude # 0 THEN integral_magnitude - fraction.big.magnitude
                         ELSE -(fraction.p - fraction.big.start - 1))
AfterIntegral(s, integral) ==
  IF integral.p = NULL \/ At(s, integral.p) # DOT
  THEN WithExponent(integral, integral.p - integral.big.start - integral.big.magnitude)
  ELSE WithFraction(integral.big.magnitude + integral.big.trailing_zeros,
                    parse_big_unsigned(s, integral.p + 1, integral.big))
parse_significand(s, p) == AfterIntegral(s, parse_big_unsigned(s, p, Big))
------------------------------------------------------------------------------
(* The two exponents are added or subtracted as 64-bit numbers, and the      *)
(* result has to be an int32_t.                                              *)
Answer(p, type, significand, exponent, errno) ==
  [count |-> p - 1, type |-> type, significand |-> significand, exponent |-> exponent,
   errno |-> errno]
Illegal == Answer(NULL, "none", 0, 0, "EILSEQ")
Zero(p) == Answer(p, "zero", 0, 0, "OK")
OutOfRange(p, negative) == Answer(p, IF negative THEN "zero" ELSE "infinity", 0, 0, "ERANGE")

Combined(exponent, by, negative) ==
  Signed(IF negative THEN exponent - by ELSE exponent + by, Modulus)
Scaled(p, significand, e, negative) ==
  IF Signed(e, ExponentModulus) = e THEN Answer(p, "normal", significand, e, "OK")
  ELSE OutOfRange(p, negative)
Raised(p, number, by, negative) ==
  IF number.big.n = 0 THEN Zero(p)
  ELSE IF ~by.exact \/ by.trailing_zeros > 0 THEN OutOfRange(p, negative)
  ELSE Scaled(p, number.big.n, Combined(number.exponent, by.n, negative), negative)
ExponentAt(s, number, exponent) ==
  IF exponent.p = NULL THEN Illegal
  ELSE Raised(exponent.p, number, FillZeros(exponent.big), At(s, number.p + 1) = MINUS)
Past(s, p, chars) == IF At(s, p) \in chars THEN p + 1 ELSE p
AfterSignificand(s, number) ==
  IF number.p = NULL THEN Illegal
  ELSE IF At(s, number.p) = E
       THEN ExponentAt(s, number,
                       parse_big_unsigned(s, Past(s, number.p + 1, {PLUS, MINUS}), Big))
  ELSE IF number.big.n = 0 THEN Zero(number.p)
  ELSE Answer(number.p, "normal", number.big.n, number.exponent, "OK")
parse_normal(s, number) == AfterSignificand(s, number) @@ [exact |-> number.big.exact]

(* How far the characters from p on are those of the word.                   *)
Matching(s, p, word) ==
  Max({k \in 0..Len(word) : \A m \in 1..k : At(s, p + m - 1) = word[m]})
NAN == <<N, A, N>>
INFINITY == <<I, N, F, I, N, I, T, Y>>
parse_nan(s, p) ==
  IF Matching(s, p, NAN) < 3 THEN Illegal ELSE Answer(p + 3, "nan", 0, 0, "OK")
parse_infinity(s, p) ==
  IF Matching(s, p, INFINITY) < 3 THEN Illegal
  ELSE Answer(IF Matching(s, p, INFINITY) = 8 THEN p + 8 ELSE p + 3, "infinity", 0, 0, "OK")

parse_unsigned(s, p) ==
  CASE At(s, p) = N -> parse_nan(s, p) @@ [exact |-> TRUE]
    [] At(s, p) = I -> parse_infinity(s, p) @@ [exact |-> TRUE]
    [] At(s, p) \notin {N, I} -> parse_normal(s, parse_significand(s, p))
parse_decimal(s) == parse_unsigned(s, Past(s, 1, {PLUS, MINUS})) @@ [negative |-> At(s, 1) = MINUS]
------------------------------------------------------------------------------
(* The digits of a positive number, the last count of them.                  *)
emit_integer(n, count) == [k \in 1..count |-> (n \div 10 ^ (count - k)) % 10]
floor_log2(n) == Max({k \in 0..30 : 2 ^ k <= n})

(* DECIMAL_BOUNDARIES: how many digits numbers of that many bits have below  *)
(* the cutoff.                                                               *)
Lower(slot) == Max({d \in 0..9 : 10 ^ d <= 2 ^ (slot + 1) - 1})
DigitsBelow(n) == Max({1, Lower(floor_log2(n))})
decimal_digits(n) == Lower(floor_log2(n)) + (IF n >= 10 ^ Lower(floor_log2(n)) THEN 1 ELSE 0)

Zeros(count) == [k \in 1..count |-> 0]
ExponentDigits(e) == IF e < 100 THEN emit_integer(e, 2)
                     ELSE IF e < 1000 THEN emit_integer(e, 3) ELSE emit_integer(e, 4)
Magnitude(exp) == IF exp < 0 THEN -exp ELSE exp

format_normal(dec) ==
  LET size == decimal_digits(dec.significand)
      digits == emit_integer(dec.significand, size)
      magnitude == size + dec.exponent
      exp == magnitude - 1
  IN  (IF dec.negative THEN <<MINUS>> ELSE <<>>) \o
      (IF magnitude \in -5..10
       THEN IF magnitude >= 1
            THEN IF dec.exponent >= 0 THEN digits \o Zeros(dec.exponent)
                 ELSE SubSeq(digits, 1, magnitude) \o <<DOT>> \o SubSeq(digits, magnitude + 1, size)
            ELSE <<0, DOT>> \o Zeros(-magnitude) \o digits
       ELSE <<digits[1], DOT>> \o SubSeq(digits, 2, size)
            \o <<E, IF exp >= 0 THEN PLUS ELSE MINUS>> \o ExponentDigits(Magnitude(exp)))
------------------------------------------------------------------------------
(* A number as it is written: a sign, digits, perhaps a fraction and perhaps *)
(* an exponent; the value is Mantissa * 10 ^ (Exponent10 - FractionDigits).  *)
First(s) == Past(s, 1, {PLUS, MINUS})
IntegralEnd(s) == Skip(s, First(s), Digit)
FractionEnd(s) == IF At(s, IntegralEnd(s)) = DOT THEN Skip(s, IntegralEnd(s) + 1, Digit)
                  ELSE IntegralEnd(s)
FractionDigits(s) == IF At(s, IntegralEnd(s)) = DOT THEN FractionEnd(s) - IntegralEnd(s) - 1 ELSE 0
HasExponent(s) == At(s, FractionEnd(s)) = E
ExponentStart(s) == Past(s, FractionEnd(s) + 1, {PLUS, MINUS})
NumeralEnd(s) == IF HasExponent(s) THEN Skip(s, ExponentStart(s), Digit) ELSE FractionEnd(s)

IsNumeral(s) ==
  /\ IntegralEnd(s) > First(s)
  /\ At(s, IntegralEnd(s)) = DOT => FractionDigits(s) > 0
  /\ HasExponent(s) => NumeralEnd(s) > ExponentStart(s)

DigitsValue(digits) == FoldLeft(LAMBDA n, d : IF d \in Digit THEN 10 * n + d ELSE n, 0, digits)
Integral10(s) == DigitsValue(SubSeq(s, First(s), IntegralEnd(s) - 1))
Mantissa(s) == DigitsValue(SubSeq(s, First(s), FractionEnd(s) - 1))
Exponent10(s) ==
  IF ~HasExponent(s) THEN 0
  ELSE LET x == DigitsValue(SubSeq(s, ExponentStart(s), NumeralEnd(s) - 1))
       IN  IF At(s, FractionEnd(s) + 1) = MINUS THEN -x ELSE x

(* Trailing zeros of a number; n * 10^e is m * 10^d, or as near to it as     *)
(* half a unit of n where m is beyond MAX.                                   *)
Zeros10(n) == IF n = 0 THEN 0 ELSE Max({k \in 0..9 : n % 10 ^ k = 0})
Bare(n) == n \div 10 ^ Zeros10(n)
SameNumber(n, e, m, d) == Bare(n) = Bare(m) /\ e + Zeros10(n) = d + Zeros10(m)
Distance(a, b) == IF a < b THEN b - a ELSE a - b
Represents(n, e, m, d) ==
  IF Bare(m) <= MAX THEN SameNumber(n, e, m, d)
  ELSE e - d \in 0..4 /\ 2 * Distance(n * 10 ^ (e - d), m) <= 10 ^ (e - d)
==============================================================================
