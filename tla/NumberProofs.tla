----------------------------- MODULE NumberProofs -----------------------------
(* Numbers taken apart by division. In CharstrInteger, into digits:          *)
(* charstr_to_unsigned() and charstr_to_integer() read numbers of any length *)
(* in any base, and flag exactly those that the width cannot express. In     *)
(* IntSet, into a word and a bit: the bits of the words are the set's        *)
(* members, and a search by words finds what a search by numbers would, for  *)
(* words of any width. In Date, into years, days and seconds: epoch_to_utc() *)
(* keeps the calendar for every epoch from 1970 on.                          *)
EXTENDS CharstrInteger, IntSet, Date, Lemmas, SequenceTheorems

(* The two comparisons of to_unsigned(), on a number that still fits: they   *)
(* find that the next one does not.                                          *)
LEMMA Detected ==
  ASSUME NEW M \in Nat, M >= 256, NEW b \in 2..16, NEW d \in 0..b - 1, NEW old \in 0..M - 1
  PROVE  b * old + d >= M
           <=> old > ((M - 1) \div b) \/ ((b * old + d) % M) < old
<1> DEFINE x == b * old + d
<1>1. x \in Nat /\ x >= old
  OBVIOUS
<1>2. old > ((M - 1) \div b) <=> b * old >= M
  <2>1. M - 1 = b * ((M - 1) \div b) + ((M - 1) % b) /\ ((M - 1) % b) \in 0..b - 1
        /\ ((M - 1) \div b) \in Int
    BY Divide
  <2>2. CASE old > ((M - 1) \div b)
    <3>1. old >= ((M - 1) \div b) + 1
      BY <2>1, <2>2
    <3>2. b * old >= b * (((M - 1) \div b) + 1)
      BY <2>1, <3>1
    <3>3. b * (((M - 1) \div b) + 1) = b * ((M - 1) \div b) + b
      BY <2>1
    <3> QED BY <2>1, <2>2, <3>2, <3>3
  <2>3. CASE old <= ((M - 1) \div b)
    <3>1. b * old <= b * ((M - 1) \div b)
      BY <2>1, <2>3
    <3> QED BY <2>1, <2>3, <3>1
  <2> QED BY <2>1, <2>2, <2>3
<1>3. CASE x < M
  <2>1. x = M * 0 + x /\ x \in 0..M - 1
    BY <1>1, <1>3
  <2>2. x % M = x
    BY <2>1, Remainder
  <2>3. b * old < M
    BY <1>3
  <2> QED BY <1>1, <1>2, <1>3, <2>2, <2>3
<1>4. CASE x >= M /\ b * old >= M
  BY <1>2, <1>4
<1>5. CASE x >= M /\ b * old < M
  <2>1. x - M \in 0..d - 1
    BY <1>1, <1>5
  <2>2. x - M \in 0..M - 1 /\ x = M * 1 + (x - M)
    BY <1>1, <2>1
  <2>3. x % M = x - M
    BY <2>2, Remainder
  <2>4. b * old >= 241
    BY <1>5
  <2>5. old > 15
    BY <2>4
  <2> QED BY <1>5, <2>1, <2>3, <2>5
<1> QED BY <1>1, <1>3, <1>4, <1>5
------------------------------------------------------------------------------
Reading == pc = "digits" => Radix \in 2..16 /\ dp >= 1
IInv == IntegerTypeOK /\ OverflowKnown /\ Reading

LEMMA Characters == ASSUME IntegerTypeOK, NEW i \in Nat, i >= 1
                    PROVE  At(i) \in Nat
<1>1. buffer \in Seq(Char) /\ Len(buffer) \in Nat
  BY DEF IntegerTypeOK
<1>2. CASE i \in 1..Len(buffer)
  <2>1. buffer[i] \in Char
    BY <1>1, <1>2
  <2> QED BY <1>2, <2>1 DEF At, Char, STOP
<1>3. CASE i > Len(buffer)
  BY <1>1, <1>3 DEF At, STOP
<1> QED BY <1>1, <1>2, <1>3

LEMMA Constants == /\ Modulus \in Nat /\ Modulus >= 256 /\ Modulus > 0
                   /\ Modulus \div 2 \in Nat /\ Modulus = 2 * (Modulus \div 2)
  BY ModulusAssumption

LEMMA Wraps == ASSUME NEW x \in Int
               PROVE  Wrap(x) \in 0..Modulus - 1
  BY Constants, Divide DEF Wrap

LEMMA ArgsTyped == ASSUME IntegerTypeOK PROVE First \in 1..2 /\ Digits \in 1..4 /\ Radix \in Nat
<1>1. First \in 1..2
  BY DEF First
<1>2. natural_base(First) \in {8, 10, 16}
  BY DEF natural_base
<1> QED BY <1>1, <1>2 DEF Digits, Radix, IntegerTypeOK

LEMMA ValuesTyped == ASSUME NEW u \in 0..Modulus - 1
                     PROVE  AsSigned(u) \in Int /\ ValueOf(u) \in Int
<1>1. \A x \in 0..Modulus - 1 : AsSigned(x) \in Int
  BY Constants DEF AsSigned
<1>2. Wrap(-u) \in 0..Modulus - 1
  BY Wraps, Constants
<1> QED BY <1>1, <1>2 DEF ValueOf

LEMMA TypeStep == ASSUME IntegerTypeOK, Reading, [IntegerNext]_integerVars PROVE IntegerTypeOK'
<1>0. Digits \in Nat /\ 0 \in 0..Modulus - 1 /\ Radix \in Nat
  BY ArgsTyped, Constants
<1> USE DEF IntegerTypeOK
<1>1. CASE RefuseEmpty
  BY <1>1 DEF RefuseEmpty, Return, args, NotSet, Errno
<1>2. CASE RefuseBase
  BY <1>2 DEF RefuseBase, Return, args, NotSet, Errno
<1>3. CASE Begin
  BY <1>3, <1>0 DEF Begin, args
<1>4. CASE ReadDigit
  <2>1. At(dp) \in Nat /\ Radix \in Nat
    BY <1>0, <1>4, Characters DEF ReadDigit, Reading
  <2>2. Radix * n + At(dp) \in Int /\ Radix * exact + At(dp) \in Nat
    BY <2>1
  <2>3. n' \in 0..Modulus - 1 /\ exact' \in Nat
    BY <1>4, <2>2, Wraps DEF ReadDigit
  <2> QED BY <1>4, <2>3 DEF ReadDigit, args
<1>5. CASE RefuseNoDigits
  BY <1>5 DEF RefuseNoDigits, Return, args, NotSet, Errno
<1>6. CASE Finish
  <2>1. ValueOf(n) \in Int /\ dp - 1 \in Int
    BY ValuesTyped
  <2> QED BY <1>6, <2>1 DEF Finish, Return, args, Errno
<1>7. CASE UNCHANGED integerVars
  BY <1>7 DEF integerVars
<1> QED BY <1>1, <1>2, <1>3, <1>4, <1>5, <1>6, <1>7 DEF IntegerNext

LEMMA InitInv == IntegerInit => IInv
<1> SUFFICES ASSUME IntegerInit PROVE IInv
  OBVIOUS
<1>1. IntegerTypeOK
  <2>1. PICK c \in Call : buffer = c[1] /\ base = c[2]
    BY DEF IntegerInit
  <2>2. buffer \in Seq(Char) /\ base \in Nat
    BY <2>1, CallAssumption
  <2>3. 0 \in 0..Modulus - 1
    BY Constants
  <2>4. answer \in [count : Int, value : Int, errno : Errno]
    BY DEF IntegerInit, Errno, NotSet
  <2> QED BY <2>2, <2>3, <2>4 DEF IntegerInit, IntegerTypeOK
<1>2. Modulus * 0 + 0 = 0 /\ 0 \in 0..Modulus - 1
  BY Constants
<1>3. 0 % Modulus = 0
  BY <1>2, Remainder, Constants
<1>4. OverflowKnown
  BY <1>3, Constants DEF IntegerInit, OverflowKnown
<1>5. Reading
  BY DEF IntegerInit, Reading
<1> QED BY <1>1, <1>4, <1>5 DEF IInv

(* A digit more: the remainder follows, and so does the overflow.            *)
LEMMA DigitStep == ASSUME IInv, ReadDigit PROVE OverflowKnown'
<1>1. /\ Radix \in 2..16 /\ n \in 0..Modulus - 1 /\ exact \in Nat /\ overflow \in BOOLEAN
      /\ n = exact % Modulus /\ (overflow <=> exact >= Modulus)
  BY DEF IInv, IntegerTypeOK, OverflowKnown, Reading, ReadDigit
<1>2. At(dp) \in 0..Radix - 1
  <2>1. At(dp) \in Nat
    BY Characters DEF IInv, IntegerTypeOK, Reading, ReadDigit
  <2> QED BY <1>1, <2>1 DEF ReadDigit, IsDigit
<1> DEFINE q == exact \div Modulus
           d == At(dp)
<1>3. exact = Modulus * q + n /\ q \in Int
  BY <1>1, Divide, Constants
<1>4. Radix * exact + d = (Radix * n + d) + Modulus * (Radix * q)
  BY <1>1, <1>2, <1>3, Constants
<1>5. Radix * n + d \in Int /\ Radix * q \in Int
  BY <1>1, <1>2, <1>3
<1>6. (Radix * exact + d) % Modulus = (Radix * n + d) % Modulus
  BY <1>4, <1>5, SameRemainder, Constants, ZenonT(30)
<1>7. n' = exact' % Modulus
  BY <1>6 DEF ReadDigit, Wrap
<1>8. overflow' <=> exact' >= Modulus
  <2>1. CASE overflow
    <3>1. Radix * exact + d >= exact
      BY <1>1, <1>2
    <3>2. exact' >= Modulus
      BY <1>1, <1>2, <2>1, <3>1, Constants DEF ReadDigit
    <3>3. overflow'
      BY <2>1, Zenon DEF ReadDigit
    <3> QED BY <3>2, <3>3
  <2>2. CASE ~overflow
    <3>1. exact \in 0..Modulus - 1 /\ exact = Modulus * 0 + exact
      BY <1>1, <2>2, Constants
    <3>2. n = exact
      BY <1>1, <3>1, Remainder, Constants
    <3>3. Radix * n + d >= Modulus <=> Overflows(n, (Radix * n + d) % Modulus)
      BY <1>1, <1>2, Detected, Constants DEF Overflows, Limit
    <3> QED BY <2>2, <3>2, <3>3 DEF ReadDigit, Wrap
  <2> QED BY <1>1, <2>1, <2>2
<1> QED BY <1>7, <1>8 DEF OverflowKnown

LEMMA SameRadix == ASSUME UNCHANGED args PROVE Radix' = Radix
<1>1. buffer' = buffer /\ base' = base /\ signed' = signed
  BY DEF args
<1> QED BY <1>1, Zenon DEF Radix, natural_base, First, Signs, At

LEMMA InvStep == ASSUME IInv, [IntegerNext]_integerVars PROVE IInv'
<1>1. IntegerTypeOK'
  BY TypeStep DEF IInv
<1>2. CASE RefuseEmpty \/ RefuseBase \/ RefuseNoDigits \/ Finish
  BY <1>1, <1>2 DEF IInv, RefuseEmpty, RefuseBase, RefuseNoDigits, Finish, Return,
                    OverflowKnown, Reading
<1>3. CASE Begin
  <2>1. Modulus * 0 + 0 = 0 /\ 0 \in 0..Modulus - 1
    BY Constants
  <2>2. 0 % Modulus = 0
    BY <2>1, Remainder, Constants
  <2>3. OverflowKnown'
    BY <1>3, <2>2, Constants DEF Begin, OverflowKnown
  <2>4. Radix' = Radix
    BY <1>3, SameRadix DEF Begin
  <2>5. Digits >= 1
    BY ArgsTyped DEF IInv
  <2> QED BY <1>1, <1>3, <2>3, <2>4, <2>5 DEF IInv, Begin, Reading
<1>4. CASE ReadDigit
  <2>1. Radix' = Radix
    BY <1>4, SameRadix DEF ReadDigit
  <2>2. dp \in Nat
    BY DEF IInv, IntegerTypeOK
  <2> QED BY <1>1, <1>4, <2>1, <2>2, DigitStep DEF IInv, ReadDigit, Reading
<1>5. CASE UNCHANGED integerVars
  <2>1. Radix' = Radix
    BY <1>5, SameRadix DEF integerVars, args
  <2> QED BY <1>1, <1>5, <2>1 DEF IInv, integerVars, OverflowKnown, Reading
<1> QED BY <1>2, <1>3, <1>4, <1>5 DEF IntegerNext

LEMMA Invariance == IntegerSpec => []IInv
<1>1. IntegerInit => IInv
  BY InitInv
<1>2. IInv /\ [IntegerNext]_integerVars => IInv'
  BY InvStep
<1> QED BY <1>1, <1>2, PTL DEF IntegerSpec

(* The fields keep to their types, for every buffer and every base: n stays  *)
(* within 64 bits.                                                           *)
THEOREM TypeCorrect == IntegerSpec => []IntegerTypeOK
<1>1. IInv => IntegerTypeOK
  BY DEF IInv
<1> QED BY <1>1, Invariance, PTL

(* to_unsigned() reports an overflow if and only if the number, however long,*)
(* exceeds the width.                                                        *)
THEOREM OverflowCorrect == IntegerSpec => []OverflowKnown
<1>1. IInv => OverflowKnown
  BY DEF IInv
<1> QED BY <1>1, Invariance, PTL
------------------------------------------------------------------------------
LEMMA Multiple == ASSUME NEW k \in Int PROVE (Modulus * k) % Modulus = 0
<1>1. Modulus * k = Modulus * k + 0 /\ 0 \in 0..Modulus - 1
  BY Constants
<1> QED BY <1>1, Constants, Remainder

LEMMA Negation == ASSUME NEW u \in 0..Modulus - 1
                  PROVE  Wrap(-u) = IF u = 0 THEN 0 ELSE Modulus - u
<1>1. CASE u = 0
  <2>1. -u = Modulus * 0
    BY <1>1, Constants
  <2> QED BY <1>1, <2>1, Multiple DEF Wrap
<1>2. CASE u # 0
  <2>1. -u = Modulus * (-1) + (Modulus - u) /\ Modulus - u \in 0..Modulus - 1
    BY <1>2, Constants
  <2> QED BY <1>2, <2>1, Remainder, Constants DEF Wrap
<1> QED BY <1>1, <1>2

(* What a call is about to answer when the digits end.                       *)
LEMMA Answered ==
  ASSUME IInv
  PROVE  /\ ValueOf(n) \in Representable
         /\ (ValueOf(n) - Number) % Modulus = 0
         /\ (overflow \/ OutOfRange(n)) <=> Number \notin Representable
<1> DEFINE H == Modulus \div 2
           q == exact \div Modulus
<1>1. /\ n \in 0..Modulus - 1 /\ exact \in Nat /\ signed \in BOOLEAN
      /\ n = exact % Modulus /\ (overflow <=> exact >= Modulus)
  BY DEF IInv, IntegerTypeOK, OverflowKnown
<1>2. H \in Nat /\ Modulus = 2 * H /\ H >= 128 /\ Modulus \in Nat
  BY Constants
<1>3. exact = Modulus * q + n /\ q \in Int
  BY <1>1, Divide, Constants
<1>4. exact < Modulus => exact = n
  <2> SUFFICES ASSUME exact < Modulus PROVE exact = n
    OBVIOUS
  <2>1. exact = Modulus * 0 + exact /\ exact \in 0..Modulus - 1
    BY <1>1, <1>2
  <2> QED BY <1>1, <2>1, Remainder, Constants
<1> HIDE DEF H, q
<1>5. CASE ~signed
  <2>1. ~Negative
    BY <1>5 DEF Negative, Signs
  <2>2. ValueOf(n) = n /\ Number = exact /\ ~OutOfRange(n) /\ Representable = 0..Modulus - 1
    BY <1>5, <2>1 DEF ValueOf, Number, OutOfRange, Representable
  <2>3. n - exact = Modulus * (-q)
    BY <1>1, <1>2, <1>3
  <2>4. (n - exact) % Modulus = 0
    BY <1>3, <2>3, Multiple
  <2>5. overflow <=> exact \notin 0..Modulus - 1
    BY <1>1, <1>2
  <2> QED BY <1>1, <2>2, <2>4, <2>5
<1>6. CASE signed /\ ~Negative
  <2>1. /\ ValueOf(n) = AsSigned(n) /\ Number = exact
        /\ OutOfRange(n) <=> AsSigned(n) < 0
        /\ Representable = -H..H - 1
    BY <1>6 DEF ValueOf, Number, OutOfRange, Representable, H
  <2>2. AsSigned(n) = IF n >= H THEN n - Modulus ELSE n
    BY DEF AsSigned, H
  <2>3. CASE n >= H
    <3>1. AsSigned(n) - exact = Modulus * (-q - 1)
      BY <1>1, <1>2, <1>3, <2>2, <2>3
    <3>2. (AsSigned(n) - exact) % Modulus = 0
      BY <1>3, <3>1, Multiple
    <3>3. AsSigned(n) \in -H..H - 1 /\ AsSigned(n) < 0
      BY <1>1, <1>2, <2>2, <2>3
    <3>4. exact \notin -H..H - 1
      BY <1>1, <1>2, <1>4, <2>3
    <3> QED BY <2>1, <3>2, <3>3, <3>4
  <2>4. CASE n < H
    <3>1. AsSigned(n) = n /\ n - exact = Modulus * (-q)
      BY <1>1, <1>2, <1>3, <2>2, <2>4
    <3>2. (AsSigned(n) - exact) % Modulus = 0
      BY <1>3, <3>1, Multiple
    <3>3. AsSigned(n) \in -H..H - 1 /\ ~(AsSigned(n) < 0)
      BY <1>1, <1>2, <2>4, <3>1
    <3>4. overflow <=> exact \notin -H..H - 1
      BY <1>1, <1>2, <1>4, <2>4
    <3> QED BY <2>1, <3>2, <3>3, <3>4
  <2> QED BY <1>1, <1>2, <2>3, <2>4
<1>7. CASE signed /\ Negative
  <2> DEFINE u == Wrap(-n)
  <2>1. /\ ValueOf(n) = AsSigned(u) /\ Number = -exact
        /\ OutOfRange(n) <=> AsSigned(u) > 0
        /\ Representable = -H..H - 1
    BY <1>7 DEF ValueOf, Number, OutOfRange, Representable, H
  <2>2. u = IF n = 0 THEN 0 ELSE Modulus - n
    BY <1>1, Negation
  <2>3. AsSigned(u) = IF u >= H THEN u - Modulus ELSE u
    BY DEF AsSigned, H
  <2> HIDE DEF u
  <2>4. CASE n > H
    <3>1. AsSigned(u) = Modulus - n
      BY <1>1, <1>2, <2>2, <2>3, <2>4
    <3>2. (AsSigned(u) - (-exact)) % Modulus = 0
      <4> DEFINE p == Modulus * q
      <4>1. p \in Int /\ Modulus * (q + 1) = p + Modulus
        BY <1>2, <1>3
      <4>2. n \in Int /\ exact = p + n
        BY <1>1, <1>3
      <4> HIDE DEF p
      <4>3. AsSigned(u) - (-exact) = Modulus * (q + 1)
        BY <1>2, <3>1, <4>1, <4>2
      <4> QED BY <1>3, <4>3, Multiple
    <3>3. AsSigned(u) \in -H..H - 1 /\ AsSigned(u) > 0
      BY <1>1, <1>2, <2>4, <3>1
    <3>4. -exact \notin -H..H - 1
      BY <1>1, <1>2, <1>4, <2>4
    <3> QED BY <2>1, <3>2, <3>3, <3>4
  <2>5. CASE n <= H
    <3>1. AsSigned(u) = -n
      BY <1>1, <1>2, <2>2, <2>3, <2>5
    <3>2. AsSigned(u) - (-exact) = Modulus * q
      BY <1>1, <1>2, <1>3, <3>1
    <3>3. (AsSigned(u) - (-exact)) % Modulus = 0
      BY <1>3, <3>2, Multiple
    <3>4. AsSigned(u) \in -H..H - 1 /\ ~(AsSigned(u) > 0)
      BY <1>1, <1>2, <2>5, <3>1
    <3>5. overflow <=> -exact \notin -H..H - 1
      BY <1>1, <1>2, <1>4, <2>5
    <3> QED BY <2>1, <3>3, <3>4, <3>5
  <2> QED BY <1>1, <1>2, <2>4, <2>5
<1> QED BY <1>1, <1>5, <1>6, <1>7

LEMMA SameAnswer ==
  ASSUME AnswersNumber, UNCHANGED <<args, pc, exact, answer>>
  PROVE  AnswersNumber'
<1>1. buffer' = buffer /\ base' = base /\ signed' = signed
  BY DEF args
<1>2. pc' = pc /\ exact' = exact /\ answer' = answer
  OBVIOUS
<1> QED BY <1>1, <1>2, Zenon DEF AnswersNumber, Representable, Number, Negative, Signs, At

LEMMA AnswerStep == ASSUME IInv, AnswersNumber, [IntegerNext]_integerVars PROVE AnswersNumber'
<1>1. CASE Finish
  <2>1. /\ answer'.value = ValueOf(n)
        /\ answer'.errno = IF overflow \/ OutOfRange(n) THEN "ERANGE" ELSE "OK"
    BY <1>1 DEF Finish, Return
  <2>2. buffer' = buffer /\ base' = base /\ signed' = signed /\ exact' = exact
    BY <1>1 DEF Finish, Return, args
  <2>3. Number' = Number /\ Representable' = Representable
    BY <2>2, Zenon DEF Representable, Number, Negative, Signs, At
  <2> QED BY <2>1, <2>3, Answered DEF AnswersNumber
<1>2. CASE RefuseEmpty \/ RefuseBase \/ RefuseNoDigits
  BY <1>2 DEF RefuseEmpty, RefuseBase, RefuseNoDigits, Return, AnswersNumber
<1>3. CASE Begin \/ ReadDigit
  BY <1>3 DEF Begin, ReadDigit, AnswersNumber
<1>4. CASE UNCHANGED integerVars
  BY <1>4, SameAnswer DEF integerVars, args
<1> QED BY <1>1, <1>2, <1>3, <1>4 DEF IntegerNext

(* A number is answered as it is if its type can express it, and otherwise   *)
(* wrapped to its width and reported: negative numbers and the most negative *)
(* one included, for any number of digits in any base.                       *)
THEOREM AnswersCorrect == IntegerSpec => []AnswersNumber
<1>1. IntegerInit => AnswersNumber
  BY DEF IntegerInit, AnswersNumber
<1>2. IInv /\ AnswersNumber /\ [IntegerNext]_integerVars => AnswersNumber'
  BY AnswerStep
<1> QED BY <1>1, <1>2, Invariance, PTL DEF IntegerSpec
------------------------------------------------------------------------------
(* What a string of digits denotes: powers of the base, weighted and added.  *)
LEMMA PowerFacts ==
  ASSUME NEW b \in Nat
  PROVE  Power(b) \in [Nat -> Nat] /\ Power(b)[0] = 1
         /\ \A k \in Nat : Power(b)[k + 1] = b * Power(b)[k]
<1> DEFINE G == [k \in Nat |-> [v \in Nat |-> b * v]]
           Powers(p) == p = [k \in Nat |-> IF k = 0 THEN 1 ELSE b * p[k - 1]]
<1>1. G \in [Nat -> [Nat -> Nat]] /\ 1 \in Nat
  OBVIOUS
<1> HIDE DEF G
<1>2. PICK f : Recursive(f, 1, G)
  BY <1>1, RecursionExists
<1>3. f \in [Nat -> Nat]
  <2>1. Computes(f, Nat, 1, G)
    BY <1>1, <1>2, RecursionTyped
  <2> QED BY <2>1 DEF Computes
<1>4. Powers(f)
  <2>1. f = [k \in Nat |-> IF k = 0 THEN 1 ELSE G[k][f[k - 1]]]
    BY <1>2 DEF Recursive
  <2>2. ASSUME NEW k \in Nat, k # 0
        PROVE  G[k][f[k - 1]] = b * f[k - 1]
    <3>1. f[k - 1] \in Nat
      BY <1>3, <2>2
    <3> QED BY <3>1 DEF G
  <2> QED BY <2>1, <2>2
<1>5. Power(b) = CHOOSE p : Powers(p)
  BY DEF Power
<1> HIDE DEF Powers
<1>6. PICK p : p = Power(b)
  OBVIOUS
<1>7. Powers(p)
  BY <1>4, <1>5, <1>6, Zenon
<1>8. p = [k \in Nat |-> IF k = 0 THEN 1 ELSE b * p[k - 1]]
  BY <1>7 DEF Powers
<1>9. p[0] = 1 /\ \A k \in Nat : p[k + 1] = b * p[k]
  BY <1>8
<1> DEFINE S == {k \in Nat : p[k] \in Nat}
<1>10. S = Nat
  <2>1. 0 \in S
    BY <1>9
  <2>2. \A k \in S : k + 1 \in S
    BY <1>9
  <2> HIDE DEF S
  <2>3. S \in SUBSET Nat
    BY DEF S
  <2> QED BY <2>1, <2>2, <2>3, EveryNumber
<1>11. p \in [Nat -> Nat]
  <2>1. \A k \in Nat : p[k] \in Nat
    BY <1>10
  <2>2. PICK e : e = [k \in Nat |-> IF k = 0 THEN 1 ELSE b * p[k - 1]]
    OBVIOUS
  <2>3. p = e /\ DOMAIN e = Nat /\ e = [k \in Nat |-> e[k]]
    BY <1>8, <2>2
  <2> QED BY <2>1, <2>3
<1> QED BY <1>6, <1>9, <1>11

Sums(a, m, g) == g = [i \in 0..m |-> IF i = 0 THEN 0 ELSE g[i - 1] + a[i]]

LEMMA SumExists ==
  ASSUME NEW m \in Nat, NEW a \in [1..m -> Nat]
  PROVE  \E g : Sums(a, m, g)
<1> DEFINE add(k) == IF k \in 1..m THEN a[k] ELSE 0
           G == [k \in Nat |-> [v \in Nat |-> v + add(k)]]
<1>1. \A k \in Nat : add(k) \in Nat
  OBVIOUS
<1>2. \A k \in 1..m : add(k) = a[k]
  OBVIOUS
<1> HIDE DEF add
<1>3. G \in [Nat -> [Nat -> Nat]]
  <2>1. ASSUME NEW k \in Nat, NEW v \in Nat
        PROVE  v + add(k) \in Nat
    <3>1. PICK c : c = add(k)
      OBVIOUS
    <3>2. c \in Nat
      BY <1>1, <3>1, Zenon
    <3>3. v + c \in Nat
      BY <3>2
    <3> QED BY <3>1, <3>3, Zenon
  <2>2. \A k \in Nat : [v \in Nat |-> v + add(k)] \in [Nat -> Nat]
    BY <2>1, Zenon
  <2> QED BY <2>2, Zenon
<1>4. \A k \in Nat : \A v \in Nat : G[k][v] = v + add(k)
  OBVIOUS
<1> HIDE DEF G
<1>5. PICK z \in Nat : z = 0
  OBVIOUS
<1>6. PICK f : Recursive(f, z, G)
  BY <1>3, RecursionExists, Zenon
<1>7. f \in [Nat -> Nat] /\ f[0] = z /\ \A k \in Nat : f[k + 1] = G[k + 1][f[k]]
  <2>1. Computes(f, Nat, z, G)
    BY <1>3, <1>6, RecursionTyped, Zenon
  <2> QED BY <2>1, Zenon DEF Computes
<1> DEFINE g == [i \in 0..m |-> f[i]]
<1>8. ASSUME NEW i \in 1..m
      PROVE  f[i] = f[i - 1] + a[i]
  <2>1. PICK k \in Nat : i = k + 1 /\ k = i - 1
    <3>1. i - 1 \in Nat /\ i = i - 1 + 1
      OBVIOUS
    <3> QED BY <3>1
  <2>2. f[k] \in Nat /\ i \in Nat
    <3>1. i \in Nat
      OBVIOUS
    <3> QED BY <1>7, <2>1, <3>1, Zenon
  <2>3. f[i] = G[i][f[k]]
    BY <1>7, <2>1
  <2>4. f[i] = f[k] + add(i)
    BY <1>4, <2>2, <2>3
  <2> QED BY <1>2, <2>1, <2>4
<1>9. g = [i \in 0..m |-> IF i = 0 THEN 0 ELSE g[i - 1] + a[i]]
  <2>1. ASSUME NEW i \in 0..m, i # 0
        PROVE  f[i] = g[i - 1] + a[i]
    <3>1. i \in 1..m /\ i - 1 \in 0..m
      BY <2>1
    <3>2. f[i] = f[i - 1] + a[i]
      BY <1>8, <3>1, Zenon
    <3>3. g[i - 1] = f[i - 1]
      BY <3>1, Zenon
    <3> QED BY <3>2, <3>3, Zenon
  <2>2. f[0] = 0
    BY <1>5, <1>7, Zenon
  <2> QED BY <2>1, <2>2, Zenon
<1> HIDE DEF g
<1> QED BY <1>9 DEF Sums

LEMMA SumFacts ==
  ASSUME NEW m \in Nat, NEW a \in [1..m -> Nat], NEW g, Sums(a, m, g)
  PROVE  /\ g[0] = 0
         /\ \A i \in 1..m : g[i] = g[i - 1] + a[i]
         /\ g \in [0..m -> Nat]
<1>1. g = [i \in 0..m |-> IF i = 0 THEN 0 ELSE g[i - 1] + a[i]]
  BY DEF Sums
<1>2. g[0] = 0
  <2>1. 0 \in 0..m
    OBVIOUS
  <2> QED BY <1>1, <2>1
<1>3. ASSUME NEW i \in 1..m
      PROVE  g[i] = g[i - 1] + a[i]
  <2>1. i \in 0..m /\ i # 0
    OBVIOUS
  <2> QED BY <1>1, <2>1
<1> DEFINE S == {i \in Nat : i <= m => g[i] \in Nat}
<1>4. 0 \in S
  BY <1>2
<1>5. ASSUME NEW k \in S
      PROVE  k + 1 \in S
  <2> SUFFICES ASSUME k + 1 <= m
               PROVE  g[k + 1] \in Nat
    OBVIOUS
  <2>1. PICK j \in 1..m : j = k + 1
    OBVIOUS
  <2>2. j - 1 = k /\ g[k] \in Nat /\ a[j] \in Nat
    BY <2>1
  <2>3. g[j] = g[k] + a[j]
    BY <1>3, <2>2
  <2> QED BY <2>1, <2>2, <2>3
<1>6. S = Nat
  <2> HIDE DEF S
  <2>1. S \in SUBSET Nat
    BY DEF S
  <2> QED BY <1>4, <1>5, <2>1, EveryNumber
<1>7. \A i \in 0..m : g[i] \in Nat
  BY <1>6
<1>8. PICK e : e = [i \in 0..m |-> IF i = 0 THEN 0 ELSE g[i - 1] + a[i]]
  OBVIOUS
<1>9. g = e /\ DOMAIN e = 0..m /\ e = [i \in 0..m |-> e[i]]
  BY <1>1, <1>8
<1>10. e \in [0..m -> Nat]
  BY <1>7, <1>9
<1> QED BY <1>2, <1>3, <1>9, <1>10

LEMMA ProductNatural == ASSUME NEW x \in Nat, NEW y \in Nat PROVE x * y \in Nat
  OBVIOUS

(* Each digit, weighted.                                                     *)
Weighted(s, m, w) == [i \in 1..m |-> s[i] * w[m - i]]

LEMMA WeightedTyped ==
  ASSUME NEW m \in Nat, NEW s \in [1..m -> Nat], NEW w \in [Nat -> Nat]
  PROVE  Weighted(s, m, w) \in [1..m -> Nat]
<1>1. ASSUME NEW i \in 1..m
      PROVE  s[i] * w[m - i] \in Nat
  <2>1. s[i] \in Nat /\ m - i \in Nat
    OBVIOUS
  <2>2. w[m - i] \in Nat
    BY <2>1
  <2> QED BY <2>1, <2>2, ProductNatural
<1> QED BY <1>1 DEF Weighted

LEMMA SequenceTyped ==
  ASSUME NEW s \in Seq(Nat)
  PROVE  \E m \in Nat : m = Len(s) /\ s \in [1..m -> Nat]
  OBVIOUS

LEMMA DenotedSums ==
  ASSUME NEW s \in Seq(Nat), NEW b \in Nat, NEW m \in Nat, m = Len(s)
  PROVE  \E g : Sums(Weighted(s, m, Power(b)), m, g) /\ Denoted(s, b) = g[m]
<1>1. PICK w : w = Power(b)
  OBVIOUS
<1>2. w \in [Nat -> Nat]
  BY <1>1, PowerFacts
<1>3. s \in [1..m -> Nat]
  BY SequenceTyped
<1>4. PICK a : a = Weighted(s, m, w)
  OBVIOUS
<1>5. a \in [1..m -> Nat]
  BY <1>2, <1>3, <1>4, WeightedTyped
<1> DEFINE Same(x) == x = [i \in 0..m |-> IF i = 0 THEN 0 ELSE x[i - 1] + s[i] * w[m - i]]
           g == CHOOSE x : Same(x)
<1>6. Denoted(s, b) = g[m]
  BY <1>1 DEF Denoted
<1>7. ASSUME NEW x, Sums(a, m, x)
      PROVE  Same(x)
  <2>1. ASSUME NEW i \in 0..m, i # 0
        PROVE  a[i] = s[i] * w[m - i]
    <3>1. i \in 1..m
      BY <2>1
    <3> QED BY <1>4, <3>1 DEF Weighted
  <2>2. x = [i \in 0..m |-> IF i = 0 THEN 0 ELSE x[i - 1] + a[i]]
    BY <1>7 DEF Sums
  <2> QED BY <2>1, <2>2, Zenon
<1>8. ASSUME NEW x, Same(x)
      PROVE  Sums(a, m, x)
  <2>1. ASSUME NEW i \in 0..m, i # 0
        PROVE  a[i] = s[i] * w[m - i]
    <3>1. i \in 1..m
      BY <2>1
    <3> QED BY <1>4, <3>1 DEF Weighted
  <2>2. x = [i \in 0..m |-> IF i = 0 THEN 0 ELSE x[i - 1] + a[i]]
    BY <1>8, <2>1, Zenon
  <2> QED BY <2>2 DEF Sums
<1> HIDE DEF Same
<1>9. Same(g)
  BY <1>5, <1>7, SumExists, Zenon
<1> HIDE DEF g
<1> QED BY <1>1, <1>4, <1>6, <1>8, <1>9, Zenon

LEMMA NothingDenoted == ASSUME NEW b \in Nat PROVE Denoted(<<>>, b) = 0
<1>1. PICK s : s = <<>>
  OBVIOUS
<1>2. s \in Seq(Nat) /\ 0 = Len(s) /\ 0 \in Nat
  BY <1>1
<1>3. PICK g : Sums(Weighted(s, 0, Power(b)), 0, g) /\ Denoted(s, b) = g[0]
  BY <1>2, DenotedSums
<1>4. g[0] = 0
  <2>1. 0 \in 0..0
    OBVIOUS
  <2> QED BY <1>3, <2>1 DEF Sums
<1> QED BY <1>1, <1>3, <1>4

(* A digit more multiplies what is denoted by the base, and adds the digit.  *)
LEMMA DigitDenoted ==
  ASSUME NEW s \in Seq(Nat), NEW d \in Nat, NEW b \in Nat
  PROVE  Denoted(Append(s, d), b) = b * Denoted(s, b) + d
<1>1. PICK t : t = Append(s, d)
  OBVIOUS
<1>2. PICK m \in Nat : m = Len(s) /\ s \in [1..m -> Nat]
  BY SequenceTyped
<1>3. /\ t \in Seq(Nat) /\ m + 1 = Len(t) /\ m + 1 \in Nat
      /\ t[m + 1] = d /\ \A i \in 1..m : t[i] = s[i]
  BY <1>1, <1>2
<1>4. t \in [1..m + 1 -> Nat]
  BY <1>3, SequenceTyped
<1>5. PICK w : w = Power(b)
  OBVIOUS
<1>6. w \in [Nat -> Nat] /\ w[0] = 1 /\ \A k \in Nat : w[k + 1] = b * w[k]
  BY <1>5, PowerFacts
<1>7. PICK a : a = Weighted(s, m, w)
  OBVIOUS
<1>8. PICK c : c = Weighted(t, m + 1, w)
  OBVIOUS
<1>9. a \in [1..m -> Nat] /\ c \in [1..m + 1 -> Nat]
  BY <1>2, <1>3, <1>4, <1>6, <1>7, <1>8, WeightedTyped
<1>10. PICK g : Sums(a, m, g) /\ Denoted(s, b) = g[m]
  BY <1>2, <1>5, <1>7, DenotedSums
<1>11. PICK h : Sums(c, m + 1, h) /\ Denoted(t, b) = h[m + 1]
  BY <1>3, <1>5, <1>8, DenotedSums
<1>12. g[0] = 0 /\ (\A i \in 1..m : g[i] = g[i - 1] + a[i]) /\ g \in [0..m -> Nat]
  BY <1>9, <1>10, SumFacts
<1>13. h[0] = 0 /\ (\A i \in 1..m + 1 : h[i] = h[i - 1] + c[i]) /\ h \in [0..m + 1 -> Nat]
  BY <1>3, <1>9, <1>11, SumFacts
<1>14. ASSUME NEW i \in 1..m
       PROVE  c[i] = b * a[i]
  <2>1. PICK k \in Nat : k = m - i /\ m + 1 - i = k + 1
    <3>1. m - i \in Nat /\ m + 1 - i = m - i + 1
      OBVIOUS
    <3> QED BY <3>1
  <2>2. i \in 1..m + 1
    OBVIOUS
  <2>3. c[i] = s[i] * w[k + 1] /\ a[i] = s[i] * w[k]
    BY <1>3, <1>7, <1>8, <2>1, <2>2 DEF Weighted
  <2>4. PICK x \in Nat, z \in Nat : x = s[i] /\ z = w[k]
    BY <1>2, <1>6
  <2>5. w[k + 1] = b * z
    BY <1>6, <2>4
  <2>6. x * (b * z) = b * (x * z)
    OBVIOUS
  <2> QED BY <2>3, <2>4, <2>5, <2>6
<1>15. c[m + 1] = d
  <2>1. m + 1 \in 1..m + 1 /\ m + 1 - (m + 1) = 0
    OBVIOUS
  <2>2. c[m + 1] = t[m + 1] * w[m + 1 - (m + 1)]
    BY <1>8, <2>1 DEF Weighted
  <2>3. c[m + 1] = d * 1
    BY <1>3, <1>6, <2>1, <2>2
  <2> QED BY <2>3
<1> DEFINE S == {i \in Nat : i <= m => h[i] = b * g[i]}
<1>16. 0 \in S
  BY <1>12, <1>13
<1>17. ASSUME NEW k \in S
       PROVE  k + 1 \in S
  <2> SUFFICES ASSUME k + 1 <= m
               PROVE  h[k + 1] = b * g[k + 1]
    OBVIOUS
  <2>1. PICK j \in 1..m : j = k + 1
    OBVIOUS
  <2>2. j - 1 = k /\ k \in 0..m /\ h[k] = b * g[k] /\ j \in 1..m + 1
    BY <2>1
  <2>3. g[j] = g[k] + a[j]
    BY <1>12, <2>2
  <2>4. h[j] = h[k] + b * a[j]
    BY <1>13, <1>14, <2>2
  <2>5. PICK x \in Nat, y \in Nat : x = a[j] /\ y = g[k]
    BY <1>9, <1>12, <2>2
  <2>6. b * y + b * x = b * (y + x)
    OBVIOUS
  <2> QED BY <2>1, <2>2, <2>3, <2>4, <2>5, <2>6
<1>18. S = Nat
  <2> HIDE DEF S
  <2>1. S \in SUBSET Nat
    BY DEF S
  <2> QED BY <1>16, <1>17, <2>1, EveryNumber
<1>19. h[m] = b * g[m]
  BY <1>18
<1>20. h[m + 1] = h[m] + c[m + 1]
  <2>1. m + 1 \in 1..m + 1 /\ m + 1 - 1 = m
    OBVIOUS
  <2> QED BY <1>13, <2>1
<1> QED BY <1>1, <1>10, <1>11, <1>15, <1>19, <1>20
------------------------------------------------------------------------------
(* Pieces of the buffer.                                                     *)
LEMMA BufferFacts ==
  ASSUME IntegerTypeOK
  PROVE  \E L \in Nat : L = Len(buffer) /\ \A i \in 1..L : buffer[i] \in Char
  BY DEF IntegerTypeOK

LEMMA Piece ==
  ASSUME IntegerTypeOK, NEW a \in Nat, a >= 1, NEW z \in Nat, z <= Len(buffer)
  PROVE  /\ SubSeq(buffer, a, z) \in Seq(Char)
         /\ Len(SubSeq(buffer, a, z)) = IF a <= z THEN z - a + 1 ELSE 0
         /\ \A i \in 1..z - a + 1 : SubSeq(buffer, a, z)[i] = buffer[a + i - 1]
<1>1. PICK L \in Nat : L = Len(buffer) /\ \A i \in 1..L : buffer[i] \in Char
  BY BufferFacts
<1>2. a \in Int /\ z \in Int /\ \A i \in a..z : buffer[i] \in Char
  BY <1>1
<1>3. PICK p : p = SubSeq(buffer, a, z)
  OBVIOUS
<1>4. /\ p \in Seq(Char)
      /\ Len(p) = IF a <= z THEN z - a + 1 ELSE 0
      /\ \A i \in 1..z - a + 1 : p[i] = buffer[a + i - 1]
  BY <1>2, <1>3, SubSeqProperties
<1> QED BY <1>3, <1>4

LEMMA LongerPiece ==
  ASSUME IntegerTypeOK, NEW a \in Nat, a >= 1, NEW z \in Nat, a <= z, z <= Len(buffer)
  PROVE  /\ SubSeq(buffer, a, z - 1) \in Seq(Char) /\ buffer[z] \in Char
         /\ SubSeq(buffer, a, z) = Append(SubSeq(buffer, a, z - 1), buffer[z])
<1>1. PICK L \in Nat : L = Len(buffer) /\ \A i \in 1..L : buffer[i] \in Char
  BY BufferFacts
<1>2. buffer \in Seq(Char) /\ a \in 1..Len(buffer) /\ z \in a..Len(buffer) /\ z \in 1..L
  BY <1>1 DEF IntegerTypeOK
<1>3. SubSeq(buffer, a, z) = SubSeq(buffer, a, z - 1) \o <<buffer[z]>>
  BY <1>2, SubSeqRecursiveSecond, Zenon
<1>4. z - 1 \in Nat /\ z - 1 <= Len(buffer)
  BY <1>1
<1>5. SubSeq(buffer, a, z - 1) \in Seq(Char)
  BY <1>4, Piece
<1>6. buffer[z] \in Char
  BY <1>1, <1>2
<1>7. Append(SubSeq(buffer, a, z - 1), buffer[z]) = SubSeq(buffer, a, z - 1) \o <<buffer[z]>>
  BY <1>5, <1>6, AppendIsConcat
<1> QED BY <1>3, <1>5, <1>6, <1>7

LEMMA HexPrefix ==
  ASSUME IntegerTypeOK, NEW i \in Nat, i <= Len(buffer)
  PROVE  Hex(Prefix(i)) <=> i >= First + 1 /\ buffer[First] = 0 /\ buffer[First + 1] = X
<1>1. PICK f \in 1..2 : f = First
  BY ArgsTyped
<1>2. PICK s : s = Prefix(i)
  OBVIOUS
<1>3. /\ Len(s) = IF f <= i THEN i - f + 1 ELSE 0
      /\ \A j \in 1..i - f + 1 : s[j] = buffer[f + j - 1]
  BY <1>1, <1>2, Piece DEF Prefix
<1>4. CASE i >= f + 1
  <2>1. 1 \in 1..i - f + 1 /\ 2 \in 1..i - f + 1 /\ f + 1 - 1 = f /\ f + 2 - 1 = f + 1
    BY <1>4
  <2>2. s[1] = buffer[f] /\ s[2] = buffer[f + 1] /\ Len(s) >= 2
    BY <1>3, <1>4, <2>1
  <2> QED BY <1>1, <1>2, <1>4, <2>2 DEF Hex
<1>5. CASE ~(i >= f + 1)
  <2>1. ~(Len(s) >= 2)
    BY <1>3, <1>5
  <2> QED BY <1>1, <1>2, <1>5, <2>1 DEF Hex
<1> QED BY <1>4, <1>5

(* Where the digits begin, and when they are hexadecimal by their prefix.    *)
LEMMA Beginning ==
  ASSUME IntegerTypeOK
  PROVE  /\ First \in 1..2 /\ First <= Len(buffer) + 1
         /\ base = 0 /\ Radix = 16
              <=> base = 0 /\ First + 1 <= Len(buffer) /\ buffer[First] = 0 /\ buffer[First + 1] = X
         /\ Digits = IF base = 0 /\ Radix = 16 THEN First + 2 ELSE First
         /\ Digits <= Len(buffer) + 1
<1>1. PICK f \in 1..2 : f = First
  BY ArgsTyped
<1>2. PICK L \in Nat : L = Len(buffer) /\ \A i \in 1..L : buffer[i] \in Char
  BY BufferFacts
<1>3. f <= L + 1
  <2>1. CASE f = 1
    BY <1>2, <2>1
  <2>2. CASE f = 2
    <3>1. Signs # {}
      BY <1>1, <2>2 DEF First
    <3>2. At(1) \in {PLUS, MINUS}
      BY <3>1 DEF Signs
    <3>3. ~(L < 1)
      BY <1>2, <3>2 DEF At, PLUS, MINUS, STOP
    <3> QED BY <1>2, <2>2, <3>3
  <2> QED BY <1>1, <2>1, <2>2
<1>4. /\ At(f) = IF f <= L THEN buffer[f] ELSE STOP
      /\ At(f + 1) = IF f + 1 <= L THEN buffer[f + 1] ELSE STOP
  BY <1>2 DEF At
<1>5. base = 0 => (Radix = 16 <=> At(f) = 0 /\ At(f + 1) = X)
  BY <1>1 DEF Radix, natural_base
<1>6. base = 0 /\ Radix = 16
        <=> base = 0 /\ f + 1 <= L /\ buffer[f] = 0 /\ buffer[f + 1] = X
  <2>1. At(f) = 0 /\ At(f + 1) = X <=> f + 1 <= L /\ buffer[f] = 0 /\ buffer[f + 1] = X
    BY <1>4 DEF STOP, X
  <2> QED BY <1>5, <2>1
<1>7. Digits = IF base = 0 /\ Radix = 16 THEN f + 2 ELSE f
  BY <1>1 DEF Digits
<1>8. Digits <= L + 1
  BY <1>3, <1>6, <1>7
<1> QED BY <1>1, <1>2, <1>3, <1>6, <1>7, <1>8

Ends == {i \in First..Len(buffer) :
           IsNumber(Prefix(i)) /\ (base = 0 /\ Hex(Prefix(Len(buffer))) => i > First + 1)}

(* What a prefix is made of that reaches its digits.                         *)
LEMMA PrefixFacts ==
  ASSUME IntegerTypeOK, NEW i \in Nat, Digits <= i, i <= Len(buffer)
  PROVE  DigitsOf(Prefix(i)) = SubSeq(buffer, Digits, i) /\ BaseOf(Prefix(i)) = Radix
<1>1. PICK f \in 1..2 : f = First
  BY ArgsTyped
<1>2. PICK L \in Nat : L = Len(buffer)
  BY BufferFacts
<1>3. /\ base = 0 /\ Radix = 16
           <=> base = 0 /\ f + 1 <= L /\ buffer[f] = 0 /\ buffer[f + 1] = X
      /\ Digits = IF base = 0 /\ Radix = 16 THEN f + 2 ELSE f
  BY <1>1, <1>2, Beginning
<1>4. Hex(Prefix(i)) <=> i >= f + 1 /\ buffer[f] = 0 /\ buffer[f + 1] = X
  BY <1>1, HexPrefix
<1>5. PICK s : s = Prefix(i)
  OBVIOUS
<1>6. s = SubSeq(buffer, f, i)
  BY <1>1, <1>5 DEF Prefix
<1>7. /\ s \in Seq(Char)
      /\ Len(s) = IF f <= i THEN i - f + 1 ELSE 0
      /\ \A j \in 1..i - f + 1 : s[j] = buffer[f + j - 1]
  <2>1. f \in Nat /\ f >= 1
    OBVIOUS
  <2> QED BY <1>6, <2>1, Piece
<1>8. CASE base = 0 /\ Radix = 16
  <2>1. Digits = f + 2 /\ f + 2 <= i /\ i <= L /\ Hex(s)
    BY <1>2, <1>3, <1>4, <1>5, <1>8
  <2>2. DigitsOf(s) = SubSeq(s, 3, Len(s)) /\ BaseOf(s) = 16
    BY <1>8, <2>1 DEF DigitsOf, BaseOf
  <2>3. Len(s) = i - f + 1
    BY <1>7, <2>1
  <2>4. PICK k \in Nat : k = i - f + 1 /\ f + k - 1 = i /\ f + 3 - 1 = f + 2
    <3>1. i - f + 1 \in Nat /\ f + (i - f + 1) - 1 = i /\ f + 3 - 1 = f + 2
      BY <2>1
    <3> QED BY <3>1
  <2>5. /\ buffer \in Seq(Char) /\ f \in 1..Len(buffer) /\ i \in 1..Len(buffer)
        /\ 3 \in 1..i - f + 1 /\ k \in 1..i - f + 1
    BY <1>2, <2>1, <2>4 DEF IntegerTypeOK
  <2>6. SubSeq(SubSeq(buffer, f, i), 3, k) = SubSeq(buffer, f + 3 - 1, f + k - 1)
    BY <2>5, SubSeqOfSubSeq
  <2>7. SubSeq(s, 3, Len(s)) = SubSeq(buffer, Digits, i)
    BY <1>6, <2>1, <2>3, <2>4, <2>6
  <2> QED BY <1>5, <1>8, <2>2, <2>7
<1>9. CASE ~(base = 0 /\ Radix = 16)
  <2>1. Digits = f /\ ~(base = 0 /\ Hex(s))
    BY <1>2, <1>3, <1>4, <1>5, <1>9
  <2>2. DigitsOf(s) = SubSeq(buffer, Digits, i)
    BY <1>6, <2>1 DEF DigitsOf
  <2>3. BaseOf(s) = Radix
    <3>1. CASE base # 0
      BY <3>1 DEF BaseOf, Radix
    <3>2. CASE base = 0
      <4>1. 1 \in 1..i - f + 1 /\ f + 1 - 1 = f
        BY <2>1
      <4>2. s[1] = buffer[f]
        BY <1>7, <4>1
      <4>3. At(f) = buffer[f]
        BY <1>2, <2>1 DEF At
      <4>4. Radix = natural_base(f) /\ Radix # 16
        BY <1>1, <1>9, <3>2 DEF Radix
      <4>5. Radix = IF s[1] = 0 THEN 8 ELSE 10
        BY <4>2, <4>3, <4>4 DEF natural_base
      <4> QED BY <2>1, <3>2, <4>5 DEF BaseOf
    <3> QED BY <3>1, <3>2
  <2> QED BY <1>5, <2>2, <2>3
<1> QED BY <1>8, <1>9

(* A number ends where its digits, all of them, have been read.              *)
LEMMA EndFacts ==
  ASSUME IntegerTypeOK, NEW i \in Nat, i <= Len(buffer)
  PROVE  i \in Ends <=> Digits <= i /\ \A j \in Digits..i : IsDigit(buffer[j])
<1>1. PICK f \in 1..2 : f = First
  BY ArgsTyped
<1>2. PICK L \in Nat : L = Len(buffer)
  BY BufferFacts
<1>3. /\ base = 0 /\ Radix = 16
           <=> base = 0 /\ f + 1 <= L /\ buffer[f] = 0 /\ buffer[f + 1] = X
      /\ Digits = IF base = 0 /\ Radix = 16 THEN f + 2 ELSE f
  BY <1>1, <1>2, Beginning
<1>4. L <= Len(buffer)
  BY <1>2
<1>5. Hex(Prefix(L)) <=> L >= f + 1 /\ buffer[f] = 0 /\ buffer[f + 1] = X
  BY <1>1, <1>4, HexPrefix
<1>6. base = 0 /\ Hex(Prefix(L)) <=> base = 0 /\ Radix = 16
  BY <1>3, <1>5
<1>7. (f <= i /\ (base = 0 /\ Hex(Prefix(L)) => i > f + 1)) <=> Digits <= i
  BY <1>3, <1>6
<1>8. i \in Ends <=> Digits <= i /\ IsNumber(Prefix(i))
  <2>1. i \in f..L <=> f <= i
    BY <1>2
  <2> QED BY <1>1, <1>2, <1>7, <2>1 DEF Ends
<1>9. ASSUME Digits <= i
      PROVE  IsNumber(Prefix(i)) <=> \A j \in Digits..i : IsDigit(buffer[j])
  <2>1. PICK s : s = SubSeq(buffer, Digits, i)
    OBVIOUS
  <2>2. DigitsOf(Prefix(i)) = s /\ BaseOf(Prefix(i)) = Radix
    BY <1>9, <2>1, PrefixFacts
  <2>3. PICK d \in 1..4 : d = Digits
    BY ArgsTyped
  <2>4. PICK k \in Nat : k = i - d + 1
    BY <1>9, <2>3
  <2>5. s \in Seq(Char) /\ Len(s) = k /\ \A j \in 1..k : s[j] = buffer[d + j - 1]
    <3>1. d \in Nat /\ d >= 1 /\ d <= i
      BY <1>9, <2>3
    <3>2. /\ s \in Seq(Char)
          /\ Len(s) = IF d <= i THEN i - d + 1 ELSE 0
          /\ \A j \in 1..i - d + 1 : s[j] = buffer[d + j - 1]
      BY <2>1, <2>3, <3>1, Piece
    <3> QED BY <2>4, <3>1, <3>2
  <2>6. s # <<>>
    <3>1. k >= 1
      BY <1>9, <2>3, <2>4
    <3> QED BY <2>5, <3>1
  <2>7. IsNumber(Prefix(i)) <=> \A j \in 1..k : s[j] < Radix /\ s[j] < 16
    BY <2>2, <2>5, <2>6 DEF IsNumber
  <2>8. (\A j \in 1..k : IsDigit(s[j])) <=> (\A j \in d..i : IsDigit(buffer[j]))
    <3>1. ASSUME NEW j \in 1..k
          PROVE  d + j - 1 \in d..i /\ s[j] = buffer[d + j - 1]
      BY <2>4, <2>5
    <3>2. ASSUME NEW j \in d..i
          PROVE  \E l \in 1..k : s[l] = buffer[j]
      <4>1. PICK l \in 1..k : l = j - d + 1 /\ d + l - 1 = j
        <5>1. j - d + 1 \in 1..k /\ d + (j - d + 1) - 1 = j
          BY <2>4
        <5> QED BY <5>1
      <4> QED BY <2>5, <4>1
    <3> QED BY <3>1, <3>2, Zenon
  <2> QED BY <2>3, <2>7, <2>8 DEF IsDigit
<1> QED BY <1>8, <1>9
------------------------------------------------------------------------------
(* While digits are read: all the characters from the first digit on are     *)
(* digits, and exact is what they denote.                                    *)
Extent == pc = "digits" =>
            /\ Digits <= dp /\ dp <= Len(buffer) + 1
            /\ \A j \in Digits..dp - 1 : IsDigit(buffer[j])
            /\ exact = Denoted(SubSeq(buffer, Digits, dp - 1), Radix)

Answers(count, errno, x) ==
  IF base \notin {0} \union 2..16 THEN errno = "EINVAL" /\ count < 0
  ELSE IF Ends = {} THEN errno = "EILSEQ" /\ count < 0
  ELSE /\ count \in Ends /\ \A i \in Ends : i <= count
       /\ x = Denoted(DigitsOf(Prefix(count)), BaseOf(Prefix(count)))

LEMMA BaseKnown ==
  ASSUME IntegerTypeOK
  PROVE  Radix \in 2..16 <=> base \in {0} \union 2..16
<1>1. natural_base(First) \in {8, 10, 16}
  BY DEF natural_base
<1> QED BY <1>1 DEF Radix

LEMMA Meaning ==
  ReadsLongest <=> (pc = "done" /\ ~Empty => Answers(answer.count, answer.errno, exact))
  BY Zenon DEF ReadsLongest, Answers, Ends

LEMMA SameArgs ==
  ASSUME UNCHANGED args
  PROVE  /\ Radix' = Radix /\ Digits' = Digits
         /\ ReadsLongest' <=>
              (pc' = "done" /\ ~Empty => Answers(answer'.count, answer'.errno, exact'))
<1>1. buffer' = buffer /\ base' = base /\ signed' = signed
  BY DEF args
<1>2. Radix' = Radix /\ Digits' = Digits /\ First' = First
  BY <1>1, Zenon DEF Digits, Radix, natural_base, First, Signs, At
<1>3. Empty' = Empty
  BY <1>1, Zenon DEF Empty
<1>4. Ends' = Ends
  BY <1>1, <1>2, Zenon DEF Ends, IsNumber, Prefix, DigitsOf, BaseOf
<1>5. ReadsLongest' <=>
        (pc = "done" /\ ~Empty => Answers(answer.count, answer.errno, exact))'
  BY Meaning, PTL
<1> QED BY <1>1, <1>2, <1>3, <1>4, <1>5, Zenon DEF Answers, Prefix, DigitsOf, BaseOf

LEMMA ExtentBegins == ASSUME IInv, Begin PROVE Extent'
<1>1. IntegerTypeOK
  BY DEF IInv
<1>2. Radix' = Radix /\ Digits' = Digits /\ buffer' = buffer /\ dp' = Digits /\ exact' = 0
  BY SameArgs DEF Begin, args
<1>3. PICK d \in 1..4 : d = Digits /\ d <= Len(buffer) + 1
  BY <1>1, ArgsTyped, Beginning
<1>4. Radix \in Nat
  BY <1>1, ArgsTyped
<1>5. SubSeq(buffer, d, d - 1) = <<>>
  <2>1. d \in Int /\ d - 1 \in Int /\ d - 1 < d
    OBVIOUS
  <2> QED BY <2>1, SubSeqEmpty
<1>6. 0 = Denoted(SubSeq(buffer, d, d - 1), Radix)
  BY <1>4, <1>5, NothingDenoted
<1>7. d..d - 1 = {}
  OBVIOUS
<1> QED BY <1>2, <1>3, <1>6, <1>7 DEF Extent

LEMMA ExtentGrows == ASSUME IInv, Extent, ReadDigit PROVE Extent'
<1>1. IntegerTypeOK /\ pc = "digits" /\ dp' = dp + 1 /\ exact' = Radix * exact + At(dp)
  BY DEF IInv, ReadDigit
<1>2. Radix' = Radix /\ Digits' = Digits /\ buffer' = buffer
  BY SameArgs DEF ReadDigit, args
<1>3. PICK d \in 1..4 : d = Digits
  BY <1>1, ArgsTyped
<1>4. PICK b \in 2..16 : b = Radix
  BY <1>1 DEF IInv, Reading
<1>5. PICK L \in Nat : L = Len(buffer)
  BY <1>1, BufferFacts
<1>6. PICK k \in Nat : k = dp
  BY <1>1 DEF IntegerTypeOK
<1>7. /\ d <= k /\ k <= L + 1
      /\ \A j \in d..k - 1 : IsDigit(buffer[j])
      /\ exact = Denoted(SubSeq(buffer, d, k - 1), b)
  BY <1>1, <1>3, <1>4, <1>5, <1>6 DEF Extent
<1>8. k <= L /\ At(k) = buffer[k] /\ IsDigit(buffer[k])
  <2>1. IsDigit(At(k))
    BY <1>6 DEF ReadDigit
  <2>2. At(k) = IF k <= L THEN buffer[k] ELSE STOP
    BY <1>5 DEF At
  <2>3. ~IsDigit(STOP)
    BY DEF IsDigit, STOP
  <2> QED BY <2>1, <2>2, <2>3
<1>9. /\ SubSeq(buffer, d, k - 1) \in Seq(Char) /\ buffer[k] \in Char
      /\ SubSeq(buffer, d, k) = Append(SubSeq(buffer, d, k - 1), buffer[k])
  <2>1. d \in Nat /\ d >= 1 /\ k <= Len(buffer)
    BY <1>5, <1>8
  <2> QED BY <1>1, <1>7, <2>1, LongerPiece, Zenon
<1>10. PICK t \in Seq(Nat), c \in Nat : t = SubSeq(buffer, d, k - 1) /\ c = buffer[k]
  <2>1. Char \subseteq Nat
    BY DEF Char, STOP
  <2>2. SubSeq(buffer, d, k - 1) \in Seq(Nat) /\ buffer[k] \in Nat
    <3>1. PICK t \in Seq(Char) : t = SubSeq(buffer, d, k - 1)
      BY <1>9
    <3>2. t \in Seq(Nat)
      BY <2>1, <3>1, SeqMonotonic, Zenon
    <3> QED BY <1>9, <2>1, <3>1, <3>2
  <2> QED BY <2>2
<1>11. Denoted(Append(t, c), b) = b * Denoted(t, b) + c
  <2>1. b \in Nat
    OBVIOUS
  <2> QED BY <2>1, DigitDenoted, Zenon
<1>12. exact' = Denoted(SubSeq(buffer, d, k), b)
  BY <1>1, <1>4, <1>6, <1>7, <1>8, <1>9, <1>10, <1>11
<1>13. \A j \in d..k : IsDigit(buffer[j])
  <2>1. ASSUME NEW j \in d..k
        PROVE  j = k \/ j \in d..k - 1
    OBVIOUS
  <2> QED BY <1>7, <1>8, <2>1, Zenon
<1>14. dp' - 1 = k /\ d <= dp' /\ dp' <= L + 1
  BY <1>1, <1>6, <1>7, <1>8
<1>15. \A j \in d..k : IsDigit(buffer[j])'
  BY <1>2, <1>13, Zenon DEF IsDigit
<1>16. /\ Digits' <= dp' /\ dp' <= Len(buffer') + 1
       /\ \A j \in Digits'..dp' - 1 : IsDigit(buffer[j])'
       /\ exact' = Denoted(SubSeq(buffer', Digits', dp' - 1), Radix')
  BY <1>2, <1>3, <1>4, <1>5, <1>12, <1>14, <1>15
<1> QED BY <1>16 DEF Extent

LEMMA ExtentStep == ASSUME IInv, Extent, [IntegerNext]_integerVars PROVE Extent'
<1>1. CASE RefuseEmpty \/ RefuseBase \/ RefuseNoDigits \/ Finish
  BY <1>1 DEF RefuseEmpty, RefuseBase, RefuseNoDigits, Finish, Return, Extent
<1>2. CASE Begin
  BY <1>2, ExtentBegins
<1>3. CASE ReadDigit
  BY <1>3, ExtentGrows
<1>4. CASE UNCHANGED integerVars
  <2>1. UNCHANGED args /\ buffer' = buffer /\ pc' = pc /\ dp' = dp /\ exact' = exact
    BY <1>4 DEF integerVars, args
  <2>2. Radix' = Radix /\ Digits' = Digits
    BY <2>1, SameArgs
  <2> QED BY <2>1, <2>2 DEF Extent, IsDigit
<1> QED BY <1>1, <1>2, <1>3, <1>4 DEF IntegerNext

(* The digits end at dp: what has been read is the longest number, or there  *)
(* is none.                                                                  *)
LEMMA Ended ==
  ASSUME IInv, Extent, pc = "digits", ~IsDigit(At(dp))
  PROVE  /\ base \in {0} \union 2..16
         /\ dp = Digits => Ends = {}
         /\ dp # Digits => /\ dp - 1 \in Ends /\ \A i \in Ends : i <= dp - 1
                           /\ exact = Denoted(DigitsOf(Prefix(dp - 1)), BaseOf(Prefix(dp - 1)))
<1>1. IntegerTypeOK
  BY DEF IInv
<1>2. PICK d \in 1..4 : d = Digits
  BY <1>1, ArgsTyped
<1>3. PICK L \in Nat : L = Len(buffer)
  BY <1>1, BufferFacts
<1>4. PICK k \in Nat : k = dp
  BY <1>1 DEF IntegerTypeOK
<1>5. /\ d <= k /\ k <= L + 1
      /\ \A j \in d..k - 1 : IsDigit(buffer[j])
      /\ exact = Denoted(SubSeq(buffer, d, k - 1), Radix)
  BY <1>2, <1>3, <1>4 DEF Extent
<1>6. base \in {0} \union 2..16
  BY <1>1, BaseKnown DEF IInv, Reading
<1>7. ASSUME NEW i \in Ends
      PROVE  i \in Nat /\ i <= k - 1 /\ d <= i
  <2>1. PICK f \in 1..2 : f = First
    BY <1>1, ArgsTyped
  <2>2. i \in Nat /\ i <= L
    BY <1>3, <2>1 DEF Ends
  <2>3. d <= i /\ \A j \in d..i : IsDigit(buffer[j])
    BY <1>1, <1>2, <1>3, <2>2, EndFacts
  <2>4. ~(k <= i)
    <3> SUFFICES ASSUME k <= i
                 PROVE  FALSE
      OBVIOUS
    <3>1. k \in d..i
      BY <1>5, <2>2
    <3>2. IsDigit(buffer[k])
      BY <2>3, <3>1
    <3>3. At(k) = buffer[k]
      BY <1>3, <2>2 DEF At
    <3> QED BY <1>4, <3>2, <3>3
  <2> QED BY <2>2, <2>3, <2>4
<1>8. ASSUME k = d
      PROVE  Ends = {}
  <2>1. ASSUME NEW i \in Ends
        PROVE  FALSE
    BY <1>7, <1>8
  <2> QED BY <2>1
<1>9. ASSUME k # d
      PROVE  /\ k - 1 \in Ends
             /\ exact = Denoted(DigitsOf(Prefix(k - 1)), BaseOf(Prefix(k - 1)))
  <2>1. PICK z \in Nat : z = k - 1 /\ d <= z /\ z <= Len(buffer)
    BY <1>3, <1>5, <1>9
  <2>2. z \in Ends
    BY <1>1, <1>2, <1>5, <2>1, EndFacts
  <2>3. DigitsOf(Prefix(z)) = SubSeq(buffer, d, z) /\ BaseOf(Prefix(z)) = Radix
    BY <1>1, <1>2, <2>1, PrefixFacts
  <2> QED BY <1>5, <2>1, <2>2, <2>3
<1> QED BY <1>2, <1>4, <1>6, <1>7, <1>8, <1>9

LEMMA LongestStep == ASSUME IInv, Extent, ReadsLongest, [IntegerNext]_integerVars PROVE ReadsLongest'
<1>1. CASE RefuseEmpty
  <2>1. UNCHANGED args /\ Empty
    BY <1>1 DEF RefuseEmpty, Return
  <2> QED BY <2>1, SameArgs
<1>2. CASE RefuseBase
  <2>1. UNCHANGED args /\ answer'.count = -1 /\ answer'.errno = "EINVAL" /\ Radix \notin 2..16
    BY <1>2 DEF RefuseBase, Return
  <2>2. base \notin {0} \union 2..16
    BY <2>1, BaseKnown DEF IInv
  <2>3. Answers(answer'.count, answer'.errno, exact')
    BY <2>1, <2>2 DEF Answers
  <2> QED BY <2>1, <2>3, SameArgs
<1>3. CASE RefuseNoDigits
  <2>1. /\ UNCHANGED args /\ answer'.count = -1 /\ answer'.errno = "EILSEQ"
        /\ pc = "digits" /\ ~IsDigit(At(dp)) /\ dp = Digits
    BY <1>3 DEF RefuseNoDigits, Return
  <2>2. base \in {0} \union 2..16 /\ Ends = {}
    BY <2>1, Ended
  <2>3. Answers(answer'.count, answer'.errno, exact')
    BY <2>1, <2>2 DEF Answers
  <2> QED BY <2>1, <2>3, SameArgs
<1>4. CASE Finish
  <2>1. /\ UNCHANGED args /\ answer'.count = dp - 1 /\ exact' = exact
        /\ pc = "digits" /\ ~IsDigit(At(dp)) /\ dp # Digits
    BY <1>4 DEF Finish, Return
  <2>2. /\ base \in {0} \union 2..16
        /\ dp - 1 \in Ends /\ \A i \in Ends : i <= dp - 1
        /\ exact = Denoted(DigitsOf(Prefix(dp - 1)), BaseOf(Prefix(dp - 1)))
    BY <2>1, Ended
  <2>3. Answers(answer'.count, answer'.errno, exact')
    BY <2>1, <2>2 DEF Answers
  <2> QED BY <2>1, <2>3, SameArgs
<1>5. CASE Begin \/ ReadDigit
  BY <1>5 DEF Begin, ReadDigit, ReadsLongest
<1>6. CASE UNCHANGED integerVars
  <2>1. UNCHANGED args /\ pc' = pc /\ answer' = answer /\ exact' = exact
    BY <1>6 DEF integerVars, args
  <2> QED BY <2>1, SameArgs, Meaning
<1> QED BY <1>1, <1>2, <1>3, <1>4, <1>5, <1>6 DEF IntegerNext

(* A call reads the longest prefix of the buffer that is a number in its     *)
(* base, and what it has read denotes that number; it refuses a bad base, and*)
(* a buffer that begins with no number: for buffers of any length.           *)
THEOREM ReadingCorrect == IntegerSpec => []ReadsLongest
<1>1. IntegerInit => Extent /\ ReadsLongest
  BY DEF IntegerInit, Extent, ReadsLongest
<1>2. IInv /\ Extent /\ [IntegerNext]_integerVars => Extent'
  BY ExtentStep
<1>3. IInv /\ Extent /\ ReadsLongest /\ [IntegerNext]_integerVars => ReadsLongest'
  BY LongestStep
<1> QED BY <1>1, <1>2, <1>3, Invariance, PTL DEF IntegerSpec
------------------------------------------------------------------------------
USE LongBitAssumption, SizeAssumption

(* A number is made of its word and its bit, in one way.                     *)
LEMMA WordAndBit ==
  ASSUME NEW x \in Nat
  PROVE  Word(x) \in Nat /\ Bit(x) \in Bits /\ x = Word(x) * LongBit + Bit(x)
<1>1. x = LongBit * Word(x) + Bit(x) /\ Bit(x) \in 0..LongBit - 1 /\ Word(x) \in Int
  BY Divide DEF Word, Bit
<1>2. Word(x) \in Nat
  BY QuotientBounds DEF Word
<1> QED BY <1>1, <1>2 DEF Bits

LEMMA OneWordAndBit ==
  ASSUME NEW x \in Nat, NEW w \in Nat, NEW b \in Bits, x = w * LongBit + b
  PROVE  Word(x) = w /\ Bit(x) = b
<1>1. Word(x) \in Nat /\ Bit(x) \in Bits /\ x = Word(x) * LongBit + Bit(x)
  BY WordAndBit
<1>2. LongBit * Word(x) + Bit(x) = LongBit * w + b
  BY <1>1 DEF Bits
<1>3. Bit(x) \in 0..LongBit - 1 /\ b \in 0..LongBit - 1
  BY <1>1 DEF Bits
<1> QED BY <1>1, <1>2, <1>3, DivideOneWay

(* Numbers are in the order of their words, and in a word of their bits.     *)
LEMMA EarlierWord ==
  ASSUME NEW v \in Nat, NEW w \in Nat, v < w, NEW a \in Bits, NEW b \in Bits
  PROVE  v * LongBit + a < w * LongBit + b
<1>1. PICK d \in Nat : w = v + 1 + d
  <2>1. w - v - 1 \in Nat /\ w = v + 1 + (w - v - 1)
    OBVIOUS
  <2> QED BY <2>1
<1>2. w * LongBit = v * LongBit + LongBit + d * LongBit
  BY <1>1
<1>3. d * LongBit \in Nat /\ v * LongBit \in Nat
  OBVIOUS
<1> QED BY <1>2, <1>3 DEF Bits

(* BITS_TO_LONGS() makes room for every number below the size.               *)
LEMMA WordOfMember ==
  ASSUME size \in Nat, NEW x \in Nat, x < size
  PROVE  Word(x) \in Words
<1> DEFINE l == BITS_TO_LONGS(size)
           r == (size + LongBit - 1) % LongBit
<1>1. /\ size + LongBit - 1 = LongBit * l + r /\ r \in 0..LongBit - 1 /\ l \in Nat
  <2>1. size + LongBit - 1 \in Nat
    OBVIOUS
  <2> QED BY <2>1, Divide, QuotientBounds DEF BITS_TO_LONGS
<1> HIDE DEF l, r
<1>2. LongBit * l >= size
  BY <1>1
<1>3. Word(x) \in Nat /\ Bit(x) \in Bits /\ x = Word(x) * LongBit + Bit(x)
  BY WordAndBit
<1>4. ~(l < Word(x))
  <2> SUFFICES ASSUME l < Word(x) PROVE FALSE
    OBVIOUS
  <2>1. 0 \in Bits
    BY DEF Bits
  <2>2. l * LongBit + 0 < x
    BY <1>1, <1>3, <2>1, EarlierWord
  <2> QED BY <1>1, <1>2, <2>2
<1>5. l # Word(x)
  BY <1>1, <1>2, <1>3 DEF Bits
<1> QED BY <1>1, <1>3, <1>4, <1>5 DEF Words, l
------------------------------------------------------------------------------
LEMMA InitMembers == Init => HasMembers
<1> SUFFICES ASSUME Init PROVE HasMembers
  OBVIOUS
<1>1. size \in Nat /\ members = {} /\ data = [w \in Words |-> {}]
  BY DEF Init
<1>2. TypeOK
  BY <1>1 DEF Init, TypeOK
<1>3. ASSUME NEW x \in 0..SizeBound + LongBit PROVE ~has(x)
  BY <1>1, <1>3, WordOfMember DEF has, InRange
<1> QED BY <1>1, <1>2, <1>3 DEF HasMembers

LEMMA FillMembers == ASSUME HasMembers, Fill PROVE HasMembers'
<1>1. /\ size' = size /\ size \in Nat /\ size \in 0..SizeBound
      /\ data' = [w \in Words |-> Bits] /\ members' = 0..size - 1
  BY DEF HasMembers, TypeOK, Fill
<1>2. Words' = Words
  BY <1>1 DEF Words
<1>3. TypeOK'
  BY <1>1, <1>2 DEF TypeOK
<1>4. ASSUME NEW x \in 0..SizeBound + LongBit
      PROVE  has(x)' <=> x \in members'
  <2>1. x \in Nat /\ Bit(x) \in Bits
    BY WordAndBit
  <2>2. x < size => Word(x) \in Words
    BY <1>1, <2>1, WordOfMember
  <2>3. x \in members' <=> x < size
    BY <1>1, <2>1
  <2> QED BY <1>1, <2>1, <2>2, <2>3 DEF has, InRange
<1> QED BY <1>3, <1>4 DEF HasMembers

(* Adding or removing a number changes its own bit and no other number's.    *)
LEMMA OtherBits ==
  ASSUME NEW x \in Nat, NEW y \in Nat, x # y
  PROVE  Word(x) # Word(y) \/ Bit(x) # Bit(y)
<1>1. /\ x = Word(x) * LongBit + Bit(x) /\ y = Word(y) * LongBit + Bit(y)
  BY WordAndBit
<1> QED BY <1>1

LEMMA AddMembers ==
  ASSUME HasMembers, NEW elem \in 0..SizeBound + LongBit, Add(elem)
  PROVE  HasMembers'
<1>1. /\ size' = size /\ size \in Nat /\ size \in 0..SizeBound /\ elem \in Nat
      /\ data \in [Words -> SUBSET Bits] /\ members \in SUBSET (0..size - 1)
  BY DEF HasMembers, TypeOK, Add
<1>2. Words' = Words
  BY <1>1 DEF Words
<1>3. CASE ~InRange(elem)
  BY <1>1, <1>2, <1>3 DEF HasMembers, TypeOK, Add, has, InRange
<1>4. CASE InRange(elem)
  <2>1. /\ elem < size /\ Word(elem) \in Words /\ Bit(elem) \in Bits
        /\ data' = [data EXCEPT ![Word(elem)] = @ \union {Bit(elem)}]
        /\ members' = members \union {elem}
    BY <1>1, <1>4, WordAndBit, WordOfMember DEF Add, InRange
  <2>2. TypeOK'
    <3>1. data' \in [Words -> SUBSET Bits]
      BY <1>1, <2>1
    <3>2. members' \in SUBSET (0..size - 1)
      BY <1>1, <2>1
    <3> QED BY <1>1, <1>2, <3>1, <3>2 DEF TypeOK
  <2>3. ASSUME NEW x \in 0..SizeBound + LongBit
        PROVE  has(x)' <=> x \in members'
    <3>1. x \in Nat /\ (has(x) <=> x \in members)
      BY DEF HasMembers
    <3>2. x < size => Word(x) \in Words
      BY <1>1, <3>1, WordOfMember
    <3>3. CASE x = elem
      BY <1>1, <2>1, <3>3 DEF has, InRange
    <3>4. CASE x # elem
      <4>1. Word(x) # Word(elem) \/ Bit(x) # Bit(elem)
        BY <1>1, <3>1, <3>4, OtherBits
      <4>2. x < size => (Bit(x) \in data'[Word(x)] <=> Bit(x) \in data[Word(x)])
        BY <1>1, <2>1, <3>2, <4>1
      <4> QED BY <1>1, <2>1, <3>1, <3>4, <4>2 DEF has, InRange
    <3> QED BY <3>3, <3>4
  <2> QED BY <2>2, <2>3 DEF HasMembers
<1> QED BY <1>3, <1>4

LEMMA RemoveMembers ==
  ASSUME HasMembers, NEW elem \in 0..SizeBound + LongBit, Remove(elem)
  PROVE  HasMembers'
<1>1. /\ size' = size /\ size \in Nat /\ size \in 0..SizeBound /\ elem \in Nat
      /\ data \in [Words -> SUBSET Bits] /\ members \in SUBSET (0..size - 1)
  BY DEF HasMembers, TypeOK, Remove
<1>2. Words' = Words
  BY <1>1 DEF Words
<1>3. CASE ~InRange(elem)
  BY <1>1, <1>2, <1>3 DEF HasMembers, TypeOK, Remove, has, InRange
<1>4. CASE InRange(elem)
  <2>1. /\ elem < size /\ Word(elem) \in Words /\ Bit(elem) \in Bits
        /\ data' = [data EXCEPT ![Word(elem)] = @ \ {Bit(elem)}]
        /\ members' = members \ {elem}
    BY <1>1, <1>4, WordAndBit, WordOfMember DEF Remove, InRange
  <2>2. TypeOK'
    <3>1. data' \in [Words -> SUBSET Bits]
      BY <1>1, <2>1
    <3>2. members' \in SUBSET (0..size - 1)
      BY <1>1, <2>1
    <3> QED BY <1>1, <1>2, <3>1, <3>2 DEF TypeOK
  <2>3. ASSUME NEW x \in 0..SizeBound + LongBit
        PROVE  has(x)' <=> x \in members'
    <3>1. x \in Nat /\ (has(x) <=> x \in members)
      BY DEF HasMembers
    <3>2. x < size => Word(x) \in Words
      BY <1>1, <3>1, WordOfMember
    <3>3. CASE x = elem
      BY <1>1, <2>1, <3>3 DEF has, InRange
    <3>4. CASE x # elem
      <4>1. Word(x) # Word(elem) \/ Bit(x) # Bit(elem)
        BY <1>1, <3>1, <3>4, OtherBits
      <4>2. x < size => (Bit(x) \in data'[Word(x)] <=> Bit(x) \in data[Word(x)])
        BY <1>1, <2>1, <3>2, <4>1
      <4> QED BY <1>1, <2>1, <3>1, <3>4, <4>2 DEF has, InRange
    <3> QED BY <3>3, <3>4
  <2> QED BY <2>2, <2>3 DEF HasMembers
<1> QED BY <1>3, <1>4

LEMMA StepMembers == HasMembers /\ [Next]_vars => HasMembers'
<1> SUFFICES ASSUME HasMembers, [Next]_vars PROVE HasMembers'
  OBVIOUS
<1>1. CASE Fill
  BY <1>1, FillMembers
<1>2. ASSUME NEW elem \in 0..SizeBound + LongBit, Add(elem) PROVE HasMembers'
  BY <1>2, AddMembers
<1>3. ASSUME NEW elem \in 0..SizeBound + LongBit, Remove(elem) PROVE HasMembers'
  BY <1>3, RemoveMembers
<1>4. CASE UNCHANGED vars
  BY <1>4 DEF vars, HasMembers, TypeOK, Words, has, InRange
<1> QED BY <1>1, <1>2, <1>3, <1>4 DEF Next

(* After any calls, a number is in the set if and only if its bit says so:   *)
(* no call changes another number's bit, or a word beyond the array.         *)
THEOREM MembersCorrect == Spec => []HasMembers
  BY InitMembers, StepMembers, PTL DEF Spec
------------------------------------------------------------------------------
(* What a search for a number of one kind looks for.                         *)
OfKind(x, hit) == (Bit(x) \in data[Word(x)]) = hit
Wanted(elem, hit) == {x \in 0..size - 1 : x >= elem /\ (x \in members) = hit}

LEMMA WantedFacts ==
  ASSUME HasMembers, NEW elem \in Nat, NEW hit \in BOOLEAN
  PROVE  Wanted(elem, hit) = {x \in 0..size - 1 : x >= elem /\ OfKind(x, hit)}
<1>1. ASSUME NEW x \in 0..size - 1
      PROVE  ((x \in members) = hit) <=> OfKind(x, hit)
  <2>1. x \in 0..SizeBound + LongBit /\ x < size
    BY DEF HasMembers, TypeOK
  <2>2. has(x) <=> x \in members
    BY <2>1 DEF HasMembers
  <2>3. Bit(x) \in data[Word(x)] <=> x \in members
    BY <2>1, <2>2 DEF has, InRange
  <2>4. CASE hit = TRUE
    BY <2>3, <2>4 DEF OfKind
  <2>5. CASE hit = FALSE
    BY <2>3, <2>5 DEF OfKind
  <2> QED BY <2>4, <2>5
<1> QED BY <1>1 DEF Wanted

(* Every number wanted is a bit of a word that is searched.                  *)
LEMMA WantedIsHit ==
  ASSUME HasMembers, NEW elem \in Nat, NEW hit \in BOOLEAN, NEW x \in Wanted(elem, hit)
  PROVE  Word(x) \in Hits(elem, hit) /\ Bit(x) \in Sought(elem, hit, Word(x))
<1>1. size \in Nat /\ x \in 0..size - 1 /\ x >= elem /\ OfKind(x, hit)
  BY WantedFacts DEF HasMembers, TypeOK
<1>2. x \in Nat /\ x < size
  BY <1>1
<1>3. Word(x) \in Words /\ Word(x) \in Nat /\ Bit(x) \in Bits
  BY <1>1, <1>2, WordOfMember, WordAndBit
<1>4. /\ Word(elem) \in Nat /\ Bit(elem) \in Bits
      /\ elem = Word(elem) * LongBit + Bit(elem) /\ x = Word(x) * LongBit + Bit(x)
  BY <1>2, WordAndBit
<1>5. Word(x) >= Word(elem)
  <2>1. ~(Word(x) < Word(elem))
    <3> SUFFICES ASSUME Word(x) < Word(elem) PROVE FALSE
      OBVIOUS
    <3>1. x < elem
      BY <1>3, <1>4, EarlierWord
    <3> QED BY <1>1, <1>2, <3>1
  <2> QED BY <1>3, <1>4, <2>1
<1>6. Word(x) = Word(elem) => Bit(x) >= Bit(elem)
  BY <1>1, <1>2, <1>3, <1>4 DEF Bits
<1>7. Bit(x) \in Sought(elem, hit, Word(x))
  BY <1>1, <1>3, <1>6 DEF Sought, OfKind
<1> QED BY <1>3, <1>5, <1>7 DEF Hits

(* The bit found is not below elem, of the kind sought, and before every     *)
(* number wanted; it may be one of the bits beyond size.                     *)
LEMMA FoundFacts ==
  ASSUME HasMembers, NEW elem \in Nat, NEW hit \in BOOLEAN, Hits(elem, hit) # {}
  PROVE  /\ Found(elem, hit) \in Nat
         /\ Found(elem, hit) < size => Found(elem, hit) \in Wanted(elem, hit)
         /\ \A x \in Wanted(elem, hit) : Found(elem, hit) <= x
<1> DEFINE w == Least(Hits(elem, hit))
           b == Least(Sought(elem, hit, w))
           f == Found(elem, hit)
<1>1. size \in Nat /\ BITS_TO_LONGS(size) \in Int
  BY Divide DEF HasMembers, TypeOK, BITS_TO_LONGS
<1>2. Hits(elem, hit) \in SUBSET Nat
  BY <1>1 DEF Hits, Words
<1>3. w \in Hits(elem, hit) /\ \A v \in Hits(elem, hit) : w <= v
  BY <1>2, LeastFacts DEF Least
<1> HIDE DEF w
<1>4. w \in Nat /\ w >= Word(elem) /\ Sought(elem, hit, w) # {}
  BY <1>2, <1>3 DEF Hits
<1>5. Sought(elem, hit, w) \in SUBSET Nat
  BY DEF Sought, Bits
<1>6. b \in Sought(elem, hit, w) /\ \A a \in Sought(elem, hit, w) : b <= a
  BY <1>4, <1>5, LeastFacts DEF Least
<1> HIDE DEF b
<1>7. f = w * LongBit + b
  BY DEF Found, w, b
<1> HIDE DEF f
<1>8. b \in Bits /\ b \in Nat
  BY <1>6 DEF Sought, Bits
<1>9. f \in Nat /\ Word(f) = w /\ Bit(f) = b
  <2>1. f \in Nat
    BY <1>4, <1>7, <1>8
  <2> QED BY <1>4, <1>7, <1>8, <2>1, OneWordAndBit
<1>10. ASSUME f < size PROVE f \in Wanted(elem, hit)
  <2>1. OfKind(f, hit) /\ (w = Word(elem) => b >= Bit(elem))
    BY <1>6, <1>9 DEF Sought, OfKind
  <2>2. /\ Word(elem) \in Nat /\ Bit(elem) \in Bits
        /\ elem = Word(elem) * LongBit + Bit(elem)
    BY WordAndBit
  <2>3. CASE w = Word(elem)
    <3>1. f >= elem
      BY <1>4, <1>7, <1>8, <2>1, <2>2, <2>3 DEF Bits
    <3> QED BY <1>1, <1>9, <1>10, <2>1, <3>1, WantedFacts
  <2>4. CASE w # Word(elem)
    <3>1. Word(elem) < w
      BY <1>4, <2>2, <2>4
    <3>2. elem < f
      BY <1>4, <1>7, <1>8, <2>2, <3>1, EarlierWord
    <3> QED BY <1>1, <1>9, <1>10, <2>1, <3>2, WantedFacts
  <2> QED BY <2>3, <2>4
<1>11. ASSUME NEW x \in Wanted(elem, hit) PROVE f <= x
  <2>1. x \in Nat
    BY DEF Wanted
  <2>2. Word(x) \in Hits(elem, hit) /\ Bit(x) \in Sought(elem, hit, Word(x))
    BY WantedIsHit
  <2>3. Word(x) \in Nat /\ Bit(x) \in Bits /\ x = Word(x) * LongBit + Bit(x)
    BY <2>1, WordAndBit
  <2>4. CASE Word(x) = w
    <3>1. b <= Bit(x)
      BY <1>6, <2>2, <2>4
    <3> QED BY <1>4, <1>7, <1>8, <2>3, <2>4, <3>1 DEF Bits
  <2>5. CASE Word(x) # w
    <3>1. w < Word(x)
      BY <1>3, <1>4, <2>2, <2>3, <2>5
    <3>2. f < x
      BY <1>4, <1>7, <1>8, <2>3, <3>1, EarlierWord
    <3> QED BY <1>9, <2>1, <3>2
  <2> QED BY <2>4, <2>5
<1> QED BY <1>9, <1>10, <1>11 DEF f

(* A search answers the least number of its kind from the given one on, and  *)
(* -1 if there is none, for any set and any width of words.                  *)
THEOREM SearchesCorrect == Spec => []FindsNext
<1>1. ASSUME HasMembers, NEW elem \in 0..SizeBound + LongBit, NEW hit \in BOOLEAN
      PROVE  find_next(elem, hit) =
               IF Wanted(elem, hit) = {} THEN -1 ELSE Least(Wanted(elem, hit))
  <2> DEFINE S == Wanted(elem, hit)
  <2>1. elem \in Nat /\ size \in Nat /\ S \in SUBSET Nat /\ \A x \in S : x < size /\ elem <= x
    BY <1>1 DEF HasMembers, TypeOK, Wanted
  <2>2. CASE ~InRange(elem)
    <3>1. S = {}
      BY <2>1, <2>2 DEF InRange
    <3> QED BY <2>2, <3>1 DEF find_next
  <2>3. CASE Hits(elem, hit) = {}
    <3>1. S = {}
      BY <1>1, <2>1, <2>3, WantedIsHit
    <3> QED BY <2>3, <3>1 DEF find_next
  <2>4. CASE Hits(elem, hit) # {} /\ InRange(elem)
    <3> DEFINE f == Found(elem, hit)
    <3>1. f \in Nat /\ (f < size => f \in S) /\ \A x \in S : f <= x
      BY <1>1, <2>1, <2>4, FoundFacts
    <3>2. find_next(elem, hit) = IF f < size THEN f ELSE -1
      BY <2>4 DEF find_next, InRange
    <3> HIDE DEF f, S
    <3>3. CASE f < size
      <4>1. f \in S /\ S # {}
        BY <3>1, <3>3
      <4>2. Least(S) \in S /\ \A l \in S : Least(S) <= l
        BY <2>1, <4>1, LeastFacts DEF Least
      <4>3. Least(S) = f
        <5>1. Least(S) <= f /\ f <= Least(S)
          BY <3>1, <4>1, <4>2
        <5>2. Least(S) \in Nat
          BY <2>1, <4>2
        <5> QED BY <3>1, <5>1, <5>2
      <4> QED BY <3>2, <3>3, <4>1, <4>3 DEF S
    <3>4. CASE ~(f < size)
      <4>1. S = {}
        BY <2>1, <3>1, <3>4
      <4> QED BY <3>2, <3>4, <4>1 DEF S
    <3> QED BY <3>3, <3>4
  <2> QED BY <2>2, <2>3, <2>4
<1>2. HasMembers => FindsNext
  BY <1>1 DEF FindsNext, Wanted
<1> QED BY <1>2, MembersCorrect, PTL
------------------------------------------------------------------------------
(* The parts of a time, as the provers are to see them.                      *)
S == SECONDS_PER_MINUTE
M == MINUTES_PER_HOUR
H == HOURS_PER_DAY
LEMMA Lengths == /\ S \in Nat /\ S > 0 /\ M \in Nat /\ M > 0 /\ H \in Nat /\ H > 0
                 /\ SECONDS_PER_DAY = H * M * S
  BY LengthAssumption DEF SECONDS_PER_DAY, S, M, H

LEMMA Product == ASSUME NEW x \in Nat, NEW y \in Nat
                 PROVE  x * y \in Nat
  OBVIOUS
LEMMA Monotone == ASSUME NEW k \in Nat, NEW x \in Nat, NEW y \in Nat, x <= y
                  PROVE  k * x <= k * y
<1>1. PICK d \in Nat : y = x + d
  <2>1. y - x \in Nat /\ y = x + (y - x)
    OBVIOUS
  <2> QED BY <2>1
<1>2. k * d \in Nat /\ k * x \in Nat /\ k * y = k * x + k * d
  BY <1>1, Product
<1> QED BY <1>2

(* / and % split a number the one way it can be split.                       *)
LEMMA Split ==
  ASSUME NEW P \in Nat, P > 0, NEW k \in Nat, NEW r \in 0..P - 1
  PROVE  Quot(P * k + r, P) = k /\ Rem(P * k + r, P) = r
<1> DEFINE x == P * k + r
<1>1. P * k \in Nat
  BY Product
<1>2. x \in Nat /\ x \in Int
  BY <1>1
<1>3. x = P * (x \div P) + (x % P) /\ (x % P) \in 0..P - 1 /\ (x \div P) \in Int
  BY <1>2, Divide
<1>4. x \div P = k
  BY <1>3, DivideOneWay
<1>5. Quot(x, P) = k
  BY <1>2, <1>4 DEF Quot
<1>6. Rem(x, P) = x - P * k
  BY <1>5 DEF Rem
<1> QED BY <1>1, <1>5, <1>6

LEMMA Remains == ASSUME NEW P \in Nat, P > 0, NEW x \in Nat
                 PROVE  Rem(x, P) = x % P
<1>1. x = P * (x \div P) + (x % P) /\ (x % P) \in 0..P - 1 /\ (x \div P) \in Int
  BY Divide
<1>2. x \div P \in Nat
  BY QuotientBounds
<1>3. PICK k \in Nat, r \in 0..P - 1 : x = P * k + r /\ r = x % P
  BY <1>1, <1>2
<1>4. Rem(P * k + r, P) = r
  BY Split
<1> QED BY <1>3, <1>4
------------------------------------------------------------------------------
(* A day is given by its four centuries, century, four years, year and day   *)
(* of a year that begins with March.                                         *)
InFour(y, u) == YEAR * y + u
InCentury(q, y, u) == FOUR_YEARS * q + InFour(y, u)
InCycle(c, q, y, u) == CENTURY * c + InCentury(q, y, u)
DayOf(a, c, q, y, u) == FOUR_CENTURIES * a + InCycle(c, q, y, u)
YearOf(a, c, q, y) == a * 400 - 300 + c * 100 + q * 4 + y

DateIn(year, u) == [year |-> year + YDAY_INFO(u).year_offset,
                    mon |-> YDAY_INFO(u).mon, mday |-> YDAY_INFO(u).mday]

(* The lengths, each by the one before.                                      *)
LEMMA YearLengths ==
  /\ YEAR \in Nat /\ YEAR > 0
  /\ FOUR_YEARS \in Nat /\ FOUR_YEARS = 4 * YEAR + 1
  /\ CENTURY \in Nat /\ CENTURY = 25 * FOUR_YEARS - 1
  /\ FOUR_CENTURIES \in Nat /\ FOUR_CENTURIES = 4 * CENTURY + 1
<1>1. YEAR \in Nat /\ YEAR > 0
  BY DEF YEAR
<1>2. FOUR_YEARS \in Nat /\ FOUR_YEARS = 4 * YEAR + 1
  BY <1>1 DEF FOUR_YEARS
<1>3. CENTURY = 100 * YEAR + 24 /\ FOUR_CENTURIES = 4 * CENTURY + 1
  BY Zenon DEF CENTURY, FOUR_CENTURIES
<1>4. CENTURY \in Nat /\ CENTURY = 25 * FOUR_YEARS - 1
  BY <1>1, <1>2, <1>3
<1>5. FOUR_CENTURIES \in Nat
  BY <1>3, <1>4
<1> QED BY <1>1, <1>2, <1>3, <1>4, <1>5

(* What DateOf() takes a day apart into.                                     *)
Apart(a, c, q, y, u) ==
  /\ Quot(DayOf(a, c, q, y, u), FOUR_CENTURIES) = a
  /\ Rem(DayOf(a, c, q, y, u), FOUR_CENTURIES) = InCycle(c, q, y, u)
  /\ Quot(InCycle(c, q, y, u), CENTURY) = c
  /\ Rem(InCycle(c, q, y, u), CENTURY) = InCentury(q, y, u)
  /\ Quot(InCentury(q, y, u), FOUR_YEARS) = q
  /\ Rem(InCentury(q, y, u), FOUR_YEARS) = InFour(y, u)
  /\ Quot(InFour(y, u), YEAR) = y
  /\ Rem(InFour(y, u), YEAR) = u

Fits(c, q, y, u) == /\ u \in 0..YEAR - 1 /\ InFour(y, u) \in 0..FOUR_YEARS - 1
                    /\ InCentury(q, y, u) \in 0..CENTURY - 1
                    /\ InCycle(c, q, y, u) \in 0..FOUR_CENTURIES - 1
LEMMA Fitting ==
  ASSUME NEW c \in 0..4, NEW q \in 0..24, NEW y \in 0..4, NEW u \in 0..YEAR - 1,
         y = 4 => u = 0 /\ q <= 23,
         c = 4 => InCentury(q, y, u) = 0
  PROVE  Fits(c, q, y, u)
<1>1. InFour(y, u) \in 0..FOUR_YEARS - 1 /\ (y <= 3 => InFour(y, u) <= FOUR_YEARS - 2)
  <2>1. InFour(y, u) = YEAR * y + u /\ y \in Nat /\ 3 \in Nat
    BY SMT DEF InFour
  <2>2. YEAR * y \in Nat
    BY <2>1, YearLengths, Product, Zenon
  <2>3. y <= 3 => YEAR * y <= YEAR * 3
    BY <2>1, YearLengths, Monotone, Zenon
  <2> QED BY <2>1, <2>2, <2>3, YearLengths
<1>2. InCentury(q, y, u) \in 0..CENTURY - 1
  <2>1. InCentury(q, y, u) = FOUR_YEARS * q + InFour(y, u)
        /\ q \in Nat /\ 23 \in Nat /\ 24 \in Nat
    BY SMT DEF InCentury
  <2>2. FOUR_YEARS * q \in Nat
    BY <2>1, YearLengths, Product, Zenon
  <2>3. /\ q <= 23 => FOUR_YEARS * q <= FOUR_YEARS * 23
        /\ q <= 24 => FOUR_YEARS * q <= FOUR_YEARS * 24
    BY <2>1, YearLengths, Monotone, Zenon
  <2>4. y <= 3 \/ q <= 23
    OBVIOUS
  <2> QED BY <1>1, <2>1, <2>2, <2>3, <2>4, YearLengths
<1>3. InCycle(c, q, y, u) \in 0..FOUR_CENTURIES - 1
  <2>1. InCycle(c, q, y, u) = CENTURY * c + InCentury(q, y, u) /\ c \in Nat /\ 3 \in Nat
    BY SMT DEF InCycle
  <2>2. CENTURY * c \in Nat
    BY <2>1, YearLengths, Product, Zenon
  <2>3. c <= 3 => CENTURY * c <= CENTURY * 3
    BY <2>1, YearLengths, Monotone, Zenon
  <2> QED BY <1>2, <2>1, <2>2, <2>3, YearLengths
<1> QED BY <1>1, <1>2, <1>3 DEF Fits
LEMMA Parts ==
  ASSUME NEW a \in Nat, NEW c \in Nat, NEW q \in Nat, NEW y \in Nat, NEW u,
         Fits(c, q, y, u)
  PROVE  Apart(a, c, q, y, u)
<1>1. /\ YEAR \in Nat /\ YEAR > 0 /\ FOUR_YEARS \in Nat /\ FOUR_YEARS > 0
      /\ CENTURY \in Nat /\ CENTURY > 0 /\ FOUR_CENTURIES \in Nat /\ FOUR_CENTURIES > 0
  BY SMT, YearLengths
<1>2. /\ u \in 0..YEAR - 1 /\ InFour(y, u) \in 0..FOUR_YEARS - 1
      /\ InCentury(q, y, u) \in 0..CENTURY - 1
      /\ InCycle(c, q, y, u) \in 0..FOUR_CENTURIES - 1
  BY DEF Fits
<1>3. Quot(InFour(y, u), YEAR) = y /\ Rem(InFour(y, u), YEAR) = u
  BY <1>1, <1>2, Split, Zenon DEF InFour
<1>4. /\ Quot(InCentury(q, y, u), FOUR_YEARS) = q
      /\ Rem(InCentury(q, y, u), FOUR_YEARS) = InFour(y, u)
  BY <1>1, <1>2, Split, Zenon DEF InCentury
<1>5. /\ Quot(InCycle(c, q, y, u), CENTURY) = c
      /\ Rem(InCycle(c, q, y, u), CENTURY) = InCentury(q, y, u)
  BY <1>1, <1>2, Split, Zenon DEF InCycle
<1>6. /\ Quot(DayOf(a, c, q, y, u), FOUR_CENTURIES) = a
      /\ Rem(DayOf(a, c, q, y, u), FOUR_CENTURIES) = InCycle(c, q, y, u)
  BY <1>1, <1>2, Split, Zenon DEF DayOf
<1> QED BY <1>3, <1>4, <1>5, <1>6, Zenon DEF Apart

(* A day that is no 29th of February.                                        *)
LEMMA CommonDay ==
  ASSUME NEW a \in Nat, NEW c \in 0..3, NEW q \in 0..24, NEW y \in 0..3,
         NEW u \in 0..YEAR - 1
  PROVE  DateOf(DayOf(a, c, q, y, u)) = DateIn(YearOf(a, c, q, y), u)
<1>1. c \in Nat /\ q \in Nat /\ y \in Nat /\ c \in 0..4 /\ y \in 0..4 /\ c # 4 /\ y # 4
  OBVIOUS
<1>2. Fits(c, q, y, u)
  BY <1>1, Fitting, SMT
<1>3. ~IsLeapDay(c) /\ ~IsLeapDay(y)
  BY <1>1 DEF IsLeapDay
<1>4. Apart(a, c, q, y, u)
  BY <1>1, <1>2, Parts, SMT
<1> QED BY <1>3, <1>4, SMT DEF Apart, DateOf, DateIn, YearOf

(* The same in one word.                                                     *)
CommonDate(a, c, q, y, u) == DateOf(DayOf(a, c, q, y, u)) = DateIn(YearOf(a, c, q, y), u)

LEMMA CommonDates ==
  ASSUME NEW a \in Nat, NEW c \in 0..3, NEW q \in 0..24, NEW y \in 0..3,
         NEW u \in 0..YEAR - 1
  PROVE  CommonDate(a, c, q, y, u)
BY CommonDay, Zenon DEF CommonDate

(* The last day of four years, unless they end a century.                    *)
LEMMA FourthYearsDay ==
  ASSUME NEW a \in Nat, NEW c \in 0..3, NEW q \in 0..23
  PROVE  DateOf(DayOf(a, c, q, 4, 0)) = LeapDay(YearOf(a, c, q, 4))
<1>1. /\ c \in Nat /\ q \in Nat /\ 4 \in Nat /\ c \in 0..4 /\ c # 4
      /\ q \in 0..24 /\ q <= 23 /\ 4 \in 0..4
  OBVIOUS
<1>2. 0 \in 0..YEAR - 1
  BY YearLengths
<1>3. Fits(c, q, 4, 0)
  BY <1>1, <1>2, Fitting, SMT
<1>4. ~IsLeapDay(c) /\ IsLeapDay(4)
  BY <1>1 DEF IsLeapDay
<1>5. Apart(a, c, q, 4, 0)
  BY <1>1, <1>3, Parts, SMT
<1> QED BY <1>4, <1>5, SMT DEF Apart, DateOf, YearOf

(* The last day of four centuries.                                           *)
LEMMA FourthCenturysDay ==
  ASSUME NEW a \in Nat
  PROVE  DateOf(DayOf(a, 4, 0, 0, 0)) = LeapDay(YearOf(a, 4, 0, 0))
<1>1. 4 \in Nat /\ 0 \in Nat /\ 4 \in 0..4 /\ 0 \in 0..4 /\ 0 \in 0..24 /\ 0 # 4
  OBVIOUS
<1>2. 0 \in 0..YEAR - 1
  BY YearLengths
<1>3. InCentury(0, 0, 0) = 0
  BY YearLengths DEF InCentury, InFour
<1>4. Fits(4, 0, 0, 0)
  BY <1>1, <1>2, <1>3, Fitting, SMT
<1>5. IsLeapDay(4)
  BY DEF IsLeapDay
<1>6. Apart(a, 4, 0, 0, 0)
  BY <1>1, <1>4, Parts, SMT
<1> QED BY <1>5, <1>6, SMT DEF Apart, DateOf, YearOf

(* Every day is one of these.                                                *)
Kind(c, q, y, u) == \/ c <= 3 /\ y <= 3
                    \/ c <= 3 /\ y = 4 /\ q <= 23 /\ u = 0
                    \/ c = 4 /\ q = 0 /\ y = 0 /\ u = 0
LEMMA Divided ==
  ASSUME NEW P \in Nat, P > 0, NEW x \in Nat
  PROVE  \E k \in Nat, r \in 0..P - 1 : r \in Nat /\ x = P * k + r
<1>1. x = P * (x \div P) + (x % P) /\ (x % P) \in 0..P - 1
  BY Divide
<1>2. x \div P \in Nat
  BY QuotientBounds
<1>3. (x % P) \in Nat
  BY <1>1
<1> QED BY <1>1, <1>2, <1>3, Zenon

LEMMA AtMost ==
  ASSUME NEW P \in Nat, NEW k \in Nat, NEW r \in Nat, NEW l \in Nat,
         P * k + r < P * (l + 1)
  PROVE  k <= l
<1> SUFFICES ASSUME l + 1 <= k
             PROVE  FALSE
  OBVIOUS
<1>1. l + 1 \in Nat
  OBVIOUS
<1>2. P * (l + 1) <= P * k
  BY <1>1, Monotone
<1>3. P * k \in Nat /\ P * (l + 1) \in Nat
  BY <1>1, Product
<1> QED BY <1>2, <1>3

LEMMA EveryDay ==
  ASSUME NEW d \in Nat
  PROVE  \E a \in Nat, c \in 0..4, q \in 0..24, y \in 0..4, u \in 0..YEAR - 1 :
           d = DayOf(a, c, q, y, u) /\ Kind(c, q, y, u)
<1>1. /\ YEAR \in Nat /\ YEAR > 0 /\ FOUR_YEARS \in Nat /\ FOUR_YEARS > 0
      /\ CENTURY \in Nat /\ CENTURY > 0 /\ FOUR_CENTURIES \in Nat /\ FOUR_CENTURIES > 0
  BY YearLengths
<1>2. PICK a \in Nat, s \in 0..FOUR_CENTURIES - 1 : s \in Nat /\ d = FOUR_CENTURIES * a + s
  BY <1>1, Divided, Zenon
<1>3. PICK c \in Nat, t \in 0..CENTURY - 1 : t \in Nat /\ s = CENTURY * c + t
  BY <1>1, <1>2, Divided, Zenon
<1>4. PICK q \in Nat, r \in 0..FOUR_YEARS - 1 : r \in Nat /\ t = FOUR_YEARS * q + r
  BY <1>1, <1>3, Divided, Zenon
<1>5. PICK y \in Nat, u \in 0..YEAR - 1 : u \in Nat /\ r = YEAR * y + u
  BY <1>1, <1>4, Divided, Zenon
<1>6. d = DayOf(a, c, q, y, u)
  BY <1>2, <1>3, <1>4, <1>5, Zenon DEF DayOf, InCycle, InCentury, InFour
<1>7. c <= 4 /\ (c = 4 => t = 0)
  <2>1. CENTURY * c + t < CENTURY * (4 + 1)
    BY <1>2, <1>3, YearLengths
  <2>2. c <= 4
    BY <1>1, <1>3, <2>1, AtMost
  <2> QED BY <1>2, <1>3, <2>2, YearLengths
<1>8. q <= 24 /\ (r = 4 * YEAR => q <= 23) /\ (t = 0 => q = 0 /\ r = 0)
  <2>1. FOUR_YEARS * q + r < FOUR_YEARS * (24 + 1)
    BY <1>3, <1>4, YearLengths
  <2>2. q <= 24
    BY <1>1, <1>4, <2>1, AtMost
  <2>3. ASSUME r = 4 * YEAR PROVE q <= 23
    BY <1>3, <1>4, <2>2, <2>3, YearLengths
  <2>4. ASSUME t = 0 PROVE q = 0 /\ r = 0
    <3>1. FOUR_YEARS * q \in Nat
      BY <1>1, <1>4, Product
    <3>2. FOUR_YEARS * q = 0 /\ r = 0
      BY <1>4, <2>4, <3>1
    <3>3. FOUR_YEARS * q + r < FOUR_YEARS * (0 + 1)
      BY <1>1, <3>2
    <3>4. q <= 0
      BY <1>1, <1>4, <3>3, AtMost
    <3> QED BY <1>4, <3>2, <3>4
  <2> QED BY <2>2, <2>3, <2>4
<1>9. y <= 4 /\ (y = 4 => u = 0 /\ r = 4 * YEAR) /\ (r = 0 => y = 0 /\ u = 0)
  <2>1. YEAR * y + u < YEAR * (4 + 1)
    BY <1>4, <1>5, YearLengths
  <2>2. y <= 4
    BY <1>1, <1>5, <2>1, AtMost
  <2>3. ASSUME y = 4 PROVE u = 0 /\ r = 4 * YEAR
    BY <1>4, <1>5, <2>3, YearLengths
  <2>4. ASSUME r = 0 PROVE y = 0 /\ u = 0
    <3>1. YEAR * y \in Nat
      BY <1>1, <1>5, Product
    <3>2. YEAR * y = 0 /\ u = 0
      BY <1>5, <2>4, <3>1
    <3>3. YEAR * y + u < YEAR * (0 + 1)
      BY <1>1, <3>2
    <3>4. y <= 0
      BY <1>1, <1>5, <3>3, AtMost
    <3> QED BY <1>5, <3>2, <3>4
  <2> QED BY <2>2, <2>3, <2>4
<1>10. c \in 0..4 /\ q \in 0..24 /\ y \in 0..4
  BY <1>3, <1>4, <1>5, <1>7, <1>8, <1>9
<1>11. Kind(c, q, y, u)
  BY <1>3, <1>4, <1>5, <1>7, <1>8, <1>9 DEF Kind
<1> QED BY <1>6, <1>10, <1>11, Zenon
------------------------------------------------------------------------------
(* The table of months, and the length of the year they are of.              *)
LEMMA Months ==
  /\ MonthStart[1] = 0 /\ MonthStart[2] = 31 /\ MonthStart[3] = 61
  /\ MonthStart[4] = 92 /\ MonthStart[5] = 122 /\ MonthStart[6] = 153
  /\ MonthStart[7] = 184 /\ MonthStart[8] = 214 /\ MonthStart[9] = 245
  /\ MonthStart[10] = 275 /\ MonthStart[11] = 306 /\ MonthStart[12] = 337
  BY SMT DEF MonthStart

(* The day on which the month after m starts.                                *)
MonthEnd(m) == IF m < 12 THEN MonthStart[m + 1] ELSE YEAR
InMonth(u, m) == MonthStart[m] <= u /\ u < MonthEnd(m)

LEMMA MonthsFollow ==
  \A m \in 1..12 : /\ MonthStart[m] \in Nat /\ MonthEnd(m) \in Nat
                   /\ MonthStart[m] < MonthEnd(m)
  BY SMT, Months DEF MonthEnd, YEAR

(* Months that start later end later.                                        *)
LEMMA MonthsApart ==
  ASSUME NEW i \in 1..12, NEW j \in 1..12, i < j
  PROVE  MonthEnd(i) <= MonthStart[j]
  BY SMT, Months DEF MonthEnd

LEMMA MonthExists ==
  ASSUME NEW u \in 0..YEAR - 1
  PROVE  \E m \in 1..12 : InMonth(u, m)
  BY SMT, Months DEF MonthEnd, InMonth, YEAR

LEMMA MonthIs ==
  ASSUME NEW u \in 0..YEAR - 1, NEW m \in 1..12, InMonth(u, m)
  PROVE  MonthOf(u) = m
<1> DEFINE P(k) == MonthStart[k] <= u /\ (k < 12 => u < MonthStart[k + 1])
<1>1. P(m)
  BY DEF InMonth, MonthEnd
<1>2. ASSUME NEW k \in 1..12, P(k)
      PROVE  k = m
  <2>1. InMonth(u, k)
    BY <1>2, YearLengths DEF InMonth, MonthEnd
  <2>2. u \in Nat /\ MonthStart[m] \in Nat /\ MonthStart[k] \in Nat
        /\ MonthEnd(m) \in Nat /\ MonthEnd(k) \in Nat
    BY MonthsFollow, YearLengths
  <2>3. ~(k < m)
    BY <2>1, <2>2, MonthsApart DEF InMonth
  <2>4. ~(m < k)
    BY <2>1, <2>2, MonthsApart DEF InMonth
  <2> QED BY <2>3, <2>4
<1>3. MonthOf(u) = CHOOSE k \in 1..12 : P(k)
  BY DEF MonthOf
<1> QED BY <1>1, <1>2, <1>3, Zenon

(* The date of a day that is in month m.                                     *)
LEMMA DateInMonth ==
  ASSUME NEW Y \in Int, NEW u \in 0..YEAR - 1, NEW m \in 1..12, InMonth(u, m)
  PROVE  DateIn(Y, u) = [year |-> Y + YearOffset(m), mon |-> (m + 1) % 12,
                         mday |-> u - MonthStart[m] + 1]
<1>1. MonthOf(u) = m
  BY MonthIs
<1> QED BY <1>1, Zenon DEF DateIn, YDAY_INFO

(* The numbers of the months that tm_mon counts from January.                *)
LEMMA MonthNumbers ==
  ASSUME NEW m \in 1..12
  PROVE  (m + 1) % 12 = IF m <= 10 THEN m + 1 ELSE m - 11
<1>1. CASE m <= 10
  <2>1. 12 * 0 + (m + 1) = m + 1 /\ m + 1 \in 0..12 - 1
    BY <1>1
  <2>2. (12 * 0 + (m + 1)) % 12 = m + 1
    BY <2>1, Remainder
  <2> QED BY <1>1, <2>1, <2>2
<1>2. CASE ~(m <= 10)
  <2>1. 12 * 1 + (m - 11) = m + 1 /\ m - 11 \in 0..12 - 1
    BY <1>2
  <2>2. (12 * 1 + (m - 11)) % 12 = m - 11
    BY <2>1, Remainder
  <2> QED BY <1>2, <2>1, <2>2
<1> QED BY <1>1, <1>2

(* The last day of a month in the calendar.                                  *)
LEMMA MonthLengths ==
  ASSUME NEW year \in Int, NEW m \in 1..11
  PROVE  Reference!DaysIn(year, (m + 1) % 12) = MonthEnd(m) - MonthStart[m]
<1>1. (m + 1) % 12 = IF m <= 10 THEN m + 1 ELSE m - 11
  BY MonthNumbers
<1>2. CASE m \in {2, 4, 7, 9}
  <2>1. (m + 1) % 12 \in {3, 5, 8, 10}
    BY <1>1, <1>2
  <2>2. (m + 1) % 12 # 1
    BY <2>1
  <2>3. Reference!DaysIn(year, (m + 1) % 12) = 30
    BY <2>1, <2>2 DEF Reference!DaysIn
  <2>4. MonthEnd(m) - MonthStart[m] = 30
    BY SMT, <1>2, Months DEF MonthEnd
  <2> QED BY <2>3, <2>4
<1>3. CASE m \notin {2, 4, 7, 9}
  <2>1. (m + 1) % 12 \notin {3, 5, 8, 10} /\ (m + 1) % 12 # 1
    BY <1>1, <1>3
  <2>2. Reference!DaysIn(year, (m + 1) % 12) = 31
    BY <2>1 DEF Reference!DaysIn
  <2>3. MonthEnd(m) - MonthStart[m] = 31
    BY SMT, <1>3, Months DEF MonthEnd
  <2> QED BY <2>2, <2>3
<1> QED BY <1>2, <1>3

LEMMA FebruaryLength ==
  ASSUME NEW year \in Int
  PROVE  Reference!DaysIn(year, 1) = IF Reference!Leap(year) THEN 29 ELSE 28
  BY DEF Reference!DaysIn
------------------------------------------------------------------------------
(* What the calendar makes of a date.                                        *)
DateFrom(y, l, d) == [year |-> y, mon |-> l, mday |-> d]

LEMMA NextInMonth ==
  ASSUME NEW y \in Int, NEW l \in 0..11, NEW d \in Int,
         d < Reference!DaysIn(y + 1900, l)
  PROVE  Reference!NextDate(DateFrom(y, l, d)) = DateFrom(y, l, d + 1)
  BY SMT DEF Reference!NextDate, DateFrom
LEMMA NextMonth ==
  ASSUME NEW y \in Int, NEW l \in 0..10, NEW d \in Int,
         ~(d < Reference!DaysIn(y + 1900, l))
  PROVE  Reference!NextDate(DateFrom(y, l, d)) = DateFrom(y, l + 1, 1)
<1> DEFINE e == DateFrom(y, l, d)
<1>1. e = [year |-> y, mon |-> l, mday |-> d]
  BY SMT DEF DateFrom
<1>2. e.year = y /\ e.mon = l /\ e.mday = d
  BY SMT, <1>1
<1> HIDE DEF e
<1>3. ~(e.mday < Reference!DaysIn(e.year + 1900, e.mon)) /\ e.mon < 11
  BY SMT, <1>2
<1> DEFINE f == [e EXCEPT !.mday = 1]
<1>4. Reference!NextDate(e) = [f EXCEPT !.mon = l + 1]
  BY SMT, <1>2, <1>3 DEF Reference!NextDate
<1>5. Reference!NextDate(e) = [year |-> y, mon |-> l + 1, mday |-> 1]
  <2>1. f = [year |-> y, mon |-> l, mday |-> 1]
    BY SMT, <1>1
  <2> HIDE DEF f
  <2>2. [f EXCEPT !.mon = l + 1] = [year |-> y, mon |-> l + 1, mday |-> 1]
    BY SMT, <2>1
  <2> QED BY <1>4, <2>2
<1> QED BY SMT, <1>5 DEF DateFrom, e
LEMMA NextYear ==
  ASSUME NEW y \in Int, NEW d \in Int, ~(d < Reference!DaysIn(y + 1900, 11))
  PROVE  Reference!NextDate(DateFrom(y, 11, d)) = DateFrom(y + 1, 0, 1)
<1> DEFINE e == DateFrom(y, 11, d)
<1>1. e = [year |-> y, mon |-> 11, mday |-> d]
  BY SMT DEF DateFrom
<1>2. e.year = y /\ e.mon = 11 /\ e.mday = d
  BY SMT, <1>1
<1> HIDE DEF e
<1>3. ~(e.mday < Reference!DaysIn(e.year + 1900, e.mon)) /\ ~(e.mon < 11)
  BY SMT, <1>2
<1> DEFINE f == [e EXCEPT !.mday = 1]
           g == [f EXCEPT !.mon = 0]
<1>4. Reference!NextDate(e) = [g EXCEPT !.year = y + 1]
  BY SMT, <1>2, <1>3 DEF Reference!NextDate
<1>5. Reference!NextDate(e) = [year |-> y + 1, mon |-> 0, mday |-> 1]
  <2>1. f = [year |-> y, mon |-> 11, mday |-> 1]
    BY SMT, <1>1
  <2> HIDE DEF f
  <2>2. g = [year |-> y, mon |-> 0, mday |-> 1]
    BY SMT, <2>1
  <2> HIDE DEF g
  <2>3. [g EXCEPT !.year = y + 1] = [year |-> y + 1, mon |-> 0, mday |-> 1]
    BY SMT, <2>2
  <2> QED BY <1>4, <2>3
<1> QED BY SMT, <1>5 DEF DateFrom, e

(* From one day to the next. The days of a year before its last:             *)
LEMMA NextInYear ==
  ASSUME NEW Y \in Int, NEW u \in 0..YEAR - 1, u + 1 \in 0..YEAR - 1
  PROVE  DateIn(Y, u + 1) = Reference!NextDate(DateIn(Y, u))
<1>1. PICK m \in 1..12 : InMonth(u, m)
  BY MonthExists
<1>2. DateIn(Y, u) = DateFrom(Y + YearOffset(m), (m + 1) % 12, u - MonthStart[m] + 1)
  BY <1>1, DateInMonth, Zenon DEF DateFrom
<1>3. MonthStart[m] \in Nat /\ MonthEnd(m) \in Nat /\ u \in Nat
  BY MonthsFollow, YearLengths
<1>4. PICK y \in Int : y = Y + YearOffset(m)
  <2>1. Y + YearOffset(m) \in Int
    BY DEF YearOffset
  <2> QED BY <2>1, Zenon
<1>5. PICK v \in 0..YEAR - 1 : v = u + 1
  OBVIOUS
<1>6. PICK l \in 0..11 : l = (m + 1) % 12
  <2>1. (m + 1) % 12 = IF m <= 10 THEN m + 1 ELSE m - 11
    BY MonthNumbers
  <2>2. (m + 1) % 12 \in 0..11
    BY <2>1
  <2> QED BY <2>2, Zenon
<1>7. PICK d \in Int : d = u - MonthStart[m] + 1
  BY <1>3
<1>8. y + 1900 \in Int
  OBVIOUS
<1>9. DateIn(Y, u) = DateFrom(y, l, d)
  BY <1>2, <1>4, <1>6, <1>7, Zenon
<1>10. CASE v < MonthEnd(m)
  <2>1. InMonth(v, m)
    BY <1>1, <1>3, <1>5, <1>10 DEF InMonth
  <2>2. DateIn(Y, v) = DateFrom(Y + YearOffset(m), (m + 1) % 12, v - MonthStart[m] + 1)
    BY <2>1, DateInMonth, Zenon DEF DateFrom
  <2>3. v - MonthStart[m] + 1 = d + 1
    BY <1>3, <1>5, <1>7
  <2>4. d < Reference!DaysIn(y + 1900, l)
    <3>1. CASE m # 12
      <4>1. m \in 1..11
        BY <3>1
      <4>2. Reference!DaysIn(y + 1900, (m + 1) % 12) = MonthEnd(m) - MonthStart[m]
        BY <1>8, <4>1, MonthLengths
      <4> QED BY <1>3, <1>5, <1>6, <1>7, <1>10, <4>2
    <3>2. CASE m = 12
      <4>1. l = 1
        BY <1>6, <3>2, MonthNumbers
      <4>2. Reference!DaysIn(y + 1900, 1) \in {28, 29}
        BY <1>8, FebruaryLength
      <4>3. d < 28
        BY SMT, <1>5, <1>7, <1>10, <3>2, Months DEF MonthEnd, YEAR
      <4> QED BY <4>1, <4>2, <4>3
    <3> QED BY <3>1, <3>2
  <2>5. Reference!NextDate(DateFrom(y, l, d)) = DateFrom(y, l, d + 1)
    BY <2>4, NextInMonth
  <2> QED BY <1>4, <1>5, <1>6, <1>9, <2>2, <2>3, <2>5, Zenon
<1>11. CASE ~(v < MonthEnd(m))
  <2>1. v = MonthEnd(m) /\ m \in 1..11
    BY <1>1, <1>3, <1>5, <1>11 DEF InMonth, MonthEnd
  <2>2. PICK k \in 2..12 : k = m + 1
    BY <2>1
  <2>3. k \in 1..12 /\ v = MonthStart[k] /\ v \in Nat
    BY <1>3, <1>5, <2>1, <2>2 DEF MonthEnd
  <2>4. MonthStart[k] < MonthEnd(k)
    BY <2>3, MonthsFollow
  <2>5. InMonth(v, k)
    BY <2>3, <2>4 DEF InMonth
  <2>6. DateIn(Y, v) = DateFrom(Y + YearOffset(k), (k + 1) % 12, v - MonthStart[k] + 1)
    BY <2>3, <2>5, DateInMonth, Zenon DEF DateFrom
  <2>7. v - MonthStart[k] + 1 = 1
    BY <2>3
  <2>8. Reference!DaysIn(y + 1900, (m + 1) % 12) = MonthEnd(m) - MonthStart[m]
    BY <1>8, <2>1, MonthLengths
  <2>9. ~(d < Reference!DaysIn(y + 1900, l))
    BY <1>3, <1>5, <1>6, <1>7, <2>1, <2>8
  <2>10. /\ (m + 1) % 12 = IF m <= 10 THEN m + 1 ELSE m - 11
         /\ (k + 1) % 12 = IF k <= 10 THEN k + 1 ELSE k - 11
    BY <2>1, <2>3, MonthNumbers
  <2>11. CASE m # 10
    <3>1. Y + YearOffset(k) = y
      BY <1>4, <2>2, <2>11 DEF YearOffset
    <3>2. l \in 0..10 /\ (k + 1) % 12 = l + 1
      BY <1>6, <2>1, <2>2, <2>10, <2>11
    <3>3. Reference!NextDate(DateFrom(y, l, d)) = DateFrom(y, l + 1, 1)
      BY <2>9, <3>2, NextMonth
    <3> QED BY <1>5, <1>9, <2>6, <2>7, <3>1, <3>2, <3>3, Zenon
  <2>12. CASE m = 10
    <3>1. Y + YearOffset(k) = y + 1
      BY <1>4, <2>2, <2>12 DEF YearOffset
    <3>2. l = 11 /\ (k + 1) % 12 = 0
      BY <1>6, <2>2, <2>10, <2>12
    <3>3. Reference!NextDate(DateFrom(y, 11, d)) = DateFrom(y + 1, 0, 1)
      BY <2>9, <3>2, NextYear
    <3> QED BY <1>5, <1>9, <2>6, <2>7, <3>1, <3>2, <3>3, Zenon
  <2> QED BY <2>11, <2>12
<1> QED BY <1>10, <1>11

(* After a year's last day comes a first of March, or a 29th of February and *)
(* then the first of March.                                                  *)
LEMMA LastDay ==
  ASSUME NEW Y \in Int
  PROVE  DateIn(Y, YEAR - 1) = DateFrom(Y + 1, 1, 28)
<1>1. YEAR - 1 \in 0..YEAR - 1 /\ 12 \in 1..12
  BY YearLengths
<1>2. YEAR - 1 - MonthStart[12] + 1 = 28
  BY SMT, Months DEF YEAR
<1>3. MonthStart[12] <= YEAR - 1 /\ YEAR - 1 < YEAR
  BY SMT, Months DEF YEAR
<1>4. InMonth(YEAR - 1, 12)
  BY <1>3 DEF InMonth, MonthEnd
<1>5. DateIn(Y, YEAR - 1) = DateFrom(Y + YearOffset(12), (12 + 1) % 12,
                                     YEAR - 1 - MonthStart[12] + 1)
  BY <1>1, <1>4, DateInMonth, Zenon DEF DateFrom
<1>6. YearOffset(12) = 1 /\ (12 + 1) % 12 = 1
  BY DEF YearOffset
<1> QED BY <1>2, <1>5, <1>6, Zenon

LEMMA FirstDay ==
  ASSUME NEW Y \in Int
  PROVE  DateIn(Y, 0) = DateFrom(Y, 2, 1)
<1>1. 0 \in 0..YEAR - 1 /\ 1 \in 1..12
  BY YearLengths
<1>2. MonthStart[1] = 0 /\ InMonth(0, 1)
  BY Months, SMT DEF InMonth, MonthEnd
<1>3. DateIn(Y, 0) = DateFrom(Y + YearOffset(1), (1 + 1) % 12, 0 - MonthStart[1] + 1)
  BY <1>1, <1>2, DateInMonth, Zenon DEF DateFrom
<1>4. Y + YearOffset(1) = Y /\ (1 + 1) % 12 = 2 /\ 0 - MonthStart[1] + 1 = 1
  BY <1>2 DEF YearOffset
<1> QED BY <1>3, <1>4, Zenon

(* Years count from 1900.                                                    *)
LeapYear(Y) == Reference!Leap(Y + 1900)

LEMMA FebruaryEnds ==
  ASSUME NEW Y \in Int
  PROVE  /\ ~LeapYear(Y) => Reference!NextDate(DateFrom(Y, 1, 28)) = DateFrom(Y, 2, 1)
         /\ LeapYear(Y) => /\ Reference!NextDate(DateFrom(Y, 1, 28)) = LeapDay(Y)
                           /\ Reference!NextDate(LeapDay(Y)) = DateFrom(Y, 2, 1)
<1>1. Y + 1900 \in Int
  BY SMT
<1>2. Reference!DaysIn(Y + 1900, 1) = IF LeapYear(Y) THEN 29 ELSE 28
  BY SMT, <1>1, FebruaryLength DEF LeapYear
<1>3. LeapDay(Y) = DateFrom(Y, 1, 29)
  BY SMT DEF LeapDay, DateFrom, FEBRUARY
<1>4. 1 \in 0..10 /\ 1 \in 0..11 /\ 28 \in Int /\ 29 \in Int /\ 1 + 1 = 2 /\ 28 + 1 = 29
  BY SMT
<1>5. ASSUME ~LeapYear(Y)
      PROVE  Reference!NextDate(DateFrom(Y, 1, 28)) = DateFrom(Y, 2, 1)
  <2>1. ~(28 < Reference!DaysIn(Y + 1900, 1))
    BY SMT, <1>2, <1>5
  <2>2. Reference!NextDate(DateFrom(Y, 1, 28)) = DateFrom(Y, 1 + 1, 1)
    BY SMT, <1>4, <2>1, NextMonth
  <2> QED BY SMT, <2>2
<1>6. ASSUME LeapYear(Y)
      PROVE  Reference!NextDate(DateFrom(Y, 1, 28)) = DateFrom(Y, 1, 29)
  <2>1. 28 < Reference!DaysIn(Y + 1900, 1)
    BY SMT, <1>2, <1>6
  <2>2. Reference!NextDate(DateFrom(Y, 1, 28)) = DateFrom(Y, 1, 28 + 1)
    BY SMT, <1>4, <2>1, NextInMonth
  <2> QED BY SMT, <2>2
<1>7. ASSUME LeapYear(Y)
      PROVE  Reference!NextDate(DateFrom(Y, 1, 29)) = DateFrom(Y, 2, 1)
  <2>1. ~(29 < Reference!DaysIn(Y + 1900, 1))
    BY SMT, <1>2, <1>7
  <2>2. Reference!NextDate(DateFrom(Y, 1, 29)) = DateFrom(Y, 1 + 1, 1)
    BY SMT, <1>4, <2>1, NextMonth
  <2> QED BY SMT, <2>2
<1> QED BY SMT, <1>3, <1>5, <1>6, <1>7

LEMMA NextAfterYear ==
  ASSUME NEW Y \in Int, NEW Z \in Int, Z = Y + 1
  PROVE  /\ ~LeapYear(Z) => Reference!NextDate(DateIn(Y, YEAR - 1)) = DateIn(Z, 0)
         /\ LeapYear(Z) => /\ Reference!NextDate(DateIn(Y, YEAR - 1)) = LeapDay(Z)
                           /\ Reference!NextDate(LeapDay(Z)) = DateIn(Z, 0)
<1>1. DateIn(Y, YEAR - 1) = DateFrom(Z, 1, 28)
  BY LastDay, Zenon
<1>2. DateIn(Z, 0) = DateFrom(Z, 2, 1)
  BY FirstDay, Zenon
<1> QED BY <1>1, <1>2, FebruaryEnds, Zenon
------------------------------------------------------------------------------
(* The years that are leap years.                                            *)
LEMMA LeapYears ==
  ASSUME NEW a \in Nat, NEW c \in 0..4, NEW q \in 0..24, NEW y \in 1..4
  PROVE  /\ y # 4 => ~LeapYear(YearOf(a, c, q, y))
         /\ y = 4 /\ q <= 23 => LeapYear(YearOf(a, c, q, y))
         /\ y = 4 /\ q = 24 /\ c <= 2 => ~LeapYear(YearOf(a, c, q, y))
         /\ y = 4 /\ q = 24 /\ c = 3 => LeapYear(YearOf(a, c, q, y))
<1>1. PICK w \in Int : w = YearOf(a, c, q, y) + 1900
  <2>1. YearOf(a, c, q, y) \in Int
    BY SMT DEF YearOf
  <2>2. YearOf(a, c, q, y) + 1900 \in Int
    BY SMT, <2>1
  <2> QED BY SMT, <2>2
<1>2. LeapYear(YearOf(a, c, q, y)) <=> (w % 4 = 0 /\ (w % 100 # 0 \/ w % 400 = 0))
  BY SMT, <1>1 DEF LeapYear, Reference!Leap
<1>3. w = 400 * (a + 4) + (100 * c + 4 * q + y)
  BY SMT, <1>1 DEF YearOf
<1>4. CASE y # 4
  <2>1. 4 * (100 * (a + 4) + 25 * c + q) + y = w
    BY SMT, <1>3
  <2>2. 100 * (a + 4) + 25 * c + q \in Int /\ y \in 0..4 - 1
    BY SMT, <1>4
  <2>3. w % 4 = y
    BY SMT, <2>1, <2>2, Remainder
  <2> QED BY SMT, <1>2, <1>4, <2>3
<1>5. CASE y = 4
  <2>1. w % 4 = 0
    <3>1. 4 * (100 * (a + 4) + 25 * c + q + 1) + 0 = w
      BY SMT, <1>3, <1>5
    <3>2. 100 * (a + 4) + 25 * c + q + 1 \in Int /\ 0 \in 0..4 - 1
      BY SMT
    <3> QED BY SMT, <3>1, <3>2, Remainder
  <2>2. ASSUME q <= 23
        PROVE  w % 100 # 0
    <3>1. 100 * (4 * (a + 4) + c) + (4 * q + 4) = w
      BY SMT, <1>3, <1>5
    <3>2. 4 * (a + 4) + c \in Int /\ 4 * q + 4 \in 0..100 - 1
      BY SMT, <2>2
    <3>3. w % 100 = 4 * q + 4
      BY SMT, <3>1, <3>2, Remainder
    <3> QED BY SMT, <3>3
  <2>3. ASSUME q = 24
        PROVE  w % 100 = 0
    <3>1. 100 * (4 * (a + 4) + c + 1) + 0 = w
      BY SMT, <1>3, <1>5, <2>3
    <3>2. 4 * (a + 4) + c + 1 \in Int /\ 0 \in 0..100 - 1
      BY SMT
    <3> QED BY SMT, <3>1, <3>2, Remainder
  <2>4. ASSUME q = 24, c <= 2
        PROVE  w % 400 # 0
    <3>1. 400 * (a + 4) + (100 * c + 100) = w
      BY SMT, <1>3, <1>5, <2>4
    <3>2. a + 4 \in Int /\ 100 * c + 100 \in 0..400 - 1
      BY SMT, <2>4
    <3>3. w % 400 = 100 * c + 100
      BY SMT, <3>1, <3>2, Remainder
    <3> QED BY SMT, <3>3
  <2>5. ASSUME q = 24, c = 3
        PROVE  w % 400 = 0
    <3>1. 400 * (a + 5) + 0 = w
      BY SMT, <1>3, <1>5, <2>5
    <3>2. a + 5 \in Int /\ 0 \in 0..400 - 1
      BY SMT
    <3> QED BY SMT, <3>1, <3>2, Remainder
  <2> QED BY SMT, <1>2, <1>5, <2>1, <2>2, <2>3, <2>4, <2>5
<1> QED BY <1>4, <1>5
------------------------------------------------------------------------------
(* The date of every day is the calendar's next after the date of the day    *)
(* before.                                                                   *)
Followed(d) == DateOf(d + 1) = Reference!NextDate(DateOf(d))

LEMMA DayAfterCommon ==
  ASSUME NEW a \in Nat, NEW c \in 0..3, NEW q \in 0..24, NEW y \in 0..3,
         NEW u \in 0..YEAR - 1
  PROVE  Followed(DayOf(a, c, q, y, u))
<1>1. PICK d \in Int : d = DayOf(a, c, q, y, u)
  <2>1. DayOf(a, c, q, y, u) \in Int
    BY YearLengths DEF DayOf, InCycle, InCentury, InFour
  <2> QED BY <2>1, Zenon
<1>2. PICK Y \in Int : Y = YearOf(a, c, q, y)
  <2>1. YearOf(a, c, q, y) \in Int
    BY SMT DEF YearOf
  <2> QED BY <2>1, Zenon
<1>3. DateOf(d) = DateIn(Y, u)
  BY <1>1, <1>2, CommonDay, Zenon
<1>4. d = FOUR_CENTURIES * a + (CENTURY * c + (FOUR_YEARS * q + (YEAR * y + u)))
  BY <1>1, Zenon DEF DayOf, InCycle, InCentury, InFour
<1>5. CASE u + 1 <= YEAR - 1
  <2>1. PICK v \in 0..YEAR - 1 : v = u + 1
    BY <1>5, YearLengths
  <2>2. d + 1 = DayOf(a, c, q, y, v)
    BY <1>4, <2>1, YearLengths DEF DayOf, InCycle, InCentury, InFour
  <2>3. DateOf(DayOf(a, c, q, y, v)) = DateIn(YearOf(a, c, q, y), v)
    <3>1. CommonDate(a, c, q, y, v)
      BY CommonDates
    <3> QED BY <3>1 DEF CommonDate
  <2>4. DateIn(Y, v) = Reference!NextDate(DateIn(Y, u))
    BY <2>1, NextInYear
  <2> QED BY <1>1, <1>2, <1>3, <2>2, <2>3, <2>4, Zenon DEF Followed
<1>6. CASE ~(u + 1 <= YEAR - 1)
  <2>1. u = YEAR - 1
    BY <1>6, YearLengths
  <2>2. PICK l \in 1..4 : l = y + 1
    OBVIOUS
  <2>3. PICK Z \in Int : Z = Y + 1
    OBVIOUS
  <2>4. Z = YearOf(a, c, q, l)
    BY SMT, <1>2, <2>2, <2>3 DEF YearOf
  <2>5. c \in 0..4
    OBVIOUS
  <2>6. /\ l # 4 => ~LeapYear(Z)
        /\ l = 4 /\ q <= 23 => LeapYear(Z)
        /\ l = 4 /\ q = 24 /\ c <= 2 => ~LeapYear(Z)
        /\ l = 4 /\ q = 24 /\ c = 3 => LeapYear(Z)
    BY <2>4, <2>5, LeapYears, Zenon
  <2>7. /\ ~LeapYear(Z) => Reference!NextDate(DateOf(d)) = DateIn(Z, 0)
        /\ LeapYear(Z) => Reference!NextDate(DateOf(d)) = LeapDay(Z)
    BY <1>3, <2>1, <2>3, NextAfterYear, Zenon
  <2>8. 0 \in 0..YEAR - 1
    BY YearLengths
  <2>9. d + 1 = FOUR_CENTURIES * a + (CENTURY * c + (FOUR_YEARS * q + YEAR * l))
    BY <1>4, <2>1, <2>2, YearLengths
  <2>10. CASE l # 4
    <3>1. l \in 0..3
      BY <2>10
    <3>2. d + 1 = DayOf(a, c, q, l, 0)
      BY <2>9, YearLengths DEF DayOf, InCycle, InCentury, InFour
    <3>3. DateOf(DayOf(a, c, q, l, 0)) = DateIn(YearOf(a, c, q, l), 0)
      <4>1. CommonDate(a, c, q, l, 0)
        BY <2>8, <3>1, CommonDates
      <4> QED BY <4>1 DEF CommonDate
    <3> QED BY <1>1, <2>4, <2>6, <2>7, <2>10, <3>2, <3>3, Zenon DEF Followed
  <2>11. CASE l = 4 /\ q <= 23
    <3>1. q \in 0..23
      BY <2>11
    <3>2. d + 1 = DayOf(a, c, q, 4, 0)
      BY <2>9, <2>11, YearLengths DEF DayOf, InCycle, InCentury, InFour
    <3>3. DateOf(d + 1) = LeapDay(Z)
      BY <2>4, <2>11, <3>1, <3>2, FourthYearsDay, Zenon
    <3> QED BY <1>1, <2>6, <2>7, <2>11, <3>3, Zenon DEF Followed
  <2>12. CASE l = 4 /\ q = 24 /\ c <= 2
    <3>1. PICK k \in 1..3 : k = c + 1
      BY <2>12
    <3>2. k \in 0..3 /\ 0 \in 0..24 /\ 0 \in 0..3
      OBVIOUS
    <3>3. d + 1 = DayOf(a, k, 0, 0, 0)
      BY <2>9, <2>12, <3>1, YearLengths DEF DayOf, InCycle, InCentury, InFour
    <3>4. Z = YearOf(a, k, 0, 0)
      BY SMT, <2>4, <2>12, <3>1 DEF YearOf
    <3>5. DateOf(DayOf(a, k, 0, 0, 0)) = DateIn(YearOf(a, k, 0, 0), 0)
      <4>1. CommonDate(a, k, 0, 0, 0)
        BY <2>8, <3>2, CommonDates
      <4> QED BY <4>1 DEF CommonDate
    <3> QED BY <1>1, <2>6, <2>7, <2>12, <3>3, <3>4, <3>5, Zenon DEF Followed
  <2>13. CASE l = 4 /\ q = 24 /\ c = 3
    <3>1. d + 1 = DayOf(a, 4, 0, 0, 0)
      BY <2>9, <2>13, YearLengths DEF DayOf, InCycle, InCentury, InFour
    <3>2. Z = YearOf(a, 4, 0, 0)
      BY SMT, <2>4, <2>13 DEF YearOf
    <3>3. DateOf(d + 1) = LeapDay(Z)
      BY <3>1, <3>2, FourthCenturysDay, Zenon
    <3> QED BY <1>1, <2>6, <2>7, <2>13, <3>3, Zenon DEF Followed
  <2>14. l # 4 \/ (l = 4 /\ q <= 23) \/ (l = 4 /\ q = 24 /\ c <= 2)
         \/ (l = 4 /\ q = 24 /\ c = 3)
    OBVIOUS
  <2> QED BY <2>10, <2>11, <2>12, <2>13, <2>14
<1> QED BY <1>5, <1>6

LEMMA DayAfterFourYears ==
  ASSUME NEW a \in Nat, NEW c \in 0..3, NEW q \in 0..23
  PROVE  DateOf(DayOf(a, c, q, 4, 0) + 1) = Reference!NextDate(DateOf(DayOf(a, c, q, 4, 0)))
<1>1. PICK Z \in Int : Z = YearOf(a, c, q, 4)
  <2>1. YearOf(a, c, q, 4) \in Int
    BY SMT DEF YearOf
  <2> QED BY <2>1, Zenon
<1>2. DateOf(DayOf(a, c, q, 4, 0)) = LeapDay(Z)
  BY <1>1, FourthYearsDay, Zenon
<1>3. PICK p \in 1..24 : p = q + 1
  OBVIOUS
<1>4. /\ 0 \in 0..YEAR - 1 /\ c \in 0..4 /\ 0 \in 0..3 /\ p \in 0..24
      /\ q \in 0..24 /\ 4 \in 1..4 /\ q <= 23
  BY YearLengths
<1>5. DayOf(a, c, q, 4, 0) + 1 = DayOf(a, c, p, 0, 0)
  BY <1>3, YearLengths DEF DayOf, InCycle, InCentury, InFour
<1>6. Z = YearOf(a, c, p, 0)
  BY SMT, <1>1, <1>3 DEF YearOf
<1>7. DateOf(DayOf(a, c, p, 0, 0)) = DateIn(Z, 0)
  <2>1. CommonDate(a, c, p, 0, 0)
    BY <1>4, CommonDates
  <2> QED BY <1>6, <2>1 DEF CommonDate
<1>8. LeapYear(Z)
  BY <1>1, <1>4, LeapYears, Zenon
<1>9. PICK Y \in Int : Z = Y + 1
  <2>1. Z - 1 \in Int /\ Z = (Z - 1) + 1
    OBVIOUS
  <2> QED BY <2>1
<1>10. Reference!NextDate(LeapDay(Z)) = DateIn(Z, 0)
  BY <1>8, <1>9, NextAfterYear, Zenon
<1> QED BY <1>2, <1>5, <1>7, <1>10, Zenon

LEMMA DayAfterFourCenturies ==
  ASSUME NEW a \in Nat
  PROVE  DateOf(DayOf(a, 4, 0, 0, 0) + 1) = Reference!NextDate(DateOf(DayOf(a, 4, 0, 0, 0)))
<1>1. PICK Z \in Int : Z = YearOf(a, 4, 0, 0)
  <2>1. YearOf(a, 4, 0, 0) \in Int
    BY SMT DEF YearOf
  <2> QED BY <2>1, Zenon
<1>2. DateOf(DayOf(a, 4, 0, 0, 0)) = LeapDay(Z)
  BY <1>1, FourthCenturysDay, Zenon
<1>3. PICK b \in Nat : b = a + 1
  OBVIOUS
<1>4. /\ 0 \in 0..YEAR - 1 /\ 0 \in 0..3 /\ 0 \in 0..24
      /\ 3 \in 0..4 /\ 24 \in 0..24 /\ 4 \in 1..4
  BY YearLengths
<1>5. DayOf(a, 4, 0, 0, 0) + 1 = DayOf(b, 0, 0, 0, 0)
  BY <1>3, YearLengths DEF DayOf, InCycle, InCentury, InFour
<1>6. Z = YearOf(b, 0, 0, 0) /\ Z = YearOf(a, 3, 24, 4)
  BY SMT, <1>1, <1>3 DEF YearOf
<1>7. DateOf(DayOf(b, 0, 0, 0, 0)) = DateIn(Z, 0)
  <2>1. DateOf(DayOf(b, 0, 0, 0, 0)) = DateIn(YearOf(b, 0, 0, 0), 0)
    BY <1>4, CommonDay
  <2> QED BY <1>6, <2>1, Zenon
<1>8. LeapYear(Z)
  <2>1. LeapYear(YearOf(a, 3, 24, 4))
    BY <1>4, LeapYears
  <2> QED BY <1>6, <2>1, Zenon
<1>9. PICK Y \in Int : Z = Y + 1
  <2>1. Z - 1 \in Int /\ Z = (Z - 1) + 1
    OBVIOUS
  <2> QED BY <2>1
<1>10. Reference!NextDate(LeapDay(Z)) = DateIn(Z, 0)
  BY <1>8, <1>9, NextAfterYear, Zenon
<1> QED BY <1>2, <1>5, <1>7, <1>10, Zenon

LEMMA DatesFollow ==
  ASSUME NEW d \in Nat
  PROVE  DateOf(d + 1) = Reference!NextDate(DateOf(d))
<1>1. PICK a \in Nat, c \in 0..4, q \in 0..24, y \in 0..4, u \in 0..YEAR - 1 :
        d = DayOf(a, c, q, y, u) /\ Kind(c, q, y, u)
  BY EveryDay
<1>2. CASE c <= 3 /\ y <= 3
  <2>1. c \in 0..3 /\ y \in 0..3
    BY <1>2
  <2>2. Followed(DayOf(a, c, q, y, u))
    BY <2>1, DayAfterCommon
  <2> QED BY <1>1, <2>2, Zenon DEF Followed
<1>3. CASE c <= 3 /\ y = 4 /\ q <= 23 /\ u = 0
  <2>1. c \in 0..3 /\ q \in 0..23
    BY <1>3
  <2> QED BY <1>1, <1>3, <2>1, DayAfterFourYears, Zenon
<1>4. CASE c = 4 /\ q = 0 /\ y = 0 /\ u = 0
  BY <1>1, <1>4, DayAfterFourCenturies, Zenon
<1> QED BY <1>1, <1>2, <1>3, <1>4 DEF Kind
------------------------------------------------------------------------------
(* A second is given by its day, hour, minute and second.                    *)
InHour(i, s) == S * i + s
InDay(h, i, s) == InHour(M * h + i, s)
SecondOf(d, h, i, s) == SECONDS_PER_DAY * d + InDay(h, i, s)

Fields(y, l, m, w, h, i, s) ==
  [year |-> y, mon |-> l, mday |-> m, wday |-> w, hour |-> h, min |-> i, sec |-> s]
FieldsAt(d, h, i, s) ==
  Fields(DateOf(d + FROM_1600_03_01).year, DateOf(d + FROM_1600_03_01).mon,
         DateOf(d + FROM_1600_03_01).mday, (d + 4) % 7, h, i, s)

LEMMA DayLength == SECONDS_PER_DAY = S * (M * H) /\ SECONDS_PER_DAY \in Nat /\ SECONDS_PER_DAY > 0
                   /\ M * H \in Nat
<1>1. SECONDS_PER_DAY = S * (M * H)
  BY Lengths
<1>2. M * H \in Nat /\ S * (M * H) \in Nat
  BY Lengths, Product
<1>3. M * 1 <= M * H
  BY Lengths, Monotone
<1>4. M * H \in Nat /\ 1 <= M * H
  BY <1>2, <1>3, Lengths
<1>5. S * 1 <= S * (M * H)
  BY <1>4, Lengths, Monotone
<1> QED BY <1>1, <1>2, <1>5, Lengths

(* A number below a product divides into a quotient and a remainder below    *)
(* its factors, and conversely.                                              *)
LEMMA Below ==
  ASSUME NEW P \in Nat, NEW l \in Nat, NEW k \in Nat, k < l, NEW r \in 0..P - 1
  PROVE  P * k + r \in 0..P * l - 1
<1>1. k + 1 \in Nat /\ k + 1 <= l
  OBVIOUS
<1>2. P * (k + 1) <= P * l /\ P * (k + 1) = P * k + P
  BY <1>1, Monotone
<1>3. P * k \in Nat /\ P * l \in Nat
  BY Product
<1> QED BY <1>2, <1>3

LEMMA TimeParts ==
  ASSUME NEW d \in Nat, NEW h \in 0..H - 1, NEW i \in 0..M - 1, NEW s \in 0..S - 1
  PROVE  /\ Quot(SecondOf(d, h, i, s), SECONDS_PER_DAY) = d
         /\ Rem(SecondOf(d, h, i, s), SECONDS_PER_DAY) = InDay(h, i, s)
         /\ Quot(InDay(h, i, s), S) = M * h + i
         /\ Rem(InDay(h, i, s), S) = s
         /\ Quot(M * h + i, M) = h
         /\ Rem(M * h + i, M) = i
<1>1. h \in Nat /\ h < H /\ i \in Nat /\ s \in Nat
  BY Lengths
<1>2. M * h + i \in 0..M * H - 1
  BY <1>1, Lengths, Below
<1>3. M * h + i \in Nat /\ M * h + i < M * H
  BY <1>2, DayLength
<1>4. InDay(h, i, s) = S * (M * h + i) + s
  BY Zenon DEF InDay, InHour
<1>5. S * (M * h + i) + s \in 0..S * (M * H) - 1
  BY <1>3, DayLength, Lengths, Below
<1>6. InDay(h, i, s) \in 0..SECONDS_PER_DAY - 1
  BY <1>4, <1>5, DayLength
<1>7. /\ Quot(SECONDS_PER_DAY * d + InDay(h, i, s), SECONDS_PER_DAY) = d
      /\ Rem(SECONDS_PER_DAY * d + InDay(h, i, s), SECONDS_PER_DAY) = InDay(h, i, s)
  <2>1. SECONDS_PER_DAY \in Nat /\ SECONDS_PER_DAY > 0
    BY DayLength
  <2> QED BY <1>6, <2>1, Split
<1>8. Quot(S * (M * h + i) + s, S) = M * h + i /\ Rem(S * (M * h + i) + s, S) = s
  BY <1>3, Lengths, Split, Zenon
<1>9. Quot(M * h + i, M) = h /\ Rem(M * h + i, M) = i
  BY <1>1, Lengths, Split, Zenon
<1> QED BY <1>4, <1>7, <1>8, <1>9, Zenon DEF SecondOf

LEMMA FieldsOf ==
  ASSUME NEW d \in Nat, NEW h \in 0..H - 1, NEW i \in 0..M - 1, NEW s \in 0..S - 1
  PROVE  epoch_to_utc(SecondOf(d, h, i, s)) = FieldsAt(d, h, i, s)
<1>1. /\ Quot(SecondOf(d, h, i, s), SECONDS_PER_DAY) = d
      /\ Rem(SecondOf(d, h, i, s), SECONDS_PER_DAY) = InDay(h, i, s)
      /\ Quot(InDay(h, i, s), SECONDS_PER_MINUTE) = M * h + i
      /\ Rem(InDay(h, i, s), SECONDS_PER_MINUTE) = s
      /\ Quot(M * h + i, MINUTES_PER_HOUR) = h
      /\ Rem(M * h + i, MINUTES_PER_HOUR) = i
  BY TimeParts DEF S, M
<1>2. TimeOf(InDay(h, i, s)) = [sec |-> s, min |-> i, hour |-> h]
  BY <1>1, Zenon DEF TimeOf
<1>3. d + 4 \in Nat /\ 7 \in Nat /\ 7 > 0
  OBVIOUS
<1>4. Rem(d + 4, 7) = (d + 4) % 7
  BY <1>3, Remains
<1>5. /\ TimeOf(InDay(h, i, s)).sec = s /\ TimeOf(InDay(h, i, s)).min = i
      /\ TimeOf(InDay(h, i, s)).hour = h
  BY SMT, <1>2
<1> QED BY <1>1, <1>4, <1>5, Zenon DEF epoch_to_utc, Fields, FieldsAt

LEMMA EverySecond ==
  ASSUME NEW e \in Nat
  PROVE  \E d \in Nat, h \in 0..H - 1, i \in 0..M - 1, s \in 0..S - 1 :
           e = SecondOf(d, h, i, s)
<1>1. PICK d \in Nat, x \in 0..SECONDS_PER_DAY - 1 : x \in Nat /\ e = SECONDS_PER_DAY * d + x
  BY DayLength, Divided, Zenon
<1>2. PICK k \in Nat, s \in 0..S - 1 : s \in Nat /\ x = S * k + s
  BY <1>1, Lengths, Divided, Zenon
<1>3. PICK h \in Nat, i \in 0..M - 1 : i \in Nat /\ k = M * h + i
  BY <1>2, Lengths, Divided, Zenon
<1>4. k < M * H
  <2>1. ASSUME M * H <= k
        PROVE  FALSE
    <3>1. S * (M * H) <= S * k
      BY <1>2, <2>1, DayLength, Lengths, Monotone
    <3>2. S * k \in Nat
      BY <1>2, Lengths, Product
    <3> QED BY <1>1, <1>2, <3>1, <3>2, DayLength
  <2> QED BY <1>2, <2>1, DayLength
<1>5. h < H
  <2>1. ASSUME H <= h
        PROVE  FALSE
    <3>1. M * H <= M * h
      BY <1>3, <2>1, Lengths, Monotone
    <3>2. M * h \in Nat
      BY <1>3, Lengths, Product
    <3> QED BY <1>3, <1>4, <3>1, <3>2, DayLength
  <2> QED BY <1>3, <2>1, Lengths
<1>6. h \in 0..H - 1
  BY <1>3, <1>5, Lengths
<1>7. e = SecondOf(d, h, i, s)
  BY <1>1, <1>2, <1>3, Zenon DEF SecondOf, InDay, InHour
<1> QED BY <1>2, <1>3, <1>6, <1>7, Zenon
------------------------------------------------------------------------------
(* The clock's next second, within a minute, an hour, a day and after it.    *)
LEMMA WithinMinute ==
  ASSUME NEW y, NEW l, NEW m, NEW w, NEW h, NEW i, NEW s \in Nat, s < S - 1
  PROVE  Reference!NextSecond(Fields(y, l, m, w, h, i, s)) = Fields(y, l, m, w, h, i, s + 1)
<1> DEFINE t == Fields(y, l, m, w, h, i, s)
<1>1. t = [year |-> y, mon |-> l, mday |-> m, wday |-> w,
           hour |-> h, min |-> i, sec |-> s]
  BY Zenon DEF Fields
<1>2. t.sec = s
  BY SMT, <1>1
<1> HIDE DEF t
<1>3. Reference!NextSecond(t) = [t EXCEPT !.sec = s + 1]
  BY SMT, <1>2 DEF Reference!NextSecond, S
<1>4. [t EXCEPT !.sec = s + 1]
        = [year |-> y, mon |-> l, mday |-> m, wday |-> w,
           hour |-> h, min |-> i, sec |-> s + 1]
  BY SMT, <1>1
<1> QED BY SMT, <1>3, <1>4 DEF t, Fields

LEMMA WithinHour ==
  ASSUME NEW y, NEW l, NEW m, NEW w, NEW h, NEW i \in Nat, i < M - 1,
         NEW s \in Nat, ~(s < S - 1)
  PROVE  Reference!NextSecond(Fields(y, l, m, w, h, i, s)) = Fields(y, l, m, w, h, i + 1, 0)
<1> DEFINE t == Fields(y, l, m, w, h, i, s)
<1>1. t = [year |-> y, mon |-> l, mday |-> m, wday |-> w,
           hour |-> h, min |-> i, sec |-> s]
  BY Zenon DEF Fields
<1>2. t.sec = s /\ t.min = i
  BY SMT, <1>1
<1> HIDE DEF t
<1> DEFINE f == [t EXCEPT !.sec = 0]
<1>3. Reference!NextSecond(t) = [f EXCEPT !.min = i + 1]
  BY SMT, <1>2 DEF Reference!NextSecond, S, M
<1>4. f = [year |-> y, mon |-> l, mday |-> m, wday |-> w,
           hour |-> h, min |-> i, sec |-> 0]
  BY SMT, <1>1
<1> HIDE DEF f
<1>5. [f EXCEPT !.min = i + 1]
        = [year |-> y, mon |-> l, mday |-> m, wday |-> w,
           hour |-> h, min |-> i + 1, sec |-> 0]
  BY SMT, <1>4
<1> QED BY SMT, <1>3, <1>5 DEF t, Fields

LEMMA WithinDay ==
  ASSUME NEW y, NEW l, NEW m, NEW w, NEW h \in Nat, h < H - 1,
         NEW i \in Nat, ~(i < M - 1), NEW s \in Nat, ~(s < S - 1)
  PROVE  Reference!NextSecond(Fields(y, l, m, w, h, i, s)) = Fields(y, l, m, w, h + 1, 0, 0)
<1> DEFINE t == Fields(y, l, m, w, h, i, s)
<1>1. t = [year |-> y, mon |-> l, mday |-> m, wday |-> w,
           hour |-> h, min |-> i, sec |-> s]
  BY Zenon DEF Fields
<1>2. t.sec = s /\ t.min = i /\ t.hour = h
  BY SMT, <1>1
<1> HIDE DEF t
<1> DEFINE f == [t EXCEPT !.sec = 0]
           g == [f EXCEPT !.min = 0]
<1>3. Reference!NextSecond(t) = [g EXCEPT !.hour = h + 1]
  BY SMT, <1>2 DEF Reference!NextSecond, S, M, H
<1>4. f = [year |-> y, mon |-> l, mday |-> m, wday |-> w,
           hour |-> h, min |-> i, sec |-> 0]
  BY SMT, <1>1
<1> HIDE DEF f
<1>5. g = [year |-> y, mon |-> l, mday |-> m, wday |-> w,
           hour |-> h, min |-> 0, sec |-> 0]
  BY SMT, <1>4
<1> HIDE DEF g
<1>6. [g EXCEPT !.hour = h + 1]
        = [year |-> y, mon |-> l, mday |-> m, wday |-> w,
           hour |-> h + 1, min |-> 0, sec |-> 0]
  BY SMT, <1>5
<1> QED BY SMT, <1>3, <1>6 DEF t, Fields

(* The fields of the date carry as they do without the others.               *)
DateMoves(y, l, m, z, o, k, w, h, i, s) ==
  Reference!NextDate(Fields(y, l, m, w, h, i, s)) = Fields(z, o, k, w, h, i, s)

(* The fields that are no date do not matter.                               *)
LEMMA NextDateOfFields ==
  ASSUME NEW y \in Int, NEW l \in 0..11, NEW m \in Int, NEW w, NEW h, NEW i, NEW s,
         NEW z \in Int, NEW o \in 0..11, NEW k \in Int,
         Reference!NextDate(DateFrom(y, l, m)) = DateFrom(z, o, k)
  PROVE  DateMoves(y, l, m, z, o, k, w, h, i, s)
<1> SUFFICES Reference!NextDate(Fields(y, l, m, w, h, i, s)) = Fields(z, o, k, w, h, i, s)
  BY DEF DateMoves
<1> DEFINE t == Fields(y, l, m, w, h, i, s)
<1>1. t = [year |-> y, mon |-> l, mday |-> m, wday |-> w,
           hour |-> h, min |-> i, sec |-> s]
  BY Zenon DEF Fields
<1>2. t.year = y /\ t.mon = l /\ t.mday = m
  BY SMT, <1>1
<1> HIDE DEF t
<1>3. \A a, b, c : DateFrom(z, o, k) = DateFrom(a, b, c) => z = a /\ o = b /\ k = c
  <2> SUFFICES ASSUME NEW a, NEW b, NEW c, DateFrom(z, o, k) = DateFrom(a, b, c)
               PROVE  z = a /\ o = b /\ k = c
    OBVIOUS
  <2>1. /\ DateFrom(z, o, k).year = z /\ DateFrom(z, o, k).mon = o
        /\ DateFrom(z, o, k).mday = k
        /\ DateFrom(a, b, c).year = a /\ DateFrom(a, b, c).mon = b
        /\ DateFrom(a, b, c).mday = c
    BY SMT DEF DateFrom
  <2> QED BY <2>1, Zenon
<1>4. CASE m < Reference!DaysIn(y + 1900, l)
  <2>1. Reference!NextDate(DateFrom(y, l, m)) = DateFrom(y, l, m + 1)
    BY SMT, <1>4, NextInMonth
  <2>2. z = y /\ o = l /\ k = m + 1
    BY <1>3, <2>1, Zenon
  <2>3. Reference!NextDate(t) = [t EXCEPT !.mday = m + 1]
    BY SMT, <1>2, <1>4 DEF Reference!NextDate
  <2>4. [t EXCEPT !.mday = m + 1]
          = [year |-> y, mon |-> l, mday |-> m + 1, wday |-> w,
             hour |-> h, min |-> i, sec |-> s]
    BY SMT, <1>1
  <2> QED BY SMT, <2>2, <2>3, <2>4 DEF t, Fields
<1>5. CASE ~(m < Reference!DaysIn(y + 1900, l)) /\ l < 11
  <2>1. l \in 0..10
    BY <1>5
  <2>2. Reference!NextDate(DateFrom(y, l, m)) = DateFrom(y, l + 1, 1)
    BY SMT, <1>5, <2>1, NextMonth
  <2>3. z = y /\ o = l + 1 /\ k = 1
    BY <1>3, <2>2, Zenon
  <2> DEFINE f == [t EXCEPT !.mday = 1]
  <2>4. Reference!NextDate(t) = [f EXCEPT !.mon = l + 1]
    BY SMT, <1>2, <1>5 DEF Reference!NextDate
  <2>5. f = [year |-> y, mon |-> l, mday |-> 1, wday |-> w,
             hour |-> h, min |-> i, sec |-> s]
    BY SMT, <1>1
  <2> HIDE DEF f
  <2>6. [f EXCEPT !.mon = l + 1]
          = [year |-> y, mon |-> l + 1, mday |-> 1, wday |-> w,
             hour |-> h, min |-> i, sec |-> s]
    BY SMT, <2>5
  <2> QED BY SMT, <2>3, <2>4, <2>6 DEF t, Fields
<1>6. CASE ~(m < Reference!DaysIn(y + 1900, l)) /\ ~(l < 11)
  <2>1. l = 11
    BY <1>6
  <2>2. Reference!NextDate(DateFrom(y, 11, m)) = DateFrom(y + 1, 0, 1)
    BY SMT, <1>6, <2>1, NextYear
  <2>3. z = y + 1 /\ o = 0 /\ k = 1
    BY <1>3, <2>1, <2>2, Zenon
  <2> DEFINE f == [t EXCEPT !.mday = 1]
             g == [f EXCEPT !.mon = 0]
  <2>4. Reference!NextDate(t) = [g EXCEPT !.year = y + 1]
    BY SMT, <1>2, <1>6 DEF Reference!NextDate
  <2>5. f = [year |-> y, mon |-> l, mday |-> 1, wday |-> w,
             hour |-> h, min |-> i, sec |-> s]
    BY SMT, <1>1
  <2> HIDE DEF f
  <2>6. g = [year |-> y, mon |-> 0, mday |-> 1, wday |-> w,
             hour |-> h, min |-> i, sec |-> s]
    BY SMT, <2>5
  <2> HIDE DEF g
  <2>7. [g EXCEPT !.year = y + 1]
          = [year |-> y + 1, mon |-> 0, mday |-> 1, wday |-> w,
             hour |-> h, min |-> i, sec |-> s]
    BY SMT, <2>6
  <2> QED BY SMT, <2>3, <2>4, <2>7 DEF t, Fields
<1> QED BY <1>4, <1>5, <1>6

LEMMA AfterDay ==
  ASSUME NEW y \in Int, NEW l \in 0..11, NEW m \in Int, NEW w \in Int,
         NEW h, h = H - 1, NEW i, i = M - 1, NEW s, s = S - 1,
         NEW z \in Int, NEW o \in 0..11, NEW k \in Int,
         Reference!NextDate(DateFrom(y, l, m)) = DateFrom(z, o, k)
  PROVE  Reference!NextSecond(Fields(y, l, m, w, h, i, s))
           = Fields(z, o, k, (w + 1) % 7, 0, 0, 0)
<1>0. /\ h \in Int /\ ~(h < H - 1) /\ i \in Int /\ ~(i < M - 1)
      /\ s \in Int /\ ~(s < S - 1)
  BY Lengths
<1> DEFINE t == Fields(y, l, m, w, h, i, s)
           e == Fields(z, o, k, w, h, i, s)
<1>1. Reference!NextDate(t) = e
  <2>1. DateMoves(y, l, m, z, o, k, w, h, i, s)
    BY NextDateOfFields
  <2> QED BY <2>1 DEF DateMoves
<1>2. t.sec = s /\ t.min = i /\ t.hour = h
  BY SMT DEF Fields
<1>3. e = [year |-> z, mon |-> o, mday |-> k, wday |-> w,
           hour |-> h, min |-> i, sec |-> s]
  BY Zenon DEF Fields
<1>4. e.wday = w
  BY SMT, <1>3
<1> HIDE DEF t, e
<1> DEFINE f == [e EXCEPT !.wday = (w + 1) % 7]
<1>5. f = [year |-> z, mon |-> o, mday |-> k, wday |-> (w + 1) % 7,
           hour |-> h, min |-> i, sec |-> s]
  BY SMT, <1>3
<1>6. Reference!NextDay(t) = f
  BY SMT, <1>1, <1>4 DEF Reference!NextDay
<1> HIDE DEF f
<1> DEFINE p == [f EXCEPT !.sec = 0]
           q == [p EXCEPT !.min = 0]
<1>7. Reference!NextSecond(t) = [q EXCEPT !.hour = 0]
  BY SMT, <1>0, <1>2, <1>6 DEF Reference!NextSecond, S, M, H
<1>8. p = [year |-> z, mon |-> o, mday |-> k, wday |-> (w + 1) % 7,
           hour |-> h, min |-> i, sec |-> 0]
  BY SMT, <1>5
<1> HIDE DEF p
<1>9. q = [year |-> z, mon |-> o, mday |-> k, wday |-> (w + 1) % 7,
           hour |-> h, min |-> 0, sec |-> 0]
  BY SMT, <1>8
<1> HIDE DEF q
<1>10. [q EXCEPT !.hour = 0]
         = [year |-> z, mon |-> o, mday |-> k, wday |-> (w + 1) % 7,
            hour |-> 0, min |-> 0, sec |-> 0]
  BY SMT, <1>9
<1> QED BY SMT, <1>7, <1>10 DEF t, Fields
------------------------------------------------------------------------------
LEMMA DateInShape ==
  ASSUME NEW Y \in Int, NEW u \in 0..YEAR - 1
  PROVE  \E y \in Int, l \in 0..11, m \in Int : DateIn(Y, u) = DateFrom(y, l, m)
<1>1. PICK j \in 1..12 : InMonth(u, j)
  BY MonthExists
<1>2. DateIn(Y, u) = DateFrom(Y + YearOffset(j), (j + 1) % 12, u - MonthStart[j] + 1)
  BY <1>1, DateInMonth, Zenon DEF DateFrom
<1>3. Y + YearOffset(j) \in Int
  BY DEF YearOffset
<1>4. (j + 1) % 12 \in 0..11
  <2>1. (j + 1) % 12 = IF j <= 10 THEN j + 1 ELSE j - 11
    BY MonthNumbers
  <2> QED BY <2>1
<1>5. u - MonthStart[j] + 1 \in Int
  BY MonthsFollow, YearLengths
<1> QED BY <1>2, <1>3, <1>4, <1>5, Zenon

LEMMA LeapDayShape ==
  ASSUME NEW Z \in Int
  PROVE  \E y \in Int, l \in 0..11, m \in Int : LeapDay(Z) = DateFrom(y, l, m)
<1>1. LeapDay(Z) = DateFrom(Z, 1, 29)
  BY SMT DEF LeapDay, DateFrom, FEBRUARY
<1>2. 1 \in 0..11 /\ 29 \in Int
  OBVIOUS
<1> QED BY <1>1, <1>2, Zenon

LEMMA DateShape ==
  ASSUME NEW d \in Nat
  PROVE  \E y \in Int, l \in 0..11, m \in Int : DateOf(d) = DateFrom(y, l, m)
<1>1. PICK a \in Nat, c \in 0..4, q \in 0..24, y \in 0..4, u \in 0..YEAR - 1 :
        d = DayOf(a, c, q, y, u) /\ Kind(c, q, y, u)
  BY EveryDay
<1>2. YearOf(a, c, q, y) \in Int
  BY SMT DEF YearOf
<1>3. CASE c <= 3 /\ y <= 3
  <2>1. c \in 0..3 /\ y \in 0..3
    BY <1>3
  <2>2. DateOf(DayOf(a, c, q, y, u)) = DateIn(YearOf(a, c, q, y), u)
    <3>1. CommonDate(a, c, q, y, u)
      BY <2>1, CommonDates
    <3> QED BY <3>1 DEF CommonDate
  <2>3. PICK Y \in Int : Y = YearOf(a, c, q, y)
    BY <1>2
  <2>4. DateOf(d) = DateIn(Y, u)
    BY <1>1, <2>2, <2>3
  <2>5. \E z \in Int, l \in 0..11, m \in Int : DateIn(Y, u) = DateFrom(z, l, m)
    BY DateInShape, Zenon
  <2> QED BY <2>4, <2>5
<1>4. CASE c <= 3 /\ y = 4 /\ q <= 23 /\ u = 0
  <2>1. c \in 0..3 /\ q \in 0..23
    BY <1>4
  <2>2. DateOf(DayOf(a, c, q, 4, 0)) = LeapDay(YearOf(a, c, q, 4))
    BY <2>1, FourthYearsDay
  <2>3. DateOf(d) = LeapDay(YearOf(a, c, q, y))
    BY <1>1, <1>4, <2>2, Zenon
  <2> QED BY <1>2, <2>3, LeapDayShape
<1>5. CASE c = 4 /\ q = 0 /\ y = 0 /\ u = 0
  <2>1. DateOf(DayOf(a, 4, 0, 0, 0)) = LeapDay(YearOf(a, 4, 0, 0))
    BY FourthCenturysDay
  <2>2. DateOf(d) = LeapDay(YearOf(a, c, q, y))
    BY <1>1, <1>5, <2>1, Zenon
  <2> QED BY <1>2, <2>2, LeapDayShape
<1> QED BY <1>1, <1>3, <1>4, <1>5 DEF Kind

LEMMA DateFields ==
  ASSUME NEW y, NEW l, NEW m
  PROVE  /\ DateFrom(y, l, m).year = y /\ DateFrom(y, l, m).mon = l
         /\ DateFrom(y, l, m).mday = m
  BY SMT DEF DateFrom

(* The weekdays.                                                             *)
LEMMA NextWeekday ==
  ASSUME NEW x \in Nat
  PROVE  ((x % 7) + 1) % 7 = (x + 1) % 7
<1>1. 7 \in Nat /\ 7 > 0
  OBVIOUS
<1>2. x = 7 * (x \div 7) + (x % 7) /\ (x % 7) \in 0..7 - 1 /\ (x \div 7) \in Int
  BY <1>1, Divide
<1>3. (x % 7) + 1 \in Int
  BY <1>2
<1>4. (((x % 7) + 1) + 7 * (x \div 7)) % 7 = ((x % 7) + 1) % 7
  BY <1>1, <1>2, <1>3, SameRemainder
<1>5. ((x % 7) + 1) + 7 * (x \div 7) = x + 1
  BY <1>2
<1> QED BY <1>4, <1>5

(* One second after another.                                                 *)
LEMMA SecondsFollow ==
  ASSUME NEW e \in Nat
  PROVE  epoch_to_utc(e + 1) = Reference!NextSecond(epoch_to_utc(e))
<1>1. PICK d \in Nat, h \in 0..H - 1, i \in 0..M - 1, s \in 0..S - 1 :
        e = SecondOf(d, h, i, s)
  BY EverySecond
<1>2. PICK D \in Nat : D = d + FROM_1600_03_01
  BY SMT DEF FROM_1600_03_01
<1>3. PICK y \in Int, l \in 0..11, m \in Int : DateOf(D) = DateFrom(y, l, m)
  BY DateShape
<1>4. PICK w \in Int : w = (d + 4) % 7
  <2>1. 7 \in Nat /\ 7 > 0 /\ d + 4 \in Int
    OBVIOUS
  <2>2. (d + 4) % 7 \in Int
    BY <2>1, Divide
  <2> QED BY <2>2, Zenon
<1>5. \A k, j, r : FieldsAt(d, k, j, r) = Fields(y, l, m, w, k, j, r)
  <2>1. DateOf(D).year = y /\ DateOf(D).mon = l /\ DateOf(D).mday = m
    BY <1>3, DateFields
  <2> QED BY <1>2, <1>4, <2>1, Zenon DEF FieldsAt
<1>6. epoch_to_utc(e) = Fields(y, l, m, w, h, i, s)
  <2>1. epoch_to_utc(SecondOf(d, h, i, s)) = FieldsAt(d, h, i, s)
    BY FieldsOf
  <2> QED BY <1>1, <1>5, <2>1, Zenon
<1>7. h \in Nat /\ i \in Nat /\ s \in Nat
  BY Lengths
<1>8. /\ e = SECONDS_PER_DAY * d + (S * (M * h + i) + s)
      /\ SECONDS_PER_DAY = S * (M * H)
  BY <1>1, DayLength, Zenon DEF SecondOf, InDay, InHour
<1>9. CASE s < S - 1
  <2>1. PICK r \in 0..S - 1 : r = s + 1
    BY <1>7, <1>9, Lengths
  <2>2. e + 1 = SecondOf(d, h, i, r)
    <3>1. e + 1 = SECONDS_PER_DAY * d + (S * (M * h + i) + r)
      BY <1>7, <1>8, <2>1, DayLength, Lengths
    <3> QED BY <3>1, Zenon DEF SecondOf, InDay, InHour
  <2>3. epoch_to_utc(SecondOf(d, h, i, r)) = FieldsAt(d, h, i, r)
    BY FieldsOf
  <2>4. Reference!NextSecond(Fields(y, l, m, w, h, i, s)) = Fields(y, l, m, w, h, i, s + 1)
    BY <1>7, <1>9, WithinMinute
  <2> QED BY <1>5, <1>6, <2>1, <2>2, <2>3, <2>4, Zenon
<1>10. CASE ~(s < S - 1) /\ i < M - 1
  <2>1. PICK j \in 0..M - 1 : j = i + 1
    BY <1>7, <1>10, Lengths
  <2>2. 0 \in 0..S - 1 /\ s = S - 1
    BY <1>7, <1>10, Lengths
  <2>3. e + 1 = SecondOf(d, h, j, 0)
    <3>1. S * (M * h + j) + 0 = S * (M * h + i) + s + 1
      BY <1>7, <2>1, <2>2, Lengths
    <3>2. e + 1 = SECONDS_PER_DAY * d + (S * (M * h + j) + 0)
      BY <1>7, <1>8, <2>1, <3>1, DayLength, Lengths
    <3> QED BY <3>2, Zenon DEF SecondOf, InDay, InHour
  <2>4. epoch_to_utc(SecondOf(d, h, j, 0)) = FieldsAt(d, h, j, 0)
    BY <2>2, FieldsOf
  <2>5. Reference!NextSecond(Fields(y, l, m, w, h, i, s)) = Fields(y, l, m, w, h, i + 1, 0)
    BY <1>7, <1>10, WithinHour
  <2> QED BY <1>5, <1>6, <2>1, <2>3, <2>4, <2>5, Zenon
<1>11. CASE ~(s < S - 1) /\ ~(i < M - 1) /\ h < H - 1
  <2>1. PICK k \in 0..H - 1 : k = h + 1
    BY <1>7, <1>11, Lengths
  <2>2. 0 \in 0..S - 1 /\ s = S - 1 /\ 0 \in 0..M - 1 /\ i = M - 1
    BY <1>7, <1>11, Lengths
  <2>3. e + 1 = SecondOf(d, k, 0, 0)
    <3>1. M * k + 0 = M * h + i + 1
      BY <1>7, <2>1, <2>2, Lengths
    <3>2. S * (M * k + 0) + 0 = S * (M * h + i) + s + 1
      BY <1>7, <2>1, <2>2, <3>1, Lengths
    <3>3. e + 1 = SECONDS_PER_DAY * d + (S * (M * k + 0) + 0)
      BY <1>7, <1>8, <2>1, <3>2, DayLength, Lengths
    <3> QED BY <3>3, Zenon DEF SecondOf, InDay, InHour
  <2>4. epoch_to_utc(SecondOf(d, k, 0, 0)) = FieldsAt(d, k, 0, 0)
    BY <2>2, FieldsOf
  <2>5. Reference!NextSecond(Fields(y, l, m, w, h, i, s)) = Fields(y, l, m, w, h + 1, 0, 0)
    BY <1>7, <1>11, WithinDay
  <2> QED BY <1>5, <1>6, <2>1, <2>3, <2>4, <2>5, Zenon
<1>12. CASE ~(s < S - 1) /\ ~(i < M - 1) /\ ~(h < H - 1)
  <2>1. PICK c \in Nat : c = d + 1
    OBVIOUS
  <2>2. /\ 0 \in 0..S - 1 /\ s = S - 1 /\ 0 \in 0..M - 1 /\ i = M - 1
        /\ 0 \in 0..H - 1 /\ h = H - 1
    BY <1>7, <1>12, Lengths
  <2>3. e + 1 = SecondOf(c, 0, 0, 0)
    <3>1. M * h + i + 1 = M * H
      BY <1>7, <2>2, Lengths
    <3>2. S * (M * h + i) + s + 1 = S * (M * H)
      BY <1>7, <2>2, <3>1, Lengths
    <3>3. e + 1 = SECONDS_PER_DAY * c
      BY <1>7, <1>8, <2>1, <3>2, DayLength, Lengths
    <3>4. S * (M * 0 + 0) + 0 = 0
      BY Lengths
    <3>5. e + 1 = SECONDS_PER_DAY * c + (S * (M * 0 + 0) + 0)
      BY <1>7, <2>1, <3>3, <3>4, DayLength
    <3> QED BY <3>5, Zenon DEF SecondOf, InDay, InHour
  <2>4. epoch_to_utc(SecondOf(c, 0, 0, 0)) = FieldsAt(c, 0, 0, 0)
    BY <2>2, FieldsOf
  <2>5. D + 1 \in Nat /\ D + 1 = c + FROM_1600_03_01
    BY SMT, <1>2, <2>1 DEF FROM_1600_03_01
  <2>6. PICK z \in Int, o \in 0..11, p \in Int : DateOf(D + 1) = DateFrom(z, o, p)
    BY <2>5, DateShape
  <2>7. Reference!NextDate(DateFrom(y, l, m)) = DateFrom(z, o, p)
    BY <1>3, <2>6, DatesFollow, Zenon
  <2>8. (c + 4) % 7 = (w + 1) % 7
    <3>1. d + 4 \in Nat /\ (d + 4) + 1 = c + 4
      BY <2>1
    <3>2. (((d + 4) % 7) + 1) % 7 = ((d + 4) + 1) % 7
      BY <3>1, NextWeekday
    <3> QED BY <1>4, <3>1, <3>2, Zenon
  <2>9. FieldsAt(c, 0, 0, 0) = Fields(z, o, p, (w + 1) % 7, 0, 0, 0)
    <3>1. DateOf(D + 1).year = z /\ DateOf(D + 1).mon = o /\ DateOf(D + 1).mday = p
      BY <2>6, DateFields
    <3> QED BY <2>5, <2>8, <3>1, Zenon DEF FieldsAt
  <2>10. Reference!NextSecond(Fields(y, l, m, w, h, i, s))
           = Fields(z, o, p, (w + 1) % 7, 0, 0, 0)
    BY <2>2, <2>7, AfterDay
  <2> QED BY <1>6, <2>3, <2>4, <2>9, <2>10, Zenon
<1> QED BY <1>9, <1>10, <1>11, <1>12

(* The first second of 1970.                                                 *)
LEMMA FirstSecond == epoch_to_utc(0) = Reference!Epoch
<1>1. FROM_1600_03_01 = DayOf(0, 3, 17, 1, 306)
  BY SMT DEF FROM_1600_03_01, DayOf, InCycle, InCentury, InFour,
             YEAR, FOUR_YEARS, CENTURY, FOUR_CENTURIES
<1>2. 306 \in 0..YEAR - 1 /\ 3 \in 0..3 /\ 17 \in 0..24 /\ 1 \in 0..3 /\ 0 \in Nat
  BY SMT DEF YEAR
<1>3. YearOf(0, 3, 17, 1) = 69 /\ 69 \in Int
  BY SMT DEF YearOf
<1>4. DateOf(DayOf(0, 3, 17, 1, 306)) = DateIn(YearOf(0, 3, 17, 1), 306)
  BY SMT, <1>2, CommonDay
<1>5. DateIn(69, 306) = DateFrom(70, 0, 1)
  <2>1. MonthStart[11] = 306 /\ InMonth(306, 11) /\ 11 \in 1..12
    BY SMT, Months DEF InMonth, MonthEnd
  <2>2. DateIn(69, 306) = [year |-> 69 + YearOffset(11), mon |-> (11 + 1) % 12,
                           mday |-> 306 - MonthStart[11] + 1]
    BY SMT, <1>2, <1>3, <2>1, DateInMonth
  <2>3. 69 + YearOffset(11) = 70 /\ (11 + 1) % 12 = 0 /\ 306 - MonthStart[11] + 1 = 1
    BY SMT, <2>1 DEF YearOffset
  <2> QED BY SMT, <2>2, <2>3 DEF DateFrom
<1>6. 0 + FROM_1600_03_01 = FROM_1600_03_01
  BY SMT DEF FROM_1600_03_01
<1>7. DateOf(0 + FROM_1600_03_01) = DateFrom(70, 0, 1)
  BY SMT, <1>1, <1>3, <1>4, <1>5, <1>6
<1>8. FieldsAt(0, 0, 0, 0) = Fields(70, 0, 1, 4, 0, 0, 0)
  <2>1. (0 + 4) % 7 = 4
    BY SMT
  <2>2. DateFrom(70, 0, 1).year = 70 /\ DateFrom(70, 0, 1).mon = 0
        /\ DateFrom(70, 0, 1).mday = 1
    BY SMT DEF DateFrom
  <2> QED BY SMT, <1>7, <2>1, <2>2 DEF FieldsAt
<1>9. 0 \in 0..H - 1 /\ 0 \in 0..M - 1 /\ 0 \in 0..S - 1
  BY Lengths
<1>10. SecondOf(0, 0, 0, 0) = 0
  <2>1. SECONDS_PER_DAY * 0 = 0 /\ S * (M * 0 + 0) + 0 = 0
    BY Lengths, DayLength
  <2> QED BY <2>1 DEF SecondOf, InDay, InHour
<1>11. epoch_to_utc(SecondOf(0, 0, 0, 0)) = FieldsAt(0, 0, 0, 0)
  BY SMT, <1>2, <1>9, FieldsOf
<1> QED BY SMT, <1>8, <1>10, <1>11 DEF Fields, Reference!Epoch
------------------------------------------------------------------------------
(* The structure is always that of the epoch it was asked for.               *)
Converted == epoch \in Nat /\ tm = epoch_to_utc(epoch)

LEMMA ConvertedAlways == ASSUME FirstEpoch = 0 PROVE DateSpec => []Converted
<1>1. DateInit => Converted
  BY DEF DateInit, Converted
<1>2. Converted /\ [Tick]_dateVars => Converted'
  BY DEF Converted, Tick, dateVars
<1> QED BY <1>1, <1>2, PTL DEF DateSpec

(* From 1970 on, second after second, the fields are those of the calendar:  *)
(* for every last epoch, and for any lengths of minutes, hours and days.     *)
THEOREM CalendarKept == ASSUME FirstEpoch = 0 PROVE DateSpec => ImplementsCalendar
<1>1. DateInit => Reference!Init
  BY FirstSecond, Zenon DEF DateInit, Reference!Init
<1>2. Converted /\ [Tick]_dateVars => [Reference!Next]_tm
  <2>1. ASSUME Converted, Tick
        PROVE  tm' = Reference!NextSecond(tm)
    BY <2>1, SecondsFollow, Zenon DEF Converted, Tick
  <2>2. ASSUME UNCHANGED dateVars
        PROVE  UNCHANGED tm
    BY <2>2 DEF dateVars
  <2> QED BY <2>1, <2>2 DEF Reference!Next
<1> QED BY <1>1, <1>2, ConvertedAlways, PTL DEF DateSpec, ImplementsCalendar, Reference!Spec
==============================================================================
