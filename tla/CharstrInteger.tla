---------------------------- MODULE CharstrInteger ----------------------------
(* charstr_to_unsigned() and charstr_to_integer() of src/charstr.c: a call   *)
(* reads a number from a buffer, digit by digit, into an integer of limited  *)
(* width.                                                                    *)
EXTENDS Integers, Sequences

CONSTANTS Modulus,   \* 2^64, the numbers a uint64_t tells apart
          Call       \* <<buffer, base>>: what a call may be given

(* Of a character matters what charstr_digit_value() makes of it, and        *)
(* whether it is one of the other three that mean something in a number.     *)
X == 16
PLUS == 17
MINUS == 18
STOP == 19
Char == 0..STOP

ASSUME ModulusAssumption == Modulus \in Nat /\ Modulus >= 256 /\ Modulus % 2 = 0
ASSUME CallAssumption == Call \subseteq Seq(Char) \X Nat

VARIABLES buffer, base, signed,   \* the arguments; whether to_integer() is called
          pc,                     \* "call", "digits" or "done"
          dp, n, overflow,        \* the locals of to_unsigned()
          exact,                  \* history: what the digits read so far denote
          answer                  \* the count returned, value and errno

args == <<buffer, base, signed>>
integerVars == <<buffer, base, signed, pc, dp, n, overflow, exact, answer>>

Errno == {"OK", "EILSEQ", "EINVAL", "ERANGE"}
NotSet == 0

IntegerInit ==
  /\ \E c \in Call : buffer = c[1] /\ base = c[2]
  /\ signed \in BOOLEAN
  /\ pc = "call"
  /\ dp = 0 /\ n = 0 /\ overflow = FALSE /\ exact = 0
  /\ answer = [count |-> 0, value |-> NotSet, errno |-> "OK"]
------------------------------------------------------------------------------
(* The end of the buffer stops a number as any other character does.         *)
At(i) == IF i <= Len(buffer) THEN buffer[i] ELSE STOP

Signs == {c \in {PLUS, MINUS} : signed /\ At(1) = c}
Negative == MINUS \in Signs
First == IF Signs = {} THEN 1 ELSE 2

NaturalBaseKeepingX(i) == IF At(i) # 0 THEN 10 ELSE 8
natural_base(i) == IF At(i) # 0 THEN 10 ELSE IF At(i + 1) # X THEN 8 ELSE 16

Radix == IF base = 0 THEN natural_base(First) ELSE base
Digits == IF base = 0 /\ Radix = 16 THEN First + 2 ELSE First

IsDigit(c) == c < 16 /\ c < Radix

Wrap(x) == x % Modulus
Limit == (Modulus - 1) \div Radix
OverflowsByLimit(old, new) == old > Limit
Overflows(old, new) == old > Limit \/ new < old

(* The conversion of a uint64_t to int64_t.                                  *)
AsSigned(u) == IF u >= Modulus \div 2 THEN u - Modulus ELSE u

OutOfRangeStrictly(u) ==
  signed /\ IF Negative THEN AsSigned(Wrap(-u)) >= 0 ELSE AsSigned(u) < 0
OutOfRange(u) ==
  signed /\ IF Negative THEN AsSigned(Wrap(-u)) > 0 ELSE AsSigned(u) < 0

ValueOf(u) == IF ~signed THEN u
              ELSE IF Negative THEN AsSigned(Wrap(-u)) ELSE AsSigned(u)

Return(count, value, errno) ==
  /\ pc' = "done"
  /\ answer' = [count |-> count, value |-> value, errno |-> errno]
  /\ UNCHANGED <<args, dp, n, overflow, exact>>

Empty == signed /\ buffer = <<>>
RefuseEmpty == pc = "call" /\ Empty /\ Return(0, NotSet, "EILSEQ")

RefuseBase == pc = "call" /\ ~Empty /\ Radix \notin 2..16 /\ Return(-1, NotSet, "EINVAL")

Begin == /\ pc = "call" /\ ~Empty /\ Radix \in 2..16
         /\ pc' = "digits" /\ dp' = Digits
         /\ n' = 0 /\ overflow' = FALSE /\ exact' = 0
         /\ UNCHANGED <<args, answer>>

ReadDigit == /\ pc = "digits" /\ IsDigit(At(dp))
             /\ n' = Wrap(Radix * n + At(dp))
             /\ overflow' = (overflow \/ Overflows(n, n'))
             /\ exact' = Radix * exact + At(dp)
             /\ dp' = dp + 1
             /\ UNCHANGED <<args, pc, answer>>

RefuseNoDigits == /\ pc = "digits" /\ ~IsDigit(At(dp)) /\ dp = Digits
                  /\ Return(-1, NotSet, "EILSEQ")

Finish == /\ pc = "digits" /\ ~IsDigit(At(dp)) /\ dp # Digits
          /\ Return(dp - 1, ValueOf(n), IF overflow \/ OutOfRange(n) THEN "ERANGE" ELSE "OK")

IntegerNext == RefuseEmpty \/ RefuseBase \/ Begin \/ ReadDigit \/ RefuseNoDigits \/ Finish
IntegerSpec == IntegerInit /\ [][IntegerNext]_integerVars
------------------------------------------------------------------------------
IntegerTypeOK ==
  /\ buffer \in Seq(Char) /\ base \in Nat /\ signed \in BOOLEAN
  /\ pc \in {"call", "digits", "done"}
  /\ dp \in Nat /\ n \in 0..Modulus - 1 /\ overflow \in BOOLEAN /\ exact \in Nat
  /\ answer \in [count : Int, value : Int, errno : Errno]

(* Whatever wrapped on the way, n is the number modulo the width, and        *)
(* overflow says whether the number exceeds it: the two comparisons miss no  *)
(* overflow and report none that is not there.                               *)
OverflowKnown == /\ n = exact % Modulus
                 /\ overflow <=> exact >= Modulus

(* include/charstr.h: a value that overflows is wrapped and reported with    *)
(* ERANGE, for the most negative number too; every other is answered as is.  *)
Number == IF Negative THEN -exact ELSE exact
Representable == IF signed THEN -(Modulus \div 2)..(Modulus \div 2) - 1 ELSE 0..Modulus - 1
AnswersNumber ==
  pc = "done" /\ answer.count > 0 =>
    /\ answer.value \in Representable
    /\ (answer.value - Number) % Modulus = 0
    /\ answer.errno = (IF Number \in Representable THEN "OK" ELSE "ERANGE")

(* The characters of a number, by its grammar, and what they denote.         *)
Prefix(i) == SubSeq(buffer, First, i)
Hex(s) == Len(s) >= 2 /\ s[1] = 0 /\ s[2] = X
DigitsOf(s) == IF base = 0 /\ Hex(s) THEN SubSeq(s, 3, Len(s)) ELSE s
BaseOf(s) == IF base # 0 THEN base ELSE IF Hex(s) THEN 16 ELSE IF s[1] = 0 THEN 8 ELSE 10
IsNumber(s) ==
  /\ DigitsOf(s) # <<>>
  /\ \A i \in 1..Len(DigitsOf(s)) : DigitsOf(s)[i] < BaseOf(s) /\ DigitsOf(s)[i] < 16
Power(b) == LET p[k \in Nat] == IF k = 0 THEN 1 ELSE b * p[k - 1] IN p
Denoted(s, b) ==
  LET weight == Power(b)
      sum[i \in 0..Len(s)] ==
        IF i = 0 THEN 0 ELSE sum[i - 1] + s[i] * weight[Len(s) - i]
  IN  sum[Len(s)]

(* The longest prefix that is a number is read, to the last character and no *)
(* further; there is none, or the base is bad, if and only if the call fails.*)
(* A number that begins with 0x is hexadecimal or refused.                   *)
ReadsLongest ==
  pc = "done" /\ ~Empty =>
    LET ends == {i \in First..Len(buffer) :
                   IsNumber(Prefix(i)) /\ (base = 0 /\ Hex(Prefix(Len(buffer))) => i > First + 1)}
    IN  IF base \notin {0} \union 2..16 THEN answer.errno = "EINVAL" /\ answer.count < 0
        ELSE IF ends = {} THEN answer.errno = "EILSEQ" /\ answer.count < 0
        ELSE LET s == Prefix(answer.count)
             IN  /\ answer.count \in ends /\ \A i \in ends : i <= answer.count
                 /\ exact = Denoted(DigitsOf(s), BaseOf(s))
==============================================================================
