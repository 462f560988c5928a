----------------------------- MODULE Conversions -----------------------------
(* The functions that convert strings, and base64 with them: a client calls  *)
(* one, and what it answers is compared to what the answer is by definition. *)
(* Those of base64 take their steps one by one; the others, which keep no    *)
(* state and share none, are operators of their own modules.                 *)
EXTENDS Base64Codec

CONSTANTS Buffer, EncodedPoint, Room,     \* arguments of the functions on UTF-8,
          ByteString, ClassText,       \* on strings and grapheme clusters,
          CodepointText, OutputRoom,   \* on normal forms,
          Hostname,                    \* on hostnames,
          UrlString, UrlEncoder, UrlEncoding,
          CharString, Delimiter, MaxSplit, StringList,
          Numeral, DecimalNumber,      \* and on numbers
          Whitespace,
          CombiningClass, Decomposition, PrimaryComposite, Disallowed, Maybe, MaxCcs,
          Status, Mapping, SpacingMarks, MAX_DNS_NAME_LENGTH, MAX_DNS_LABEL_LENGTH,
          Modulus, ExponentModulus, MANTISSA_BITS, EXPONENT_BITS,
          LeastExponent, GreatestExponent, IntegerBits

U8 == INSTANCE Utf8
G == INSTANCE Graphemes
I == INSTANCE Idna
Url == INSTANCE UrlCode
Str == INSTANCE Splitting
F == INSTANCE Binary64

VARIABLE called     \* the function that is called, its arguments and its answer

vars == <<codecVars, called>>

Init == CodecInit /\ called = <<"none">>

Idle == called = <<"none">> /\ pc = "idle" /\ stage = "idle"
Answers(fn, arguments, output) == called' = <<fn, arguments, output>> /\ UNCHANGED codecVars
------------------------------------------------------------------------------
DecodeCodepoint == Idle /\ \E s \in Buffer : Answers("decode", [s |-> s], U8!decode(s))
EncodeCodepoint == Idle /\ \E c \in EncodedPoint, room \in Room :
  Answers("encode", [codepoint |-> c, room |-> room], U8!encode(c, room))
ValidUtf8 == Idle /\ \E s \in ByteString : Answers("valid", [s |-> s], U8!valid_utf8(s))
SanitizeUtf8 == Idle /\ \E s \in ByteString : Answers("sanitize", [s |-> s], U8!sanitize(s))
SkipGrapheme == Idle /\ \E s \in ClassText : Answers("skip", [s |-> s], G!skip_utf8_grapheme(s))

Decompose == Idle /\ \E s \in CodepointText, room \in OutputRoom \union {I!Unlimited} :
  Answers("decompose", [s |-> s, room |-> room], I!unicode_decompose(s, room))
Canonical == {s \in CodepointText : I!canonically_decomposed(s) \/ I!canonically_composed(s)}
Recompose == Idle /\ \E s \in Canonical, room \in OutputRoom \union {I!Unlimited} :
  Answers("recompose", [s |-> s, room |-> room], I!unicode_recompose(s, room))
DetectForm == Idle /\ \E s \in CodepointText, form \in {"NFC", "NFD"} :
  Answers("detect", [s |-> s, form |-> form], I!detect_normal_form(s, form))
ConvertToNFD == Idle /\ \E s \in CodepointText : Answers("nfd", [s |-> s], I!convert_to_nfd(s))
ConvertToNFC == Idle /\ \E s \in CodepointText : Answers("nfc", [s |-> s], I!convert_to_nfc(s))

IdnaEncode == Idle /\ \E s \in Hostname : Answers("idna", [s |-> s], I!idna_encode(s))

UrlEncode == Idle /\ \E s \in UrlString, encoder \in UrlEncoder :
  Answers("url", [s |-> s, encoder |-> encoder], Url!custom_encode(encoder, s))
UrlDecode == Idle /\ \E s \in UrlEncoding, plus \in BOOLEAN :
  Answers("unurl", [s |-> s, plus |-> plus], Url!url_decode(s, plus))

SplitStr == Idle /\ \E s \in CharString, delim \in Delimiter, n \in MaxSplit :
  Answers("split", [s |-> s, delim |-> delim, n |-> n], Str!split_str(s, delim, n))
SplitChar == Idle /\ \E s \in CharString, delim \in Delimiter, n \in MaxSplit :
  Len(delim) = 1 /\ Answers("char", [s |-> s, delim |-> delim, n |-> n],
                           Str!split(s, delim[1], n))
SplitIntoArray == Idle /\ \E s \in CharString, delim \in Delimiter, n \in MaxSplit :
  Len(delim) = 1 /\ Answers("array", [s |-> s, delim |-> delim, n |-> n],
                            Str!split_into_array(s, delim[1], n))
SplitAtoms == Idle /\ \E s \in CharString : Answers("atoms", [s |-> s], Str!split_atoms(s))
Strip == Idle /\ \E s \in CharString : Answers("strip", [s |-> s], Str!strip(s))
Join == Idle /\ \E joiner \in Delimiter, strings \in StringList :
  Answers("join", [joiner |-> joiner, strings |-> strings], Str!join(joiner, strings))

ParseDecimal == Idle /\ \E s \in Numeral : Answers("parse", [s |-> s], F!parse_decimal(s))
FromDecimal == Idle /\ \E dec \in DecimalNumber :
  Answers("from", [dec |-> dec], F!binary64_from_decimal(dec))
FormatDecimal == Idle /\ \E dec \in DecimalNumber :
  /\ dec.type = "normal" /\ dec.significand % 10 # 0
  /\ Answers("format", [dec |-> dec], F!format_normal(dec))
ToDecimal == Idle /\ \E value \in F!Value :
  Answers("to", [value |-> value], F!binary64_to_decimal(value))
FormatValue == Idle /\ \E value \in F!Value :
  Answers("string", [value |-> value], F!binary64_format(value))
ToInteger == Idle /\ \E value \in F!Value :
  Answers("integer", [value |-> value], F!binary64_to_integer(value))
ToUnsigned == Idle /\ \E value \in F!Value :
  Answers("unsigned", [value |-> value], F!binary64_to_unsigned(value))

Base64 == called = <<"none">> /\ CodecNext /\ UNCHANGED called

Next ==
        \/ DecodeCodepoint \/ EncodeCodepoint \/ ValidUtf8 \/ SanitizeUtf8 \/ SkipGrapheme
        \/ Decompose \/ Recompose \/ DetectForm \/ ConvertToNFD \/ ConvertToNFC \/ IdnaEncode
        \/ UrlEncode \/ UrlDecode \/ SplitStr \/ SplitChar \/ SplitIntoArray \/ SplitAtoms \/ Strip \/ Join
        \/ ParseDecimal \/ FromDecimal \/ FormatDecimal \/ ToDecimal \/ FormatValue
        \/ ToInteger \/ ToUnsigned
        \/ Base64

Spec == Init /\ [][Next]_vars
------------------------------------------------------------------------------
Called(fn) == called[1] = fn
call == called[2]
answer == called[3]

(* include/charstr.h: a code point is decoded exactly where its well-formed  *)
(* encoding begins, with no byte beyond the end looked at: never a surrogate *)
(* or one beyond U+10FFFF. Every code point is decoded from what it is       *)
(* encoded to, unless the buffer is too small, and then no byte is written   *)
(* beyond it. Nothing is said of the overlong forms of three bytes from      *)
(* U+0400: the code decodes them, the header has every illegal form refused. *)
Utf8Decodes ==
  /\ Called("decode") /\ ~U8!OverlongAt(call.s, 1) =>
       LET s == call.s
           begins == {w \in 1..4 : w <= Len(s) /\ U8!WellFormed(SubSeq(s, 1, w))}
       IN  IF begins = {} THEN answer = U8!Null
           ELSE /\ answer.length \in begins /\ U8!IsScalar(answer.codepoint)
                /\ U8!Encoding(answer.codepoint) = SubSeq(s, 1, answer.length)
  /\ Called("encode") =>
       /\ Len(answer.bytes) <= call.room
       /\ answer.ok =>
            U8!decode(answer.bytes) = [length |-> Len(answer.bytes), codepoint |-> call.codepoint]
       /\ ~answer.ok => Len(U8!Encoding(call.codepoint)) > call.room

(* A string is valid if and only if every byte of it belongs to the encoding *)
(* of a code point. The sanitized string has each byte that does not         *)
(* replaced, and all others as they were. Whatever the string, it fills the  *)
(* memory allocated for it. Of a string that has one of the overlong forms   *)
(* that the decoder takes no more is said: they are held valid, and the      *)
(* header has true for valid UTF-8 only and every other byte replaced.       *)
Utf8Sanitizes ==
  /\ Called("valid") /\ ~U8!HasOverlong(call.s) =>
       (answer <=> \A k \in DOMAIN call.s : U8!Covered(call.s, k))
  /\ Called("sanitize") =>
       /\ Len(answer.sane) = answer.allocated
       /\ ~U8!HasOverlong(call.s) => /\ answer.sane = U8!Replaced(call.s)
                                     /\ U8!valid_utf8(answer.sane)

(* From the beginning of a grapheme cluster, the next break is found where   *)
(* the rules of Unicode have it, and NULL if what follows the cluster, CR LF *)
(* excepted, is not UTF-8; sequences after a prepended mark aside.           *)
GraphemeBoundaries ==
  Called("skip") /\ ~G!PrependsSequence(call.s) =>
    LET s == call.s
        break == CHOOSE b \in 2..Len(s) + 1 : G!IsFirstBreak(s, b)
    IN  IF s = <<>> \/ s[1] = G!BAD THEN answer = G!NULL
        ELSE IF break <= Len(s) /\ s[break] = G!BAD /\ ~(break > 2 /\ G!GB3(s, break - 1))
        THEN answer = G!NULL ELSE answer = break

(* The decomposition is the canonical one of the standard, with the marks in *)
(* order, if the output has room for it and its terminator; else, and for no *)
(* other reason, the call fails with EOVERFLOW. A Hangul syllable may also   *)
(* stay as it is where its letters do not fit. Converted strings fit in what *)
(* is allocated for them, and a text that is left alone is decomposed.       *)
HasSyllable(s) == \E k \in DOMAIN s : s[k] \in I!Syllable
Malformed(s) == \E k \in DOMAIN s : s[k] = I!BAD
Decomposes ==
  /\ Called("decompose") =>
       LET fits == call.room > I!bytes(I!NFD(call.s))
       IN  IF Malformed(call.s) THEN answer.errno # "OK"
           ELSE IF fits THEN answer.errno = "OK" /\ answer.text = I!NFD(call.s)
           ELSE answer.errno = "EOVERFLOW" \/ HasSyllable(call.s)
  /\ Called("nfd") =>
       IF Malformed(call.s) THEN answer.null
       ELSE IF answer.null THEN answer.errno = "OK" /\ I!NFD(call.s) = call.s
       ELSE answer.text = I!NFD(call.s) /\ answer.size < answer.allocated

(* A text in one of the canonical forms is recomposed to the composed one,   *)
(* which never takes more bytes: nothing in it can be composed further, and  *)
(* it decomposes to the same text. In an output that has room for the input  *)
(* this never fails, in a smaller one with EOVERFLOW only. Whether a text    *)
(* with more marks in a row than the recomposer keeps is converted is left   *)
(* open (the code fails with ENOBUFS, of which the header does not know); if *)
(* it is, it is right.                                                       *)
Crowded(s) == \E k \in 1..Len(s) - MaxCcs : \A m \in k..k + MaxCcs : I!ccc(s[m]) # 0
Composes ==
  /\ Called("recompose") =>
       /\ answer.errno = "OK" => /\ I!IsNFC(answer.text, call.s)
                                 /\ answer.size < call.room /\ answer.size <= I!bytes(call.s)
       /\ ~Crowded(call.s) =>
            answer.errno \in IF call.room > I!bytes(call.s) THEN {"OK"} ELSE {"OK", "EOVERFLOW"}
  /\ Called("nfc") =>
       IF Malformed(call.s) THEN answer.null
       ELSE IF ~answer.null
       THEN I!IsNFC(answer.text, call.s) /\ answer.size < answer.allocated
       ELSE IF answer.errno = "OK" THEN I!IsNFC(call.s, call.s)
       ELSE Crowded(I!NFD(call.s))

(* The quick checks are never wrong: what they allow is in the normal form,  *)
(* what they disallow is not, and of NFD no text is a maybe.                 *)
QuickChecksRight ==
  Called("detect") /\ ~Malformed(call.s) =>
    LET holds == IF call.form = "NFC" THEN I!IsNFC(call.s, call.s) ELSE I!NFD(call.s) = call.s
    IN  /\ answer = "allowed" => holds
        /\ answer = "disallowed" => ~holds
        /\ answer # "EILSEQ" /\ (call.form = "NFD" => answer # "maybe")

(* A hostname of ASCII characters is only put into lower case. What any      *)
(* other is encoded to fits in a DNS name, its encoded labels in those of    *)
(* DNS, and the labels decode (RFC 3492) to those of the mapped composed     *)
(* form of the hostname, none with a hyphen or a spacing mark in front. A    *)
(* hostname that is canonically equivalent is encoded to the same, unless    *)
(* its marks or its decomposition, thrice as long, do not fit on the way.    *)
Ascii(s) == \A k \in DOMAIN s : s[k] \in 0..127
NFC(s) == I!unicode_recompose(I!NFD(s), I!Unlimited).text
IdnaEncodes ==
  Called("idna") =>
    LET s == call.s
        encoded == I!Labels(answer.text)
        labels == I!Labels(I!mapped(NFC(s)).text)
    IN  IF Ascii(s) THEN answer = I!Success(I!Lowercase(s))
        ELSE /\ ~answer.null =>
                  /\ Ascii(answer.text) /\ Len(answer.text) <= MAX_DNS_NAME_LENGTH
                  /\ Len(encoded) = Len(labels)
                  /\ \A k \in DOMAIN labels :
                       /\ I!Unicode(encoded[k]) = I!Lowercase(labels[k])
                       /\ I!IsXN(encoded[k]) => Len(encoded[k]) <= MAX_DNS_LABEL_LENGTH
                       /\ labels[k] # <<>> => labels[k][1] \notin SpacingMarks \union {I!HYPHEN}
             /\ Malformed(s) => answer.null
             /\ (/\ ~Malformed(s) /\ ~Ascii(I!NFD(s)) /\ ~Crowded(I!NFD(s))
                 /\ I!bytes(I!NFD(s)) < 3 * I!bytes(s)) => I!idna_encode(I!NFD(s)) = answer

(* What an encoder has written fits in what it has counted, and is decoded   *)
(* to what it was, unless the client has it leave % or + alone; of the other *)
(* bytes it reserves it writes none. The decoder answers NULL for a % that   *)
(* is not followed by two digits, and else the size of what is decoded.      *)
UrlRoundTrip ==
  /\ Called("url") =>
       LET unreserve == call.encoder.unreserve
           reserved == call.encoder.reserve \ (unreserve \union {Url!PERCENT, Url!PLUS} \union Url!Alnum)
       IN  /\ Len(answer.text) <= answer.allocated
           /\ Url!PERCENT \notin unreserve => Len(answer.text) = answer.allocated
           /\ \A k \in DOMAIN answer.text : answer.text[k] \notin reserved
           /\ unreserve \intersect {Url!PERCENT, Url!PLUS} = {} =>
                Url!url_decode(answer.text, TRUE) =
                  [null |-> FALSE, text |-> call.s, size |-> Len(call.s)]
  /\ Called("unurl") =>
       LET percents == {k \in DOMAIN call.s : call.s[k] = Url!PERCENT}
       IN  /\ answer.null <=> \E k \in percents : ~Url!TwoHex(call.s, k)
           /\ ~answer.null => /\ answer.size = Len(call.s) - 2 * Cardinality(percents)
                              /\ Len(answer.text) = answer.size

(* A string is split at the delimiters from its beginning on, as often as it *)
(* may be; the pieces joined are the string again, and strings that are      *)
(* joined by a delimiter they do not have are what the joined string splits  *)
(* into. Atoms are the pieces between white space, none of them empty.       *)
SplitsAndJoins ==
  /\ Called("split") \/ Called("char") => Str!Splits(answer, call.s, call.delim, call.n)
  /\ Called("array") => /\ Str!Splits(answer.array, call.s, call.delim, call.n)
                        /\ answer.index = Len(answer.array) - 1
  /\ Called("atoms") => Str!SplitsAtoms(answer, call.s)
  /\ Called("strip") => Str!Strips(answer, call.s)
  /\ (/\ Called("join") /\ Len(call.joiner) = 1 /\ call.strings # <<>>
      /\ \A k \in DOMAIN call.strings : Str!Places(call.strings[k], call.joiner) = {}) =>
       Str!split_str(answer, call.joiner, Len(call.strings)) = call.strings

(* A number is read up to its end, if it is one. It is zero if its digits    *)
(* are; else it is the number that is written, or the nearest with as many   *)
(* digits as fit in the significand, and *exact says which; an exponent that *)
(* is no int32_t makes it zero or infinite, with ERANGE. Not so, as the code *)
(* goes, where magnitudes get lost or the exponent wraps.                    *)
LosesMagnitude(s) ==
  /\ F!FractionDigits(s) > 0
  /\ IF F!Integral10(s) = 0 THEN F!Mantissa(s) % 10 = 0 \/ F!Mantissa(s) > F!MAX
     ELSE F!Bare(F!Integral10(s)) > F!MAX
WrapsExponent(s) ==
  F!Distance(F!Exponent10(s), 0) \in (Modulus \div 2) - Len(s)..Modulus - 1
HasZeros(s) == \E k \in 1..F!FractionEnd(s) - 1 : s[k] = 0

ReadsNumber(s, read) ==
  LET m == F!Mantissa(s)
      d == F!Exponent10(s) - F!FractionDigits(s)
  IN  IF m = 0 THEN read.type = "zero" /\ read.errno = "OK"
      ELSE IF read.type = "normal"
      THEN /\ read.errno = "OK" /\ F!Represents(read.significand, read.exponent, m, d)
           /\ ~read.exact => F!Bare(m) > F!MAX
           /\ read.exact /\ ~HasZeros(s) => F!SameNumber(read.significand, read.exponent, m, d)
      ELSE /\ read.errno = "ERANGE"
           /\ read.type = (IF F!Exponent10(s) < 0 THEN "zero" ELSE "infinity")
           /\ F!Bare(m) <= F!MAX =>
                d + F!Zeros10(m) \notin -(ExponentModulus \div 2)..(ExponentModulus \div 2) - 1

ParsesDecimal ==
  Called("parse") =>
    LET s == call.s
        nan == F!Matching(s, F!First(s), F!NAN)
        infinity == F!Matching(s, F!First(s), F!INFINITY)
    IN  /\ answer.negative = (F!At(s, 1) = F!MINUS)
        /\ answer.count < 0 => answer.errno = "EILSEQ"
        /\ CASE nan > 0 -> IF nan < 3 THEN answer.count < 0
                           ELSE answer.type = "nan" /\ answer.count = F!First(s) + 2
             [] infinity > 0 -> IF infinity < 3 THEN answer.count < 0
                                ELSE /\ answer.type = "infinity"
                                     /\ answer.count = F!First(s) + (IF infinity = 8 THEN 7 ELSE 2)
             [] nan = 0 /\ infinity = 0 ->
                  IF ~F!IsNumeral(s) THEN answer.count < 0
                  ELSE /\ answer.count = F!NumeralEnd(s) - 1
                       /\ ~LosesMagnitude(s) /\ ~WrapsExponent(s) => ReadsNumber(s, answer)

(* include/float.h: a number in decimal is parsed. What is read of one       *)
(* without an exponent, of few enough digits, is the number as written.      *)
ReadsFractions ==
  Called("parse") /\ F!IsNumeral(call.s) /\ ~F!HasExponent(call.s)
    /\ F!Mantissa(call.s) \in 1..F!MAX =>
    F!SameNumber(answer.significand, answer.exponent,
                 F!Mantissa(call.s), -F!FractionDigits(call.s))

(* include/float.h: binary64_to_decimal() finds a decimal number that rounds *)
(* to the value, the significand with no zero at its end and so few digits   *)
(* that with one less no number does. From a decimal number of a significand *)
(* up to ryu_overflow the value is the nearest one, the even one of two, and *)
(* back the value that it was. A longer significand is rounded first. If the *)
(* exponent is below the least one and the number is not, nothing is said:   *)
(* the code makes zero of it, the header if the value is too small.          *)
BelowLeast(dec) ==
  dec.exponent < LeastExponent /\ F!decimal_digits(dec.significand) + dec.exponent > LeastExponent
ShortestDecimal ==
  /\ Called("to") =>
       LET n == call.value % F!SignBit
           shorter == answer.significand \div 10
       IN  /\ answer.negative = (call.value >= F!SignBit)
           /\ answer.type = "normal" =>
                /\ F!RoundsTo(answer.significand, answer.exponent, n)
                /\ answer.significand % 10 # 0
                /\ shorter > 0 => \A t \in {shorter, shorter + 1} :
                                     ~F!RoundsTo(t, answer.exponent + 1, n)
           /\ answer.significand < F!ryu_overflow /\ answer.type # "nan" =>
                F!binary64_from_decimal(answer).value = call.value
  /\ Called("from") /\ call.dec.type = "normal" =>
       LET dec == F!scale_back(call.dec)
           n == answer.value % F!SignBit
           unit == 10 ^ (dec.exponent - call.dec.exponent)
       IN  /\ 2 * F!Distance(dec.significand * unit, call.dec.significand) <= unit
           /\ BelowLeast(dec) \/
              CASE dec.exponent < LeastExponent -> n = 0
                [] dec.exponent > GreatestExponent -> n = F!INF
                [] dec.exponent \in LeastExponent..GreatestExponent ->
                     F!RoundsTo(dec.significand, dec.exponent, n)
           /\ ~answer.ok => n \in {0, F!INF}
           /\ call.dec.negative = (answer.value >= F!SignBit)

(* What is formatted, with its NUL, is no longer than its digits and eight   *)
(* characters more, or the sign, ten digits and NUL of a small integer: that *)
(* is BINARY64_MAX_FORMAT_SPACE for the 17 digits of a binary64 number. What *)
(* is read of it is all of it and the same number, or the same value, as     *)
(* include/float.h has it convert back. Left out, since the code breaks what *)
(* the header says, are from the length negative numbers with all the zeros  *)
(* that may be written, and from what is read a single digit with an         *)
(* exponent, which the parser refuses, and values that do not convert back   *)
(* from decimal because their significand is rounded first.                  *)
SingleDigit(s) == \E k \in 1..Len(s) - 1 : s[k] = F!DOT /\ s[k + 1] = F!E
AllZeros(dec) == dec.negative /\ F!decimal_digits(dec.significand) + dec.exponent = -5
FormatSpace(dec) == Max({F!decimal_digits(dec.significand) + 8, 12})
FormatsDecimal ==
  /\ Called("format") =>
       LET read == F!parse_decimal(answer)
           dec == call.dec
       IN  /\ ~AllZeros(dec) => Len(answer) + 1 <= FormatSpace(dec)
           /\ ~SingleDigit(answer) =>
                /\ read.count = Len(answer) /\ read.negative = dec.negative
                /\ F!SameNumber(read.significand, read.exponent, dec.significand, dec.exponent)
  /\ Called("string") =>
       LET read == F!binary64_from_string(answer)
           dec == F!binary64_to_decimal(call.value)
       IN  (dec.type = "nan" \/ dec.significand >= F!ryu_overflow \/ SingleDigit(answer)) \/
           (read.count = Len(answer) /\ read.errno = "OK" /\ read.value = call.value)

(* A value is cast to an integer if it is one that the type has, and to no   *)
(* other; each zero to 0.                                                    *)
CastsTo(types, value, cast) ==
  LET n == value % F!SignBit
      x == IF value >= F!SignBit THEN -F!IntegerOf(n) ELSE F!IntegerOf(n)
  IN  IF n < F!INF /\ F!IsInteger(n) /\ x \in types THEN cast = F!Cast(x) ELSE ~cast.ok
CastsIntegers ==
  /\ Called("integer") =>
       CastsTo(-(2 ^ (IntegerBits - 1))..2 ^ (IntegerBits - 1) - 1, call.value, answer)
  /\ Called("unsigned") => CastsTo(0..2 ^ IntegerBits - 1, call.value, answer)
==============================================================================
