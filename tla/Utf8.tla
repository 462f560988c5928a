--------------------------------- MODULE Utf8 ---------------------------------
(* The UTF-8 functions of src/charstr.c on sequences of bytes. A buffer ends *)
(* with its sequence; so does a string, whose terminating NUL is no byte of  *)
(* any longer encoding.                                                      *)
EXTENDS Integers, Sequences, SequencesExt

Byte == 0..255
LastBeforeSurrogates == 55295    \* U+D7FF
FirstAfterSurrogates == 57344    \* U+E000
LastCodepoint == 1114111         \* U+10FFFF
IsScalar(c) == c \in 0..LastBeforeSurrogates \/ c \in FirstAfterSurrogates..LastCodepoint

valid_unicode_with_surrogates(codepoint, lowest) == codepoint \in lowest..LastCodepoint
valid_unicode(codepoint, lowest) ==
  /\ codepoint >= lowest
  /\ \/ codepoint <= LastBeforeSurrogates
     \/ codepoint \in FirstAfterSurrogates..LastCodepoint
------------------------------------------------------------------------------
(* How long an encoding is by its first byte; 0 if that begins none.         *)
Width(lead) == CASE lead < 128 -> 1
                 [] lead \in 128..191 -> 0
                 [] lead \in 192..223 -> 2
                 [] lead \in 224..239 -> 3
                 [] lead \in 240..247 -> 4
                 [] lead > 247 -> 0

Lowest(width) == CASE width = 2 -> 128 [] width = 3 -> 1024 [] width = 4 -> 65536

Continues(byte) == byte \in 128..191

(* The bits of an encoding of a given width, put together.                   *)
Codepoint(s, width) ==
  CASE width = 2 -> (s[1] % 32) * 64 + (s[2] % 64)
    [] width = 3 -> ((s[1] % 16) * 64 + (s[2] % 64)) * 64 + (s[3] % 64)
    [] width = 4 -> (((s[1] % 8) * 64 + (s[2] % 64)) * 64 + (s[3] % 64)) * 64 + (s[4] % 64)

Null == [length |-> 0, codepoint |-> -1]
decode(s) ==
  IF s = <<>> THEN Null
  ELSE LET width == Width(s[1])
       IN  IF width = 1 THEN [length |-> 1, codepoint |-> s[1]]
           ELSE IF width # 0 /\ Len(s) >= width /\ (\A k \in 2..width : Continues(s[k]))
                   /\ valid_unicode(Codepoint(s, width), Lowest(width))
                THEN [length |-> width, codepoint |-> Codepoint(s, width)]
                ELSE Null

Encoding(codepoint) ==
  CASE codepoint < 128 -> <<codepoint>>
    [] codepoint \in 128..2047 -> <<192 + codepoint \div 64, 128 + (codepoint % 64)>>
    [] codepoint \in 2048..65535 ->
         <<224 + codepoint \div 4096, 128 + ((codepoint \div 64) % 64), 128 + (codepoint % 64)>>
    [] codepoint > 65535 ->
         <<240 + codepoint \div 262144, 128 + ((codepoint \div 4096) % 64),
           128 + ((codepoint \div 64) % 64), 128 + (codepoint % 64)>>

(* What charstr_encode_utf8_codepoint() has written into the given room when *)
(* it finds that there is too little of it, or is done.                      *)
Fits(codepoint, room) == room >= Len(Encoding(codepoint))
encode(codepoint, room) ==
  [ok |-> Fits(codepoint, room),
   bytes |-> IF Fits(codepoint, room) THEN Encoding(codepoint)
             ELSE SubSeq(Encoding(codepoint), 1, room)]
------------------------------------------------------------------------------
At(s, i) == decode(SubSeq(s, i, Len(s)))

valid_utf8(s) ==
  LET ok[i \in 1..Len(s) + 1] ==
        i > Len(s) \/ (At(s, i).length # 0 /\ ok[i + At(s, i).length])
  IN  ok[1]

REPLACEMENT_CHARACTER == <<239, 191, 189>>

(* The length that is allocated, and what the second pass writes there.      *)
bad_bytes(s) ==
  LET bad[i \in 1..Len(s) + 1] ==
        IF i > Len(s) THEN 0
        ELSE IF At(s, i).length = 0 THEN 1 + bad[i + 1] ELSE bad[i + At(s, i).length]
  IN  bad[1]
SaneLengthWithBad(s) == Len(s) + bad_bytes(s) * Len(REPLACEMENT_CHARACTER)
sane_length(s) == Len(s) + bad_bytes(s) * (Len(REPLACEMENT_CHARACTER) - 1)

sanitize(s) ==
  LET sane[i \in 1..Len(s) + 1] ==
        IF i > Len(s) THEN <<>>
        ELSE IF At(s, i).length = 0 THEN REPLACEMENT_CHARACTER \o sane[i + 1]
        ELSE SubSeq(s, i, i + At(s, i).length - 1) \o sane[i + At(s, i).length]
  IN  [sane |-> sane[1], allocated |-> sane_length(s)]
------------------------------------------------------------------------------
(* Table 3-7 of the Unicode standard: the well-formed encodings.             *)
Tail80BF == 128..191
WellFormed(s) ==
  \/ Len(s) = 1 /\ s[1] < 128
  \/ Len(s) = 2 /\ s[1] \in 194..223 /\ s[2] \in Tail80BF
  \/ /\ Len(s) = 3 /\ s[3] \in Tail80BF
     /\ \/ s[1] = 224 /\ s[2] \in 160..191
        \/ s[1] \in 225..236 \union 238..239 /\ s[2] \in Tail80BF
        \/ s[1] = 237 /\ s[2] \in 128..159
  \/ /\ Len(s) = 4 /\ s[3] \in Tail80BF /\ s[4] \in Tail80BF
     /\ \/ s[1] = 240 /\ s[2] \in 144..191
        \/ s[1] \in 241..243 /\ s[2] \in Tail80BF
        \/ s[1] = 244 /\ s[2] \in 128..143

(* The forms of three bytes of U+0400 to U+07FF, which have one of two: not  *)
(* well-formed, but taken by the decoder.                                    *)
Overlong(s) == /\ Len(s) = 3 /\ s[1] = 224
               /\ s[2] \in 144..159 /\ s[3] \in Tail80BF
OverlongAt(s, i) == i + 2 <= Len(s) /\ Overlong(SubSeq(s, i, i + 2))
HasOverlong(s) == \E i \in DOMAIN s : OverlongAt(s, i)

(* The bytes that belong to an encoding somewhere in the string.             *)
Covered(s, k) ==
  \E i \in 1..k, width \in 1..4 :
    /\ i + width > k /\ i + width - 1 <= Len(s)
    /\ WellFormed(SubSeq(s, i, i + width - 1))
Replaced(s) ==
  FlattenSeq([k \in DOMAIN s |-> IF Covered(s, k) THEN <<s[k]>> ELSE REPLACEMENT_CHARACTER])
==============================================================================
