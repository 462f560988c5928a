------------------------------- MODULE UrlCode -------------------------------
(* The URL encoders and the decoder of src/charstr.c, on strings of bytes.   *)
EXTENDS Integers, Sequences, SequencesExt

Byte == 0..255
SPACE == 32
PLUS == 43
PERCENT == 37

(* The bytes that the table has stand for themselves: letters, digits and    *)
(* some punctuation.                                                         *)
Alnum == 48..57 \union 65..90 \union 97..122
Plain == Alnum \union {34, 45, 46, 47, 60, 62, 92, 94, 95, 96, 123, 124, 125, 126}

UpperHex(digit) == IF digit < 10 THEN 48 + digit ELSE 55 + digit
Percented(byte) == <<PERCENT, UpperHex(byte \div 16), UpperHex(byte % 16)>>

url_encode_byte(byte) ==
  IF byte = SPACE THEN <<PLUS>> ELSE IF byte \in Plain THEN <<byte>> ELSE Percented(byte)

(* An encoder is what it reserves and what it leaves alone, the latter with  *)
(* the last word.                                                            *)
custom_encode_byte(encoder, byte) ==
  IF byte \in encoder.unreserve THEN <<byte>>
  ELSE IF byte \in encoder.reserve THEN Percented(byte) ELSE url_encode_byte(byte)

WidthOfPlus(encoder, byte) == IF byte \in {SPACE} \union Plain THEN 1 ELSE 3
encoding_width(encoder, byte) ==
  IF custom_encode_byte(encoder, byte)[1] = PERCENT THEN 3 ELSE 1

custom_encode(encoder, string) ==
  [text |-> FlattenSeq([k \in DOMAIN string |-> custom_encode_byte(encoder, string[k])]),
   allocated |-> FoldLeft(LAMBDA n, byte : n + encoding_width(encoder, byte), 0, string)]
------------------------------------------------------------------------------
HexDigit == 48..57 \union 65..70 \union 97..102
digit_value(c) == IF c <= 57 THEN c - 48 ELSE IF c <= 70 THEN c - 55 ELSE c - 87

(* The end of the string is no hexadecimal digit.                            *)
IsHex(e, k) == k <= Len(e) /\ e[k] \in HexDigit
TwoHex(e, k) == IsHex(e, k + 1) /\ IsHex(e, k + 2)

(* The first pass counts the bytes, or meets a percent sign without digits.  *)
decoded_length(e) ==
  LET length[k \in 1..Len(e) + 1] ==
        IF k > Len(e) THEN 0
        ELSE IF e[k] # PERCENT THEN IF length[k + 1] < 0 THEN -1 ELSE 1 + length[k + 1]
        ELSE IF ~TwoHex(e, k) \/ length[k + 3] < 0 THEN -1 ELSE 1 + length[k + 3]
  IN  length[1]

DecodedUnit(c, plus_is_space) == IF c = PLUS /\ plus_is_space THEN SPACE ELSE c
url_decode(e, plus_is_space) ==
  LET decoding[k \in 1..Len(e) + 1] ==
        IF k > Len(e) THEN <<>>
        ELSE IF e[k] = PERCENT
             THEN <<(digit_value(e[k + 1]) * 16 + digit_value(e[k + 2])) % 256>>
                    \o decoding[k + 3]
        ELSE <<DecodedUnit(e[k], plus_is_space)>> \o decoding[k + 1]
  IN  IF decoded_length(e) < 0 THEN [null |-> TRUE, text |-> <<>>, size |-> 0]
      ELSE [null |-> FALSE, text |-> decoding[1], size |-> decoded_length(e)]
==============================================================================
