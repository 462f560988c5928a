-------------------------------- MODULE Base64 --------------------------------
(* Base64: bytes as one string of bits, cut into characters, and padded to a *)
(* multiple of four of them.  A character is the bits it stands for, or one  *)
(* of the marks.                                                             *)
EXTENDS Integers, Sequences, FiniteSetsExt

CONSTANTS CharBits, ByteBits     \* 6 and 8

ASSUME BitsAssumption == /\ CharBits \in Nat \ {0} /\ ByteBits \in Nat
                         /\ 4 * CharBits = 3 * ByteBits

Byte == 0..2 ^ ByteBits - 1
DataChar == 0..2 ^ CharBits - 1
PAD == 2 ^ CharBits      \* =
WSP == PAD + 1           \* a white-space character
NUL == PAD + 2
BAD == PAD + 3           \* any other
Char == 0..BAD

BitOf(x, w, k) == (x \div 2 ^ (w - 1 - k)) % 2

BitAt(bytes, k) == IF k >= Len(bytes) * ByteBits THEN 0
                   ELSE BitOf(bytes[k \div ByteBits + 1], ByteBits, k % ByteBits)
CharAt(bytes, j) ==
  MapThenSumSet(LAMBDA m : BitAt(bytes, j * CharBits + m) * 2 ^ (CharBits - 1 - m),
                0..CharBits - 1)

DataLength(n) == (n * ByteBits + CharBits - 1) \div CharBits
EncodedLength(n) == 4 * ((n + 2) \div 3)

(* The encoding of a sequence of bytes.                                      *)
Encoding(bytes) ==
  [j \in 1..EncodedLength(Len(bytes)) |->
     IF j <= DataLength(Len(bytes)) THEN CharAt(bytes, j - 1) ELSE PAD]

(* The bytes that a sequence of data characters holds in full.               *)
DecodedLength(n) == (n * CharBits) \div ByteBits
ByteAt(chars, j) ==
  MapThenSumSet(LAMBDA m : LET k == j * ByteBits + m
                           IN  BitOf(chars[k \div CharBits + 1], CharBits, k % CharBits)
                               * 2 ^ (ByteBits - 1 - m),
                0..ByteBits - 1)
Decoding(chars) == [j \in 1..DecodedLength(Len(chars)) |-> ByteAt(chars, j - 1)]
==============================================================================
