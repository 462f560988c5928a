----------------------------- MODULE Base64Encoder -----------------------------
(* base64_encode_buffer() and base64_encode_simple() of src/base64.c: groups *)
(* of three bytes become four characters, as far as there is room for them.  *)
EXTENDS Base64

CONSTANTS Source,     \* the sequences of bytes that are encoded
          DestSize,   \* the sizes of the destinations they are encoded into
          SIZE_MAX    \* 2^64 - 1

ASSUME SourceAssumption == Source \subseteq Seq(Byte)
ASSUME SizeAssumption == SIZE_MAX \in Nat /\ DestSize \subseteq 0..SIZE_MAX

VARIABLES source, dest_size, simple,  \* the arguments; the function called
          pc,                         \* the part of the function
          q, i, dest_body_counter,    \* its locals; q counts bytes of source
          dest                        \* the memory from dest on

encoderVars ==
  <<source, dest_size, simple, pc, q, i, dest_body_counter, dest>>

Unwritten == -1
Overrun == 4      \* how far beyond the destination the model looks

base64_encoding_size(n) ==
  LET encoding_size == ((((n + 2) % (SIZE_MAX + 1)) \div 3) * 4) % (SIZE_MAX + 1)
  IN  IF encoding_size < n THEN -1 ELSE encoding_size

Fresh(size) == [k \in 0..size + Overrun - 1 |-> Unwritten]

BodyCounterUp(size) == (size + 3) \div 4
BodyCounter(size) == size \div 4

EncoderInit == /\ source = <<>> /\ dest_size = 0 /\ simple = FALSE
               /\ pc = "idle"
               /\ q = 0 /\ i = 0 /\ dest_body_counter = 0 /\ dest = Fresh(0)

Start(bytes, size, alone) ==
  /\ pc = "idle"
  /\ source' = bytes /\ dest_size' = size /\ simple' = alone
  /\ pc' = "body"
  /\ dest_body_counter' = BodyCounter(size)
  /\ dest' = Fresh(size)
  /\ UNCHANGED <<q, i>>

EncodeBuffer(bytes, size) == Start(bytes, size, FALSE)

(* A string that is allocated in the size of the encoding, or NULL.          *)
EncodeSimple(bytes) ==
  /\ base64_encoding_size(Len(bytes)) # -1
  /\ Start(bytes, base64_encoding_size(Len(bytes)) + 1, TRUE)

EncodeTooLong(bytes) ==
  /\ pc = "idle" /\ base64_encoding_size(Len(bytes)) = -1
  /\ source' = bytes /\ simple' = TRUE /\ pc' = "null"
  /\ UNCHANGED <<dest_size, q, i, dest_body_counter, dest>>
------------------------------------------------------------------------------
tail == Len(source) - (Len(source) % 3)

(* q[k], where the bytes after the end are not looked at: 0 takes their place*)
ByteFrom(k) == IF q + k <= Len(source) THEN source[q + k] ELSE 0
bits == (ByteFrom(1) * 2 ^ ByteBits + ByteFrom(2)) * 2 ^ ByteBits + ByteFrom(3)

base64_char(bitfield) == bitfield % 2 ^ CharBits
Chars == [k \in 0..3 |-> base64_char(bits \div 2 ^ (CharBits * (3 - k)))]

Write4(chars) == [k \in DOMAIN dest |-> IF k \in i..i + 3 THEN chars[k - i] ELSE dest[k]]
put4(chars) ==
  [k \in DOMAIN dest |-> IF k \in i..i + 3 /\ k < dest_size THEN chars[k - i] ELSE dest[k]]

(* The groups that fit as a whole are written without looking at the size.   *)
Body == /\ pc = "body" /\ dest_body_counter > 0 /\ q < tail
        /\ dest_body_counter' = dest_body_counter - 1
        /\ dest' = Write4(Chars)
        /\ i' = i + 4 /\ q' = q + 3
        /\ UNCHANGED <<source, dest_size, simple, pc>>

(* The one that may fit in part, and the count of those that do not.         *)
BodyEnd == /\ pc = "body" /\ ~(dest_body_counter > 0 /\ q < tail)
           /\ pc' = "tail"
           /\ dest' = IF q < tail THEN put4(Chars) ELSE dest
           /\ i' = i + ((tail - q) \div 3) * 4
           /\ q' = tail
           /\ UNCHANGED <<source, dest_size, simple, dest_body_counter>>

PaddedEarly(n) == [k \in 0..3 |-> IF k >= n THEN PAD ELSE Chars[k]]
Padded(n) == [k \in 0..3 |-> IF k > n THEN PAD ELSE Chars[k]]
TailEnd == /\ pc = "tail"
           /\ pc' = "end"
           /\ IF Len(source) % 3 = 0 THEN UNCHANGED <<dest, i>>
              ELSE dest' = put4(Padded(Len(source) % 3)) /\ i' = i + 4
           /\ UNCHANGED <<source, dest_size, simple, q, dest_body_counter>>

Terminate == /\ pc = "end"
             /\ pc' = "done"
             /\ dest' = IF i < dest_size THEN [dest EXCEPT ![i] = NUL]
                        ELSE IF dest_size > 0 THEN [dest EXCEPT ![dest_size - 1] = NUL]
                        ELSE dest
             /\ UNCHANGED <<source, dest_size, simple, q, i, dest_body_counter>>

EncoderStep == Body \/ BodyEnd \/ TailEnd \/ Terminate
------------------------------------------------------------------------------
EncoderTypeOK ==
  /\ source \in Seq(Byte) /\ dest_size \in 0..SIZE_MAX /\ simple \in BOOLEAN
  /\ pc \in {"idle", "body", "tail", "end", "done", "null"}
  /\ q \in 0..Len(source) /\ i \in Nat /\ dest_body_counter \in Nat
  /\ dest \in [0..dest_size + Overrun - 1 -> Char \union {Unwritten}]

(* Nothing is ever written beyond the size of the destination, by the body's *)
(* unchecked writes either; at the end the encoding stands there, cut off if *)
(* need be and terminated, and the count is that of the whole encoding.      *)
(* base64_encode_simple() answers NULL exactly if the size of the encoding   *)
(* is not a size_t, and makes room for all of it otherwise.                  *)
Terminator == IF EncodedLength(Len(source)) < dest_size THEN EncodedLength(Len(source))
              ELSE dest_size - 1
Encodes ==
  /\ \A k \in DOMAIN dest : k >= dest_size => dest[k] = Unwritten
  /\ pc = "done" =>
       /\ i = EncodedLength(Len(source))
       /\ \A k \in 0..dest_size - 1 :
            dest[k] = IF k = Terminator THEN NUL
                      ELSE IF k < Terminator THEN Encoding(source)[k + 1] ELSE Unwritten
  /\ simple => IF EncodedLength(Len(source)) > SIZE_MAX THEN pc = "null"
               ELSE pc # "null" /\ dest_size = EncodedLength(Len(source)) + 1
==============================================================================
