----------------------------- MODULE Base64Decoder -----------------------------
(* base64_decode_buffer() and base64_decode_simple() of src/base64.c: bits   *)
(* are collected from a text character by character, and leave as bytes.     *)
EXTENDS Base64

CONSTANTS Text,          \* the texts that are decoded
          BlobSize,      \* the sizes of the destinations they are decoded into
          UnsignedBits   \* the width of an unsigned int

ASSUME TextAssumption == Text \subseteq Seq(Char)
ASSUME BlobAssumption == BlobSize \subseteq Nat
ASSUME UnsignedAssumption == UnsignedBits \in Nat /\ UnsignedBits >= CharBits + ByteBits

VARIABLES text, blob_size, ignore_wsp,   \* the arguments
          twice,       \* base64_decode_simple() calls, the first time to count
          stage,       \* "idle", "chars" or "done"
          si, pi, bit_count, collected,  \* the locals of the function
          blob,        \* the memory of the destination
          count        \* what the call returns

decoderVars == <<text, blob_size, ignore_wsp, twice, stage, si, pi, bit_count,
                 collected, blob, count>>

Untouched == -1
EILSEQ == -1

Restart(t, size, wsp, counting) ==
  /\ text' = t /\ blob_size' = size /\ ignore_wsp' = wsp /\ twice' = counting
  /\ stage' = "chars"
  /\ si' = 0 /\ pi' = 0 /\ bit_count' = 0 /\ collected' = 0
  /\ blob' = [k \in 0..size - 1 |-> Untouched]
  /\ count' = 0

DecoderInit == /\ text = <<>> /\ blob_size = 0 /\ ignore_wsp = FALSE /\ twice = FALSE
               /\ stage = "idle"
               /\ si = 0 /\ pi = 0 /\ bit_count = 0 /\ collected = 0
               /\ blob = <<>> /\ count = 0

DecodeBuffer(t, size, wsp) == stage = "idle" /\ Restart(t, size, wsp, FALSE)
DecodeSimple(t) == stage = "idle" /\ Restart(t, 0, TRUE, TRUE)
------------------------------------------------------------------------------
(* The end of the source ends the text as NUL does.                          *)
At(k) == IF k < Len(text) THEN text[k + 1] ELSE NUL
AtData == At(si) \notin {NUL, PAD}

get_bits(c) == IF c \in DataChar THEN c ELSE IF c = WSP /\ ignore_wsp THEN WSP ELSE BAD

Unsigned(x) == x % 2 ^ UnsignedBits

Return(answer) == /\ count' = answer
                  /\ stage' = "done"
                  /\ UNCHANGED <<text, blob_size, ignore_wsp, twice, si, pi, bit_count,
                                 collected, blob>>

SkipWhitespace == /\ stage = "chars" /\ AtData /\ get_bits(At(si)) = WSP
                  /\ si' = si + 1
                  /\ UNCHANGED <<text, blob_size, ignore_wsp, twice, stage, pi, bit_count,
                                 collected, blob, count>>

RefuseChar == stage = "chars" /\ AtData /\ get_bits(At(si)) = BAD /\ Return(EILSEQ)

HasByte(filled) == filled >= ByteBits

(* The bytes that do not fit are counted.                                    *)
Collect ==
  LET more == Unsigned(collected * 2 ^ CharBits + At(si))
      filled == bit_count + CharBits
  IN  /\ stage = "chars" /\ AtData /\ get_bits(At(si)) \in DataChar
      /\ si' = si + 1
      /\ collected' = more
      /\ IF HasByte(filled)
         THEN /\ bit_count' = filled - ByteBits
              /\ pi' = pi + 1
              /\ blob' = IF pi >= blob_size THEN blob
                         ELSE [blob EXCEPT ![pi] = (more \div 2 ^ bit_count') % 2 ^ ByteBits]
         ELSE bit_count' = filled /\ UNCHANGED <<pi, blob>>
      /\ UNCHANGED <<text, blob_size, ignore_wsp, twice, stage, count>>

GoodTerminationAnyhow(from) == TRUE
good_termination(from) ==
  IF ~ignore_wsp THEN At(from) = NUL
  ELSE \E end \in from..Len(text) : /\ At(end) = NUL
                                    /\ \A k \in from..end - 1 : At(k) = WSP

Padding == IF bit_count = 2 * CharBits - ByteBits THEN 2
           ELSE IF bit_count = 3 * CharBits - 2 * ByteBits THEN 1 ELSE 0

good_base64_tail == /\ bit_count # CharBits
                    /\ \A k \in si..si + Padding - 1 : At(k) = PAD
                    /\ good_termination(si + Padding)

GoodEnd == collected % 2 ^ bit_count = 0 /\ good_base64_tail

RefuseEnd == stage = "chars" /\ ~AtData /\ ~GoodEnd /\ Return(EILSEQ)
Finish == stage = "chars" /\ ~AtData /\ GoodEnd /\ Return(pi)

(* base64_decode_simple(): once counted, the blob is allocated and filled.   *)
(* The NUL that it writes behind the blob, in a byte of its own, is left out.*)
FillBlob == /\ stage = "done" /\ twice /\ count >= 0
            /\ Restart(text, count, TRUE, FALSE)

DecoderStep == SkipWhitespace \/ RefuseChar \/ Collect \/ RefuseEnd \/ Finish \/ FillBlob
------------------------------------------------------------------------------
DecoderTypeOK ==
  /\ text \in Seq(Char) /\ blob_size \in Nat /\ ignore_wsp \in BOOLEAN /\ twice \in BOOLEAN
  /\ stage \in {"idle", "chars", "done"}
  /\ si \in 0..Len(text) /\ pi \in Nat
  /\ bit_count \in 0..ByteBits - 1 /\ collected \in 0..2 ^ UnsignedBits - 1
  /\ blob \in [0..blob_size - 1 -> Byte \union {Untouched}]
  /\ count \in Int

(* The text up to its end; its characters before the padding; and what is    *)
(* left of it without the white space that may be ignored.                   *)
Stripped(s) == IF ignore_wsp THEN SelectSeq(s, LAMBDA c : c # WSP) ELSE s
Ends == {k \in 0..Len(text) : At(k) = NUL}
Whole == SubSeq(text, 1, Min(Ends))
FirstPad == Min({k \in 0..Len(Whole) : k = Len(Whole) \/ Whole[k + 1] = PAD})
Data == Stripped(SubSeq(Whole, 1, FirstPad))
Trailer == SubSeq(Whole, FirstPad + 1, Len(Whole))
Split == \E k \in 1..Len(Trailer) - 1 : Trailer[k] = WSP /\ Trailer[k + 1] = PAD

(* A text is refused unless it is the encoding of some bytes, with white     *)
(* space where it is ignored: no bit of it is without effect. These bytes    *)
(* are what it is decoded to, as far as there is room; the count is that of  *)
(* all of them in every case. Nothing is said of white space that splits the *)
(* padding: the code refuses it, include/base64.h has it ignored.            *)
IsEncoding == /\ \A k \in 1..Len(Data) : Data[k] \in DataChar
              /\ Data \o Stripped(Trailer) = Encoding(Decoding(Data))
Decodes ==
  stage = "done" =>
    IF ~IsEncoding THEN count = EILSEQ
    ELSE \/ Split
         \/ /\ count = Len(Decoding(Data))
            /\ \A k \in 0..blob_size - 1 :
                 blob[k] = IF k < count THEN Decoding(Data)[k + 1] ELSE Untouched
==============================================================================
