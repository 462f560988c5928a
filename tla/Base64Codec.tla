------------------------------ MODULE Base64Codec ------------------------------
(* The encoder and the decoder of src/base64.c: the decoder is given a text, *)
(* or what the encoder has written.                                          *)
EXTENDS Base64Encoder, Base64Decoder

codecVars == <<encoderVars, decoderVars>>

CodecInit == EncoderInit /\ DecoderInit

(* The string in the destination.                                            *)
Written == [k \in 1..i |-> dest[k - 1]]

Encode == /\ pc = "idle" /\ stage = "idle"
          /\ \E bytes \in Source : \/ \E size \in DestSize : EncodeBuffer(bytes, size)
                                   \/ EncodeSimple(bytes)
                                   \/ EncodeTooLong(bytes)
Decode == /\ pc = "idle" /\ stage = "idle"
          /\ \E t \in Text : \/ \E size \in BlobSize, wsp \in BOOLEAN : DecodeBuffer(t, size, wsp)
                             \/ DecodeSimple(t)
DecodeWritten == pc = "done" /\ simple /\ DecodeSimple(Written)

CodecNext ==
        \/ (Encode \/ EncoderStep) /\ UNCHANGED decoderVars
        \/ (Decode \/ DecodeWritten \/ DecoderStep) /\ UNCHANGED encoderVars
------------------------------------------------------------------------------
CodecTypeOK == EncoderTypeOK /\ DecoderTypeOK

(* What base64_encode_simple() has written, base64_decode_simple() turns     *)
(* back into the bytes it was written from, in a blob of their size, and on  *)
(* the way every index of both keeps to the memory it is used on.            *)
RoundTrip ==
  /\ CodecTypeOK
  /\ pc = "done" /\ stage = "done" =>
       /\ count = Len(source)
       /\ ~twice => blob = [k \in 0..Len(source) - 1 |-> source[k + 1]]
==============================================================================
