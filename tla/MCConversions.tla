----------------------------- MODULE MCConversions -----------------------------
(* Arguments for the functions that convert strings: the bounds of every     *)
(* range that the code tells apart and all short texts of them, with longer  *)
(* ones of the characters that matter together. Base64 has characters of 3   *)
(* bits and bytes of 4, floating point a mantissa of 6 bits and an exponent  *)
(* of 5, and the tables of Unicode those entries that the texts need.        *)
EXTENDS Conversions, TLC

Texts(chars, lengths) == UNION {[1..n -> chars] : n \in lengths}

(* Base64: sources of up to three bytes with their bits at either end, and   *)
(* longer ones, up to where the size of the encoding exceeds 4 bits.         *)
MCSizeMax == 15
Alternating(n) == [k \in 1..n |-> IF k % 2 = 0 THEN 5 ELSE 10]
MCSource == Texts({0, 1, 7, 8, 15}, 0..3) \union {Alternating(n) : n \in 4..15}
MCDestSize == 0..14
MCText == Texts({0, 1, 4, PAD, WSP, NUL, BAD}, 0..5)
------------------------------------------------------------------------------
(* UTF-8: each length of an encoding, the bounds of its bytes and those that *)
(* surround them; the first and the last code point of each length.          *)
Lead == {0, 65, 127, 128, 191, 192, 193, 194, 223, 224, 225, 236, 237, 238, 239, 240, 241,
         243, 244, 245, 247, 248, 255}
Continuation == {\h7F, \h80, \h8F, \h90, \h9F, \hA0, \hBF, \hC0}
MCBuffer == {<<>>} \union {<<lead>> \o rest : lead \in Lead, rest \in Texts(Continuation, 0..3)}
MCEncodedPoint == {0, 65, \h7F, \h80, \h7FF, \h800, \hFFF, \hD7FF, \hE000, \hFFFF, \h10000,
                \hFFFFF, \h10FFFF}
MCByteString == Texts({65, 194, 224, 237, 240, \h80, \h90, \hA0}, 0..4)

MCClassText == Texts(G!Class, 0..3)
               \union Texts({"pict", "ri", "zwj", "extend", "prepend", "L", "bad"}, {4})
               \union Texts({"pict", "ri", "zwj", "extend"}, {5})
------------------------------------------------------------------------------
(* Marks of three classes, characters that decompose once, twice, to a       *)
(* single one and to nothing that is composed again; a vowel sign that is no *)
(* mark but composes; the letters of Hangul and two of its syllables.        *)
MCCombiningClass ==
  (\h0323 :> 220) @@ (\h0331 :> 220) @@ (\h0327 :> 202) @@ (\h093C :> 7) @@ (\h1D165 :> 216) @@ (\h1D16E :> 216)
  @@ [c \in {\h0301, \h0307, \h0308, \h030A, \h0344} |-> 230]
Excluded == (\h212B :> <<\h00C5>>) @@ (\h0344 :> <<\h0308, \h0301>>)
            @@ (\h0958 :> <<\h0915, \h093C>>) @@ (\h1D15F :> <<\h1D158, \h1D165>>)
            @@ (\h1D160 :> <<\h1D15F, \h1D16E>>)
Primary == (\h00C5 :> <<65, \h030A>>) @@ (\h00E5 :> <<97, \h030A>>) @@ (\h01FA :> <<\h00C5, \h0301>>)
           @@ (\h01FB :> <<\h00E5, \h0301>>) @@ (\h1E0A :> <<68, \h0307>>)
           @@ (\h1E0C :> <<68, \h0323>>) @@ (\h00FC :> <<117, \h0308>>)
           @@ (\h09CB :> <<\h09C7, \h09BE>>)
MCDecomposition == Excluded @@ Primary
MCPrimaryComposite ==
  [pair \in {Primary[c] : c \in DOMAIN Primary} |-> CHOOSE c \in DOMAIN Primary : Primary[c] = pair]
MCDisallowed == [NFC |-> DOMAIN Excluded, NFD |-> DOMAIN MCDecomposition \union \hAC00..\hD7A3]
MCMaybe == [NFC |-> {\h0301, \h0307, \h0308, \h030A, \h0323, \h0327, \h093C, \h09BE}
                    \union \h1161..\h1175 \union \h11A8..\h11C2,
            NFD |-> {}]
Letters == {68, 97, \h00C5, \h212B, \h01FA, \h1E0A, \h0344, \h09C7, \h09BE, \h09CB, \h0958,
            \h0915, \h093C, \h1D160, \h1D158, \h1100, \h1161, \h11A8, \hAC00, \hAC01,
            \h0301, \h0323, \h0327, \h0307, \h030A, -1}
MCCodepointText == Texts(Letters, 0..2)
                   \union Texts({68, \h00C5, \h1E0A, \h0301, \h0323, \h0307, \h1100, \h1161, \h11A8}, {3})
                   \union Texts({68, 97, \h0327, \h0323, \h0331, \h0307, \h030A}, {4})
MCOutputRoom == {0, 1, 2, 3, 4, 6, 8}
------------------------------------------------------------------------------
(* Hostnames of letters that are valid, mapped to others, to themselves with *)
(* marks or to several, ignored or disallowed, a spacing mark, and marks.    *)
MCStatus == [c \in {97, 117, 49, 50, 46, 45, \h00E5, \h00FC, \h01FB, \h030A, \h0301, \h0308,
                    \h4E2D, \h2044, \h09BE, \h09C7, \h09CB} |-> "valid"]
            @@ [c \in {65, \h00C5, \h01FA, \h212B, \h00BD} |-> "mapped"]
            @@ (\h00DF :> "deviation") @@ (\h00AD :> "ignored")
MCMapping == (65 :> <<97>>) @@ (\h00C5 :> <<\h00E5>>) @@ (\h212B :> <<\h00E5>>)
             @@ (\h01FA :> <<\h01FB>>) @@ (\h00BD :> <<49, \h2044, 50>>)
HostLetter == {97, 65, 46, 45, 32, \h00E5, \h00C5, \h212B, \h030A, \h0301, \h00AD, \h00DF,
               \h00BD, \h09BE, \h4E2D, -1}
MCHostname ==
  Texts(HostLetter, 1..3) \union Texts({97, 46, 45, \h00E5, \h030A, \h4E2D}, {4})
  \union {Before \o <<46>> \o After : Before \in Texts({97, \h00FC, \h4E2D}, 1..3),
                                         After \in Texts({97, \h00E5, \h4E2D}, 2..3)}
  \union {[k \in 1..n |-> IF k % 2 = 0 THEN 97 ELSE \h00DF] : n \in 5..12}
------------------------------------------------------------------------------
MCUrlString == Texts({32, 37, 43, 47, 65, 126, 255}, 0..2)
MCUrlEncoder == [reserve : SUBSET {43, 47, 126}, unreserve : SUBSET {32, 37, 43, 47}]
MCUrlEncoding == Texts({37, 43, 52, 65, 71, 97}, 0..4) \union Texts({37, 52, 65}, {5, 6})

MCWhitespace == {9, 32}
MCCharString == Texts({32, 44, 97}, 0..5)
MCDelimiter == {<<44>>, <<44, 44>>, <<44, 97>>, <<97, 44, 97>>}
MCMaxSplit == {0, 1, 2, 9}
MCStringList == Texts({<<>>, <<97>>, <<44>>, <<97, 32>>}, 0..3)
------------------------------------------------------------------------------
(* Numbers of one to six digits around the largest significand and its       *)
(* tenth, with and without zeros at the end, with fractions and exponents    *)
(* around the bounds of both widths; and whatever can go wrong in between.   *)
MCModulus == 65536
MCExponentModulus == 2048
Number(n) == IF n = 0 THEN <<0>> ELSE F!emit_integer(n, F!decimal_digits(n))
Integrals == {<<>>, <<0, 0>>, <<0, 0, 5>>}
             \union {Number(n) : n \in {0, 1, 5, 10, 500, 6553, 6554, 65530, 65535, 65536, 65540,
                                        65545, 99995, 655300, 655301, 655354, 655355, 655356, 999999}}
Fractions == {<<>>, <<F!DOT>>} \union {<<F!DOT>> \o f : f \in
                {<<0>>, <<5>>, <<0, 5>>, <<5, 0>>, <<0, 0, 1>>, <<4, 5, 0>>, <<9, 9, 9>>}}
ExponentParts ==
  {<<>>, <<F!E>>, <<F!E, F!MINUS>>, <<F!E, F!PLUS, 1>>, <<F!E, F!DOT, 1>>}
  \union {<<F!E>> \o sign \o Number(n) : sign \in {<<>>, <<F!MINUS>>},
            n \in {0, 2, 1022, 1023, 1024, 1025, 32767, 32768, 65535, 65536, 100000}}
Words == {SubSeq(F!INFINITY, 1, n) : n \in 1..8} \union {SubSeq(F!NAN, 1, n) : n \in 1..3}
         \union {<<F!I, F!N, F!F, F!I, F!N, F!N>>, <<F!N, F!A, F!N, F!N>>}
MCNumeral == {sign \o s : sign \in {<<>>, <<F!MINUS>>, <<F!PLUS>>},
                s \in {whole \o f \o e : whole \in Integrals, f \in Fractions, e \in ExponentParts}
                      \union Words \union {<<1, F!STOP>>, <<1, F!DOT, 1, F!STOP, 1>>, <<1, F!PLUS>>}}

MCLeastExponent == -7
MCDecimalNumber ==
  [type : {"normal"}, negative : BOOLEAN,
   significand : 1..40 \union {k * 97 : k \in 1..100} \union 1020..1028
                 \union {10239, 10240, 10245, 65535},
   exponent : -9..6]
  \union [type : {"normal"}, negative : {FALSE}, significand : {1, 25, 65535},
          exponent : {-1000, -104, -99, 95, 100, 999}]
  \union [type : {"nan", "infinity", "zero"}, negative : BOOLEAN, significand : {0}, exponent : {0}]
==============================================================================
