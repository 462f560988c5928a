--------------------------------- MODULE Idna ---------------------------------
(* charstr_idna_encode() of src/charstr_puny.c: a hostname is normalized,    *)
(* its code points are mapped, and each of its labels is put into ASCII.     *)
EXTENDS NormalForm

CONSTANTS Status,                \* code point |-> its IDNA status
          Mapping,               \* mapped code point |-> its text
          SpacingMarks,          \* the code points of category Mc
          MAX_DNS_NAME_LENGTH, MAX_DNS_LABEL_LENGTH   \* 254 and 63

DOT == 46
HYPHEN == 45
Uppercase == 65..90
Alnum == 48..57 \union Uppercase \union 97..122
lcase_char(c) == IF c \in Uppercase THEN c + 32 ELSE c

BASE == 36
TMIN == 1
TMAX == 26
SKEW == 38
DAMP == 700
INITIAL_BIAS == 72
INITIAL_N == 128
------------------------------------------------------------------------------
adapt(delta, numpoints, firsttime) ==
  LET halved == delta \div (IF firsttime THEN DAMP ELSE 2)
      scaled[d \in Nat, k \in Nat] ==
        IF d > ((BASE - TMIN) * TMAX) \div 2 THEN scaled[d \div (BASE - TMIN), k + BASE]
        ELSE k + ((BASE - TMIN + 1) * d) \div (d + SKEW)
  IN  scaled[halved + halved \div numpoints, 0]

record_nonascii(nonascii, codepoint) ==
  LET i == Cardinality({k \in DOMAIN nonascii : nonascii[k] <= codepoint}) + 1
  IN  IF \E k \in DOMAIN nonascii : nonascii[k] = codepoint THEN nonascii
      ELSE InsertAt(nonascii, i, codepoint)

(* The label at position p of the host, up to a dot or the end of the host.  *)
LabelEnd(host, p) == Min({e \in p..Len(host) + 1 : e = Len(host) + 1 \/ host[e] = DOT})
Label(host, p) == SubSeq(host, p, LabelEnd(host, p) - 1)

(* The hyphen at the end is looked for at that of the whole host.            *)
passes(host, p) ==
  /\ p <= Len(host) /\ host[p] # HYPHEN /\ host[Len(host)] # HYPHEN
  /\ \A k \in DOMAIN Label(host, p) :
       LET c == Label(host, p)[k]
       IN  /\ c # BAD
           /\ c < INITIAL_N => c \in Alnum \union {HYPHEN}
           /\ k = 1 => c \notin SpacingMarks

Ascii(label) == [k \in DOMAIN SelectSeq(label, LAMBDA c : c < INITIAL_N) |->
                   lcase_char(SelectSeq(label, LAMBDA c : c < INITIAL_N)[k])]
Nonascii(label) ==
  FoldLeft(record_nonascii, <<>>, SelectSeq(label, LAMBDA c : c >= INITIAL_N))
------------------------------------------------------------------------------
BASE36_DIGIT(d) == IF d < 26 THEN 97 + d ELSE 48 + (d - 26)

Threshold(k, bias) == IF k <= bias THEN TMIN ELSE IF k >= bias + TMAX THEN TMAX ELSE k - bias
VariableLength(delta, bias) ==
  LET digits[q \in Nat, k \in Nat] ==
        LET t == Threshold(k, bias)
        IN  IF q < t THEN <<BASE36_DIGIT(q)>>
            ELSE <<BASE36_DIGIT(t + ((q - t) % (BASE - t)))>>
                   \o digits[(q - t) \div (BASE - t), k + BASE]
  IN  digits[delta, BASE]

(* One code point of the label, while those equal to n are written.          *)
PunyStepUnadapted(puny, c, n, basic) ==
  IF c > n THEN puny
  ELSE IF c < n THEN [puny EXCEPT !.delta = @ + 1]
  ELSE [delta |-> 0, handled |-> puny.handled + 1, bias |-> puny.bias,
        output |-> puny.output \o VariableLength(puny.delta, puny.bias)]
PunyStep(puny, c, n, basic) ==
  IF c > n THEN puny
  ELSE IF c < n THEN [puny EXCEPT !.delta = @ + 1]
  ELSE [delta |-> 0, handled |-> puny.handled + 1,
        bias |-> adapt(puny.delta, puny.handled + 1, puny.handled = basic),
        output |-> puny.output \o VariableLength(puny.delta, puny.bias)]

punycode_encode_pass2(label, nonascii, output) ==
  LET basic == Len(Ascii(label))
      previous(i) == IF i = 1 THEN INITIAL_N ELSE nonascii[i - 1] + 1
      advanced(puny, i) ==
        [puny EXCEPT !.delta = @ + (nonascii[i] - previous(i)) * (puny.handled + 1)]
      round(puny, i) ==
        LET done == FoldLeft(LAMBDA x, c : PunyStep(x, c, nonascii[i], basic),
                             advanced(puny, i), label)
        IN  [done EXCEPT !.delta = @ + 1]
  IN  FoldLeft(round, [delta |-> 0, handled |-> basic, bias |-> INITIAL_BIAS,
                       output |-> output],
               [i \in DOMAIN nonascii |-> i]).output

XN == <<120, 110, HYPHEN, HYPHEN>>
Encoded(label) ==
  IF Nonascii(label) = <<>> THEN Ascii(label)
  ELSE punycode_encode_pass2(label, Nonascii(label),
         XN \o Ascii(label) \o (IF Ascii(label) = <<>> THEN <<>> ELSE <<HYPHEN>>))

TooLong(label) == /\ Nonascii(label) # <<>>
                  /\ Len(Encoded(label)) > MAX_DNS_LABEL_LENGTH
------------------------------------------------------------------------------
Fail == [null |-> TRUE, text |-> <<>>]
Success(text) == [null |-> FALSE, text |-> text]

(* The labels from p on, after the encoding of those before.                 *)
encode_filtered(host) ==
  LET labels[p \in 1..Len(host) + 1, encoding \in Seq(Int)] ==
        LET end == LabelEnd(host, p)
            dot == IF end <= Len(host) THEN <<DOT>> ELSE <<>>
            more == encoding \o Encoded(Label(host, p)) \o dot
        IN  IF ~passes(host, p) THEN Fail
            ELSE IF TooLong(Label(host, p)) \/ Len(more) > MAX_DNS_NAME_LENGTH THEN Fail
            ELSE IF end < Len(host) THEN labels[end + 1, more]
            ELSE Success(more)
  IN  IF bytes(host) > MAX_DNS_NAME_LENGTH THEN Fail ELSE labels[1, <<>>]

StatusOf(c) == IF c \in DOMAIN Status THEN Status[c] ELSE "disallowed"
MapCodepoint(out, c) ==
  IF out.errno # "OK" THEN out
  ELSE IF c = BAD THEN Failed(out, "EILSEQ")
  ELSE CASE StatusOf(c) \in {"valid", "deviation"} -> Put(out, c, MAX_DNS_NAME_LENGTH)
         [] StatusOf(c) = "ignored" -> out
         [] StatusOf(c) = "mapped" ->
              IF out.size + bytes(Mapping[c]) > MAX_DNS_NAME_LENGTH
              THEN Failed(out, "EOVERFLOW")
              ELSE PutAll(out, Mapping[c], MAX_DNS_NAME_LENGTH)
         [] StatusOf(c) \notin {"valid", "deviation", "ignored", "mapped"} ->
              Failed(out, "EILSEQ")
mapped(host) == FoldLeft(MapCodepoint, Output, host)

encode_nfc(host) ==
  IF mapped(host).errno # "OK" THEN Fail ELSE encode_filtered(mapped(host).text)

encode_nfd(host) ==
  LET composed == unicode_recompose(host, bytes(host) + 1)
  IN  IF composed.errno # "OK" THEN Fail ELSE encode_nfc(composed.text)

(* The room for the decomposition is thrice the hostname, with no byte more. *)
idna_encode(hostname) ==
  LET decomposed == unicode_decompose(hostname, 3 * bytes(hostname))
  IN  IF \A k \in DOMAIN hostname : hostname[k] \in 0..INITIAL_N - 1
      THEN Success([k \in DOMAIN hostname |-> lcase_char(hostname[k])])
      ELSE IF canonically_composed(hostname) THEN encode_nfc(hostname)
      ELSE IF canonically_decomposed(hostname) THEN encode_nfd(hostname)
      ELSE IF decomposed.errno # "OK" THEN Fail
      ELSE encode_nfd(decomposed.text)
------------------------------------------------------------------------------
(* The decoding of a label by RFC 3492, section 6.2.                         *)
DigitOf(c) == IF c >= 97 THEN c - 97 ELSE c - 48 + 26
Decoding(label) ==
  LET hyphens == {k \in DOMAIN label : label[k] = HYPHEN}
      basic == IF hyphens = {} THEN <<>> ELSE SubSeq(label, 1, Max(hyphens) - 1)
      start == IF hyphens = {} THEN 1 ELSE Max(hyphens) + 1
      number[p \in Nat, i \in Nat, w \in Nat, k \in Nat, bias \in Nat] ==
        LET digit == DigitOf(label[p])
            t == Threshold(k, bias)
        IN  IF digit < t THEN <<i + digit * w, p + 1>>
            ELSE number[p + 1, i + digit * w, w * (BASE - t), k + BASE, bias]
      insertions[p \in Nat, n \in Nat, i \in Nat, bias \in Nat, out \in Seq(Nat)] ==
        IF p > Len(label) THEN out
        ELSE LET read == number[p, i, 1, BASE, bias]
                 size == Len(out) + 1
                 c == n + read[1] \div size
                 at == read[1] % size
             IN  insertions[read[2], c, at + 1, adapt(read[1] - i, size, i = 0),
                            InsertAt(out, at + 1, c)]
  IN  insertions[start, INITIAL_N, 0, INITIAL_BIAS, basic]

Labels(text) ==
  LET split[p \in 1..Len(text) + 1] ==
        <<Label(text, p)>> \o
          (IF LabelEnd(text, p) > Len(text) THEN <<>> ELSE split[LabelEnd(text, p) + 1])
  IN  split[1]
IsXN(label) == Len(label) >= 4 /\ SubSeq(label, 1, 4) = XN
Unicode(label) == IF IsXN(label) THEN Decoding(SubSeq(label, 5, Len(label))) ELSE label
Lowercase(label) == [k \in DOMAIN label |-> lcase_char(label[k])]
==============================================================================
