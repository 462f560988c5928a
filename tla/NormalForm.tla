------------------------------ MODULE NormalForm ------------------------------
(* The canonical normal forms: src/charstr_decompose.c,                      *)
(* src/charstr_recompose.c and src/charstr_unicode.c. A text is a sequence   *)
(* of code points, of which the width of the encoding matters, and BAD where *)
(* its encoding is malformed.                                                *)
EXTENDS Integers, Sequences, FiniteSets, FiniteSetsExt, SequencesExt

CONSTANTS CombiningClass,      \* code point |-> its class, where that is not 0
          Decomposition,       \* code point |-> what it is decomposed into
          PrimaryComposite,    \* <<starter, code point>> |-> their composite
          Disallowed, Maybe,   \* form |-> its code points with that flag
          MaxCcs               \* 100, how many combining characters are kept

LOCAL U8 == INSTANCE Utf8

BAD == -1
Unlimited == 1000000           \* the room if no end of the output is given
width(c) == IF c = BAD THEN 1 ELSE Len(U8!Encoding(c))

AddWidth(size, c) == size + width(c)
bytes(text) == FoldLeft(AddWidth, 0, text)

ccc(codepoint) ==
  IF codepoint \in DOMAIN CombiningClass THEN CombiningClass[codepoint] ELSE 0

(* What is written so far, in how many bytes; and errno, once there is NULL. *)
Output == [text |-> <<>>, size |-> 0, errno |-> "OK"]
Failed(out, errno) == [out EXCEPT !.errno = errno]
Put(out, codepoint, room) ==
  IF out.errno # "OK" THEN out
  ELSE IF out.size + width(codepoint) > room THEN Failed(out, "EOVERFLOW")
  ELSE [out EXCEPT !.text = Append(@, codepoint), !.size = @ + width(codepoint)]

Terminated(out, room) ==
  IF out.errno = "OK" /\ out.size = room THEN Failed(out, "EOVERFLOW") ELSE out
------------------------------------------------------------------------------
S_BASE == 44032
L_BASE == 4352
V_BASE == 4449
T_BASE == 4519
L_COUNT == 19
V_COUNT == 21
T_COUNT == 28
N_COUNT == V_COUNT * T_COUNT
Syllable == S_BASE..S_BASE + L_COUNT * N_COUNT - 1

Jamo(codepoint) ==
  LET i == codepoint - S_BASE
      pair == <<L_BASE + i \div N_COUNT, V_BASE + (i % N_COUNT) \div T_COUNT>>
  IN  IF i % T_COUNT = 0 THEN pair ELSE Append(pair, T_BASE + (i % T_COUNT))

PutAll(out, text, room) == FoldLeft(LAMBDA o, c : Put(o, c, room), out, text)

(* A syllable whose letters do not fit is taken for no syllable, and written *)
(* as it is if that fits.                                                    *)
decompose_hangul(codepoint, out, room) ==
  IF codepoint \in Syllable THEN PutAll(out, Jamo(codepoint), room) ELSE Failed(out, "NULL")

Leaves(codepoint) ==
  LET leaves[c \in Int] ==
        IF c \notin DOMAIN Decomposition THEN <<c>>
        ELSE FlattenSeq([k \in DOMAIN Decomposition[c] |-> leaves[Decomposition[c][k]]])
  IN  leaves[codepoint]

decompose_fully(codepoint, out, room) ==
  IF codepoint \in DOMAIN Decomposition THEN PutAll(out, Leaves(codepoint), room)
  ELSE IF decompose_hangul(codepoint, out, room).errno = "OK"
       THEN decompose_hangul(codepoint, out, room)
       ELSE Put(out, codepoint, room)

(* The character at i goes before the first one since the last starter that  *)
(* has a higher class.                                                       *)
MovedUnstably(text, i, begin) ==
  LET t == Min({k \in begin..i : k = i \/ ccc(text[k]) >= ccc(text[i])})
  IN  InsertAt(RemoveAt(text, i), t, text[i])
Moved(text, i, begin) ==
  LET t == Min({k \in begin..i - 1 : ccc(text[k]) > ccc(text[i])})
  IN  InsertAt(RemoveAt(text, i), t, text[i])
Sorting(sort, i) ==
  LET class == ccc(sort.text[i])
  IN  IF class = 0 THEN [sort EXCEPT !.begin = i + 1, !.last_ccc = 0]
      ELSE IF class >= sort.last_ccc THEN [sort EXCEPT !.last_ccc = class]
      ELSE [sort EXCEPT !.text = Moved(@, i, sort.begin)]
sort_combining_characters(text) ==
  FoldLeft(Sorting, [text |-> text, begin |-> 1, last_ccc |-> 0],
           [i \in DOMAIN text |-> i]).text

unicode_decompose(s, room) ==
  LET step(out, c) == IF out.errno # "OK" THEN out
                      ELSE IF c = BAD THEN Failed(out, "EILSEQ")
                      ELSE decompose_fully(c, out, room)
      out == Terminated(FoldLeft(step, Output, s), room)
  IN  IF out.errno # "OK" THEN out ELSE [out EXCEPT !.text = sort_combining_characters(@)]
------------------------------------------------------------------------------
(* What the text is as far as it has been looked at: allowed, disallowed or  *)
(* maybe in the form, or malformed.                                          *)
LooksAtFlags(check, c, form) ==
  IF check.is \in {"disallowed", "EILSEQ"} THEN check
  ELSE IF c = BAD THEN [check EXCEPT !.is = "EILSEQ"]
  ELSE IF c \in Disallowed[form] THEN [check EXCEPT !.is = "disallowed"]
  ELSE [last |-> ccc(c), is |-> IF c \in Maybe[form] THEN "maybe" ELSE check.is]
Looks(check, c, form) ==
  IF check.is \in {"disallowed", "EILSEQ"} THEN check
  ELSE IF c = BAD THEN [check EXCEPT !.is = "EILSEQ"]
  ELSE IF (ccc(c) # 0 /\ check.last > ccc(c)) \/ c \in Disallowed[form]
       THEN [check EXCEPT !.is = "disallowed"]
  ELSE [last |-> ccc(c), is |-> IF c \in Maybe[form] THEN "maybe" ELSE check.is]

detect_normal_form(s, form) ==
  FoldLeft(LAMBDA check, c : Looks(check, c, form), [last |-> 0, is |-> "allowed"], s).is
canonically_composed(s) == detect_normal_form(s, "NFC") = "allowed"
canonically_decomposed(s) == detect_normal_form(s, "NFD") = "allowed"
------------------------------------------------------------------------------
(* The two recomposers between input and output: the generic one keeps a     *)
(* starter and its combining characters, the Hangul one a single code point. *)
NONE == -1
Recomposers == [starter |-> NONE, ccs |-> <<>>, next |-> NONE] @@ Output

blocked_by_any(ccs, class) == ccs # <<>>
blocked(ccs, class) == \E j \in DOMAIN ccs : ccc(ccs[j]) >= class

(* Put() with the recomposers' fields left alone.                            *)
hangul_recomposer_feed(r, codepoint, room) ==
  LET li == r.next - L_BASE
      vi == codepoint - V_BASE
      si == r.next - S_BASE
      ti == codepoint - T_BASE
  IN  IF r.next = NONE THEN [r EXCEPT !.next = codepoint]
      ELSE IF li \in 0..L_COUNT - 1 /\ vi \in 0..V_COUNT - 1
           THEN [r EXCEPT !.next = S_BASE + (li * V_COUNT + vi) * T_COUNT]
      ELSE IF r.next \in Syllable /\ si % T_COUNT = 0 /\ ti \in 1..T_COUNT - 1
           THEN [r EXCEPT !.next = @ + ti]
      ELSE [Put(r, r.next, room) EXCEPT !.next = codepoint]

Deliver(r, text, room) ==
  FoldLeft(LAMBDA h, c : hangul_recomposer_feed(h, c, room), r, text)

recomposer_feed(r, codepoint, room) ==
  LET pair == <<r.starter, codepoint>>
      class == ccc(codepoint)
  IN  IF r.errno # "OK" THEN r
      ELSE IF r.starter = NONE
           THEN IF class # 0 THEN Deliver(r, <<codepoint>>, room)
                ELSE [r EXCEPT !.starter = codepoint]
      ELSE IF ~blocked(r.ccs, class) /\ pair \in DOMAIN PrimaryComposite
           THEN [r EXCEPT !.starter = PrimaryComposite[pair]]
      ELSE IF class # 0
           THEN IF Len(r.ccs) >= MaxCcs THEN Failed(r, "ENOBUFS")
                ELSE [r EXCEPT !.ccs = Append(@, codepoint)]
      ELSE Deliver([r EXCEPT !.starter = codepoint, !.ccs = <<>>],
                   <<r.starter>> \o r.ccs, room)

recomposer_terminate(r, room) ==
  IF r.errno # "OK" \/ r.starter = NONE THEN r ELSE Deliver(r, <<r.starter>> \o r.ccs, room)
hangul_recomposer_terminate(r, room) ==
  IF r.next = NONE THEN r ELSE Put(r, r.next, room)

unicode_recompose(s, room) ==
  LET step(r, c) == IF c = BAD /\ r.errno = "OK" THEN Failed(r, "EILSEQ")
                    ELSE recomposer_feed(r, c, room)
      fed == recomposer_terminate(FoldLeft(step, Recomposers, s), room)
  IN  Terminated(hangul_recomposer_terminate(fed, room), room)
------------------------------------------------------------------------------
(* A converted text in fresh memory, or NULL: with errno or because the text *)
(* has the form already.                                                     *)
Converted(out, allocated) ==
  [text |-> IF out.errno = "OK" THEN out.text ELSE <<>>, null |-> out.errno # "OK",
   errno |-> out.errno, size |-> out.size, allocated |-> allocated]
AsItIs == [Converted(Output, 1) EXCEPT !.null = TRUE]

convert_to_nfd(s) ==
  IF canonically_decomposed(s) THEN AsItIs
  ELSE Converted(unicode_decompose(s, Unlimited), 3 * bytes(s) + 1)

convert_to_nfc(s) ==
  LET nfd == convert_to_nfd(s)
      from == IF nfd.null THEN s ELSE nfd.text
  IN  IF canonically_composed(s) THEN AsItIs
      ELSE IF nfd.errno # "OK" THEN Converted(Failed(Output, nfd.errno), 0)
      ELSE Converted(unicode_recompose(from, Unlimited), bytes(from) + 1)
------------------------------------------------------------------------------
(* The canonical decomposition by its definition: every character is         *)
(* decomposed, and the marks between two starters are put in the order of    *)
(* their classes, equal ones in their own.                                   *)
Decomposed(c) == IF c \in Syllable THEN Jamo(c) ELSE Leaves(c)
Expansion(s) == FlattenSeq([k \in DOMAIN s |-> Decomposed(s[k])])
RunStart(t, k) == IF ccc(t[k]) = 0 THEN k
                  ELSE CHOOSE b \in 1..k : /\ \A m \in b..k : ccc(t[m]) # 0
                                           /\ b = 1 \/ ccc(t[b - 1]) = 0
SameRun(t, j, k) == j = k \/ (ccc(t[j]) # 0 /\ ccc(t[k]) # 0 /\ RunStart(t, j) = RunStart(t, k))
Before(t, j, k) == /\ SameRun(t, j, k)
                   /\ ccc(t[j]) < ccc(t[k]) \/ (ccc(t[j]) = ccc(t[k]) /\ j < k)
Place(t, k) == RunStart(t, k) + Cardinality({j \in DOMAIN t : Before(t, j, k)})
NFD(s) == LET t == Expansion(s)
          IN  [p \in DOMAIN t |-> t[CHOOSE k \in DOMAIN t : Place(t, k) = p]]

(* Two characters of a text that would have to be composed.                  *)
Composable(t) ==
  \E k \in DOMAIN t : \E i \in 1..k - 1 :
    /\ ccc(t[i]) = 0
    /\ \A m \in i + 1..k - 1 : ccc(t[m]) # 0 /\ ccc(t[m]) < ccc(t[k])
    /\ \/ <<t[i], t[k]>> \in DOMAIN PrimaryComposite
       \/ i + 1 = k /\ t[i] \in L_BASE..L_BASE + L_COUNT - 1
                    /\ t[k] \in V_BASE..V_BASE + V_COUNT - 1
       \/ i + 1 = k /\ t[i] \in Syllable /\ (t[i] - S_BASE) % T_COUNT = 0
                    /\ t[k] \in T_BASE + 1..T_BASE + T_COUNT - 1
Composites == {PrimaryComposite[pair] : pair \in DOMAIN PrimaryComposite}
InOrder(t) == \A k \in 2..Len(t) : ccc(t[k]) = 0 \/ ccc(t[k - 1]) <= ccc(t[k])
IsNFC(t, s) == /\ ~Composable(t) /\ InOrder(t) /\ NFD(t) = NFD(s)
               /\ \A k \in DOMAIN t : t[k] \in DOMAIN Decomposition => t[k] \in Composites
==============================================================================
