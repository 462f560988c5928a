------------------------------ MODULE Graphemes ------------------------------
(* charstr_skip_utf8_grapheme() of src/charstr_grapheme.c: the end of the    *)
(* first grapheme cluster. Of a code point matters its class; of a malformed *)
(* encoding, that the decoder answers NULL there.                            *)
EXTENDS Integers, Sequences

CR == "CR"
LF == "LF"
BAD == "bad"
Class == {CR, LF, BAD, "other", "control", "prepend", "extend", "zwj", "sm", "ri",
          "pict", "L", "V", "T", "LV", "LVT"}
Trailer == {"extend", "zwj", "sm"}

NULL == 0

(* The position i of the class that is looked at, if it can be decoded.      *)
At(s, i, answer) == IF s[i] = BAD THEN NULL ELSE answer
(* What the rest of the cluster amounts to if the class at i belongs to it.  *)
Beyond(s, i, rest) == IF i = Len(s) THEN i + 1 ELSE rest

skip_trailer(s, first) ==
  LET end[i \in first..Len(s)] ==
        At(s, i, IF s[i] \in Trailer THEN Beyond(s, i, end[i + 1]) ELSE i)
  IN  end[first]

skip_emoji_modifier_sequence(s, first) ==
  LET end[i \in first..Len(s)] ==
        At(s, i,
           IF s[i] = "extend" THEN Beyond(s, i, end[i + 1])
           ELSE IF s[i] # "zwj" THEN skip_trailer(s, i)
           ELSE Beyond(s, i,
                  IF s[i + 1] = "pict" THEN Beyond(s, i + 1, end[i + 2])
                  ELSE skip_trailer(s, i + 1)))
  IN  end[first]

skip_emoji_flag_sequence(s, i) ==
  At(s, i, IF s[i] # "ri" THEN skip_trailer(s, i) ELSE Beyond(s, i, skip_trailer(s, i + 1)))

(* Whether a class is in the same cluster as the one before.                 *)
Breaks == {CR, LF, "control"}
JoinedKeepingPrepend(before, class) ==
  /\ before \notin Breaks /\ class \notin Breaks
  /\ \/ before = "L" /\ class \in {"L", "V", "LV", "LVT"}
     \/ before \in {"LV", "V"} /\ class \in {"V", "T"}
     \/ before \in {"LVT", "T"} /\ class = "T"
     \/ class \in Trailer
Joined(before, class) ==
  /\ before \notin Breaks /\ class \notin Breaks
  /\ \/ before = "L" /\ class \in {"L", "V", "LV", "LVT"}
     \/ before \in {"LV", "V"} /\ class \in {"V", "T"}
     \/ before \in {"LVT", "T"} /\ class = "T"
     \/ class \in Trailer
     \/ before = "prepend"

skip_utf8_grapheme(s) ==
  LET end[i \in 2..Len(s)] ==
        At(s, i,
           IF s[i - 1] = CR /\ s[i] = LF THEN i + 1
           ELSE IF Joined(s[i - 1], s[i]) THEN Beyond(s, i, end[i + 1]) ELSE i)
  IN  IF s = <<>> THEN NULL
      ELSE At(s, 1, Beyond(s, 1,
             At(s, 2,
                IF s[1] = "pict" THEN skip_emoji_modifier_sequence(s, 2)
                ELSE IF s[1] = "ri" THEN skip_emoji_flag_sequence(s, 2)
                ELSE end[2])))
------------------------------------------------------------------------------
(* The rules of https://unicode.org/reports/tr29/: whether there is no break *)
(* before position i of a text.                                              *)
GB3(s, i) == s[i - 1] = CR /\ s[i] = LF
GB4And5(s, i) == s[i - 1] \in Breaks \/ s[i] \in Breaks
GB6(s, i) == s[i - 1] = "L" /\ s[i] \in {"L", "V", "LV", "LVT"}
GB7(s, i) == s[i - 1] \in {"LV", "V"} /\ s[i] \in {"V", "T"}
GB8(s, i) == s[i - 1] \in {"LVT", "T"} /\ s[i] = "T"
GB9(s, i) == s[i] \in {"extend", "zwj"} \/ s[i] = "sm" \/ s[i - 1] = "prepend"
GB11(s, i) ==
  /\ s[i - 1] = "zwj" /\ s[i] = "pict"
  /\ \E k \in 1..i - 2 : s[k] = "pict" /\ \A m \in k + 1..i - 2 : s[m] = "extend"
GB12And13(s, i) ==
  /\ s[i - 1] = "ri" /\ s[i] = "ri"
  /\ \E k \in 1..i - 1 : /\ (i - k) % 2 = 1
                         /\ \A m \in k..i - 1 : s[m] = "ri"
                         /\ k = 1 \/ s[k - 1] # "ri"
NoBreak(s, i) ==
  \/ GB3(s, i)
  \/ /\ s[i] # BAD /\ ~GB4And5(s, i)
     /\ \/ GB6(s, i) \/ GB7(s, i) \/ GB8(s, i) \/ GB9(s, i)
        \/ GB11(s, i) \/ GB12And13(s, i)

IsFirstBreak(s, i) ==
  /\ i = Len(s) + 1 \/ ~NoBreak(s, i)
  /\ \A k \in 2..i - 1 : NoBreak(s, k)

(* A text that begins with a prepended mark before a flag or an emoji: the   *)
(* code goes on with neither sequence there.                                 *)
PrependsSequence(s) ==
  \E i \in 2..Len(s) : /\ s[i] \in {"ri", "pict"}
                       /\ \A k \in 1..i - 1 : s[k] = "prepend"
==============================================================================
