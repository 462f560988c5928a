------------------------------- MODULE Splitting -------------------------------
(* charstr_split() and its relatives in src/charstr.c: a string is taken     *)
(* apart at delimiters or at white space, and strings are joined.            *)
EXTENDS Integers, Sequences, FiniteSets, FiniteSetsExt, SequencesExt

CONSTANT Whitespace      \* the characters of CHARSTR_WHITESPACE

(* Where the delimiter is first found in the string, or 0.                   *)
Places(s, delim) ==
  {k \in 1..Len(s) - Len(delim) + 1 : SubSeq(s, k, k + Len(delim) - 1) = delim}
strstr(s, delim) == IF Places(s, delim) = {} THEN 0 ELSE Min(Places(s, delim))

RestOverlapping(s, p, delim) == SubSeq(s, p + 1, Len(s))
Rest(s, p, delim) == SubSeq(s, p + Len(delim), Len(s))
split_str(string, delim, max_split) ==
  LET pieces[s \in Seq(Int), left \in Nat] ==
        IF left = 0 \/ strstr(s, delim) = 0 THEN <<s>>
        ELSE <<SubSeq(s, 1, strstr(s, delim) - 1)>>
               \o pieces[Rest(s, strstr(s, delim), delim), left - 1]
  IN  pieces[string, max_split]

split(string, delim, max_split) == split_str(string, <<delim>>, max_split)

(* The last index of the array that is filled, and the array.                *)
split_into_array(string, delim, max_split) ==
  [index |-> Len(split(string, delim, max_split)) - 1,
   array |-> split(string, delim, max_split)]

White(s, k) == s[k] \in Whitespace
split_atoms(string) ==
  LET atoms[k \in 1..Len(string) + 1] ==
        LET end == Min({p \in k..Len(string) + 1 : p > Len(string) \/ White(string, p)})
        IN  IF k > Len(string) THEN <<>>
            ELSE IF White(string, k) THEN atoms[k + 1]
            ELSE <<SubSeq(string, k, end - 1)>> \o atoms[end]
  IN  atoms[1]

strip(s) ==
  LET start == Min({k \in 1..Len(s) + 1 : k > Len(s) \/ ~White(s, k)})
      end == Max({k \in start - 1..Len(s) : k < start \/ ~White(s, k)})
  IN  SubSeq(s, start, end)

join(joiner, strings) ==
  IF strings = <<>> THEN <<>>
  ELSE FoldLeft(LAMBDA all, s : all \o joiner \o s, strings[1],
                SubSeq(strings, 2, Len(strings)))
------------------------------------------------------------------------------
(* As many pieces as there may be, which joined again are the string, all    *)
(* but the last of them without the delimiter.                               *)
Splits(pieces, s, delim, max_split) ==
  /\ join(delim, pieces) = s
  /\ Len(pieces) <= max_split + 1
  /\ \A k \in 1..Len(pieces) - 1 : Places(pieces[k], delim) = {}
  /\ Len(pieces) <= max_split => Places(pieces[Len(pieces)], delim) = {}

(* The atoms are the longest pieces without white space, in order.           *)
AtomEnds(s) == {k \in DOMAIN s : ~White(s, k) /\ (k = Len(s) \/ White(s, k + 1))}
SplitsAtoms(atoms, s) ==
  /\ FlattenSeq(atoms) = SelectSeq(s, LAMBDA c : c \notin Whitespace)
  /\ Len(atoms) = Cardinality(AtomEnds(s))
  /\ \A k \in DOMAIN atoms : atoms[k] # <<>>
  /\ \A e \in AtomEnds(s) :
       LET rank == Cardinality({d \in AtomEnds(s) : d <= e})
       IN  \E b \in 1..e : /\ SubSeq(s, b, e) = atoms[rank]
                           /\ b = 1 \/ White(s, b - 1)

(* Only white space is stripped, and all of it at both ends.                 *)
Strips(stripped, s) ==
  /\ stripped = <<>> => \A k \in DOMAIN s : White(s, k)
  /\ stripped # <<>> =>
       /\ ~White(stripped, 1) /\ ~White(stripped, Len(stripped))
       /\ \E b \in DOMAIN s :
            /\ SubSeq(s, b, b + Len(stripped) - 1) = stripped
            /\ \A k \in DOMAIN s \ (b..b + Len(stripped) - 1) : White(s, k)
==============================================================================
