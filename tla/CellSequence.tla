---------------------------- MODULE CellSequence ----------------------------
(* A list as its clients see it: the sequence of its cells, from first to    *)
(* last.  src/list.c implements these operators with pointers; the hash      *)
(* table is modelled on top of them.                                         *)
EXTENDS Integers, Sequences

Cells(s) == {s[i] : i \in DOMAIN s}
Distinct(s) == \A i, j \in DOMAIN s : s[i] = s[j] => i = j

(* The position of a cell that is in the sequence.                           *)
Position(s, c) == CHOOSE i \in DOMAIN s : s[i] = c

InsertedAt(s, k, c) ==
  [i \in 1..Len(s) + 1 |-> IF i < k THEN s[i] ELSE IF i = k THEN c ELSE s[i - 1]]
RemovedAt(s, k) == [i \in 1..Len(s) - 1 |-> IF i < k THEN s[i] ELSE s[i + 1]]

AtEnd(s, c) == InsertedAt(s, Len(s) + 1, c)
AtFront(s, c) == InsertedAt(s, 1, c)
Before(s, c, d) == InsertedAt(s, Position(s, d), c)
Without(s, c) == RemovedAt(s, Position(s, c))
==============================================================================
