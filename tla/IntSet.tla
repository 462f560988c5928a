-------------------------------- MODULE IntSet --------------------------------
(* The bit sets of src/intset.c: numbers below size as bits of the words of  *)
(* an array, searched a word at a time.                                      *)
EXTENDS Integers

CONSTANTS LongBit,    \* LONG_BIT, the bits of a word
          SizeBound   \* bound: the largest size; within INT_MAX, as a search
                      \* answers an int

ASSUME LongBitAssumption == LongBit \in Nat \ {0}
ASSUME SizeAssumption == SizeBound \in Nat

VARIABLES size,      \* s->size
          data,      \* s->data: each word as the set of its bits that are 1
          members    \* history: what the set should hold

vars == <<size, data, members>>

Bits == 0..LongBit - 1
BITS_TO_LONGS(bits) == (bits + LongBit - 1) \div LongBit
Words == 0..BITS_TO_LONGS(size) - 1
Word(elem) == elem \div LongBit
Bit(elem) == elem % LongBit

TypeOK == /\ size \in 0..SizeBound
          /\ data \in [Words -> SUBSET Bits]
          /\ members \in SUBSET (0..size - 1)

Init == /\ size \in 0..SizeBound
        /\ data = [w \in Words |-> {}]
        /\ members = {}

(* intset_fill() also sets the bits of the last word beyond size.            *)
Fill == /\ data' = [w \in Words |-> Bits]
        /\ members' = 0..size - 1
        /\ UNCHANGED size

InRange(elem) == elem < size

Add(elem) == /\ IF InRange(elem)
                THEN /\ data' = [data EXCEPT ![Word(elem)] = @ \union {Bit(elem)}]
                     /\ members' = members \union {elem}
                ELSE UNCHANGED <<data, members>>
             /\ UNCHANGED size

RemoveWord(elem) == /\ IF InRange(elem)
                       THEN /\ data' = [data EXCEPT ![Word(elem)] = {}]
                            /\ members' = members \ {elem}
                       ELSE UNCHANGED <<data, members>>
                    /\ UNCHANGED size
Remove(elem) == /\ IF InRange(elem)
                   THEN /\ data' = [data EXCEPT ![Word(elem)] = @ \ {Bit(elem)}]
                        /\ members' = members \ {elem}
                   ELSE UNCHANGED <<data, members>>
                /\ UNCHANGED size

(* Any unsigned number may be passed, also one that is out of range.         *)
Next == Fill \/ \E elem \in 0..SizeBound + LongBit : Add(elem) \/ Remove(elem)

Spec == Init /\ [][Next]_vars
------------------------------------------------------------------------------
Least(S) == CHOOSE m \in S : \A n \in S : m <= n

has(elem) == InRange(elem) /\ Bit(elem) \in data[Word(elem)]

(* intset_find_next(): the first word, from that of elem on, that has a bit  *)
(* of the kind sought; in the word of elem itself, not below elem.           *)
Sought(elem, hit, w) == {b \in Bits : /\ (b \in data[w]) = hit
                                      /\ w = Word(elem) => b >= Bit(elem)}
Hits(elem, hit) == {w \in Words : w >= Word(elem) /\ Sought(elem, hit, w) # {}}
Found(elem, hit) == LET w == Least(Hits(elem, hit))
                    IN  w * LongBit + Least(Sought(elem, hit, w))
find_next_unbounded(elem, hit) ==
  IF ~InRange(elem) \/ Hits(elem, hit) = {} THEN -1 ELSE Found(elem, hit)
find_next(elem, hit) ==
  IF ~InRange(elem) \/ Hits(elem, hit) = {} \/ ~InRange(Found(elem, hit)) THEN -1
  ELSE Found(elem, hit)

(* intset_has() agrees with what was added, removed and filled in, whatever  *)
(* number is asked for: no call touches the bit of another number, nor a     *)
(* word beyond the array.                                                    *)
HasMembers == TypeOK /\ \A elem \in 0..SizeBound + LongBit : has(elem) <=> elem \in members

(* include/intset.h: a search answers the smallest number (not) in the set   *)
(* from the given one on, or -1 if there is none, and is not misled by the   *)
(* bits of the last word beyond size.                                        *)
FindsNext ==
  \A elem \in 0..SizeBound + LongBit, hit \in BOOLEAN :
    LET wanted == {x \in 0..size - 1 : x >= elem /\ (x \in members) = hit}
    IN  find_next(elem, hit) = IF wanted = {} THEN -1 ELSE Least(wanted)
==============================================================================
