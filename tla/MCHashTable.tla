----------------------------- MODULE MCHashTable -----------------------------
(* Keys that are equal (a and b), keys that share a bucket (a and c) and one *)
(* in the other bucket (d).                                                  *)
EXTENDS HashTable, TLC

CONSTANTS a, b, c, d

MCRank == (a :> 1) @@ (b :> 1) @@ (c :> 2) @@ (d :> 3)
MCHash == (a :> 4) @@ (b :> 4) @@ (c :> 2) @@ (d :> 3)
MCGoodSizes == <<1, 2>>

Objects == Permutations(Elem) \union Permutations(Value)
==============================================================================
