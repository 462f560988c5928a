------------------------------ MODULE MCAVLMap ------------------------------
(* Two trees and three keys, two of which cmp() takes as equal: elements are *)
(* replaced, copied, detached and destroyed, and their memory is used again. *)
EXTENDS AVLMap, TLC

CONSTANTS k1, k2, k3

MCRank == (k1 :> 1) @@ (k2 :> 2) @@ (k3 :> 2)

Objects == Permutations(Tree) \union Permutations(Value)
==============================================================================
