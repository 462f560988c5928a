------------------------------ MODULE MCAVLTree ------------------------------
(* One tree over twelve keys: the smallest on which removing one element     *)
(* rotates twice, at different levels.                                       *)
EXTENDS AVLTree

MCKey == 1..12
MCRank == [k \in MCKey |-> k]
==============================================================================
