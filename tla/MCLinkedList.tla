---------------------------- MODULE MCLinkedList ----------------------------
(* Five cells of memory: lists of up to five elements, and freed cells that  *)
(* are handed out again while an iteration goes on.                          *)
EXTENDS LinkedList, TLC

Addresses == Permutations(Cell)
==============================================================================
