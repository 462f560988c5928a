------------------------------- MODULE MCIntSet -------------------------------
(* Words of three bits: sets of no, one, two and three words, whose last     *)
(* word is used in part or in full.                                          *)
EXTENDS IntSet
==============================================================================
