--------------------------- MODULE MCCharstrInteger ---------------------------
(* Integers of eight bits: buffers of up to four characters of every kind,   *)
(* with which every base but 2 overflows, and of nine binary digits.  In     *)
(* base 12 there are products that fit and sums that do not.                 *)
EXTENDS CharstrInteger

Kinds == {0, 1, 7, 9, 15, X, PLUS, MINUS, STOP}
MCCall == (UNION {[1..len -> Kinds] : len \in 0..4}) \X {0, 1, 2, 10, 12, 16, 17}
            \union [1..9 -> {0, 1}] \X {2}
==============================================================================
