----------------------------- MODULE MCByteArray -----------------------------
(* A size_t of three bits: every limit from 1 to 7, growth by doubling and   *)
(* by saturation, and requests whose sums leave the range of size_t.         *)
EXTENDS ByteArray

CONSTANT x
MCByte == {NUL, x}

(* Strings of no, some and too many bytes, and one with a NUL inside.        *)
MCInput == {[i \in 1..n |-> x] : n \in {0, 1, 2, 4, SizeMax}}
           \union {[i \in 1..n |-> IF i = n THEN x ELSE NUL] : n \in {3}}

==============================================================================
