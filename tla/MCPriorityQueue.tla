--------------------------- MODULE MCPriorityQueue ---------------------------
(* Three elements of which two rank equal; two of them may be enqueued       *)
(* several times.  Six slots are the fewest with which the element that      *)
(* priorq_remove() moves into the gap may have to rise.                      *)
EXTENDS PriorityQueue, TLC

CONSTANTS a, b, c

MCKey == (a :> 2) @@ (b :> 1) @@ (c :> 2)
==============================================================================
