----------------------------- MODULE PriorityBag -----------------------------
(* What include/priority_queue.h promises: the queue is a bag of elements,   *)
(* one element may be enqueued twice, dequeue and peek answer an element of  *)
(* the highest priority (the least Key), pop answers some element and remove *)
(* answers the element whose locator it is given.                            *)
EXTENDS Integers

CONSTANTS Elem,     \* the values of the client
          NoElem,   \* the NULL pointer
          Key       \* Key[e]: the rank cmp() gives the element e

VARIABLES bag,      \* bag[e]: how often e is in the queue
          call,     \* the latest call: the function and its argument
          result    \* what the latest call answers

vars == <<bag, call, result>>

Queued == {e \in Elem : bag[e] > 0}
Foremost(e) == e \in Queued /\ \A f \in Queued : Key[e] <= Key[f]

Call(op, arg) == call' = [op |-> op, arg |-> arg]
Take(e) == bag' = [bag EXCEPT ![e] = @ - 1] /\ result' = e

Init == /\ bag = [e \in Elem |-> 0]
        /\ call = [op |-> "none", arg |-> NoElem]
        /\ result = NoElem

Enqueue(e) == /\ Call("enqueue", e)
              /\ bag' = [bag EXCEPT ![e] = @ + 1]
              /\ result' = NoElem

Dequeue == /\ Call("dequeue", NoElem)
           /\ \E e \in Elem : Foremost(e) /\ Take(e)

Peek == /\ Call("peek", NoElem)
        /\ \E e \in Elem : Foremost(e) /\ result' = e
        /\ UNCHANGED bag

Pop == /\ Call("pop", NoElem)
       /\ \E e \in Queued : Take(e)

Remove(e) == /\ e \in Queued
             /\ Call("remove", e)
             /\ Take(e)

Empty == /\ Queued = {}
         /\ \E op \in {"dequeue", "peek", "pop"} : Call(op, NoElem)
         /\ result' = NoElem
         /\ UNCHANGED bag

Next == \/ Dequeue \/ Peek \/ Pop \/ Empty
        \/ \E e \in Elem : Enqueue(e) \/ Remove(e)

Spec == Init /\ [][Next]_vars
==============================================================================
