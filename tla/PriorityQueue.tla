---------------------------- MODULE PriorityQueue ----------------------------
(* The binary heap of src/priority_queue.c, one step for each round of its   *)
(* loops: between two rounds the client's cmp() and reloc() callbacks run,   *)
(* so what they can observe is a state of its own.                           *)
EXTENDS Integers, FiniteSets

CONSTANTS Elem,     \* the values of the client
          NoElem,   \* the NULL pointer, and what uninitialised storage holds
          Key,      \* cmp(a, b) has the sign of Key[a] - Key[b]
          Unique,   \* the elements the client enqueues once at a time: only
                    \* for those does a locator denote one element
          SizeMax   \* SIZE_MAX, the bound on the number of elements

ASSUME KeyAssumption == Key \in [Elem -> Int]
ASSUME ElemAssumption == NoElem \notin Elem /\ Unique \subseteq Elem
ASSUME SizeAssumption == SizeMax \in Nat \ {0}

VARIABLES storage,       \* prq->storage, the slots 0 .. max_capacity - 1
          capacity,      \* prq->capacity, the number of slots in use
          max_capacity,  \* prq->max_capacity, the number of slots allocated
          loc,           \* loc[e]: the locator reloc() gave e last, which
                         \* the client keeps for the elements it may remove
          pc,            \* where the running call stands
          n,             \* the candidate size in the growth loop
          slot, value,   \* the hole and the element that looks for its slot
          call, result   \* the latest call and its answer

queue == <<storage, capacity, max_capacity>>
vars == <<storage, capacity, max_capacity, loc, pc, n, slot, value, call, result>>

cmp(a, b) == Key[a] - Key[b]
NoLoc == -1

TypeOK == /\ capacity \in 0..SizeMax
          /\ max_capacity \in 0..SizeMax
          /\ storage \in [0..max_capacity - 1 -> Elem \union {NoElem}]
          /\ loc \in [Unique -> -1..SizeMax]
          /\ pc \in {"idle", "grow", "raise", "lower"}
          /\ n \in 0..SizeMax
          /\ slot \in 0..SizeMax
          /\ value \in Elem \union {NoElem}
          /\ call \in [op : {"none", "enqueue", "dequeue", "peek", "pop", "remove"},
                       arg : Elem \union {NoElem}]
          /\ result \in Elem \union {NoElem}

Init == /\ storage = [i \in 0..-1 |-> NoElem]
        /\ capacity = 0
        /\ max_capacity = 0
        /\ loc = [e \in Unique |-> NoLoc]
        /\ pc = "idle"
        /\ n = 0
        /\ slot = 0
        /\ value = NoElem
        /\ call = [op |-> "none", arg |-> NoElem]
        /\ result = NoElem
------------------------------------------------------------------------------
Parent(i) == (i - 1) \div 2
Left(i) == 2 * i + 1
Right(i) == 2 * i + 2

InUse == 0..capacity - 1
Busy == pc # "idle"
Moving == pc \in {"raise", "lower"}

(* The slot whose content is out of date while a call runs, and the element  *)
(* that is on its way to a slot in use.  priorq_remove() of the last slot    *)
(* leaves the hole behind the slots in use: its value is no longer queued.   *)
Live == {i \in InUse : ~(Moving /\ i = slot)}
InFlight == \/ pc = "grow"
            \/ Moving /\ slot < capacity

Count(e) == Cardinality({i \in Live : storage[i] = e})
            + (IF InFlight /\ value = e THEN 1 ELSE 0)
Held == {storage[i] : i \in InUse}

assignSilently(i, e) == storage' = [storage EXCEPT ![i] = e] /\ UNCHANGED loc
assign(i, e) == /\ storage' = [storage EXCEPT ![i] = e]
                /\ loc' = IF e \in Unique THEN [loc EXCEPT ![e] = i] ELSE loc

Begin(op, arg) == pc = "idle" /\ call' = [op |-> op, arg |-> arg]

------------------------------------------------------------------------------
(* priorq_enqueue() *)
StartRaise(e) == /\ value' = e
                 /\ slot' = capacity
                 /\ capacity' = capacity + 1
                 /\ pc' = "raise"

FullTooLate == capacity > max_capacity
Full == capacity = max_capacity

Enqueue(e) ==
  /\ capacity < SizeMax
  /\ e \in Unique => e \notin Held
  /\ Begin("enqueue", e)
  /\ result' = NoElem
  /\ IF Full
     THEN /\ n' = 1
          /\ value' = e
          /\ pc' = "grow"
          /\ UNCHANGED <<capacity, slot>>
     ELSE StartRaise(e) /\ UNCHANGED n
  /\ UNCHANGED <<storage, max_capacity, loc>>

DoubledWrapping(m) == (2 * m) % (SizeMax + 1)
Doubled(m) == IF m > SizeMax \div 2 THEN SizeMax ELSE 2 * m

GrowStep ==
  /\ pc = "grow"
  /\ n < capacity + 1
  /\ n' = Doubled(n)
  /\ UNCHANGED <<queue, loc, pc, slot, value, call, result>>

GrowDone ==
  /\ pc = "grow"
  /\ n >= capacity + 1
  /\ max_capacity' = n
  /\ storage' = [i \in 0..n - 1 |->
                   IF i < max_capacity THEN storage[i] ELSE NoElem]
  /\ StartRaise(value)
  /\ n' = 0
  /\ UNCHANGED <<loc, call, result>>
------------------------------------------------------------------------------
(* The loops of raise() and lower(). *)
Finish == pc' = "idle" /\ slot' = 0 /\ value' = NoElem

RaisesOnEnqueue ==
  call.op = "enqueue" /\ slot > 0 /\ cmp(value, storage[Parent(slot)]) < 0
Raises == slot > 0 /\ cmp(value, storage[Parent(slot)]) < 0

RaiseStep ==
  /\ pc = "raise"
  /\ Raises
  /\ assign(slot, storage[Parent(slot)])
  /\ slot' = Parent(slot)
  /\ UNCHANGED <<capacity, max_capacity, pc, n, value, call, result>>

RaiseDone ==
  /\ pc = "raise"
  /\ ~Raises
  /\ IF call.op = "enqueue"
     THEN assign(slot, value) /\ Finish
     ELSE pc' = "lower" /\ UNCHANGED <<storage, loc, slot, value>>
  /\ UNCHANGED <<capacity, max_capacity, n, call, result>>

Branch == IF Right(slot) >= capacity
             \/ cmp(storage[Left(slot)], storage[Right(slot)]) < 0
          THEN Left(slot) ELSE Right(slot)
Lowers == Left(slot) < capacity /\ cmp(value, storage[Branch]) > 0

LowerStep ==
  /\ pc = "lower"
  /\ Lowers
  /\ assign(slot, storage[Branch])
  /\ slot' = Branch
  /\ UNCHANGED <<capacity, max_capacity, pc, n, value, call, result>>

LowerDone ==
  /\ pc = "lower"
  /\ ~Lowers
  /\ assign(slot, value)
  /\ Finish
  /\ UNCHANGED <<capacity, max_capacity, n, call, result>>
------------------------------------------------------------------------------
(* priorq_dequeue(), priorq_peek(), priorq_pop(), priorq_remove() *)
Shrink == capacity' = capacity - 1

Empty(op) == /\ capacity = 0
             /\ Begin(op, NoElem)
             /\ result' = NoElem
             /\ UNCHANGED <<queue, loc, pc, n, slot, value>>

Dequeue ==
  /\ capacity > 0
  /\ Begin("dequeue", NoElem)
  /\ result' = storage[0]
  /\ Shrink
  /\ IF capacity = 1
     THEN UNCHANGED <<pc, slot, value>>
     ELSE pc' = "lower" /\ slot' = 0 /\ value' = storage[capacity - 1]
  /\ UNCHANGED <<storage, max_capacity, loc, n>>

Peek == /\ capacity > 0
        /\ Begin("peek", NoElem)
        /\ result' = storage[0]
        /\ UNCHANGED <<queue, loc, pc, n, slot, value>>

Pop == /\ capacity > 0
       /\ Begin("pop", NoElem)
       /\ result' = storage[capacity - 1]
       /\ Shrink
       /\ UNCHANGED <<storage, max_capacity, loc, pc, n, slot, value>>

(* The client passes the locator of an element that is queued. *)
Remove(e) ==
  /\ e \in Unique \intersect Held
  /\ Begin("remove", e)
  /\ result' = storage[loc[e]]
  /\ Shrink
  /\ pc' = "raise"
  /\ slot' = loc[e]
  /\ value' = storage[capacity - 1]
  /\ UNCHANGED <<storage, max_capacity, loc, n>>

Continue == GrowStep \/ GrowDone \/ RaiseStep \/ RaiseDone \/ LowerStep \/ LowerDone

Next == \/ Continue
        \/ \E e \in Elem : Enqueue(e) \/ Remove(e)
        \/ Dequeue \/ Peek \/ Pop
        \/ \E op \in {"dequeue", "peek", "pop"} : Empty(op)

(* A call runs to its end: nothing in its loops blocks. *)
Spec == Init /\ [][Next]_vars /\ WF_vars(Continue)
------------------------------------------------------------------------------
Ordered(i, c) == Key[storage[i]] <= Key[storage[c]]
Children(i) == {Left(i), Right(i)} \intersect InUse

(* Whenever no call runs, no element ranks before the one above it: what     *)
(* raise() and lower() restore after every call.                             *)
HeapOrder == pc = "idle" => \A i \in InUse : \A c \in Children(i) : Ordered(i, c)

(* Every locator that reloc() handed out is current, even between two        *)
(* rounds of a loop, when callbacks of the client run: priorq_remove()       *)
(* returns the very element the client asks for.                             *)
LocatorsCurrent == \A i \in Live : storage[i] \in Unique => loc[storage[i]] = i

(* No slot outside the allocated storage is written, and no slot that was    *)
(* never written counts as an element: growth comes before the write.        *)
InBounds == /\ capacity <= max_capacity
            /\ Moving => slot < max_capacity
            /\ \A i \in Live : storage[i] \in Elem

(* The inductive invariant: while raise() and lower() move a hole through    *)
(* the heap, the heap around it is ordered, also across it (the elements     *)
(* above and below it), and the element on its way may not go above it once  *)
(* raise() is done nor, in an enqueue, below it.  Only priorq_remove() of    *)
(* the last slot has a hole outside the slots in use, and then raise() must  *)
(* not move it: it would come to lie on an element that is queued.           *)
Progress ==
  /\ pc = "grow" => /\ call.op = "enqueue"
                    /\ value \in Elem
                    /\ capacity = max_capacity
                    /\ capacity < SizeMax
                    /\ n > 0
  /\ Moving => /\ value \in Elem
               /\ slot <= capacity
               /\ call.op = "enqueue" => pc = "raise" /\ slot < capacity
               /\ pc = "raise" => call.op \in {"enqueue", "remove"}
               /\ pc = "lower" => call.op \in {"dequeue", "remove"}
NotDoubled == Busy /\ value \in Unique => \A i \in Live : storage[i] # value
Above(e) == slot > 0 => Key[storage[Parent(slot)]] <= Key[e]
OrderedOutsideHole ==
  \A i, c \in Live : c = Left(i) \/ c = Right(i) => Ordered(i, c)
OrderedAroundHole ==
  Moving => /\ \A c \in Children(slot) : Above(storage[c])
            /\ call.op = "enqueue" =>
                 \A c \in Children(slot) : Key[value] <= Key[storage[c]]
            /\ pc = "lower" \/ slot = capacity => Above(value)
HeapInv == /\ InBounds /\ Progress
           /\ LocatorsCurrent /\ NotDoubled
           /\ OrderedOutsideHole /\ OrderedAroundHole

(* Dequeue and peek answer an element that none in the queue ranks before,   *)
(* priorq_remove() the one whose locator it is given: the locators that the  *)
(* client keeps are never stale.                                             *)
Answers == [][/\ Dequeue \/ Peek => \A i \in InUse : Key[result'] <= Key[storage[i]]
              /\ \A e \in Elem : Remove(e) => result' = e]_vars

(* The queue implements a bag from which the foremost element is dequeued:   *)
(* no element is lost or doubled by a call.                                  *)
Abstract == INSTANCE PriorityBag WITH bag <- [e \in Elem |-> Count(e)]
ImplementsBag == Abstract!Spec

(* Every call ends: each round moves the hole one level. *)
CallsEnd == Busy ~> ~Busy
==============================================================================
