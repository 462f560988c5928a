------------------------- MODULE PriorityQueueProofs -------------------------
(* Proofs about PriorityQueue: the heap is in order after every call, its    *)
(* locators are current in every state, and dequeue answers a least element, *)
(* for every comparator, every set of elements and every SIZE_MAX.           *)
EXTENDS PriorityQueue, FiniteSetTheorems, WellFoundedInduction, TLAPS

USE KeyAssumption, ElemAssumption, SizeAssumption

(* The parent of a slot precedes it, and the slot is one of its children.    *)
LEMMA ParentFacts ==
  ASSUME NEW i \in Nat, i > 0
  PROVE  /\ Parent(i) \in 0..i - 1
         /\ i = Left(Parent(i)) \/ i = Right(Parent(i))
  BY DEF Parent, Left, Right

(* Children of different slots differ.                                       *)
LEMMA ChildFacts ==
  ASSUME NEW i \in Nat
  PROVE  /\ Left(i) \in Nat /\ Right(i) \in Nat
         /\ Left(i) > i /\ Right(i) > i
         /\ Parent(Left(i)) = i /\ Parent(Right(i)) = i
  BY DEF Parent, Left, Right

(* Doubling grows a candidate size and stays within SIZE_MAX.                *)
LEMMA DoubledFacts ==
  ASSUME NEW m \in 1..SizeMax
  PROVE  Doubled(m) \in 1..SizeMax
  BY DEF Doubled

Inv == TypeOK /\ HeapInv

(* The initial state is an empty heap.                                       *)
LEMMA InitInv == Init => Inv
  BY DEF Init, Inv, TypeOK, HeapInv, InBounds, Progress, LocatorsCurrent,
         NotDoubled, OrderedOutsideHole, OrderedAroundHole, Moving, Busy,
         Live, InUse, NoLoc, Children

(* Enqueueing without growth opens a hole at the end of the heap.            *)
LEMMA EnqueueInv ==
  ASSUME Inv, NEW e \in Elem, Enqueue(e)
  PROVE  Inv'
<1> USE DEF Inv, HeapInv
<1>1. TypeOK'
  BY DEF TypeOK, Enqueue, Begin, StartRaise, Full, InBounds
<1>2. InBounds' /\ Progress'
  BY DEF TypeOK, Enqueue, Begin, StartRaise, Full, InBounds, Progress,
         Moving, Live, InUse
<1>3. LocatorsCurrent' /\ NotDoubled'
  BY DEF TypeOK, Enqueue, Begin, StartRaise, Full, InBounds, LocatorsCurrent,
         NotDoubled, Busy, Moving, Live, InUse, Held
<1>4. OrderedOutsideHole'
  BY DEF TypeOK, Enqueue, Begin, StartRaise, Full, InBounds,
     OrderedOutsideHole, Ordered, Moving, Live, InUse
<1>5. OrderedAroundHole'
  <2>1. CASE Full
    BY <2>1 DEF TypeOK, Enqueue, Begin, OrderedAroundHole, Moving
  <2>2. CASE ~Full
    <3>1. /\ pc' = "raise" /\ slot' = capacity /\ capacity' = capacity + 1
          /\ capacity \in Nat
      BY <2>2 DEF TypeOK, Enqueue, StartRaise
    <3>2. (Children(slot))' = {}
      BY <3>1 DEF Children, InUse, Left, Right
    <3>3. ~(pc = "lower" \/ slot = capacity)'
      BY <3>1
    <3> QED BY <3>2, <3>3 DEF OrderedAroundHole
  <2> QED BY <2>1, <2>2
<1> QED BY <1>1, <1>2, <1>3, <1>4, <1>5

(* The growth loop changes nothing but its candidate size.                   *)
LEMMA GrowStepInv ==
  ASSUME Inv, GrowStep
  PROVE  Inv'
<1> USE DEF Inv, HeapInv
<1>1. TypeOK' /\ Progress'
  BY DoubledFacts, SMTT(30) DEF TypeOK, GrowStep, queue, Progress, Moving
<1>2. InBounds' /\ LocatorsCurrent' /\ NotDoubled'
  BY DEF TypeOK, GrowStep, queue, InBounds, LocatorsCurrent, NotDoubled,
         Live, InUse, Moving, Busy
<1>3. OrderedOutsideHole' /\ OrderedAroundHole'
  BY DEF TypeOK, GrowStep, queue, OrderedOutsideHole, OrderedAroundHole,
         Ordered, Live, InUse, Moving, Left, Right
<1> QED BY <1>1, <1>2, <1>3

(* After growth the old slots keep their elements and a hole opens behind.   *)
LEMMA GrowDoneInv ==
  ASSUME Inv, GrowDone
  PROVE  Inv'
<1> USE DEF Inv, HeapInv
<1>1. /\ capacity \in Nat /\ max_capacity \in Nat /\ n \in Nat
      /\ capacity = max_capacity /\ n >= capacity + 1 /\ n <= SizeMax
      /\ value \in Elem /\ value' = value /\ call' = call
      /\ call.op = "enqueue" /\ pc = "grow" /\ pc' = "raise"
      /\ slot' = capacity /\ capacity' = capacity + 1 /\ max_capacity' = n
      /\ UNCHANGED loc
  BY DEF TypeOK, GrowDone, StartRaise, Progress
<1>2. \A i \in 0..capacity - 1 : storage'[i] = storage[i]
  BY <1>1 DEF GrowDone
<1>3. Live = 0..capacity - 1 /\ Live' = 0..capacity - 1
  BY <1>1 DEF Live, InUse, Moving
<1>4. TypeOK'
  BY <1>1 DEF TypeOK, GrowDone, StartRaise
<1>5. InBounds' /\ Progress'
  BY <1>1, <1>2, <1>3 DEF InBounds, Progress, Moving
<1>6. LocatorsCurrent' /\ NotDoubled'
  BY <1>1, <1>2, <1>3 DEF LocatorsCurrent, NotDoubled, Busy
<1>7. OrderedOutsideHole'
  BY <1>1, <1>2, <1>3 DEF OrderedOutsideHole, Ordered, Left, Right
<1>8. OrderedAroundHole'
  <2>1. (Children(slot))' = {}
    BY <1>1 DEF Children, InUse, Left, Right
  <2>2. ~(pc = "lower" \/ slot = capacity)'
    BY <1>1
  <2> QED BY <2>1, <2>2 DEF OrderedAroundHole
<1> QED BY <1>4, <1>5, <1>6, <1>7, <1>8

(* In an idle queue every slot in use holds an element.                      *)
LEMMA IdleSlots ==
  ASSUME Inv, pc = "idle"
  PROVE  /\ Live = 0..capacity - 1
         /\ \A i \in 0..capacity - 1 :
              i \in 0..max_capacity - 1 /\ storage[i] \in Elem
  BY DEF Inv, HeapInv, TypeOK, InBounds, Live, InUse, Moving

(* Calls that answer without moving an element: the slots in use stay as     *)
(* they are, or lose the last one.                                           *)
LEMMA AnswerInv ==
  ASSUME Inv, pc = "idle",
         call' \in [op : {"none", "dequeue", "peek", "pop"}, arg : {NoElem}],
         result' \in Elem \union {NoElem},
         capacity' \in 0..capacity,
         UNCHANGED <<storage, max_capacity, loc, pc, n, slot, value>>
  PROVE  Inv'
<1> USE DEF Inv, HeapInv
<1>1. TypeOK' /\ Progress'
  BY DEF TypeOK, Progress, Moving
<1>2. /\ capacity' <= capacity /\ capacity' \in Int /\ capacity \in Int
      /\ Live = 0..capacity - 1 /\ Live' = 0..capacity' - 1
      /\ Live' \subseteq Live /\ max_capacity \in Int /\ ~Moving
  BY IdleSlots DEF TypeOK, Live, InUse, Moving
<1>3. InBounds'
  <2>1. (capacity <= max_capacity)' /\ ~Moving'
    BY <1>2 DEF InBounds, Moving
  <2>2. \A i \in Live' : storage'[i] \in Elem
    BY <1>2, IdleSlots
  <2> QED BY <2>1, <2>2 DEF InBounds
<1>4. LocatorsCurrent' /\ NotDoubled'
  BY <1>2 DEF LocatorsCurrent, NotDoubled, Busy
<1>5. OrderedOutsideHole'
  BY <1>2 DEF OrderedOutsideHole, Ordered, Left, Right
<1>6. OrderedAroundHole'
  BY DEF OrderedAroundHole, Moving
<1> QED BY <1>1, <1>3, <1>4, <1>5, <1>6

(* Peek, pop and the calls on an empty queue.                                *)
LEMMA ImmediateInv ==
  ASSUME Inv, Peek \/ Pop \/ \E op \in {"dequeue", "peek", "pop"} : Empty(op)
  PROVE  Inv'
<1> USE DEF Inv, TypeOK, Begin
<1>1. CASE Peek
  <2>1. pc = "idle" /\ result' \in Elem /\ capacity' \in 0..capacity
    BY <1>1, IdleSlots DEF Peek, queue
  <2> QED BY <1>1, <2>1, AnswerInv DEF Peek, queue
<1>2. CASE Pop
  <2>1. pc = "idle" /\ result' \in Elem /\ capacity' \in 0..capacity
    BY <1>2, IdleSlots DEF Pop, Shrink
  <2> QED BY <1>2, <2>1, AnswerInv DEF Pop
<1>3. ASSUME NEW op \in {"dequeue", "peek", "pop"}, Empty(op)
      PROVE  Inv'
  BY <1>3, AnswerInv DEF Empty, Begin, queue, Inv, TypeOK
<1> QED BY <1>1, <1>2, <1>3

(* Dequeue opens a hole at the root; the last element is on its way there.   *)
LEMMA DequeueInv ==
  ASSUME Inv, Dequeue
  PROVE  Inv'
<1> USE DEF Inv, HeapInv
<1>1. /\ pc = "idle" /\ capacity > 0 /\ capacity \in Nat /\ capacity <= SizeMax
      /\ call' = [op |-> "dequeue", arg |-> NoElem]
      /\ capacity' = capacity - 1
      /\ UNCHANGED <<storage, max_capacity, loc, n>>
      /\ result' = storage[0] /\ result' \in Elem
  BY IdleSlots DEF TypeOK, Dequeue, Begin, Shrink
<1>2. CASE capacity = 1
  BY <1>1, <1>2, AnswerInv DEF TypeOK, Dequeue
<1>3. CASE capacity > 1
  <2>1. /\ pc' = "lower" /\ slot' = 0
        /\ value' = storage[capacity - 1] /\ value' \in Elem
    BY <1>1, <1>3, IdleSlots DEF Dequeue
  <2>2. Live = 0..capacity - 1 /\ Live' = 1..capacity - 2
    BY <1>1, <2>1, IdleSlots DEF Live, InUse, Moving
  <2>3. TypeOK'
    BY <1>1, <2>1 DEF TypeOK
  <2>4. InBounds' /\ Progress'
    BY <1>1, <1>3, <2>1, <2>2 DEF TypeOK, InBounds, Progress, Moving
  <2>5. LocatorsCurrent' /\ NotDoubled'
    BY <1>1, <1>3, <2>1, <2>2 DEF LocatorsCurrent, NotDoubled, Busy
  <2>6. OrderedOutsideHole'
    BY <1>1, <2>2 DEF OrderedOutsideHole, Ordered, Left, Right
  <2>7. OrderedAroundHole'
    BY <1>1, <2>1 DEF OrderedAroundHole, Above
  <2> QED BY <2>3, <2>4, <2>5, <2>6, <2>7
<1> QED BY <1>1, <1>2, <1>3

(* Remove opens a hole where the locator points, which holds the element     *)
(* asked for; if that is the last slot the hole lies behind the heap.        *)
LEMMA RemoveInv ==
  ASSUME Inv, NEW e \in Elem, Remove(e)
  PROVE  Inv' /\ result' = e
<1> USE DEF Inv, HeapInv
<1>1. /\ pc = "idle" /\ capacity \in Nat /\ capacity <= SizeMax
      /\ call' = [op |-> "remove", arg |-> e]
      /\ capacity' = capacity - 1
      /\ slot' = loc[e] /\ pc' = "raise"
      /\ value' = storage[capacity - 1] /\ result' = storage[loc[e]]
      /\ UNCHANGED <<storage, max_capacity, loc, n>>
      /\ e \in Unique
  BY DEF TypeOK, Remove, Begin, Shrink
<1>2. /\ slot' \in 0..capacity - 1 /\ storage[slot'] = e /\ capacity > 0
      /\ value' \in Elem
  <2>1. PICK i \in 0..capacity - 1 : storage[i] = e
    BY DEF Remove, Held, InUse
  <2>2. loc[e] = i
    BY <1>1, <2>1, IdleSlots DEF LocatorsCurrent
  <2> QED BY <1>1, <2>1, <2>2, IdleSlots
<1>3. Live = 0..capacity - 1 /\ Live' = (0..capacity - 2) \ {slot'}
  BY <1>1, IdleSlots DEF Live, InUse, Moving
<1>4. TypeOK'
  BY <1>1, <1>2 DEF TypeOK
<1>5. InBounds' /\ Progress'
  BY <1>1, <1>2, <1>3 DEF TypeOK, InBounds, Progress, Moving
<1>6. LocatorsCurrent' /\ NotDoubled'
  <2>1. LocatorsCurrent'
    BY <1>1, <1>2, <1>3 DEF LocatorsCurrent
  <2>2. NotDoubled'
    BY <1>1, <1>2, <1>3 DEF LocatorsCurrent, NotDoubled, Busy
  <2> QED BY <2>1, <2>2
<1>7. OrderedOutsideHole'
  <2>1. Live' \subseteq Live
    BY <1>1, <1>2, <1>3
  <2> QED BY <1>1, <2>1 DEF OrderedOutsideHole, Ordered, Left, Right
<1>8. OrderedAroundHole'
  <2> DEFINE up == Parent(slot')
  <2>1. /\ slot' > 0 => up \in 0..slot' - 1 /\ (slot' = Left(up) \/ slot' = Right(up))
        /\ slot' \in Nat
    BY <1>1, <1>2, ParentFacts
  <2>2. \A i, c \in 0..capacity - 1 : c = Left(i) \/ c = Right(i) =>
          /\ storage[i] \in Elem /\ storage[c] \in Elem
          /\ Key[storage[i]] <= Key[storage[c]]
    BY <1>1, <1>3, IdleSlots DEF OrderedOutsideHole, Ordered
  <2>3. slot' > 0 => Key[storage[up]] <= Key[storage[slot']]
    BY <1>1, <1>2, <2>1, <2>2
  <2>4. ASSUME NEW c \in (Children(slot))'
        PROVE  (Above(storage[c]))'
    <3>1. c \in 0..capacity - 1 /\ (c = Left(slot') \/ c = Right(slot'))
      BY <1>1, <2>4 DEF Children, InUse, Left, Right
    <3>2. Key[storage[slot']] <= Key[storage[c]]
      BY <1>1, <1>2, <2>2, <3>1
    <3> QED BY <1>1, <1>2, <2>1, <2>2, <2>3, <3>1, <3>2 DEF Above
  <2>5. (slot = capacity)' => Above(value)'
    BY <1>1, <1>2, <2>3 DEF Above
  <2> QED BY <1>1, <2>4, <2>5 DEF OrderedAroundHole
<1> QED BY <1>1, <1>2, <1>4, <1>5, <1>6, <1>7, <1>8

(* What a moving hole leaves around it, in plain arithmetic.                 *)
LEMMA HoleFacts ==
  ASSUME Inv, Moving
  PROVE  /\ capacity \in Nat /\ slot \in 0..capacity
         /\ slot \in 0..max_capacity - 1 /\ value \in Elem /\ Key[value] \in Int
         /\ Live = (0..capacity - 1) \ {slot}
         /\ \A i \in Live : /\ i \in 0..max_capacity - 1
                            /\ storage[i] \in Elem /\ Key[storage[i]] \in Int
         /\ \A i, c \in Live : c = Left(i) \/ c = Right(i) =>
              Key[storage[i]] <= Key[storage[c]]
<1> USE DEF Inv, HeapInv
<1>1. /\ capacity \in Nat /\ slot \in 0..capacity
      /\ slot \in 0..max_capacity - 1 /\ value \in Elem /\ Key[value] \in Int
  BY DEF TypeOK, Progress, InBounds
<1>2. Live = (0..capacity - 1) \ {slot}
  BY DEF Live, InUse
<1>3. \A i \in Live : /\ i \in 0..max_capacity - 1
                      /\ storage[i] \in Elem /\ Key[storage[i]] \in Int
  BY <1>1, <1>2 DEF TypeOK, InBounds
<1>4. \A i, c \in Live : c = Left(i) \/ c = Right(i) =>
              Key[storage[i]] <= Key[storage[c]]
  BY DEF OrderedOutsideHole, Ordered
<1> QED BY <1>1, <1>2, <1>3, <1>4

(* One round of raise(): the hole trades places with the slot above it.      *)
LEMMA RaiseStepInv ==
  ASSUME Inv, RaiseStep
  PROVE  Inv'
<1> USE DEF Inv, HeapInv
<1> DEFINE p == Parent(slot)
<1>1. /\ Moving /\ pc = "raise" /\ pc' = "raise" /\ slot > 0 /\ slot' = p
      /\ UNCHANGED <<capacity, max_capacity, n, value, call, result>>
  BY DEF RaiseStep, Raises, Moving
<1>2. /\ capacity \in Nat /\ slot \in 1..capacity
      /\ p \in 0..slot - 1 /\ p \in Live
      /\ slot = Left(p) \/ slot = Right(p)
      /\ storage[p] \in Elem
      /\ p \in 0..max_capacity - 1 /\ slot \in 0..max_capacity - 1
  BY <1>1, HoleFacts, ParentFacts
<1>3. Key[value] < Key[storage[p]] /\ Key[value] \in Int /\ Key[storage[p]] \in Int
  BY <1>1, <1>2, HoleFacts DEF RaiseStep, Raises, cmp
<1>4. slot < capacity
  BY <1>1, <1>2, <1>3 DEF OrderedAroundHole, Above
<1>5. /\ storage' = [storage EXCEPT ![slot] = storage[p]]
      /\ loc' = IF storage[p] \in Unique
                THEN [loc EXCEPT ![storage[p]] = slot] ELSE loc
  BY DEF RaiseStep, assign
<1>6. /\ Live = (0..capacity - 1) \ {slot}
      /\ Live' = (0..capacity - 1) \ {p}
  BY <1>1, <1>2, HoleFacts DEF Live, InUse, Moving
<1>7. /\ storage'[slot] = storage[p]
      /\ \A i \in Live' : i # slot => i \in Live /\ storage'[i] = storage[i]
  BY <1>2, <1>4, <1>5, <1>6 DEF TypeOK
<1>8. TypeOK'
  BY <1>1, <1>2, <1>5 DEF TypeOK
<1>9. InBounds' /\ Progress'
  BY <1>1, <1>2, <1>4, <1>6, <1>7, HoleFacts DEF InBounds, Progress, Moving, TypeOK
<1>10. LocatorsCurrent'
  <2> SUFFICES ASSUME NEW i \in Live', storage'[i] \in Unique
               PROVE  loc'[storage'[i]] = i
    BY DEF LocatorsCurrent
  <2>1. CASE i = slot
    BY <1>5, <1>7, <2>1 DEF TypeOK
  <2>2. CASE i # slot
    <3>1. i \in Live /\ i # p /\ storage'[i] = storage[i] /\ loc[storage[i]] = i
      BY <1>6, <1>7, <2>2 DEF LocatorsCurrent
    <3>2. storage[i] # storage[p]
      BY <1>2, <3>1 DEF LocatorsCurrent
    <3> QED BY <1>5, <3>1, <3>2 DEF TypeOK
  <2> QED BY <2>1, <2>2
<1>11. NotDoubled'
  BY <1>1, <1>2, <1>7 DEF NotDoubled, Busy
<1>12. OrderedOutsideHole'
  <2> SUFFICES ASSUME NEW i \in Live', NEW c \in Live', c = Left(i) \/ c = Right(i)
               PROVE  Key[storage'[i]] <= Key[storage'[c]]
    BY DEF OrderedOutsideHole, Ordered
  <2>1. c # slot
    BY <1>2, <1>6 DEF Left, Right
  <2>2. CASE i = slot
    <3>1. c \in Children(slot)
      BY <1>6, <2>1, <2>2 DEF Children, InUse
    <3>2. Key[storage[p]] <= Key[storage[c]]
      BY <1>1, <3>1 DEF OrderedAroundHole, Above
    <3> QED BY <1>7, <2>1, <2>2, <3>2
  <2>3. CASE i # slot
    BY <1>7, <2>1, <2>3, HoleFacts, <1>1
  <2> QED BY <2>2, <2>3
<1>13. OrderedAroundHole'
  <2> DEFINE g == Parent(p)
  <2>1. p > 0 => g \in 0..p - 1 /\ (p = Left(g) \/ p = Right(g))
    BY <1>2, ParentFacts
  <2>2. p > 0 => /\ g \in Live /\ g \in Live' /\ g # slot /\ storage'[g] = storage[g]
                 /\ Key[storage[g]] <= Key[storage[p]] /\ Key[storage[g]] \in Int
    BY <1>1, <1>2, <1>6, <1>7, <2>1, HoleFacts
  <2>3. ASSUME NEW c \in (Children(slot))'
        PROVE  Key[storage[p]] <= Key[storage'[c]] /\ Key[storage'[c]] \in Int
    <3>1. c \in Live' /\ (c = Left(p) \/ c = Right(p))
      BY <1>1, <1>2, <1>6, <2>3 DEF Children, InUse, Left, Right
    <3>2. CASE c = slot
      BY <1>3, <1>7, <3>2
    <3>3. CASE c # slot
      BY <1>1, <1>2, <1>7, <3>1, <3>3, HoleFacts
    <3> QED BY <3>2, <3>3
  <2>4. \A c \in (Children(slot))' : (Above(storage[c]))'
    BY <1>1, <1>3, <2>2, <2>3 DEF Above
  <2>5. \A c \in (Children(slot))' : Key[value'] <= Key[storage'[c]]
    BY <1>1, <1>3, <2>3
  <2>6. ~(pc = "lower" \/ slot = capacity)'
    BY <1>1, <1>2
  <2> QED BY <2>4, <2>5, <2>6 DEF OrderedAroundHole
<1> QED BY <1>8, <1>9, <1>10, <1>11, <1>12, <1>13

(* Filling the hole, once its surroundings admit the element: the queue is   *)
(* idle and its heap is in order.                                            *)
LEMMA FillInv ==
  ASSUME Inv, Moving, assign(slot, value), Finish,
         UNCHANGED <<capacity, max_capacity, n, call, result>>,
         slot < capacity => Above(value),
         slot < capacity =>
           \A c \in Children(slot) : Key[value] <= Key[storage[c]]
  PROVE  Inv'
<1> USE DEF Inv, HeapInv
<1>1. /\ storage' = [storage EXCEPT ![slot] = value]
      /\ loc' = IF value \in Unique THEN [loc EXCEPT ![value] = slot] ELSE loc
      /\ pc' = "idle" /\ slot' = 0 /\ value' = NoElem /\ ~Moving' /\ ~Busy'
  BY DEF assign, Finish, Moving, Busy
<1>2. /\ Live = (0..capacity - 1) \ {slot}
      /\ Live' = 0..capacity - 1
  BY <1>1, HoleFacts DEF Live, InUse
<1>3. /\ capacity \in Nat /\ slot \in 0..capacity /\ slot \in 0..max_capacity - 1
      /\ storage'[slot] = value
      /\ \A i \in Live : storage'[i] = storage[i]
  BY <1>1, <1>2, HoleFacts DEF TypeOK
<1>4. TypeOK'
  BY <1>1, <1>3 DEF TypeOK
<1>5. InBounds' /\ Progress'
  BY <1>1, <1>2, <1>3, HoleFacts DEF InBounds, Progress
<1>6. LocatorsCurrent'
  <2> SUFFICES ASSUME NEW i \in Live', storage'[i] \in Unique
               PROVE  loc'[storage'[i]] = i
    BY DEF LocatorsCurrent
  <2>1. CASE i = slot
    BY <1>1, <1>3, <2>1 DEF TypeOK
  <2>2. CASE i # slot
    BY <1>1, <1>2, <1>3, <2>2 DEF LocatorsCurrent, NotDoubled, TypeOK, Moving, Busy
  <2> QED BY <2>1, <2>2
<1>7. NotDoubled' /\ OrderedAroundHole'
  BY <1>1 DEF NotDoubled, OrderedAroundHole
<1>8. OrderedOutsideHole'
  <2> SUFFICES ASSUME NEW i \in Live', NEW c \in Live', c = Left(i) \/ c = Right(i)
               PROVE  Key[storage'[i]] <= Key[storage'[c]]
    BY DEF OrderedOutsideHole, Ordered
  <2>1. CASE i = slot
    <3>1. c \in Children(slot) /\ c # slot /\ slot < capacity
      BY <1>2, <1>3, <2>1 DEF Children, InUse, Left, Right
    <3> QED BY <1>2, <1>3, <2>1, <3>1
  <2>2. CASE c = slot
    <3>1. i # slot /\ slot > 0 /\ slot < capacity /\ i = Parent(slot)
      BY <1>2, <1>3, <2>2 DEF Left, Right, Parent
    <3> QED BY <1>2, <1>3, <2>2, <3>1 DEF Above
  <2>3. CASE i # slot /\ c # slot
    BY <1>2, <1>3, <2>3, HoleFacts
  <2> QED BY <2>1, <2>2, <2>3
<1> QED BY <1>4, <1>5, <1>6, <1>7, <1>8

(* raise() is done: enqueue fills the hole, remove goes on with lower().     *)
LEMMA RaiseDoneInv ==
  ASSUME Inv, RaiseDone
  PROVE  Inv'
<1> USE DEF Inv, HeapInv
<1>1. /\ Moving /\ pc = "raise"
      /\ UNCHANGED <<capacity, max_capacity, n, call, result>>
      /\ slot \in Nat
  BY DEF RaiseDone, Moving, TypeOK
<1>2. Above(value)
  <2>1. CASE slot = 0
    BY <2>1 DEF Above
  <2>2. CASE slot > 0
    BY <1>1, <2>2, HoleFacts, ParentFacts DEF RaiseDone, Raises, Above, cmp
  <2> QED BY <1>1, <2>1, <2>2
<1>3. CASE call.op = "enqueue"
  <2>1. assign(slot, value) /\ Finish
    BY <1>3 DEF RaiseDone
  <2> QED BY <1>1, <1>2, <1>3, <2>1, FillInv DEF OrderedAroundHole
<1>4. CASE call.op # "enqueue"
  <2>1. pc' = "lower" /\ Moving' /\ Busy' /\ UNCHANGED <<storage, loc, slot, value>>
    BY <1>4 DEF RaiseDone, Moving, Busy
  <2>2. Live' = Live /\ (Children(slot))' = Children(slot)
    BY <1>1, <2>1 DEF Live, InUse, Children
  <2>3. TypeOK' /\ InBounds' /\ Progress'
    BY <1>1, <1>4, <2>1, <2>2 DEF TypeOK, InBounds, Progress
  <2>4. LocatorsCurrent' /\ NotDoubled' /\ OrderedOutsideHole'
    BY <1>1, <2>1, <2>2 DEF LocatorsCurrent, NotDoubled, OrderedOutsideHole,
       Ordered, Moving, Busy
  <2>5. OrderedAroundHole'
    BY <1>1, <1>2, <1>4, <2>1, <2>2 DEF OrderedAroundHole, Above
  <2> QED BY <2>3, <2>4, <2>5
<1> QED BY <1>3, <1>4

(* One round of lower(): the hole trades places with the lesser child.       *)
LEMMA LowerStepInv ==
  ASSUME Inv, LowerStep
  PROVE  Inv'
<1> USE DEF Inv, HeapInv
<1> DEFINE b == Branch
<1>1. /\ Moving /\ pc = "lower" /\ pc' = "lower" /\ Left(slot) < capacity
      /\ slot' = b
      /\ call.op # "enqueue"
      /\ UNCHANGED <<capacity, max_capacity, n, value, call, result>>
  BY DEF LowerStep, Lowers, Moving, Progress
<1>2. /\ capacity \in Nat /\ slot \in 0..capacity - 1
      /\ slot \in 0..max_capacity - 1
      /\ b \in slot + 1..capacity - 1 /\ b \in Live
      /\ b = Left(slot) \/ b = Right(slot)
      /\ b \in Children(slot)
  BY <1>1, HoleFacts DEF Branch, Left, Right, Children, InUse
<1>3. /\ storage[b] \in Elem /\ b \in 0..max_capacity - 1
      /\ Key[storage[b]] \in Int /\ Key[value] \in Int
      /\ Key[storage[b]] < Key[value]
      /\ \A c \in Children(slot) : /\ c \in Live
                                   /\ Key[storage[b]] <= Key[storage[c]]
  <2>1. Key[storage[b]] < Key[value]
    BY <1>1, <1>2, HoleFacts DEF LowerStep, Lowers, cmp
  <2>2. \A c \in Children(slot) : c \in Live /\ c \in Nat
                                  /\ (c = Left(slot) \/ c = Right(slot))
    BY <1>1, <1>2, HoleFacts DEF Children, InUse, Left, Right
  <2>3. \A c \in Children(slot) : Key[storage[b]] <= Key[storage[c]]
    BY <1>1, <1>2, <2>2, HoleFacts DEF Branch, cmp, Left, Right, Children, InUse
  <2> QED BY <1>1, <1>2, <2>1, <2>2, <2>3, HoleFacts
<1>4. /\ storage' = [storage EXCEPT ![slot] = storage[b]]
      /\ loc' = IF storage[b] \in Unique
                THEN [loc EXCEPT ![storage[b]] = slot] ELSE loc
  BY DEF LowerStep, assign
<1>5. /\ Live = (0..capacity - 1) \ {slot}
      /\ Live' = (0..capacity - 1) \ {b}
  BY <1>1, <1>2, HoleFacts DEF Live, InUse, Moving
<1>6. /\ storage'[slot] = storage[b]
      /\ \A i \in Live' : i # slot => i \in Live /\ storage'[i] = storage[i]
  BY <1>2, <1>4, <1>5 DEF TypeOK
<1>7. TypeOK'
  BY <1>1, <1>2, <1>3, <1>4 DEF TypeOK
<1>8. InBounds' /\ Progress'
  BY <1>1, <1>2, <1>3, <1>5, <1>6, HoleFacts DEF InBounds, Progress, Moving, TypeOK
<1>9. LocatorsCurrent'
  <2> SUFFICES ASSUME NEW i \in Live', storage'[i] \in Unique
               PROVE  loc'[storage'[i]] = i
    BY DEF LocatorsCurrent
  <2>1. CASE i = slot
    BY <1>4, <1>6, <2>1 DEF TypeOK
  <2>2. CASE i # slot
    <3>1. i \in Live /\ i # b /\ storage'[i] = storage[i] /\ loc[storage[i]] = i
      BY <1>5, <1>6, <2>2 DEF LocatorsCurrent
    <3>2. storage[i] # storage[b]
      BY <1>2, <3>1 DEF LocatorsCurrent
    <3> QED BY <1>4, <3>1, <3>2 DEF TypeOK
  <2> QED BY <2>1, <2>2
<1>10. NotDoubled'
  BY <1>1, <1>2, <1>6 DEF NotDoubled, Busy
<1>11. OrderedOutsideHole'
  <2> SUFFICES ASSUME NEW i \in Live', NEW c \in Live', c = Left(i) \/ c = Right(i)
               PROVE  Key[storage'[i]] <= Key[storage'[c]]
    BY DEF OrderedOutsideHole, Ordered
  <2>1. CASE i = slot
    <3>1. c # slot /\ c \in Children(slot)
      BY <1>2, <1>5, <2>1 DEF Children, InUse, Left, Right
    <3> QED BY <1>3, <1>6, <2>1, <3>1
  <2>2. CASE c = slot
    <3>1. i # slot /\ slot > 0 /\ i = Parent(slot)
      BY <1>2, <1>5, <2>2 DEF Left, Right, Parent
    <3> QED BY <1>1, <1>2, <1>6, <2>2, <3>1 DEF OrderedAroundHole, Above
  <2>3. CASE i # slot /\ c # slot
    BY <1>1, <1>6, <2>3, HoleFacts
  <2> QED BY <2>1, <2>2, <2>3
<1>12. OrderedAroundHole'
  <2>1. Parent(b) = slot
    BY <1>2 DEF Left, Right, Parent
  <2>2. ASSUME NEW c \in (Children(slot))'
        PROVE  Key[storage'[slot]] <= Key[storage'[c]]
    <3>1. c \in Live /\ c # slot /\ (c = Left(b) \/ c = Right(b)) /\ c \in Live'
      BY <1>1, <1>2, <1>5, <2>2 DEF Children, InUse, Left, Right
    <3> QED BY <1>1, <1>2, <1>6, <3>1, HoleFacts
  <2>3. (\A c \in Children(slot) : Above(storage[c]))' /\ Above(value)'
    BY <1>1, <1>3, <1>6, <2>1, <2>2 DEF Above
  <2> QED BY <1>1, <2>3 DEF OrderedAroundHole
<1> QED BY <1>7, <1>8, <1>9, <1>10, <1>11, <1>12

(* lower() is done: both children may stay below the element.                *)
LEMMA LowerDoneInv ==
  ASSUME Inv, LowerDone
  PROVE  Inv'
<1> USE DEF Inv, HeapInv
<1>1. /\ Moving /\ pc = "lower" /\ assign(slot, value) /\ Finish
      /\ UNCHANGED <<capacity, max_capacity, n, call, result>>
      /\ ~Lowers
  BY DEF LowerDone, Moving
<1>2. Above(value)
  BY <1>1 DEF OrderedAroundHole
<1>3. ASSUME NEW c \in Children(slot)
      PROVE  Key[value] <= Key[storage[c]]
  <2>1. /\ c \in Live /\ (c = Left(slot) \/ c = Right(slot)) /\ c < capacity
        /\ capacity \in Nat /\ slot \in Nat
    BY <1>1, HoleFacts DEF Children, InUse, Left, Right
  <2>2. Left(slot) < capacity /\ Left(slot) \in Live
    BY <1>1, <2>1, HoleFacts DEF Left, Right
  <2>3. Branch \in Live /\ Key[value] <= Key[storage[Branch]]
    <3>1. Branch \in Live
      BY <1>1, <2>1, <2>2, HoleFacts DEF Branch, Left, Right
    <3> QED BY <1>1, <2>2, <3>1, HoleFacts DEF Lowers, cmp
  <2>4. Key[storage[Branch]] <= Key[storage[c]]
    BY <1>1, <2>1, <2>2, <2>3, HoleFacts DEF Branch, cmp, Left, Right
  <2> QED BY <1>1, <2>1, <2>3, <2>4, HoleFacts
<1> QED BY <1>1, <1>2, <1>3, FillInv

(* Inv is inductive.                                                         *)
LEMMA StepInv == Inv /\ [Next]_vars => Inv'
<1> SUFFICES ASSUME Inv, [Next]_vars
             PROVE  Inv'
  OBVIOUS
<1>1. CASE Continue
  BY <1>1, GrowStepInv, GrowDoneInv, RaiseStepInv, RaiseDoneInv, LowerStepInv,
     LowerDoneInv DEF Continue
<1>2. ASSUME NEW e \in Elem, Enqueue(e) \/ Remove(e)
      PROVE  Inv'
  BY <1>2, EnqueueInv, RemoveInv
<1>3. CASE Dequeue
  BY <1>3, DequeueInv
<1>4. CASE Peek \/ Pop \/ \E op \in {"dequeue", "peek", "pop"} : Empty(op)
  BY <1>4, ImmediateInv
<1>5. CASE UNCHANGED vars
  BY <1>5 DEF vars, Inv, HeapInv, TypeOK, InBounds, Progress, LocatorsCurrent,
     NotDoubled, OrderedOutsideHole, OrderedAroundHole, Ordered, Above,
     Moving, Busy, Live, InUse, Children
<1> QED BY <1>1, <1>2, <1>3, <1>4, <1>5 DEF Next
------------------------------------------------------------------------------
(* The invariant in every state of every behaviour.                          *)
LEMMA InvHolds == Spec => []Inv
  BY InitInv, StepInv, PTL DEF Spec

(* The variables keep their types: no index leaves the storage and no        *)
(* pointer to nothing is answered as an element.                             *)
THEOREM TypeCorrect == Spec => []TypeOK
<1>1. Inv => TypeOK
  BY DEF Inv
<1> QED BY <1>1, InvHolds, PTL

(* The heap is in order whenever no call runs, locators are current and      *)
(* accesses are in bounds even while one does.                               *)
THEOREM HeapCorrect == Spec => []HeapInv
<1>1. Inv => HeapInv
  BY DEF Inv
<1> QED BY <1>1, InvHolds, PTL

(* An idle queue is a heap.                                                  *)
THEOREM IdleHeap == Spec => []HeapOrder
<1>1. Inv => HeapOrder
  BY IdleSlots DEF Inv, HeapInv, OrderedOutsideHole, HeapOrder, Children, InUse
<1> QED BY <1>1, InvHolds, PTL

(* What reloc() last told the client of an element is where the element is.  *)
THEOREM Locators == Spec => []LocatorsCurrent
<1>1. Inv => LocatorsCurrent
  BY DEF Inv, HeapInv
<1> QED BY <1>1, InvHolds, PTL

(* In an idle heap the root is least: of the slots that rank before it the   *)
(* first one would have a parent that does, too.                             *)
LEMMA RootLeast ==
  ASSUME Inv, pc = "idle"
  PROVE  \A i \in 0..capacity - 1 : Key[storage[0]] <= Key[storage[i]]
<1> DEFINE Before == {i \in 0..capacity - 1 : ~(Key[storage[0]] <= Key[storage[i]])}
<1>1. SUFFICES ASSUME Before # {} PROVE FALSE
  OBVIOUS
<1>2. capacity \in Nat /\ Before \subseteq Nat
  BY DEF Inv, TypeOK
<1>3. PICK x \in Before : \A y \in Before : ~(<<y, x>> \in OpToRel(<, Nat))
  <2> HIDE DEF Before
  <2> QED BY <1>1, <1>2, NatLessThanWellFounded, WFMin
<1>4. x \in Nat /\ x > 0 /\ x < capacity /\ Key[storage[0]] \in Int
  BY <1>2, IdleSlots
<1>5. /\ Parent(x) \in 0..x - 1
      /\ x = Left(Parent(x)) \/ x = Right(Parent(x))
  BY <1>4, ParentFacts
<1>6. Key[storage[Parent(x)]] <= Key[storage[x]]
  BY <1>2, <1>4, <1>5, IdleSlots
     DEF Inv, HeapInv, OrderedOutsideHole, Ordered
<1>7. Parent(x) \in Before
  BY <1>2, <1>4, <1>5, <1>6, IdleSlots
<1>8. <<Parent(x), x>> \in OpToRel(<, Nat)
  BY <1>4, <1>5 DEF OpToRel
<1> QED BY <1>3, <1>7, <1>8

(* Dequeue and peek answer a foremost element, and a removal by its locator  *)
(* the element that the client asked for.                                    *)
THEOREM AnswersCorrect == Spec => Answers
<1>1. Inv /\ [Next]_vars =>
        [Dequeue \/ Peek => \A i \in InUse : Key[result'] <= Key[storage[i]]]_vars
  BY RootLeast DEF Dequeue, Peek, Begin, InUse
<1>2. Inv /\ [Next]_vars => [\A e \in Elem : Remove(e) => result' = e]_vars
  BY RemoveInv
<1>3. Inv /\ [Next]_vars =>
        [/\ Dequeue \/ Peek => \A i \in InUse : Key[result'] <= Key[storage[i]]
         /\ \A e \in Elem : Remove(e) => result' = e]_vars
  BY <1>1, <1>2
<1> QED BY <1>3, InvHolds, PTL DEF Spec, Answers
------------------------------------------------------------------------------
(* The queue as a bag.  While a hole moves, its slot stands for the element  *)
(* on its way: each round of a loop then swaps two slots.                    *)
Contents == [i \in InUse |-> IF Moving /\ i = slot THEN value ELSE storage[i]]
Slots(e) == {i \in InUse : Contents[i] = e}
Growing(e) == IF pc = "grow" /\ value = e THEN 1 ELSE 0
CountsSlots == /\ InUse = 0..capacity - 1 /\ IsFiniteSet(InUse)
               /\ \A e \in Elem : /\ Count(e) = Cardinality(Slots(e)) + Growing(e)
                                  /\ Cardinality(Slots(e)) \in Nat

(* The members of D where f holds e.                                         *)
Where(D, f, e) == {i \in D : f[i] = e}
Is(a, b) == IF a = b THEN 1 ELSE 0
Agree(D, f, g) == \A i \in D : g[i] = f[i]
Swapped(D, f, g, p, q) ==
  \A i \in D : g[i] = IF i = p THEN f[q] ELSE IF i = q THEN f[p] ELSE f[i]

(* Swapping two slots changes no count, and one more slot counts one more.   *)
LEMMA SwapCount ==
  ASSUME NEW D, IsFiniteSet(D), NEW p \in D, NEW q \in D, NEW f, NEW g, NEW e,
         Swapped(D, f, g, p, q)
  PROVE  Cardinality(Where(D, g, e)) = Cardinality(Where(D, f, e))
<1> DEFINE A == {i \in D : f[i] = e}
           B == {i \in D : g[i] = e}
           R == {i \in D \ {p, q} : f[i] = e}
<1> SUFFICES Cardinality(B) = Cardinality(A)
  BY DEF Where
<1> USE DEF Swapped
<1>1. IsFiniteSet(R)
  BY FS_Subset
<1>2. CASE f[p] = e <=> f[q] = e
  <2>1. A = B
    BY <1>2
  <2> QED BY <2>1
<1>3. CASE f[p] = e /\ f[q] # e
  <2>1. A = R \union {p} /\ B = R \union {q} /\ p \notin R /\ q \notin R
    BY <1>3
  <2> HIDE DEF A, B, R
  <2>2. Cardinality(R \union {p}) = Cardinality(R) + 1
    BY <1>1, <2>1, FS_AddElement
  <2>3. Cardinality(R \union {q}) = Cardinality(R) + 1
    BY <1>1, <2>1, FS_AddElement
  <2> QED BY <2>1, <2>2, <2>3 DEF A, B
<1>4. CASE f[p] # e /\ f[q] = e
  <2>1. A = R \union {q} /\ B = R \union {p} /\ p \notin R /\ q \notin R
    BY <1>4
  <2> HIDE DEF A, B, R
  <2>2. Cardinality(R \union {p}) = Cardinality(R) + 1
    BY <1>1, <2>1, FS_AddElement
  <2>3. Cardinality(R \union {q}) = Cardinality(R) + 1
    BY <1>1, <2>1, FS_AddElement
  <2> QED BY <2>1, <2>2, <2>3 DEF A, B
<1> QED BY <1>2, <1>3, <1>4

LEMMA MoreCount ==
  ASSUME NEW D, IsFiniteSet(D), NEW c, c \notin D, NEW f, NEW g, NEW e,
         Agree(D, f, g)
  PROVE  Cardinality(Where(D \union {c}, g, e)) =
           Cardinality(Where(D, f, e)) + Is(g[c], e)
<1> DEFINE A == {i \in D : f[i] = e}
           B == {i \in D \union {c} : g[i] = e}
<1> SUFFICES Cardinality(B) = Cardinality(A) + (IF g[c] = e THEN 1 ELSE 0)
  BY DEF Where, Is
<1> USE DEF Agree
<1>1. IsFiniteSet(A) /\ c \notin A
  BY FS_Subset
<1>2. Cardinality(A) \in Nat
  BY <1>1, FS_CardinalityType
<1>3. CASE g[c] = e
  <2>1. B = A \union {c}
    BY <1>3
  <2> HIDE DEF A, B
  <2>2. Cardinality(A \union {c}) = Cardinality(A) + 1
    BY <1>1, FS_AddElement
  <2> QED BY <1>3, <2>1, <2>2 DEF A, B
<1>4. CASE g[c] # e
  <2>1. B = A
    BY <1>4
  <2> HIDE DEF A, B
  <2> QED BY <1>2, <1>4, <2>1 DEF A, B
<1> QED BY <1>3, <1>4

LEMMA CountFacts == Inv => CountsSlots
<1> SUFFICES ASSUME Inv, NEW e \in Elem
             PROVE  /\ InUse = 0..capacity - 1 /\ IsFiniteSet(InUse)
                    /\ Count(e) = Cardinality(Slots(e)) + Growing(e)
                    /\ Cardinality(Slots(e)) \in Nat
  <2>1. Inv => InUse = 0..capacity - 1 /\ IsFiniteSet(InUse)
    BY FS_Interval DEF Inv, TypeOK, InUse
  <2> QED BY <2>1 DEF CountsSlots
<1>1. InUse = 0..capacity - 1 /\ IsFiniteSet(InUse) /\ capacity \in Nat /\ slot \in Nat
  BY FS_Interval DEF Inv, TypeOK, InUse
<1>2. IsFiniteSet(Slots(e))
  BY <1>1, FS_Subset DEF Slots
<1>3. Cardinality(Slots(e)) \in Nat
  BY <1>2, FS_CardinalityType
<1> DEFINE A == {i \in Live : storage[i] = e}
<1>4. CASE Moving /\ slot < capacity
  <2>1. slot \in InUse /\ Live = InUse \ {slot} /\ InFlight /\ Growing(e) = 0
    BY <1>1, <1>4 DEF Live, InFlight, Moving, Growing
  <2>2. slot \notin A /\ IsFiniteSet(A)
    BY <1>1, <2>1, FS_Subset
  <2>3. Cardinality(A) \in Nat
    BY <2>2, FS_CardinalityType
  <2>4. /\ value = e => Slots(e) = A \union {slot}
        /\ value # e => Slots(e) = A
    BY <1>4, <2>1 DEF Slots, Contents
  <2>5. Count(e) = Cardinality(A) + (IF value = e THEN 1 ELSE 0)
    BY <2>1 DEF Count
  <2> HIDE DEF A
  <2>6. Cardinality(A \union {slot}) = Cardinality(A) + 1
    <3>1. PICK q : q = slot
      OBVIOUS
    <3>2. PICK S : S = A
      OBVIOUS
    <3>3. IsFiniteSet(S) /\ q \notin S
      BY <2>2, <3>1, <3>2
    <3>4. Cardinality(S \union {q}) = Cardinality(S) + 1
      BY <3>3, FS_AddElement
    <3> QED BY <3>1, <3>2, <3>4
  <2>7. CASE value = e
    <3>1. Cardinality(Slots(e)) = Cardinality(A) + 1
      BY <2>4, <2>6, <2>7
    <3>2. Count(e) = Cardinality(A) + 1
      BY <2>5, <2>7
    <3> QED BY <1>1, <1>3, <2>1, <2>3, <3>1, <3>2
  <2>8. CASE value # e
    <3>1. Cardinality(Slots(e)) = Cardinality(A)
      BY <2>4, <2>8
    <3>2. Count(e) = Cardinality(A)
      BY <2>3, <2>5, <2>8
    <3> QED BY <1>1, <1>3, <2>1, <2>3, <3>1, <3>2
  <2> QED BY <2>7, <2>8
<1>5. CASE ~(Moving /\ slot < capacity)
  <2>1. Live = InUse /\ (InFlight <=> pc = "grow")
    BY <1>1, <1>5 DEF Live, InFlight, Moving
  <2>2. Slots(e) = A
    BY <1>1, <1>5, <2>1 DEF Slots, Contents
  <2>3. Count(e) = Cardinality(A) + Growing(e)
    BY <2>1 DEF Count, Growing
  <2> HIDE DEF A
  <2> QED BY <1>1, <1>3, <2>2, <2>3
<1> QED BY <1>4, <1>5

LEMMA CountFactsNext == Inv' => CountsSlots'
  BY CountFacts, PTL

(* No round of a loop, nor the growth of the storage, changes the bag.       *)
LEMMA SwapKeeps ==
  ASSUME Inv, Inv', NEW p \in InUse, slot \in InUse, p # slot, Moving, Moving',
         capacity' = capacity, slot' = p, value' = value,
         storage' = [storage EXCEPT ![slot] = storage[p]], NEW e \in Elem
  PROVE  Count(e)' = Count(e)
<1>1. CountsSlots /\ CountsSlots'
  BY CountFacts, CountFactsNext
<1>2. Growing(e) = 0 /\ Growing(e)' = 0 /\ InUse' = InUse
  BY DEF Growing, Moving, InUse
<1>3. \A i \in InUse : i \in DOMAIN storage
  BY DEF InUse, Inv, TypeOK, HeapInv, InBounds
<1>4. PICK f, g : f = Contents /\ g = Contents'
  OBVIOUS
<1>5. \A i \in InUse : f[i] = IF i = slot THEN value ELSE storage[i]
  BY <1>4 DEF Contents
<1>6. \A i \in InUse : g[i] = IF i = p THEN value ELSE storage'[i]
  BY <1>2, <1>4 DEF Contents
<1>7. \A i \in InUse : g[i] = IF i = p THEN f[slot] ELSE IF i = slot THEN f[p] ELSE f[i]
  BY <1>3, <1>5, <1>6
<1>8. PICK q \in InUse : q = slot
  OBVIOUS
<1>9. PICK D : D = InUse
  OBVIOUS
<1>10. Cardinality(Where(D, g, e)) = Cardinality(Where(D, f, e))
  <2>1. IsFiniteSet(D) /\ p \in D /\ q \in D
    BY <1>1, <1>8, <1>9 DEF CountsSlots
  <2>2. Swapped(D, f, g, p, q)
    BY <1>7, <1>8, <1>9 DEF Swapped
  <2> QED BY <2>1, <2>2, SwapCount
<1>11. Slots(e)' = Where(D, g, e) /\ Slots(e) = Where(D, f, e)
  BY <1>2, <1>4, <1>9 DEF Slots, Where
<1> QED BY <1>1, <1>2, <1>10, <1>11 DEF CountsSlots

LEMMA FillKeeps ==
  ASSUME Inv, Inv', Moving, pc' = "idle", capacity' = capacity, assign(slot, value),
         NEW e \in Elem
  PROVE  Count(e)' = Count(e)
<1>1. CountsSlots /\ CountsSlots'
  BY CountFacts, CountFactsNext
<1>2. Growing(e) = 0 /\ Growing(e)' = 0 /\ InUse' = InUse
  BY DEF Growing, Moving, InUse
<1>3. \A i \in InUse : i \in DOMAIN storage
  BY DEF InUse, Inv, TypeOK, HeapInv, InBounds
<1>4. Contents' = Contents
  BY <1>2, <1>3 DEF Contents, Moving, assign
<1>5. Slots(e)' = Slots(e)
  BY <1>2, <1>4 DEF Slots
<1> QED BY <1>1, <1>2, <1>5 DEF CountsSlots

(* Taking up the element x at the end of the slots in use.                   *)
LEMMA RaisedCount ==
  ASSUME Inv, Inv', ~Moving, NEW x \in Elem, value' = x, slot' = capacity,
         capacity' = capacity + 1, pc' = "raise",
         \A i \in InUse : storage'[i] = storage[i], NEW e \in Elem
  PROVE  Count(e)' = Count(e) - Growing(e) + (IF e = x THEN 1 ELSE 0)
<1>1. CountsSlots /\ CountsSlots'
  BY CountFacts, CountFactsNext
<1>2. capacity \in Nat /\ Growing(e)' = 0 /\ Growing(e) \in Nat
  BY DEF Growing, Inv, TypeOK
<1>3. PICK c : c = capacity
  OBVIOUS
<1>4. InUse' = InUse \union {c} /\ c \notin InUse
  BY <1>2, <1>3 DEF InUse
<1>5. PICK f, g : f = Contents /\ g = Contents'
  OBVIOUS
<1>6. \A i \in InUse : g[i] = f[i]
  BY <1>3, <1>4, <1>5 DEF Contents, Moving
<1>7. g[c] = x
  BY <1>3, <1>4, <1>5 DEF Contents, Moving
<1>8. PICK D : D = InUse
  OBVIOUS
<1>9. Cardinality(Where(D \union {c}, g, e)) =
        Cardinality(Where(D, f, e)) + Is(g[c], e)
  <2>1. IsFiniteSet(D) /\ c \notin D /\ Agree(D, f, g)
    BY <1>1, <1>4, <1>6, <1>8 DEF CountsSlots, Agree
  <2> QED BY <2>1, MoreCount
<1>10. Slots(e)' = Where(D \union {c}, g, e) /\ Slots(e) = Where(D, f, e)
  <2>1. Slots(e)' = {i \in InUse' : Contents'[i] = e}
    BY DEF Slots
  <2>2. InUse' = D \union {c}
    BY <1>4, <1>8
  <2> QED BY <1>5, <1>8, <2>1, <2>2 DEF Slots, Where
<1> QED BY <1>1, <1>2, <1>7, <1>9, <1>10 DEF CountsSlots, Is

LEMMA ContinueKeeps ==
  ASSUME Inv, Inv', Continue, NEW e \in Elem
  PROVE  Count(e)' = Count(e)
<1>1. CASE GrowStep
  BY <1>1 DEF GrowStep, queue, Count, Live, InUse, InFlight, Moving
<1>2. CASE GrowDone
  <2>1. /\ ~Moving /\ value \in Elem /\ value' = value /\ slot' = capacity
        /\ capacity' = capacity + 1 /\ pc' = "raise" /\ pc = "grow"
        /\ n >= capacity + 1 /\ capacity = max_capacity
        /\ storage' = [i \in 0..n - 1 |-> IF i < max_capacity THEN storage[i] ELSE NoElem]
    BY <1>2 DEF GrowDone, StartRaise, Moving, Inv, HeapInv, Progress
  <2>2. n \in Nat /\ capacity \in Nat
    BY DEF Inv, TypeOK
  <2>3. \A i \in InUse : storage'[i] = storage[i]
    BY <2>1, <2>2 DEF InUse
  <2>4. PICK x \in Elem : x = value
    BY <2>1
  <2>5. Count(e)' = Count(e) - Growing(e) + (IF e = x THEN 1 ELSE 0)
    BY <2>1, <2>3, <2>4, RaisedCount
  <2>6. Growing(e) = IF e = x THEN 1 ELSE 0
    BY <2>1, <2>4 DEF Growing
  <2>7. Count(e) \in Int
    BY <2>6, CountFacts DEF CountsSlots
  <2> QED BY <2>5, <2>6, <2>7
<1>3. CASE RaiseStep
  <2>1. PICK p : p = Parent(slot)
    OBVIOUS
  <2>2. /\ Moving /\ Moving' /\ slot > 0 /\ slot \in Nat /\ slot' = p
        /\ capacity' = capacity /\ value' = value
        /\ storage' = [storage EXCEPT ![slot] = storage[p]]
    BY <1>3, <2>1 DEF RaiseStep, Raises, assign, Moving, Inv, TypeOK
  <2>3. p \in 0..slot - 1 /\ slot \in 0..capacity /\ capacity \in Nat
    BY <2>1, <2>2, ParentFacts, HoleFacts
  <2>4. slot # capacity
    <3>1. Key[value] < Key[storage[p]] /\ Key[value] \in Int /\ Key[storage[p]] \in Int
      BY <1>3, <2>1, <2>2, <2>3, HoleFacts DEF RaiseStep, Raises, cmp
    <3>2. slot = capacity => Key[storage[p]] <= Key[value]
      BY <2>1, <2>2 DEF Inv, HeapInv, OrderedAroundHole, Above
    <3> QED BY <3>1, <3>2
  <2>5. p \in InUse /\ slot \in InUse /\ p # slot
    BY <2>2, <2>3, <2>4 DEF InUse
  <2> QED BY <2>2, <2>5, SwapKeeps
<1>4. CASE RaiseDone
  <2>1. Moving /\ capacity' = capacity
    BY <1>4 DEF RaiseDone, Moving
  <2>2. CASE call.op = "enqueue"
    BY <1>4, <2>1, <2>2, FillKeeps DEF RaiseDone, Finish
  <2>3. CASE call.op # "enqueue"
    BY <1>4, <2>3 DEF RaiseDone, Count, Live, InUse, InFlight, Moving
  <2> QED BY <2>2, <2>3
<1>5. CASE LowerStep
  <2>1. PICK b : b = Branch
    OBVIOUS
  <2>2. /\ Moving /\ Moving' /\ Left(slot) < capacity /\ slot' = b
        /\ capacity' = capacity /\ value' = value
        /\ storage' = [storage EXCEPT ![slot] = storage[b]]
    BY <1>5, <2>1 DEF LowerStep, Lowers, assign, Moving
  <2>3. slot \in Nat /\ capacity \in Nat
    BY <2>2, HoleFacts
  <2>4. b \in InUse /\ slot \in InUse /\ b # slot
    BY <2>1, <2>2, <2>3 DEF InUse, Branch, Left, Right
  <2> QED BY <2>2, <2>4, SwapKeeps
<1>6. CASE LowerDone
  BY <1>6, FillKeeps DEF LowerDone, Finish, Moving
<1> QED BY <1>1, <1>2, <1>3, <1>4, <1>5, <1>6 DEF Continue

(* Taking the element in slot s out of an idle queue: the last element, if   *)
(* it is another one, moves to that slot.                                    *)
LEMMA TakenCount ==
  ASSUME Inv, Inv', pc = "idle", NEW s \in InUse,
         capacity' = capacity - 1, storage' = storage,
         \/ pc' = "idle" /\ s = capacity - 1
         \/ pc' \in {"raise", "lower"} /\ slot' = s /\ value' = storage[capacity - 1],
         NEW e \in Elem
  PROVE  Count(e)' = Count(e) - Is(storage[s], e)
<1>1. CountsSlots /\ CountsSlots'
  BY CountFacts, CountFactsNext
<1>2. capacity \in Nat /\ Growing(e)' = 0 /\ Growing(e) = 0
  BY DEF Growing, Inv, TypeOK
<1>3. PICK c, D, E : c = capacity - 1 /\ D = InUse' /\ E = InUse
  OBVIOUS
<1>4. E = D \union {c} /\ c \notin D /\ c \in E /\ s \in E
  BY <1>2, <1>3 DEF InUse
<1>5. PICK f, g : f = Contents /\ g = Contents'
  OBVIOUS
<1> DEFINE h == [i \in E |-> IF i = s THEN f[c] ELSE IF i = c THEN f[s] ELSE f[i]]
<1>6. \A i \in E : f[i] = storage[i]
  BY <1>3, <1>5 DEF Contents, Moving
<1>7. \A i \in D : g[i] = IF i = s THEN f[c] ELSE f[i]
  <2>1. \A i \in D : i # c /\ i \in E
    BY <1>4
  <2>2. \A i \in D : g[i] = IF Moving' /\ i = slot' THEN value' ELSE storage[i]
    BY <1>3, <1>5 DEF Contents
  <2>3. CASE pc' = "idle" /\ s = capacity - 1
    BY <1>3, <1>6, <2>1, <2>2, <2>3 DEF Moving
  <2>4. CASE pc' \in {"raise", "lower"} /\ slot' = s /\ value' = storage[capacity - 1]
    BY <1>3, <1>4, <1>6, <2>1, <2>2, <2>4 DEF Moving
  <2> QED BY <2>3, <2>4
<1>8. Agree(D, g, h) /\ h[c] = f[s] /\ Swapped(E, f, h, s, c)
  BY <1>4, <1>7 DEF Agree, Swapped
<1> HIDE DEF h
<1>9. IsFiniteSet(D) /\ IsFiniteSet(E)
  BY <1>1, <1>3 DEF CountsSlots
<1>10. Cardinality(Where(D \union {c}, h, e)) = Cardinality(Where(D, g, e)) + Is(h[c], e)
  BY <1>4, <1>8, <1>9, MoreCount
<1>11. Cardinality(Where(E, h, e)) = Cardinality(Where(E, f, e))
  BY <1>4, <1>8, <1>9, SwapCount
<1>12. Slots(e)' = Where(D, g, e) /\ Slots(e) = Where(E, f, e)
  <2>1. Slots(e)' = {i \in InUse' : Contents'[i] = e}
    BY DEF Slots
  <2> QED BY <1>3, <1>5, <2>1 DEF Slots, Where
<1>13. Is(h[c], e) = Is(storage[s], e) /\ Is(storage[s], e) \in 0..1
  BY <1>4, <1>6, <1>8 DEF Is
<1>14. Count(e)' = Cardinality(Slots(e))' /\ Count(e) = Cardinality(Slots(e))
  BY <1>1, <1>2 DEF CountsSlots
<1>15. Cardinality(Slots(e))' \in Nat /\ Cardinality(Slots(e)) \in Nat
  BY <1>1 DEF CountsSlots
<1> QED BY <1>4, <1>10, <1>11, <1>12, <1>13, <1>14, <1>15

(* An idle queue counts the slots that hold an element.                      *)
LEMMA IdleCount ==
  ASSUME Inv, pc = "idle", NEW e \in Elem
  PROVE  /\ Count(e) \in Nat
         /\ Count(e) > 0 <=> \E i \in InUse : storage[i] = e
<1>1. CountsSlots /\ Growing(e) = 0
  BY CountFacts DEF Growing
<1>2. Count(e) = Cardinality(Slots(e)) /\ Cardinality(Slots(e)) \in Nat
  BY <1>1 DEF CountsSlots
<1>3. Slots(e) = {i \in InUse : storage[i] = e}
  BY DEF Slots, Contents, Moving
<1>4. IsFiniteSet(Slots(e))
  BY <1>1, <1>3, FS_Subset DEF CountsSlots
<1>5. Cardinality(Slots(e)) = 0 <=> Slots(e) = {}
  BY <1>4, FS_EmptySet
<1>6. Slots(e) = {} <=> ~\E i \in InUse : storage[i] = e
  BY <1>3
<1> QED BY <1>2, <1>5, <1>6

(* The bag of the abstract specification.                                    *)
Bag == [e \in Elem |-> Count(e)]

LEMMA BagKept ==
  ASSUME \A e \in Elem : Count(e)' = Count(e)
  PROVE  Bag' = Bag
  BY DEF Bag

LEMMA BagGiven ==
  ASSUME NEW x \in Elem, \A e \in Elem : Count(e)' = Count(e) + Is(x, e),
         \A e \in Elem : Count(e) \in Int
  PROVE  Bag' = [Bag EXCEPT ![x] = @ + 1]
<1>1. Bag' = [e \in Elem |-> Count(e)']
  BY DEF Bag
<1>2. \A e \in Elem : Count(e)' = IF e = x THEN Count(e) + 1 ELSE Count(e)
  BY DEF Is
<1> QED BY <1>1, <1>2 DEF Bag

LEMMA BagTaken ==
  ASSUME NEW x \in Elem, \A e \in Elem : Count(e)' = Count(e) - Is(x, e),
         \A e \in Elem : Count(e) \in Int
  PROVE  Bag' = [Bag EXCEPT ![x] = @ - 1]
<1>1. Bag' = [e \in Elem |-> Count(e)']
  BY DEF Bag
<1>2. \A e \in Elem : Count(e)' = IF e = x THEN Count(e) - 1 ELSE Count(e)
  BY DEF Is
<1> QED BY <1>1, <1>2 DEF Bag

(* What is queued between two calls, and that the root is foremost.          *)
LEMMA IdleBag ==
  ASSUME Inv, pc = "idle"
  PROVE  /\ Abstract!Queued = {storage[i] : i \in InUse}
         /\ \A i \in InUse : storage[i] \in Elem
         /\ 0 \in InUse => Abstract!Foremost(storage[0])
<1>1. \A i \in InUse : storage[i] \in Elem
  BY IdleSlots DEF InUse
<1>2. \A e \in Elem : Count(e) > 0 <=> \E i \in InUse : storage[i] = e
  BY IdleCount
<1>3. Abstract!Queued = {e \in Elem : Count(e) > 0}
  BY DEF Abstract!Queued
<1>4. Abstract!Queued = {storage[i] : i \in InUse}
  BY <1>1, <1>2, <1>3
<1>5. ASSUME 0 \in InUse PROVE Abstract!Foremost(storage[0])
  <2>1. \A i \in InUse : Key[storage[0]] <= Key[storage[i]]
    BY RootLeast DEF InUse
  <2>2. storage[0] \in Abstract!Queued
    BY <1>4, <1>5
  <2> QED BY <1>4, <2>1, <2>2 DEF Abstract!Foremost
<1> QED BY <1>1, <1>4, <1>5

LEMMA IdleInts ==
  ASSUME Inv, pc = "idle"
  PROVE  \A e \in Elem : Count(e) \in Int
  BY IdleCount

(* Enqueueing gives the element to the bag at once, whether the storage has  *)
(* to grow first or not.                                                     *)
LEMMA EnqueueBag ==
  ASSUME Inv, Inv', NEW x \in Elem, Enqueue(x)
  PROVE  Abstract!Enqueue(x)
<1>1. /\ pc = "idle" /\ ~Moving /\ call' = [op |-> "enqueue", arg |-> x]
      /\ result' = NoElem /\ storage' = storage
  BY DEF Enqueue, Begin, Moving
<1>2. ASSUME NEW e \in Elem PROVE Count(e)' = Count(e) + Is(x, e)
  <2>1. CountsSlots /\ CountsSlots' /\ Growing(e) = 0
    BY <1>1, CountFacts, CountFactsNext DEF Growing
  <2>2. CASE ~Full
    <3>1. value' = x /\ slot' = capacity /\ capacity' = capacity + 1 /\ pc' = "raise"
      BY <2>2 DEF Enqueue, StartRaise
    <3>2. Count(e)' = Count(e) - Growing(e) + (IF e = x THEN 1 ELSE 0)
      BY <1>1, <3>1, RaisedCount
    <3>3. Count(e) \in Int
      BY <1>1, IdleInts
    <3> QED BY <2>1, <3>2, <3>3 DEF Is
  <2>3. CASE Full
    <3>1. value' = x /\ capacity' = capacity /\ pc' = "grow" /\ storage' = storage
      BY <2>3 DEF Enqueue
    <3>2. Growing(e)' = Is(x, e) /\ InUse' = InUse
      BY <3>1 DEF Growing, Is, InUse
    <3>3. Contents' = Contents
      BY <1>1, <3>1, <3>2 DEF Contents, Moving
    <3>4. Slots(e)' = Slots(e)
      BY <3>2, <3>3 DEF Slots
    <3>5. /\ Count(e)' = Cardinality(Slots(e))' + Growing(e)'
          /\ Count(e) = Cardinality(Slots(e)) + Growing(e)
          /\ Cardinality(Slots(e)) \in Nat
      BY <2>1 DEF CountsSlots
    <3>6. Is(x, e) \in 0..1
      BY DEF Is
    <3> QED BY <2>1, <3>2, <3>4, <3>5, <3>6
  <2> QED BY <2>2, <2>3
<1>3. Bag' = [Bag EXCEPT ![x] = @ + 1]
  BY <1>1, <1>2, IdleInts, BagGiven
<1> QED BY <1>1, <1>3 DEF Abstract!Enqueue, Abstract!Call, Bag

(* Dequeueing takes the root, pop the last element and remove the element    *)
(* asked for.                                                                *)
LEMMA TakeBag ==
  ASSUME Inv, Inv', pc = "idle", NEW s \in InUse,
         capacity' = capacity - 1, storage' = storage, result' = storage[s],
         \/ pc' = "idle" /\ s = capacity - 1
         \/ pc' \in {"raise", "lower"} /\ slot' = s /\ value' = storage[capacity - 1]
  PROVE  Abstract!Take(storage[s]) /\ storage[s] \in Elem
<1>1. PICK x : x = storage[s]
  OBVIOUS
<1>2. x \in Elem
  BY <1>1, IdleBag
<1>3. \A e \in Elem : Count(e)' = Count(e) - Is(x, e)
  BY <1>1, TakenCount
<1>4. Bag' = [Bag EXCEPT ![x] = @ - 1]
  BY <1>2, <1>3, IdleInts, BagTaken
<1> QED BY <1>1, <1>2, <1>4 DEF Abstract!Take, Bag

LEMMA DequeueBag ==
  ASSUME Inv, Inv', Dequeue
  PROVE  Abstract!Dequeue
<1>1. /\ pc = "idle" /\ capacity > 0 /\ capacity \in Nat
      /\ call' = [op |-> "dequeue", arg |-> NoElem]
      /\ capacity' = capacity - 1 /\ storage' = storage /\ result' = storage[0]
  BY DEF Dequeue, Begin, Shrink, Inv, TypeOK
<1>2. 0 \in InUse
  BY <1>1 DEF InUse
<1>3. \/ pc' = "idle" /\ 0 = capacity - 1
      \/ pc' \in {"raise", "lower"} /\ slot' = 0 /\ value' = storage[capacity - 1]
  BY <1>1 DEF Dequeue
<1>4. Abstract!Take(storage[0]) /\ storage[0] \in Elem
  BY <1>1, <1>2, <1>3, TakeBag
<1>5. Abstract!Foremost(storage[0])
  BY <1>1, <1>2, IdleBag
<1> QED BY <1>1, <1>4, <1>5 DEF Abstract!Dequeue, Abstract!Call

LEMMA PopBag ==
  ASSUME Inv, Inv', Pop
  PROVE  Abstract!Pop
<1>1. /\ pc = "idle" /\ capacity > 0 /\ capacity \in Nat /\ pc' = "idle"
      /\ call' = [op |-> "pop", arg |-> NoElem]
      /\ capacity' = capacity - 1 /\ storage' = storage
      /\ result' = storage[capacity - 1]
  BY DEF Pop, Begin, Shrink, Inv, TypeOK
<1>2. PICK s : s = capacity - 1
  OBVIOUS
<1>3. s \in InUse
  BY <1>1, <1>2 DEF InUse
<1>4. Abstract!Take(storage[s]) /\ storage[s] \in Elem
  BY <1>1, <1>2, <1>3, TakeBag
<1>5. storage[s] \in Abstract!Queued
  BY <1>1, <1>3, IdleBag
<1> QED BY <1>1, <1>4, <1>5 DEF Abstract!Pop, Abstract!Call

LEMMA RemoveBag ==
  ASSUME Inv, Inv', NEW e \in Elem, Remove(e)
  PROVE  Abstract!Remove(e)
<1>1. /\ pc = "idle" /\ e \in Held /\ e \in Unique
      /\ call' = [op |-> "remove", arg |-> e]
      /\ capacity' = capacity - 1 /\ storage' = storage
      /\ pc' = "raise" /\ slot' = loc[e] /\ value' = storage[capacity - 1]
  BY DEF Remove, Begin, Shrink
<1>2. PICK s \in InUse : storage[s] = e
  BY <1>1 DEF Held
<1>3. loc[e] = s
  BY <1>1, <1>2 DEF Inv, HeapInv, LocatorsCurrent, Live, Moving
<1>4. result' = storage[s]
  BY <1>2, RemoveInv
<1>5. Abstract!Take(storage[s]) /\ storage[s] \in Elem
  BY <1>1, <1>3, <1>4, TakeBag
<1>6. storage[s] \in Abstract!Queued
  BY <1>1, IdleBag
<1> QED BY <1>1, <1>2, <1>5, <1>6 DEF Abstract!Remove, Abstract!Call

(* Peek and the calls on an empty queue leave the bag alone.                 *)
LEMMA LookBag ==
  ASSUME Inv, Inv', Peek \/ \E op \in {"dequeue", "peek", "pop"} : Empty(op)
  PROVE  Abstract!Peek \/ Abstract!Empty
<1>1. pc = "idle" /\ UNCHANGED <<storage, capacity, pc, slot, value>>
  BY DEF Peek, Empty, Begin, queue
<1>2. \A e \in Elem : Count(e)' = Count(e)
  BY <1>1 DEF Count, Live, InUse, InFlight, Moving
<1>3. Bag' = Bag
  BY <1>2, BagKept
<1>4. CASE Peek
  <2>1. 0 \in InUse /\ result' = storage[0] /\ call' = [op |-> "peek", arg |-> NoElem]
    BY <1>4 DEF Peek, Begin, InUse, Inv, TypeOK
  <2>2. Abstract!Foremost(storage[0]) /\ storage[0] \in Elem
    BY <1>1, <2>1, IdleBag
  <2> QED BY <1>3, <2>1, <2>2 DEF Abstract!Peek, Abstract!Call, Bag
<1>5. ASSUME NEW op \in {"dequeue", "peek", "pop"}, Empty(op)
      PROVE  Abstract!Empty
  <2>1. InUse = {} /\ result' = NoElem /\ call' = [op |-> op, arg |-> NoElem]
    BY <1>5 DEF Empty, Begin, InUse
  <2>2. Abstract!Queued = {}
    BY <1>1, <2>1, IdleBag
  <2> QED BY <1>3, <2>1, <2>2 DEF Abstract!Empty, Abstract!Call, Bag
<1> QED BY <1>4, <1>5

(* Every step of the heap is a step of the bag or leaves it as it is.        *)
LEMMA StepBag == Inv /\ Inv' /\ [Next]_vars => [Abstract!Next]_(Abstract!vars)
<1> SUFFICES ASSUME Inv, Inv', [Next]_vars
             PROVE  Abstract!Next \/ UNCHANGED <<Bag, call, result>>
  BY DEF Abstract!vars, Bag
<1>1. CASE Continue
  <2>1. UNCHANGED <<call, result>>
    BY <1>1 DEF Continue, GrowStep, GrowDone, RaiseStep, RaiseDone, LowerStep, LowerDone
  <2>2. \A e \in Elem : Count(e)' = Count(e)
    BY <1>1, ContinueKeeps
  <2> QED BY <2>1, <2>2, BagKept
<1>2. ASSUME NEW e \in Elem, Enqueue(e) \/ Remove(e)
      PROVE  Abstract!Next
  BY <1>2, EnqueueBag, RemoveBag DEF Abstract!Next
<1>3. CASE Dequeue \/ Pop
  BY <1>3, DequeueBag, PopBag DEF Abstract!Next
<1>4. CASE Peek \/ \E op \in {"dequeue", "peek", "pop"} : Empty(op)
  BY <1>4, LookBag DEF Abstract!Next
<1>5. CASE UNCHANGED vars
  <2>1. \A e \in Elem : Count(e)' = Count(e)
    BY <1>5 DEF vars, Count, Live, InUse, InFlight, Moving
  <2>2. UNCHANGED <<call, result>>
    BY <1>5 DEF vars
  <2> QED BY <2>1, <2>2, BagKept
<1> QED BY <1>1, <1>2, <1>3, <1>4, <1>5 DEF Next

LEMMA InitBag == Init => Abstract!Init
<1> SUFFICES ASSUME Init PROVE Abstract!Init
  OBVIOUS
<1>1. Inv /\ pc = "idle" /\ InUse = {}
  BY InitInv DEF Init, InUse
<1>2. \A e \in Elem : Count(e) = 0
  BY <1>1, IdleCount
<1> QED BY <1>2 DEF Init, Abstract!Init

(* The heap implements the bag: no call loses or doubles an element, dequeue *)
(* and peek answer one that none ranks before, remove the one asked for.     *)
THEOREM BagImplemented == Spec => ImplementsBag
<1>1. Init /\ [][Next]_vars => []Inv
  BY InitInv, StepInv, PTL
<1> QED BY <1>1, InitBag, StepBag, PTL DEF Spec, ImplementsBag, Abstract!Spec
==============================================================================
