------------------------------ MODULE LinkedList ------------------------------
(* The doubly linked list of src/list.c on a memory of cells that are        *)
(* allocated and freed, with the iteration of list_foreach(), whose callback *)
(* may itself change the list.                                               *)
EXTENDS CellSequence, FiniteSets

CONSTANTS Cell,    \* the addresses fsalloc() may hand out for cells
          Value,   \* the values of the client
          NULL,    \* the null pointer
          Wild     \* what a field of a freed cell holds

ASSUME CellAssumption == NULL \notin Cell /\ Wild \notin Cell \union {NULL} \union Value

VARIABLES first, last, size,      \* the fields of list_t
          value, previous, next,  \* the fields of the cells
          allocated,              \* the cells in use
          order,                  \* history: what the list should represent
          at,                     \* list_foreach(): the element e, or NULL
          visited,                \* the cells its callback has been given
          stable                  \* the cells in the list since it began

fields == <<value, previous, next>>
list == <<first, last, size, fields, allocated, order>>
iteration == <<at, visited, stable>>
vars == <<list, iteration>>

Pointer == Cell \union {NULL}

TypeOK == /\ first \in Pointer /\ last \in Pointer
          /\ size \in Nat
          /\ value \in [Cell -> Value \union {Wild}]
          /\ previous \in [Cell -> Pointer \union {Wild}]
          /\ next \in [Cell -> Pointer \union {Wild}]
          /\ allocated \subseteq Cell
          /\ order \in Seq(Cell)
          /\ at \in Pointer
          /\ visited \subseteq Cell
          /\ stable \subseteq Cell

Init == /\ first = NULL /\ last = NULL /\ size = 0
        /\ value = [c \in Cell |-> Wild]
        /\ previous = [c \in Cell |-> Wild]
        /\ next = [c \in Cell |-> Wild]
        /\ allocated = {}
        /\ order = <<>>
        /\ at = NULL /\ visited = {} /\ stable = {}
------------------------------------------------------------------------------
Alloc(c) == c \in Cell \ allocated /\ allocated' = allocated \union {c}

append(c, v) ==
  /\ Alloc(c)
  /\ value' = [value EXCEPT ![c] = v]
  /\ IF first = NULL
     THEN /\ previous' = [previous EXCEPT ![c] = NULL]
          /\ next' = [next EXCEPT ![c] = NULL]
          /\ first' = c
     ELSE /\ previous' = [previous EXCEPT ![c] = last]
          /\ next' = [next EXCEPT ![c] = NULL, ![last] = c]
          /\ UNCHANGED first
  /\ last' = c
  /\ size' = size + 1
  /\ order' = AtEnd(order, c)

prepend(c, v) ==
  /\ Alloc(c)
  /\ value' = [value EXCEPT ![c] = v]
  /\ IF first = NULL
     THEN /\ next' = [next EXCEPT ![c] = NULL]
          /\ previous' = [previous EXCEPT ![c] = NULL]
          /\ last' = c
     ELSE /\ next' = [next EXCEPT ![c] = first]
          /\ previous' = [previous EXCEPT ![c] = NULL, ![first] = c]
          /\ UNCHANGED last
  /\ first' = c
  /\ size' = size + 1
  /\ order' = AtFront(order, c)

(* The client passes an element d of this list.                              *)
insert_before(c, v, d) ==
  /\ d \in Cells(order)
  /\ Alloc(c)
  /\ value' = [value EXCEPT ![c] = v]
  /\ previous' = [previous EXCEPT ![c] = previous[d], ![d] = c]
  /\ IF previous[d] # NULL
     THEN /\ next' = [next EXCEPT ![c] = d, ![previous[d]] = c]
          /\ UNCHANGED first
     ELSE /\ next' = [next EXCEPT ![c] = d]
          /\ first' = c
  /\ size' = size + 1
  /\ order' = Before(order, c, d)
  /\ UNCHANGED last

UnlinkStale(c) ==
  /\ first' = IF first = c THEN next[c] ELSE first
  /\ last' = IF last = c THEN previous[c] ELSE last
  /\ previous' = [previous EXCEPT ![c] = Wild]
  /\ next' = IF first = c THEN [next EXCEPT ![c] = Wild]
             ELSE [next EXCEPT ![previous[c]] = next[c], ![c] = Wild]

(* Unlinking the element c: it is the only one, the first, the last, or in   *)
(* the middle.                                                               *)
Unlink(c) ==
  \/ /\ first = c /\ last = c
     /\ first' = NULL /\ last' = NULL
     /\ previous' = [previous EXCEPT ![c] = Wild]
     /\ next' = [next EXCEPT ![c] = Wild]
  \/ /\ first = c /\ last # c
     /\ first' = next[c]
     /\ previous' = [previous EXCEPT ![next[c]] = NULL, ![c] = Wild]
     /\ next' = [next EXCEPT ![c] = Wild]
     /\ UNCHANGED last
  \/ /\ first # c /\ last = c
     /\ last' = previous[c]
     /\ next' = [next EXCEPT ![previous[c]] = NULL, ![c] = Wild]
     /\ previous' = [previous EXCEPT ![c] = Wild]
     /\ UNCHANGED first
  \/ /\ first # c /\ last # c
     /\ previous' = [previous EXCEPT ![next[c]] = previous[c], ![c] = Wild]
     /\ next' = [next EXCEPT ![previous[c]] = next[c], ![c] = Wild]
     /\ UNCHANGED <<first, last>>

(* list_remove(); a callback of list_foreach() must not remove the element   *)
(* it is given, from which the loop goes on.                                 *)
remove(c) ==
  /\ c # at
  /\ Unlink(c)
  /\ allocated' = allocated \ {c}
  /\ value' = [value EXCEPT ![c] = Wild]
  /\ size' = size - 1
  /\ order' = Without(order, c)
  /\ stable' = stable \ {c}
  /\ visited' = visited \ {c}
  /\ UNCHANGED at
------------------------------------------------------------------------------
ListAppend(v) == \E c \in Cell : append(c, v) /\ UNCHANGED iteration
ListPrepend(v) == \E c \in Cell : prepend(c, v) /\ UNCHANGED iteration
InsertBefore(v, d) == \E c \in Cell : insert_before(c, v, d) /\ UNCHANGED iteration
Remove(c) == c \in Cells(order) /\ remove(c)
PopFirst == first # NULL /\ remove(first)
PopLast == last # NULL /\ remove(last)

(* destroy_list() frees what the loop along the next pointers reaches;       *)
(* make_list() follows.                                                      *)
ClosedUnderNext(S) == \A c \in S : next[c] \in Cell => next[c] \in S
Reachable == {c \in Cell : \A S \in SUBSET Cell :
                             first \in S /\ ClosedUnderNext(S) => c \in S}
Destroy == /\ at = NULL
           /\ first' = NULL /\ last' = NULL /\ size' = 0
           /\ allocated' = allocated \ Reachable
           /\ value' = [c \in Cell |-> IF c \in Reachable THEN Wild ELSE value[c]]
           /\ previous' = [c \in Cell |-> IF c \in Reachable THEN Wild ELSE previous[c]]
           /\ next' = [c \in Cell |-> IF c \in Reachable THEN Wild ELSE next[c]]
           /\ order' = <<>>
           /\ UNCHANGED iteration
------------------------------------------------------------------------------
(* list_foreach(): while at is a cell its callback runs, and the client may  *)
(* do all of the above.  The loop goes on from the cell as it is by then.    *)
ForeachFromLast == /\ at = NULL /\ first # NULL
                   /\ at' = last /\ visited' = {last}
                   /\ stable' = Cells(order)
                   /\ UNCHANGED list
Foreach == /\ at = NULL /\ first # NULL
           /\ at' = first /\ visited' = {first}
           /\ stable' = Cells(order)
           /\ UNCHANGED list

Advance == /\ at # NULL
           /\ at' = next[at]
           /\ IF at' = NULL
              THEN visited' = {} /\ stable' = {}
              ELSE visited' = visited \union {at'} /\ UNCHANGED stable
           /\ UNCHANGED list

Next == \/ \E v \in Value : \/ ListAppend(v) \/ ListPrepend(v)
                            \/ \E d \in Cell : InsertBefore(v, d)
        \/ \E c \in Cell : Remove(c)
        \/ PopFirst \/ PopLast \/ Destroy
        \/ Foreach \/ Advance

Spec == Init /\ [][Next]_vars
------------------------------------------------------------------------------
(* list_get_by_index() and list_get(): walks along the next pointers.        *)
nth[i \in Nat] == IF i = 0 THEN first
                  ELSE IF nth[i - 1] \in Cell THEN next[nth[i - 1]] ELSE NULL
list_get_by_index_from_one(k) == IF k > 0 THEN nth[k - 1] ELSE NULL
list_get_by_index(k) == IF k >= 0 THEN nth[k] ELSE NULL
list_get(v) ==
  LET Hit(i) == nth[i] = NULL \/ (nth[i] \in Cell /\ value[nth[i]] = v)
  IN  nth[CHOOSE i \in 0..size : Hit(i) /\ \A j \in 0..i - 1 : ~Hit(j)]

(* The pointers represent the sequence: no cell is lost, leaked or reachable *)
(* after it was freed, in either direction, and both ends are known.         *)
Represents(s) ==
  /\ size = Len(s)
  /\ allocated = Cells(s)
  /\ first = IF s = <<>> THEN NULL ELSE s[1]
  /\ last = IF s = <<>> THEN NULL ELSE s[Len(s)]
  /\ \A i \in 1..Len(s) :
       /\ next[s[i]] = IF i = Len(s) THEN NULL ELSE s[i + 1]
       /\ previous[s[i]] = IF i = 1 THEN NULL ELSE s[i - 1]
       /\ value[s[i]] \in Value
ListInv == Distinct(order) /\ Represents(order)

(* What a lookup answers is what the sequence holds there: the first cell    *)
(* with a value, and nothing for an index out of range.                      *)
LookupsAgree ==
  /\ \A k \in -1..size :
       list_get_by_index(k) = IF k \in 0..size - 1 THEN order[k + 1] ELSE NULL
  /\ \A v \in Value :
       LET hits == {i \in 1..size : value[order[i]] = v}
       IN  IF hits = {} THEN list_get(v) = NULL
           ELSE \E i \in hits : list_get(v) = order[i] /\ \A j \in hits : i <= j

(* list_foreach() visits every cell that stays in the list, and none twice.  *)
VisitsEachOnce ==
  [][at # NULL /\ at' # at =>
       IF at' = NULL THEN stable \subseteq visited ELSE at' \notin stable \intersect visited]_vars
==============================================================================
