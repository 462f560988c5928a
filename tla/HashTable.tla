------------------------------ MODULE HashTable ------------------------------
(* The hash table of src/hashtable.c: an array of buckets, each a list of    *)
(* list.c that is made when its first element comes.  A list cell and the    *)
(* hash_elem_t it holds come and go together, so the element stands for      *)
(* both, and element->loc is its place in the list.                          *)
EXTENDS CellSequence, FiniteSets

CONSTANTS Elem,         \* the addresses fsalloc() may hand out for elements
          Key, Value,   \* the objects of the client
          Rank,         \* cmp(a, b) = 0 if and only if Rank[a] = Rank[b]
          Hash,         \* hash(k) of each key
          GoodSizes,    \* GOOD_SIZES without the 0 that ends it
          Request,      \* the capacities a client may ask for
          NULL,         \* the null pointer
          MaxDetached   \* bound: the detached elements the client may hold

ASSUME KeyAssumption == /\ Rank \in [Key -> Int] /\ Hash \in [Key -> Nat]
                        /\ \A j, k \in Key : Rank[j] = Rank[k] => Hash[j] = Hash[k]
ASSUME SizesAssumption == GoodSizes \in Seq(Nat \ {0}) /\ GoodSizes # <<>>
                          /\ Request \subseteq Nat
ASSUME NullAssumption == NULL \notin Elem /\ NULL \notin Seq(Elem)
                         /\ NULL \notin [key : Key, value : Value, list_index : Nat]
                         /\ NULL \notin [key : Key, value : Value]
                         /\ NULL \notin [{Rank[k] : k \in Key} ->
                                         [key : Key, value : Value] \union {NULL}]

VARIABLES capacity,   \* table->capacity, 0 while there is no table
          table,      \* table->table, the buckets: a list, or NULL
          size,       \* table->size
          element,    \* element[e]: the fields of the element at e, or NULL
          detached,   \* the elements the client is to destroy
          at,         \* the element a traversal of the client has come to
          visited,    \* the elements it has been given
          stable,     \* the elements in the table since it began
          call,       \* the latest call
          answer      \* the key and value of the element it answers, or NULL

store == <<capacity, table, size, element, detached>>
traversal == <<at, visited, stable>>
vars == <<store, traversal, call, answer>>

TypeOK == /\ capacity \in Nat
          /\ table \in [0..capacity - 1 -> Seq(Elem) \union {NULL}]
          /\ size \in Nat
          /\ element \in [Elem -> [key : Key, value : Value, list_index : Nat] \union {NULL}]
          /\ detached \subseteq Elem
          /\ at \in Elem \union {NULL}
          /\ visited \subseteq Elem
          /\ stable \subseteq Elem

NoTable == [i \in 0..-1 |-> NULL]
Init == /\ capacity = 0 /\ table = NoTable /\ size = 0
        /\ element = [e \in Elem |-> NULL]
        /\ detached = {}
        /\ at = NULL /\ visited = {} /\ stable = {}
        /\ call = [op |-> "none", on |-> NULL, arg |-> NULL]
        /\ answer = NULL
------------------------------------------------------------------------------
Live == capacity > 0
Buckets == 0..capacity - 1
List(i) == IF table[i] = NULL THEN <<>> ELSE table[i]
Stored == UNION {Cells(List(i)) : i \in Buckets}
Least(S) == CHOOSE m \in S : \A n \in S : m <= n

index(k) == Hash[k] % capacity
Matches(k, e) == Rank[k] = Rank[element[e].key]

(* hash_table_get(): the walk along the bucket.                              *)
get(k) ==
  LET list == List(index(k))
      hits == {j \in DOMAIN list : Matches(k, list[j])}
  IN  IF hits = {} THEN NULL ELSE list[Least(hits)]

(* The first element of the first bucket that is not empty, from i on.       *)
Filled(i) == {j \in Buckets : j >= i /\ List(j) # <<>>}
get_next(i) == IF Filled(i) = {} THEN NULL ELSE List(Least(Filled(i)))[1]

Entry(e) == IF e = NULL THEN NULL ELSE [key |-> element[e].key, value |-> element[e].value]
Called(op, arg, e) == /\ call' = [op |-> op, on |-> "table", arg |-> arg]
                      /\ answer' = Entry(e)

(* The elements that leave the table leave the traversal; a client that      *)
(* gives up the one it has come to gives up the traversal.                   *)
Leave(S) == IF at \in S
            THEN at' = NULL /\ visited' = {} /\ stable' = {}
            ELSE visited' = visited \ S /\ stable' = stable \ S /\ UNCHANGED at
------------------------------------------------------------------------------
(* make_hash_table(): the first good size that is large enough, or the last. *)
GoodEnough(request) == {j \in DOMAIN GoodSizes : GoodSizes[j] >= request}
CapacityFor(request) ==
  GoodSizes[IF GoodEnough(request) = {} THEN Len(GoodSizes) ELSE Least(GoodEnough(request))]

Make(request) == /\ ~Live
                 /\ capacity' = CapacityFor(request)
                 /\ table' = [i \in 0..capacity' - 1 |-> NULL]
                 /\ size' = 0
                 /\ Called("make", NULL, NULL)
                 /\ UNCHANGED <<element, detached, traversal>>

Destroy == /\ Live
           /\ capacity' = 0 /\ table' = NoTable /\ size' = 0
           /\ element' = [e \in Elem |-> IF e \in Stored THEN NULL ELSE element[e]]
           /\ Leave(Stored)
           /\ Called("destroy", NULL, NULL)
           /\ UNCHANGED detached

AddElementWithHash(e, i, list, k, v) ==
  /\ element[e] = NULL
  /\ element' = [element EXCEPT ![e] = [key |-> k, value |-> v, list_index |-> Hash[k]]]
  /\ table' = [table EXCEPT ![i] = AtEnd(list, e)]
(* add_element() to what is left of the list of bucket i.                    *)
add_element(e, i, list, k, v) ==
  /\ element[e] = NULL
  /\ element' = [element EXCEPT ![e] = [key |-> k, value |-> v, list_index |-> i]]
  /\ table' = [table EXCEPT ![i] = AtEnd(list, e)]

(* hash_table_put(): of a value that is stored, of another value for a key,  *)
(* of a new key.                                                             *)
IsStoredKey(k, v) == get(k) # NULL
IsStored(k, v) == get(k) # NULL /\ element[get(k)].value = v
PutStored(k, v) == /\ IsStored(k, v)
                   /\ Called("put", <<k, v>>, NULL)
                   /\ UNCHANGED <<store, traversal>>

PutOver(e, k, v) == LET old == get(k) IN
  /\ old # NULL /\ ~IsStored(k, v)
  /\ Cardinality(detached) < MaxDetached
  /\ add_element(e, index(k), Without(List(index(k)), old), k, v)
  /\ detached' = detached \union {old}
  /\ Leave({old})
  /\ Called("put", <<k, v>>, old)
  /\ UNCHANGED <<capacity, size>>

PutNew(e, k, v) == /\ get(k) = NULL
                   /\ add_element(e, index(k), List(index(k)), k, v)
                   /\ size' = size + 1
                   /\ Called("put", <<k, v>>, NULL)
                   /\ UNCHANGED <<capacity, detached, traversal>>

Put(k, v) == /\ Live
             /\ \/ PutStored(k, v)
                \/ \E e \in Elem : PutOver(e, k, v) \/ PutNew(e, k, v)

Get(k) == /\ Live
          /\ Called("get", k, get(k))
          /\ UNCHANGED <<store, traversal>>

(* Taking e out of the bucket it says it is in.                              *)
Unlink(e) == LET i == element[e].list_index IN
  /\ table' = [table EXCEPT ![i] = Without(List(i), e)]
  /\ size' = size - 1
  /\ Leave({e})
  /\ UNCHANGED capacity

detach(e) == /\ Unlink(e)
             /\ Cardinality(detached) < MaxDetached
             /\ detached' = detached \union {e}
             /\ UNCHANGED element

Detach(e) == detach(e) /\ Called("detach", Rank[element[e].key], e)

Remove(e) == /\ Unlink(e)
             /\ element' = [element EXCEPT ![e] = NULL]
             /\ Called("remove", Rank[element[e].key], NULL)
             /\ UNCHANGED detached

DetachIfAny(e) == IF e = NULL THEN UNCHANGED <<store, traversal>> ELSE detach(e)
Pop(k) == Live /\ DetachIfAny(get(k)) /\ Called("pop", k, get(k))

(* hash_table_pop_any(): the first element of the first bucket with one.     *)
PopFirstOf(i) == LET e == List(i)[1] IN
  /\ Cardinality(detached) < MaxDetached
  /\ table' = [table EXCEPT ![i] = RemovedAt(List(i), 1)]
  /\ size' = size - 1
  /\ detached' = detached \union {e}
  /\ Leave({e})
  /\ UNCHANGED <<capacity, element>>
PopAny == /\ Live
          /\ IF Filled(0) = {} THEN UNCHANGED <<store, traversal>>
             ELSE PopFirstOf(Least(Filled(0)))
          /\ Called("pop_any", NULL, get_next(0))

DestroyElement(e) == /\ e \in detached
                     /\ detached' = detached \ {e}
                     /\ element' = [element EXCEPT ![e] = NULL]
                     /\ UNCHANGED <<capacity, table, size, traversal, call, answer>>
------------------------------------------------------------------------------
(* The traversal: hash_table_get_any(), then hash_table_get_other() of each  *)
(* element it is given, while the client goes on calling the table.          *)
GetAny == /\ Live /\ at = NULL
          /\ at' = get_next(0)
          /\ visited' = {at'} \ {NULL}
          /\ stable' = Stored
          /\ UNCHANGED <<store, call, answer>>

get_other_from_first(e) ==
  LET i == element[e].list_index
      j == Position(List(i), e)
  IN  IF j < Len(List(i)) THEN List(i)[j + 1] ELSE get_next(i)
get_other(e) ==
  LET i == element[e].list_index
      j == Position(List(i), e)
  IN  IF j < Len(List(i)) THEN List(i)[j + 1] ELSE get_next(i + 1)

GetOther == /\ at # NULL
            /\ at' = get_other(at)
            /\ IF at' = NULL
               THEN visited' = {} /\ stable' = {}
               ELSE visited' = visited \union {at'} /\ UNCHANGED stable
            /\ UNCHANGED <<store, call, answer>>

Next == \/ \E request \in Request : Make(request)
        \/ Destroy \/ PopAny \/ GetAny \/ GetOther
        \/ \E k \in Key : Get(k) \/ Pop(k) \/ \E v \in Value : Put(k, v)
        \/ \E e \in Stored : Detach(e) \/ Remove(e)
        \/ \E e \in detached : DestroyElement(e)

Spec == Init /\ [][Next]_vars
------------------------------------------------------------------------------
(* Every element is in the bucket of its key and of its list_index, once;    *)
(* that is where it is looked for and where it is unlinked from.             *)
InItsBucket ==
  \A i \in Buckets : /\ Distinct(List(i))
                     /\ \A e \in Cells(List(i)) :
                          /\ element[e] # NULL
                          /\ element[e].list_index = i
                          /\ index(element[e].key) = i
OnePerKey == \A d, e \in Stored : Rank[element[d].key] = Rank[element[e].key] => d = e

(* No element is lost or leaked, and none is freed while it is in the table: *)
(* each is in the table or detached for the client to destroy.               *)
Ownership == /\ {e \in Elem : element[e] # NULL} = Stored \union detached
             /\ Stored \intersect detached = {}

(* hash_table_size() is the number of elements.                              *)
SizeIsCount == size = Cardinality(Stored)

(* All of it holds between any two calls, also while an iteration goes on    *)
(* and while the client holds on to detached elements.                       *)
TableInv == TypeOK /\ InItsBucket /\ OnePerKey /\ Ownership /\ SizeIsCount

(* get_any() and get_other() give every element that stays in the table, and *)
(* none twice, whatever else is put or removed meanwhile.                    *)
VisitsEachOnce ==
  [][GetOther => IF at' = NULL THEN stable \subseteq visited
                 ELSE at' \notin stable \intersect visited]_vars

(* The table is a map: what a call changes and answers is what a map from    *)
(* keys to entries would.  A put of the stored value has no effect.          *)
EntryOf(r) == LET hits == {e \in Stored : Rank[element[e].key] = r}
              IN  IF hits = {} THEN NULL ELSE Entry(CHOOSE e \in hits : TRUE)
maps == [t \in {"table"} |-> IF Live THEN [r \in {Rank[k] : k \in Key} |-> EntryOf(r)]
                             ELSE NULL]
Abstract == INSTANCE Dictionary
              WITH Table <- {"table"}, None <- NULL, KeepsStored <- TRUE
ImplementsDictionary == Abstract!Spec
==============================================================================
