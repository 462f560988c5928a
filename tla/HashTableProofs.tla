--------------------------- MODULE HashTableProofs ---------------------------
(* Proofs about HashTable, for any keys, any hash, any capacities and any    *)
(* number of elements: the buckets hold every element where it is looked     *)
(* for, a traversal meets what stays, and the table is a dictionary.         *)
EXTENDS HashTable, Lemmas, FiniteSetTheorems

(* A traversal is at an element that is in the table.                        *)
AtStored == at # NULL => at \in Stored

IInv == TableInv /\ AtStored /\ IsFiniteSet(Stored)
------------------------------------------------------------------------------
Record == [key : Key, value : Value, list_index : Nat]

(* The buckets, spelled out.                                                 *)
LEMMA BucketFacts ==
  ASSUME TypeOK, InItsBucket
  PROVE  /\ \A i \in Buckets : /\ List(i) \in Seq(Elem) /\ Distinct(List(i))
                               /\ Len(List(i)) \in Nat
                               /\ DOMAIN List(i) = 1..Len(List(i))
                               /\ Cells(List(i)) \subseteq Stored
                               /\ \A e \in Cells(List(i)) : element[e].list_index = i
         /\ Stored \subseteq Elem
         /\ \A e \in Stored : /\ element[e] \in Record /\ element[e] # NULL
                              /\ element[e].key \in Key
                              /\ element[e].list_index \in Buckets
                              /\ e \in Cells(List(element[e].list_index))
                              /\ index(element[e].key) = element[e].list_index
<1>1. ASSUME NEW i \in Buckets
      PROVE  /\ List(i) \in Seq(Elem) /\ Distinct(List(i))
             /\ Cells(List(i)) \subseteq Stored
             /\ \A e \in Cells(List(i)) : element[e].list_index = i
  <2>1. table[i] \in Seq(Elem) \union {NULL}
    BY DEF TypeOK, Buckets
  <2>2. List(i) \in Seq(Elem)
    BY <2>1 DEF List
  <2>3. Cells(List(i)) \subseteq Stored
    BY DEF Stored
  <2> QED BY <2>2, <2>3 DEF InItsBucket
<1>2. ASSUME NEW i \in Buckets
      PROVE  Len(List(i)) \in Nat /\ DOMAIN List(i) = 1..Len(List(i))
             /\ Cells(List(i)) \subseteq Elem
  BY <1>1 DEF Cells
<1>3. Stored \subseteq Elem
  BY <1>2 DEF Stored
<1>4. ASSUME NEW e \in Stored
      PROVE  /\ element[e] \in Record /\ element[e] # NULL
             /\ element[e].key \in Key
             /\ element[e].list_index \in Buckets
             /\ e \in Cells(List(element[e].list_index))
             /\ index(element[e].key) = element[e].list_index
  <2>1. PICK i \in Buckets : e \in Cells(List(i))
    BY DEF Stored
  <2>2. element[e] # NULL /\ element[e].list_index = i /\ index(element[e].key) = i
    BY <2>1 DEF InItsBucket
  <2>3. element[e] \in Record
    BY <1>3, <2>2 DEF TypeOK, Record
  <2> QED BY <2>1, <2>2, <2>3 DEF Record
<1> QED BY <1>1, <1>2, <1>3, <1>4

LEMMA IndexFacts ==
  ASSUME TypeOK, Live, NEW k \in Key
  PROVE  index(k) \in Buckets /\ index(k) \in Nat
<1>1. capacity \in Nat /\ capacity > 0 /\ Hash[k] \in Int
  BY KeyAssumption DEF TypeOK, Live
<1>2. Hash[k] % capacity \in 0..capacity - 1
  BY <1>1, Divide
<1> QED BY <1>1, <1>2 DEF index, Buckets

(* hash_table_get() finds the element of an equal key, if there is one.      *)
LEMMA GetFacts ==
  ASSUME TypeOK, InItsBucket, Live, NEW k \in Key
  PROVE  /\ get(k) = NULL => \A e \in Stored : Rank[element[e].key] # Rank[k]
         /\ get(k) # NULL => /\ get(k) \in Cells(List(index(k))) /\ get(k) \in Stored
                             /\ get(k) \in Elem
                             /\ element[get(k)].list_index = index(k)
                             /\ Rank[element[get(k)].key] = Rank[k]
<1> DEFINE i == index(k)
           list == List(i)
           hits == {j \in DOMAIN list : Matches(k, list[j])}
<1>1. /\ i \in Buckets /\ list \in Seq(Elem) /\ Len(list) \in Nat
      /\ DOMAIN list = 1..Len(list) /\ Cells(list) \subseteq Stored
      /\ \A e \in Cells(list) : element[e].list_index = i
  BY IndexFacts, BucketFacts
<1>2. get(k) = IF hits = {} THEN NULL ELSE list[Least(hits)]
  BY DEF get
<1>3. CASE hits = {}
  <2>1. get(k) = NULL
    BY <1>2, <1>3
  <2>2. ASSUME NEW e \in Stored, Rank[element[e].key] = Rank[k]
        PROVE  FALSE
    <3>1. /\ element[e].key \in Key /\ e \in Cells(List(element[e].list_index))
          /\ index(element[e].key) = element[e].list_index
      BY BucketFacts
    <3>2. Hash[element[e].key] = Hash[k]
      BY <2>2, <3>1, KeyAssumption
    <3>3. e \in Cells(list)
      BY <3>1, <3>2 DEF index
    <3>4. PICK j \in DOMAIN list : list[j] = e
      BY <3>3 DEF Cells
    <3>5. j \in hits
      BY <2>2, <3>4 DEF Matches
    <3> QED BY <1>3, <3>5
  <2> QED BY <2>1, <2>2
<1>4. CASE hits # {}
  <2>1. hits \in SUBSET Nat
    BY <1>1
  <2>2. Least(hits) \in hits
    BY <1>4, <2>1, LeastFacts DEF Least
  <2>3. Least(hits) \in DOMAIN list /\ Matches(k, list[Least(hits)])
    BY <2>2
  <2>4. get(k) = list[Least(hits)]
    BY <1>2, <1>4
  <2>5. \A j \in DOMAIN list : list[j] \in Cells(list) /\ list[j] \in Elem
    BY <1>1 DEF Cells
  <2>6. get(k) \in Cells(list) /\ get(k) \in Elem
    BY <2>3, <2>4, <2>5
  <2>7. Rank[k] = Rank[element[get(k)].key]
    BY <2>3, <2>4 DEF Matches
  <2> QED BY <1>1, <2>6, <2>7, NullAssumption
<1> QED BY <1>3, <1>4

(* The first element from bucket i on, and what is before it.                *)
LEMMA NextFacts ==
  ASSUME TypeOK, InItsBucket, NEW i \in Nat
  PROVE  /\ Filled(i) = {} => /\ get_next(i) = NULL
                              /\ \A j \in Buckets : j >= i => Cells(List(j)) = {}
         /\ Filled(i) # {} =>
              LET j == Least(Filled(i))
              IN  /\ j \in Buckets /\ j >= i
                  /\ 1 \in DOMAIN List(j) /\ 1 \in 1..Len(List(j))
                  /\ get_next(i) = List(j)[1] /\ get_next(i) \in Cells(List(j))
                  /\ get_next(i) \in Stored /\ get_next(i) # NULL
                  /\ element[get_next(i)].list_index = j
                  /\ \A m \in Buckets : m >= i /\ m < j => Cells(List(m)) = {}
<1>1. \A j \in Buckets : /\ List(j) \in Seq(Elem) /\ Len(List(j)) \in Nat /\ DOMAIN List(j) = 1..Len(List(j))
                         /\ Cells(List(j)) \subseteq Stored
                         /\ \A e \in Cells(List(j)) : element[e].list_index = j
  BY BucketFacts
<1>2. Buckets \subseteq Nat
  BY DEF Buckets
<1>3. ASSUME NEW m \in Buckets, m >= i, m \notin Filled(i)
      PROVE  Cells(List(m)) = {}
  <2>1. List(m) = <<>>
    BY <1>3 DEF Filled
  <2> QED BY <2>1 DEF Cells
<1>4. CASE Filled(i) = {}
  BY <1>3, <1>4 DEF get_next
<1>5. CASE Filled(i) # {}
  <2> DEFINE j == Least(Filled(i))
  <2>1. Filled(i) \in SUBSET Nat
    BY <1>2 DEF Filled
  <2>2. j \in Filled(i) /\ \A n \in Filled(i) : j <= n
    BY <1>5, <2>1, LeastFacts DEF Least
  <2>3. j \in Buckets /\ j >= i /\ List(j) # <<>>
    BY <2>2 DEF Filled
  <2>4. 1 \in DOMAIN List(j) /\ 1 \in 1..Len(List(j))
    BY <1>1, <2>3
  <2>5. get_next(i) = List(j)[1]
    BY <1>5 DEF get_next
  <2>6. get_next(i) \in Cells(List(j)) /\ get_next(i) \in Elem
    BY <1>1, <2>3, <2>4, <2>5 DEF Cells
  <2>7. ASSUME NEW m \in Buckets, m >= i, m < j PROVE Cells(List(m)) = {}
    <3>1. m \in Nat /\ j \in Nat
      BY <1>2, <2>3
    <3> QED BY <1>3, <2>2, <2>7, <3>1
  <2> QED BY <1>1, <1>5, <2>3, <2>4, <2>5, <2>6, <2>7, NullAssumption
<1> QED BY <1>4, <1>5

LEMMA CapacityFacts == ASSUME NEW request \in Request PROVE CapacityFor(request) \in Nat \ {0}
<1>1. GoodEnough(request) \in SUBSET Nat /\ GoodEnough(request) \subseteq DOMAIN GoodSizes
  BY SizesAssumption DEF GoodEnough
<1>2. Len(GoodSizes) \in DOMAIN GoodSizes
  BY SizesAssumption
<1>3. GoodEnough(request) # {} => Least(GoodEnough(request)) \in DOMAIN GoodSizes
  BY <1>1, LeastFacts DEF Least
<1> QED BY <1>2, <1>3, SizesAssumption DEF CapacityFor
------------------------------------------------------------------------------
(* Giving one bucket another list.                                           *)
LEMMA SetBucket ==
  ASSUME TypeOK, InItsBucket, NEW i \in Buckets, NEW s \in Seq(Elem), Distinct(s),
         capacity' = capacity, table' = [table EXCEPT ![i] = s],
         \A e \in Cells(s) : /\ element'[e] # NULL /\ element'[e].list_index = i
                             /\ index(element'[e].key) = i,
         \A e \in Stored \ Cells(List(i)) : element'[e] = element[e]
  PROVE  /\ Buckets' = Buckets
         /\ table' \in [0..capacity' - 1 -> Seq(Elem) \union {NULL}]
         /\ \A j \in Buckets : List(j)' = IF j = i THEN s ELSE List(j)
         /\ Stored' = (Stored \ Cells(List(i))) \union Cells(s)
         /\ InItsBucket'
<1>1. Buckets' = Buckets
  BY DEF Buckets
<1>2. /\ table \in [Buckets -> Seq(Elem) \union {NULL}]
      /\ table' \in [Buckets -> Seq(Elem) \union {NULL}]
  BY DEF TypeOK, Buckets
<1>3. ASSUME NEW j \in Buckets
      PROVE  List(j)' = IF j = i THEN s ELSE List(j)
  <2>1. table'[j] = IF j = i THEN s ELSE table[j]
    BY <1>2
  <2>2. s # NULL
    BY NullAssumption
  <2> QED BY <2>1, <2>2 DEF List
<1>4. ASSUME NEW j \in Buckets, j # i
      PROVE  Cells(List(j)) \subseteq Stored \ Cells(List(i))
  <2>1. /\ Cells(List(j)) \subseteq Stored
        /\ \A e \in Cells(List(j)) : element[e].list_index = j
        /\ \A e \in Cells(List(i)) : element[e].list_index = i
    BY BucketFacts
  <2> QED BY <1>4, <2>1
<1>5. Stored' = (Stored \ Cells(List(i))) \union Cells(s)
  <2>1. Stored' = UNION {Cells(List(j)') : j \in Buckets}
    BY <1>1 DEF Stored
  <2>2. ASSUME NEW e \in Stored'
        PROVE  e \in (Stored \ Cells(List(i))) \union Cells(s)
    <3>1. PICK j \in Buckets : e \in Cells(List(j)')
      BY <2>1
    <3> QED BY <1>3, <1>4, <3>1
  <2>3. Cells(s) \subseteq Stored'
    <3>1. List(i)' = s
      BY <1>3
    <3> QED BY <2>1, <3>1
  <2>4. ASSUME NEW e \in Stored \ Cells(List(i))
        PROVE  e \in Stored'
    <3>1. PICK j \in Buckets : e \in Cells(List(j))
      BY DEF Stored
    <3>2. List(j)' = List(j)
      BY <1>3, <2>4, <3>1
    <3> QED BY <2>1, <3>1, <3>2
  <2> QED BY <2>2, <2>3, <2>4
<1>6. InItsBucket'
  <2>1. SUFFICES ASSUME NEW j \in Buckets
                 PROVE  /\ Distinct(List(j)')
                        /\ \A e \in Cells(List(j)') :
                             /\ element'[e] # NULL
                             /\ element'[e].list_index = j
                             /\ index(element'[e].key) = j
    BY <1>1 DEF InItsBucket, index
  <2>2. CASE j = i
    BY <1>3, <2>2
  <2>3. CASE j # i
    <3>1. List(j)' = List(j)
      BY <1>3, <2>3
    <3>2. \A e \in Cells(List(j)) : element'[e] = element[e]
      BY <1>4, <2>3
    <3> QED BY <3>1, <3>2 DEF InItsBucket
  <2> QED BY <2>2, <2>3
<1> QED BY <1>1, <1>2, <1>3, <1>5, <1>6 DEF Buckets

(* Taking an element out of its bucket.                                      *)
LEMMA TakenOut ==
  ASSUME TypeOK, InItsBucket, NEW e \in Stored, NEW i, i = element[e].list_index,
         capacity' = capacity, table' = [table EXCEPT ![i] = Without(List(i), e)],
         \A d \in Stored \ {e} : element'[d] = element[d]
  PROVE  /\ Buckets' = Buckets
         /\ table' \in [0..capacity' - 1 -> Seq(Elem) \union {NULL}]
         /\ List(i)' = Without(List(i), e)
         /\ \A j \in Buckets : j # i => List(j)' = List(j)
         /\ Stored' = Stored \ {e}
         /\ InItsBucket'
<1> DEFINE s == Without(List(i), e)
           p == Position(List(i), e)
<1>1. /\ i \in Buckets /\ List(i) \in Seq(Elem) /\ Distinct(List(i))
      /\ e \in Cells(List(i)) /\ DOMAIN List(i) = 1..Len(List(i))
      /\ Cells(List(i)) \subseteq Stored
  BY BucketFacts
<1>2. p \in 1..Len(List(i)) /\ List(i)[p] = e
  BY <1>1, PositionFacts
<1>3. s \in Seq(Elem) /\ Distinct(s) /\ Cells(s) = Cells(List(i)) \ {e}
  BY <1>1, <1>2, RemovedFacts DEF Without
<1>4. ASSUME NEW d \in Cells(s)
      PROVE  /\ element'[d] # NULL /\ element'[d].list_index = i
             /\ index(element'[d].key) = i
  <2>1. d \in Cells(List(i)) /\ element'[d] = element[d]
    BY <1>1, <1>3
  <2> QED BY <1>1, <2>1 DEF InItsBucket
<1>5. \A d \in Stored \ Cells(List(i)) : element'[d] = element[d]
  BY <1>1
<1> HIDE DEF s
<1>6. table' = [table EXCEPT ![i] = s]
  BY DEF s
<1>7. /\ Buckets' = Buckets
      /\ table' \in [0..capacity' - 1 -> Seq(Elem) \union {NULL}]
      /\ \A j \in Buckets : List(j)' = IF j = i THEN s ELSE List(j)
      /\ Stored' = (Stored \ Cells(List(i))) \union Cells(s)
      /\ InItsBucket'
  BY <1>1, <1>3, <1>4, <1>5, <1>6, SetBucket
<1>8. Stored' = Stored \ {e}
  BY <1>1, <1>3, <1>7
<1> QED BY <1>1, <1>7, <1>8 DEF s

(* Appending an element to what is kept of its bucket.                       *)
LEMMA PutIn ==
  ASSUME TypeOK, InItsBucket, Live, NEW e \in Elem, NEW k \in Key, NEW v \in Value,
         NEW list \in Seq(Elem), Distinct(list),
         Cells(list) \subseteq Cells(List(index(k))),
         add_element(e, index(k), list, k, v), capacity' = capacity
  PROVE  /\ Buckets' = Buckets
         /\ table' \in [0..capacity' - 1 -> Seq(Elem) \union {NULL}]
         /\ \A j \in Buckets :
              List(j)' = IF j = index(k) THEN AtEnd(list, e) ELSE List(j)
         /\ e \notin Stored
         /\ Stored' = (Stored \ Cells(List(index(k)))) \union Cells(list) \union {e}
         /\ InItsBucket'
         /\ element'[e] = [key |-> k, value |-> v, list_index |-> index(k)]
         /\ \A d \in Elem : d # e => element'[d] = element[d]
         /\ element' \in [Elem -> Record \union {NULL}]
<1> DEFINE i == index(k)
           s == AtEnd(list, e)
           r == [key |-> k, value |-> v, list_index |-> i]
<1>1. /\ i \in Buckets /\ i \in Nat
      /\ Cells(List(i)) \subseteq Stored /\ Stored \subseteq Elem
      /\ \A d \in Stored : element[d] # NULL
  BY IndexFacts, BucketFacts
<1>2. /\ element[e] = NULL /\ table' = [table EXCEPT ![i] = s]
      /\ element' = [element EXCEPT ![e] = r]
  BY DEF add_element
<1>3. element \in [Elem -> Record \union {NULL}] /\ r \in Record
  BY <1>1 DEF TypeOK, Record
<1>4. /\ element'[e] = r /\ \A d \in Elem : d # e => element'[d] = element[d]
      /\ element' \in [Elem -> Record \union {NULL}]
  BY <1>2, <1>3
<1>5. e \notin Stored
  BY <1>1, <1>2
<1>6. /\ s \in Seq(Elem) /\ Distinct(s) /\ Cells(s) = Cells(list) \union {e}
  <2>1. Len(list) \in Nat /\ Len(list) + 1 \in 1..Len(list) + 1
    OBVIOUS
  <2>2. e \notin Cells(list)
    BY <1>1, <1>5
  <2> DEFINE n == Len(list) + 1
  <2>3. n \in 1..Len(list) + 1
    BY <2>1
  <2> HIDE DEF n
  <2>4. /\ InsertedAt(list, n, e) \in Seq(Elem)
        /\ Len(InsertedAt(list, n, e)) = Len(list) + 1
        /\ \A j \in 1..Len(list) + 1 :
             InsertedAt(list, n, e)[j] =
               IF j < n THEN list[j] ELSE IF j = n THEN e ELSE list[j - 1]
        /\ Cells(InsertedAt(list, n, e)) = Cells(list) \union {e}
        /\ Distinct(list) /\ e \notin Cells(list) => Distinct(InsertedAt(list, n, e))
    BY <2>3, InsertedFacts
  <2> QED BY <2>2, <2>4 DEF AtEnd, n
<1>7. ASSUME NEW d \in Cells(s)
      PROVE  /\ element'[d] # NULL /\ element'[d].list_index = i
             /\ index(element'[d].key) = i
  <2>1. CASE d = e
    <3>1. r # NULL /\ r.list_index = i /\ r.key = k
      BY <1>3, NullAssumption DEF Record
    <3> QED BY <1>4, <2>1, <3>1
  <2>2. CASE d # e
    <3>1. d \in Cells(List(i)) /\ element'[d] = element[d]
      BY <1>1, <1>4, <1>6, <2>2
    <3> QED BY <1>1, <3>1 DEF InItsBucket
  <2> QED BY <2>1, <2>2
<1>8. \A d \in Stored \ Cells(List(i)) : element'[d] = element[d]
  BY <1>1, <1>4, <1>5
<1> HIDE DEF s
<1>9. /\ Buckets' = Buckets
      /\ table' \in [0..capacity' - 1 -> Seq(Elem) \union {NULL}]
      /\ \A j \in Buckets : List(j)' = IF j = i THEN s ELSE List(j)
      /\ Stored' = (Stored \ Cells(List(i))) \union Cells(s)
      /\ InItsBucket'
  BY <1>1, <1>2, <1>6, <1>7, <1>8, SetBucket
<1>10. Stored' = (Stored \ Cells(List(i))) \union Cells(list) \union {e}
  BY <1>6, <1>9
<1> QED BY <1>4, <1>5, <1>9, <1>10 DEF s
------------------------------------------------------------------------------
(* What has to be shown of the next state, but for OnePerKey.                *)
LEMMA LeaveFacts ==
  ASSUME IInv, NEW S, Leave(S), Stored \ S \subseteq Stored'
  PROVE  AtStored' /\ at' \in Elem \union {NULL} /\ visited' \subseteq Elem
         /\ stable' \subseteq Elem
<1>1. /\ at \in Elem \union {NULL} /\ visited \subseteq Elem /\ stable \subseteq Elem
      /\ at # NULL => at \in Stored
  BY DEF IInv, TableInv, TypeOK, AtStored
<1>2. CASE at \in S
  BY <1>2 DEF Leave, AtStored
<1>3. CASE at \notin S
  BY <1>1, <1>3 DEF Leave, AtStored
<1> QED BY <1>2, <1>3

LEMMA InvFacts ==
  ASSUME IInv
  PROVE  /\ TypeOK /\ InItsBucket /\ OnePerKey /\ IsFiniteSet(Stored)
         /\ size = Cardinality(Stored) /\ Cardinality(Stored) \in Nat
         /\ Stored \subseteq Elem /\ detached \subseteq Elem
         /\ Stored \intersect detached = {}
         /\ \A e \in Elem : element[e] # NULL <=> e \in Stored \union detached
         /\ element \in [Elem -> Record \union {NULL}]
<1>1. TypeOK /\ InItsBucket /\ OnePerKey /\ Ownership /\ SizeIsCount /\ IsFiniteSet(Stored)
  BY DEF IInv, TableInv
<1>2. Stored \subseteq Elem
  BY <1>1, BucketFacts
<1>3. Cardinality(Stored) \in Nat
  BY <1>1, FS_CardinalityType
<1> QED BY <1>1, <1>2, <1>3 DEF TypeOK, Ownership, SizeIsCount, Record

LEMMA InitInv == Init => IInv
<1> SUFFICES ASSUME Init PROVE IInv
  OBVIOUS
<1>1. Buckets = {} /\ capacity = 0 /\ size = 0 /\ detached = {} /\ at = NULL
      /\ visited = {} /\ stable = {} /\ element = [e \in Elem |-> NULL]
      /\ table = [i \in 0..capacity - 1 |-> NULL]
  BY DEF Init, Buckets, NoTable
<1>2. Stored = {}
  BY <1>1 DEF Stored
<1>3. IsFiniteSet(Stored) /\ Cardinality(Stored) = 0
  BY <1>2, FS_EmptySet
<1>4. TypeOK
  BY <1>1 DEF TypeOK
<1>5. InItsBucket /\ OnePerKey /\ Ownership /\ SizeIsCount /\ AtStored
  BY <1>1, <1>2, <1>3 DEF InItsBucket, OnePerKey, Ownership, SizeIsCount, AtStored
<1> QED BY <1>3, <1>4, <1>5 DEF IInv, TableInv

LEMMA MakeInv == ASSUME IInv, NEW request \in Request, Make(request) PROVE IInv'
<1>1. /\ capacity' \in Nat \ {0} /\ table' = [i \in 0..capacity' - 1 |-> NULL]
      /\ size' = 0 /\ UNCHANGED <<element, detached, at, visited, stable>>
  BY CapacityFacts DEF Make, traversal
<1>2. Stored = {}
  <2>1. ~(capacity > 0) /\ capacity \in Nat
    BY DEF IInv, TableInv, TypeOK, Make, Live
  <2>2. Buckets = {}
    BY <2>1 DEF Buckets
  <2> QED BY <2>2 DEF Stored
<1>3. \A i \in Buckets' : List(i)' = <<>>
  BY <1>1 DEF List, Buckets
<1>4. Stored' = {}
  BY <1>3 DEF Stored, Cells
<1>5. IsFiniteSet(Stored') /\ Cardinality(Stored') = 0
  BY <1>4, FS_EmptySet
<1>6. TypeOK'
  BY <1>1 DEF IInv, TableInv, TypeOK
<1>7. InItsBucket'
  BY <1>3 DEF InItsBucket, Distinct, Cells
<1>8. OnePerKey' /\ Ownership' /\ SizeIsCount' /\ AtStored'
  BY <1>1, <1>2, <1>4, <1>5
    DEF IInv, TableInv, OnePerKey, Ownership, SizeIsCount, AtStored
<1> QED BY <1>5, <1>6, <1>7, <1>8 DEF IInv, TableInv

LEMMA DestroyInv == ASSUME IInv, Destroy PROVE IInv'
<1>1. /\ capacity' = 0 /\ table' = [i \in 0..capacity' - 1 |-> NULL] /\ size' = 0
      /\ element' = [e \in Elem |-> IF e \in Stored THEN NULL ELSE element[e]]
      /\ Leave(Stored) /\ UNCHANGED detached
  BY DEF Destroy, NoTable
<1>2. Buckets' = {} /\ Stored' = {}
  <2>1. Buckets' = {}
    BY <1>1 DEF Buckets
  <2> QED BY <2>1 DEF Stored
<1>3. IsFiniteSet(Stored') /\ Cardinality(Stored') = 0
  BY <1>2, FS_EmptySet
<1>4. AtStored' /\ at' \in Elem \union {NULL} /\ visited' \subseteq Elem
      /\ stable' \subseteq Elem
  BY <1>1, <1>2, LeaveFacts
<1>5. element' \in [Elem -> Record \union {NULL}]
  BY <1>1, InvFacts
<1>6. TypeOK'
  BY <1>1, <1>4, <1>5 DEF IInv, TableInv, TypeOK, Record
<1>7. {e \in Elem : element'[e] # NULL} = detached
  BY <1>1, InvFacts
<1>8. InItsBucket' /\ OnePerKey' /\ Ownership' /\ SizeIsCount'
  BY <1>1, <1>2, <1>3, <1>7 DEF InItsBucket, OnePerKey, Ownership, SizeIsCount
<1> QED BY <1>3, <1>4, <1>6, <1>8 DEF IInv, TableInv

(* Taking an element out, to be detached or to be freed.                     *)
LEMMA TakenOutInv ==
  ASSUME IInv, NEW e \in Stored, NEW i, i = element[e].list_index,
         capacity' = capacity, table' = [table EXCEPT ![i] = Without(List(i), e)],
         size' = size - 1, Leave({e}),
         \/ element' = element /\ detached' = detached \union {e}
         \/ element' = [element EXCEPT ![e] = NULL] /\ detached' = detached
  PROVE  IInv'
<1>1. /\ TypeOK /\ InItsBucket /\ OnePerKey /\ IsFiniteSet(Stored)
      /\ size = Cardinality(Stored) /\ Cardinality(Stored) \in Nat
      /\ Stored \subseteq Elem /\ detached \subseteq Elem
      /\ Stored \intersect detached = {}
      /\ \A d \in Elem : element[d] # NULL <=> d \in Stored \union detached
      /\ element \in [Elem -> Record \union {NULL}]
  BY InvFacts
<1>2. \A d \in Elem : d # e => element'[d] = element[d]
  BY <1>1
<1>3. \A d \in Stored \ {e} : element'[d] = element[d]
  BY <1>1, <1>2
<1>4. /\ table' \in [0..capacity' - 1 -> Seq(Elem) \union {NULL}]
      /\ Stored' = Stored \ {e} /\ InItsBucket'
  BY <1>1, <1>3, TakenOut
<1>5. IsFiniteSet(Stored') /\ Cardinality(Stored') = Cardinality(Stored) - 1
  BY <1>1, <1>4, FS_RemoveElement
<1>6. Cardinality(Stored') \in Nat
  BY <1>5, FS_CardinalityType
<1>7. AtStored' /\ at' \in Elem \union {NULL} /\ visited' \subseteq Elem
      /\ stable' \subseteq Elem
  BY <1>4, LeaveFacts
<1>8. element' \in [Elem -> Record \union {NULL}] /\ detached' \subseteq Elem
  BY <1>1
<1>9. TypeOK'
  <2>1. capacity' \in Nat /\ size' \in Nat
    BY <1>1, <1>5, <1>6 DEF TypeOK
  <2> QED BY <1>4, <1>7, <1>8, <2>1 DEF TypeOK, Record
<1>10. OnePerKey'
  BY <1>1, <1>3, <1>4 DEF OnePerKey
<1>11. Ownership'
  <2>1. \A d \in Elem : element'[d] # NULL <=> d \in Stored' \union detached'
    <3> SUFFICES ASSUME NEW d \in Elem
                 PROVE  element'[d] # NULL <=> d \in Stored' \union detached'
      OBVIOUS
    <3>1. CASE d # e
      BY <1>1, <1>2, <1>4, <3>1
    <3>2. CASE d = e
      BY <1>1, <1>4, <3>2
    <3> QED BY <3>1, <3>2
  <2>2. Stored' \subseteq Elem /\ Stored' \intersect detached' = {}
    BY <1>1, <1>4
  <2> QED BY <1>8, <2>1, <2>2 DEF Ownership
<1>12. SizeIsCount'
  BY <1>1, <1>5 DEF SizeIsCount
<1> QED BY <1>4, <1>5, <1>7, <1>9, <1>10, <1>11, <1>12 DEF IInv, TableInv

LEMMA DetachInv == ASSUME IInv, NEW e \in Stored, detach(e) PROVE IInv'
  BY TakenOutInv DEF detach, Unlink

LEMMA RemoveInv == ASSUME IInv, NEW e \in Stored, Remove(e) PROVE IInv'
  BY TakenOutInv DEF Remove, Unlink

(* The first element of a bucket is the one at position 1.                   *)
LEMMA FirstWithout ==
  ASSUME NEW s \in Seq(Elem), Distinct(s), NEW e, 1 \in 1..Len(s), e = s[1]
  PROVE  Without(s, e) = RemovedAt(s, 1)
<1>1. e \in Cells(s)
  BY DEF Cells
<1>2. Position(s, e) \in DOMAIN s /\ s[Position(s, e)] = e
  BY <1>1, PositionFacts
<1>3. Position(s, e) = 1
  BY <1>2 DEF Distinct
<1> QED BY <1>3 DEF Without

LEMMA PopAnyFacts ==
  ASSUME IInv, PopAny, Filled(0) # {}
  PROVE  LET e == get_next(0)
             i == element[e].list_index
         IN  /\ e \in Stored /\ capacity' = capacity
             /\ table' = [table EXCEPT ![i] = Without(List(i), e)]
             /\ size' = size - 1 /\ Leave({e})
             /\ element' = element /\ detached' = detached \union {e}
<1> DEFINE j == Least(Filled(0))
           e == get_next(0)
<1>1. /\ j \in Buckets /\ 1 \in 1..Len(List(j)) /\ e = List(j)[1] /\ e \in Stored
      /\ element[e].list_index = j
  BY InvFacts, NextFacts
<1>2. List(j) \in Seq(Elem) /\ Distinct(List(j))
  BY <1>1, InvFacts, BucketFacts
<1>3. Without(List(j), e) = RemovedAt(List(j), 1)
  BY <1>1, <1>2, FirstWithout
<1>4. PopFirstOf(j)
  BY DEF PopAny
<1> HIDE DEF j, e
<1>5. /\ capacity' = capacity /\ table' = [table EXCEPT ![j] = Without(List(j), e)]
      /\ size' = size - 1 /\ Leave({e})
      /\ element' = element /\ detached' = detached \union {e}
  BY <1>1, <1>3, <1>4 DEF PopFirstOf
<1> QED BY <1>1, <1>5 DEF e
(* What a put leaves, once PutIn has said where the new element is.          *)
LEMMA PutNewInv ==
  ASSUME IInv, Live, NEW e \in Elem, NEW k \in Key, NEW v \in Value, PutNew(e, k, v)
  PROVE  IInv' /\ Stored' = Stored \union {e} /\ e \notin Stored
<1> DEFINE i == index(k)
           list == List(i)
<1>1. /\ TypeOK /\ InItsBucket /\ OnePerKey /\ IsFiniteSet(Stored)
      /\ size = Cardinality(Stored) /\ Cardinality(Stored) \in Nat
      /\ Stored \subseteq Elem /\ detached \subseteq Elem
      /\ Stored \intersect detached = {}
      /\ \A d \in Elem : element[d] # NULL <=> d \in Stored \union detached
      /\ element \in [Elem -> Record \union {NULL}]
  BY InvFacts
<1>2. /\ get(k) = NULL /\ add_element(e, i, list, k, v) /\ element[e] = NULL
      /\ size' = size + 1 /\ capacity' = capacity /\ detached' = detached
      /\ at' = at /\ visited' = visited /\ stable' = stable
  BY DEF PutNew, add_element, traversal
<1>3. list \in Seq(Elem) /\ Distinct(list) /\ Cells(list) \subseteq Stored
  BY <1>1, IndexFacts, BucketFacts
<1>4. /\ table' \in [0..capacity' - 1 -> Seq(Elem) \union {NULL}]
      /\ e \notin Stored
      /\ Stored' = (Stored \ Cells(List(index(k)))) \union Cells(list) \union {e}
      /\ InItsBucket'
      /\ element'[e] = [key |-> k, value |-> v, list_index |-> index(k)]
      /\ \A d \in Elem : d # e => element'[d] = element[d]
      /\ element' \in [Elem -> Record \union {NULL}]
  BY <1>1, <1>2, <1>3, PutIn
<1>5. Stored' = Stored \union {e}
  BY <1>3, <1>4
<1>6. IsFiniteSet(Stored') /\ Cardinality(Stored') = Cardinality(Stored) + 1
  <2>1. IsFiniteSet(Stored \union {e})
        /\ Cardinality(Stored \union {e}) = Cardinality(Stored) + 1
    BY <1>1, <1>4, FS_AddElement
  <2> QED BY <1>5, <2>1
<1>7. AtStored' /\ TypeOK'
  BY <1>1, <1>2, <1>4, <1>5 DEF IInv, AtStored, TypeOK, Record
<1>8. OnePerKey'
  <2>1. \A d \in Stored : Rank[element[d].key] # Rank[k] /\ element'[d] = element[d]
    BY <1>1, <1>2, <1>4, GetFacts
  <2>2. Rank[element'[e].key] = Rank[k]
    BY <1>4
  <2> QED BY <1>1, <1>5, <2>1, <2>2 DEF OnePerKey
<1>9. Ownership'
  <2>1. element'[e] # NULL
    <3>1. [key |-> k, value |-> v, list_index |-> index(k)] \in Record
      BY <1>1, IndexFacts DEF Record
    <3> QED BY <1>4, <3>1, NullAssumption DEF Record
  <2>2. \A d \in Elem : element'[d] # NULL <=> d \in Stored' \union detached'
    BY <1>1, <1>2, <1>4, <1>5, <2>1
  <2>3. Stored' \subseteq Elem /\ detached' \subseteq Elem /\ Stored' \intersect detached' = {}
    BY <1>1, <1>2, <1>5
  <2> QED BY <2>2, <2>3 DEF Ownership
<1>10. SizeIsCount'
  BY <1>1, <1>2, <1>6 DEF SizeIsCount
<1> QED BY <1>4, <1>5, <1>6, <1>7, <1>8, <1>9, <1>10 DEF IInv, TableInv

LEMMA PutOverInv ==
  ASSUME IInv, Live, NEW e \in Elem, NEW k \in Key, NEW v \in Value, PutOver(e, k, v)
  PROVE  IInv' /\ Stored' = (Stored \ {get(k)}) \union {e} /\ e \notin Stored
<1> DEFINE i == index(k)
           old == get(k)
           p == Position(List(i), old)
           list == Without(List(i), old)
<1>1. /\ TypeOK /\ InItsBucket /\ OnePerKey /\ IsFiniteSet(Stored)
      /\ size = Cardinality(Stored) /\ Cardinality(Stored) \in Nat
      /\ Stored \subseteq Elem /\ detached \subseteq Elem
      /\ Stored \intersect detached = {}
      /\ \A d \in Elem : element[d] # NULL <=> d \in Stored \union detached
      /\ element \in [Elem -> Record \union {NULL}]
  BY InvFacts
<1>2. /\ old # NULL /\ add_element(e, i, list, k, v) /\ element[e] = NULL
      /\ size' = size /\ capacity' = capacity /\ detached' = detached \union {old}
      /\ Leave({old})
  BY DEF PutOver, add_element
<1>3. /\ old \in Cells(List(i)) /\ old \in Stored
      /\ Rank[element[old].key] = Rank[k]
  BY <1>1, <1>2, GetFacts
<1>4. List(i) \in Seq(Elem) /\ Distinct(List(i)) /\ Cells(List(i)) \subseteq Stored
      /\ DOMAIN List(i) = 1..Len(List(i))
  BY <1>1, IndexFacts, BucketFacts
<1>5. list \in Seq(Elem) /\ Distinct(list) /\ Cells(list) = Cells(List(i)) \ {old}
  <2>1. p \in 1..Len(List(i)) /\ List(i)[p] = old
    BY <1>3, <1>4, PositionFacts
  <2> QED BY <1>4, <2>1, RemovedFacts DEF Without
<1> HIDE DEF list, old, p
<1>6. /\ table' \in [0..capacity' - 1 -> Seq(Elem) \union {NULL}]
      /\ e \notin Stored
      /\ Stored' = (Stored \ Cells(List(index(k)))) \union Cells(list) \union {e}
      /\ InItsBucket'
      /\ element'[e] = [key |-> k, value |-> v, list_index |-> index(k)]
      /\ \A d \in Elem : d # e => element'[d] = element[d]
      /\ element' \in [Elem -> Record \union {NULL}]
  <2>1. Cells(list) \subseteq Cells(List(index(k)))
    BY <1>5
  <2> QED BY <1>1, <1>2, <1>5, <2>1, PutIn
<1>7. Stored' = (Stored \ {old}) \union {e}
  BY <1>3, <1>4, <1>5, <1>6
<1>8. IsFiniteSet(Stored') /\ Cardinality(Stored') = Cardinality(Stored)
  <2> DEFINE kept == Stored \ {old}
  <2>1. IsFiniteSet(kept) /\ Cardinality(kept) = Cardinality(Stored) - 1
    BY <1>1, <1>3, FS_RemoveElement
  <2>2. e \notin kept
    BY <1>6
  <2> HIDE DEF kept
  <2>3. IsFiniteSet(kept \union {e}) /\ Cardinality(kept \union {e}) = Cardinality(kept) + 1
    BY <2>1, <2>2, FS_AddElement
  <2>4. Stored' = kept \union {e}
    BY <1>7 DEF kept
  <2> QED BY <1>1, <2>1, <2>3, <2>4
<1>9. AtStored' /\ at' \in Elem \union {NULL} /\ visited' \subseteq Elem
      /\ stable' \subseteq Elem
  BY <1>2, <1>7, LeaveFacts
<1>10. TypeOK'
  <2>1. detached' \subseteq Elem
    BY <1>1, <1>2, <1>3
  <2> QED BY <1>1, <1>2, <1>6, <1>9, <2>1 DEF TypeOK, Record
<1>11. OnePerKey'
  <2>1. ASSUME NEW d \in Stored \ {old}
        PROVE  Rank[element[d].key] # Rank[k] /\ element'[d] = element[d]
    <3>1. Rank[element[d].key] # Rank[element[old].key]
      BY <1>1, <1>3 DEF OnePerKey
    <3> QED BY <1>1, <1>3, <1>6, <3>1
  <2>2. Rank[element'[e].key] = Rank[k]
    BY <1>6
  <2> QED BY <1>1, <1>7, <2>1, <2>2 DEF OnePerKey
<1>12. Ownership'
  <2>1. element'[e] # NULL
    <3>1. [key |-> k, value |-> v, list_index |-> index(k)] \in Record
      BY <1>1, IndexFacts DEF Record
    <3> QED BY <1>6, <3>1, NullAssumption DEF Record
  <2>2. \A d \in Elem : element'[d] # NULL <=> d \in Stored' \union detached'
    BY <1>1, <1>2, <1>3, <1>6, <1>7, <2>1
  <2>3. Stored' \subseteq Elem /\ detached' \subseteq Elem
    BY <1>1, <1>2, <1>3, <1>7
  <2>4. Stored' \intersect detached' = {}
    BY <1>1, <1>2, <1>3, <1>6, <1>7
  <2> QED BY <2>2, <2>3, <2>4 DEF Ownership
<1>13. SizeIsCount'
  BY <1>1, <1>2, <1>8 DEF SizeIsCount
<1> QED BY <1>6, <1>7, <1>8, <1>9, <1>10, <1>11, <1>12, <1>13 DEF IInv, TableInv, old

LEMMA DestroyElementInv ==
  ASSUME IInv, NEW e \in detached, DestroyElement(e) PROVE IInv' /\ Stored' = Stored
<1>1. /\ TypeOK /\ InItsBucket /\ OnePerKey /\ IsFiniteSet(Stored)
      /\ Stored \subseteq Elem /\ detached \subseteq Elem
      /\ Stored \intersect detached = {}
      /\ \A d \in Elem : element[d] # NULL <=> d \in Stored \union detached
      /\ element \in [Elem -> Record \union {NULL}]
      /\ \A i \in Buckets : Cells(List(i)) \subseteq Stored
  BY InvFacts, BucketFacts
<1>2. /\ detached' = detached \ {e} /\ element' = [element EXCEPT ![e] = NULL]
      /\ capacity' = capacity /\ table' = table /\ size' = size
      /\ at' = at /\ visited' = visited /\ stable' = stable
  BY DEF DestroyElement, traversal
<1>3. Buckets' = Buckets /\ Stored' = Stored /\ \A i : List(i)' = List(i)
  BY <1>2 DEF Stored, List, Buckets
<1>4. \A d \in Elem : d # e => element'[d] = element[d]
  BY <1>1, <1>2
<1>5. \A d \in Stored : element'[d] = element[d]
  BY <1>1, <1>4
<1>6. TypeOK'
  BY <1>1, <1>2 DEF TypeOK, Record
<1>7. InItsBucket'
  <2> SUFFICES ASSUME NEW i \in Buckets
               PROVE  /\ Distinct(List(i))
                      /\ \A d \in Cells(List(i)) : /\ element'[d] # NULL
                                                   /\ element'[d].list_index = i
                                                   /\ index(element'[d].key) = i
    BY <1>2, <1>3 DEF InItsBucket, index
  <2>1. \A d \in Cells(List(i)) : element'[d] = element[d]
    BY <1>1, <1>5
  <2> QED BY <1>1, <2>1 DEF InItsBucket
<1>8. OnePerKey'
  BY <1>1, <1>3, <1>5 DEF OnePerKey
<1>9. Ownership'
  <2>1. element'[e] = NULL /\ e \in Elem
    BY <1>1, <1>2
  <2>2. \A d \in Elem : element'[d] # NULL <=> d \in Stored \union (detached \ {e})
    BY <1>1, <1>4, <2>1
  <2> QED BY <1>1, <1>2, <1>3, <2>2 DEF Ownership
<1>10. SizeIsCount' /\ AtStored' /\ IsFiniteSet(Stored')
  BY <1>1, <1>2, <1>3 DEF IInv, TableInv, SizeIsCount, AtStored
<1> QED BY <1>3, <1>6, <1>7, <1>8, <1>9, <1>10 DEF IInv, TableInv

(* A traversal that goes to an element of the table, or ends.                *)
LEMMA AtInv ==
  ASSUME IInv, at' = NULL \/ at' \in Stored, visited' \subseteq Elem, stable' \subseteq Elem,
         UNCHANGED store
  PROVE  IInv' /\ Stored' = Stored
<1>1. /\ capacity' = capacity /\ table' = table /\ size' = size /\ element' = element
      /\ detached' = detached
  BY DEF store
<1>2. Stored' = Stored /\ Stored \subseteq Elem
  BY <1>1, InvFacts DEF Stored, List, Buckets
<1>3. TypeOK' /\ AtStored' /\ IsFiniteSet(Stored')
  BY <1>1, <1>2 DEF IInv, TableInv, TypeOK, AtStored
<1>4. InItsBucket' /\ OnePerKey' /\ Ownership' /\ SizeIsCount'
  BY <1>1, <1>2 DEF IInv, TableInv, InItsBucket, OnePerKey, Ownership, SizeIsCount,
                    List, Buckets, index
<1> QED BY <1>2, <1>3, <1>4 DEF IInv, TableInv

LEMMA SameInv == ASSUME IInv, UNCHANGED <<store, traversal>> PROVE IInv' /\ Stored' = Stored
<1>1. UNCHANGED store /\ at' = at /\ visited' = visited /\ stable' = stable
  BY DEF traversal
<1>2. /\ visited \subseteq Elem /\ stable \subseteq Elem
      /\ at = NULL \/ at \in Stored
  BY DEF IInv, TableInv, TypeOK, AtStored
<1> QED BY <1>1, <1>2, AtInv

LEMMA GetAnyInv == ASSUME IInv, GetAny PROVE IInv' /\ Stored' = Stored
<1>1. at' = NULL \/ at' \in Stored
  BY InvFacts, NextFacts DEF GetAny
<1>2. visited' \subseteq Elem /\ stable' \subseteq Elem /\ UNCHANGED store
  BY <1>1, InvFacts DEF GetAny
<1> QED BY <1>1, <1>2, AtInv

(* The element after the one a traversal is at: next to it in its bucket, or *)
(* the first of the later ones.                                              *)
LEMMA OtherFacts ==
  ASSUME IInv, at # NULL
  PROVE  LET i == element[at].list_index
             p == Position(List(i), at)
         IN  /\ i \in Buckets /\ i \in Nat /\ List(i) \in Seq(Elem) /\ Distinct(List(i))
             /\ Len(List(i)) \in Nat /\ DOMAIN List(i) = 1..Len(List(i))
             /\ p \in 1..Len(List(i)) /\ List(i)[p] = at
             /\ p < Len(List(i)) => /\ p + 1 \in DOMAIN List(i)
                                    /\ get_other(at) = List(i)[p + 1]
                                    /\ get_other(at) \in Cells(List(i))
             /\ p = Len(List(i)) => get_other(at) = get_next(i + 1)
             /\ get_other(at) = NULL \/ get_other(at) \in Stored
<1> DEFINE i == element[at].list_index
           p == Position(List(i), at)
<1>1. /\ i \in Buckets /\ List(i) \in Seq(Elem) /\ Distinct(List(i))
      /\ Len(List(i)) \in Nat /\ DOMAIN List(i) = 1..Len(List(i))
      /\ at \in Cells(List(i)) /\ Cells(List(i)) \subseteq Stored
  BY InvFacts, BucketFacts DEF IInv, AtStored
<1>2. i \in Nat
  BY <1>1 DEF Buckets
<1>3. p \in 1..Len(List(i)) /\ List(i)[p] = at
  BY <1>1, PositionFacts
<1>4. get_other(at) = IF p < Len(List(i)) THEN List(i)[p + 1] ELSE get_next(i + 1)
  BY DEF get_other
<1> HIDE DEF p, i
<1>5. CASE p < Len(List(i))
  <2>0. p + 1 \in 1..Len(List(i)) /\ p # Len(List(i))
    <3> DEFINE L == Len(List(i))
    <3>1. L \in Nat /\ p \in 1..L /\ p < L
      BY <1>1, <1>3, <1>5
    <3> HIDE DEF L
    <3>2. p + 1 \in 1..L /\ p # L
      BY <3>1
    <3> QED BY <3>2 DEF L
  <2>1. p + 1 \in DOMAIN List(i) /\ get_other(at) = List(i)[p + 1] /\ p # Len(List(i))
    BY <1>1, <1>4, <1>5, <2>0
  <2>2. get_other(at) \in Cells(List(i))
    BY <2>1 DEF Cells
  <2> QED BY <1>1, <1>2, <1>3, <2>1, <2>2 DEF p, i
<1>6. CASE ~(p < Len(List(i)))
  <2>1. get_other(at) = get_next(i + 1) /\ i + 1 \in Nat
    BY <1>2, <1>4, <1>6
  <2>2. get_other(at) = NULL \/ get_other(at) \in Stored
    BY <2>1, InvFacts, NextFacts
  <2> QED BY <1>1, <1>2, <1>3, <1>6, <2>1, <2>2 DEF p, i
<1> QED BY <1>5, <1>6

LEMMA GetOtherInv == ASSUME IInv, GetOther PROVE IInv' /\ Stored' = Stored
<1>1. at # NULL /\ at' = get_other(at) /\ UNCHANGED store
  BY DEF GetOther
<1>2. at' = NULL \/ at' \in Stored
  BY <1>1, OtherFacts
<1>3. visited' \subseteq Elem /\ stable' \subseteq Elem
  <2>1. visited \subseteq Elem /\ stable \subseteq Elem /\ Stored \subseteq Elem
    BY InvFacts DEF TypeOK
  <2> QED BY <1>2, <2>1 DEF GetOther
<1> QED BY <1>1, <1>2, <1>3, AtInv

LEMMA NextInv == IInv /\ [Next]_vars => IInv'
<1> SUFFICES ASSUME IInv, [Next]_vars PROVE IInv'
  OBVIOUS
<1>1. CASE \E request \in Request : Make(request)
  BY <1>1, MakeInv
<1>2. CASE Destroy
  BY <1>2, DestroyInv
<1>3. CASE PopAny
  <2>1. CASE Filled(0) = {}
    BY <1>3, <2>1, SameInv DEF PopAny
  <2>2. CASE Filled(0) # {}
    <3> DEFINE e == get_next(0)
               i == element[e].list_index
    <3>1. /\ e \in Stored /\ capacity' = capacity
          /\ table' = [table EXCEPT ![i] = Without(List(i), e)]
          /\ size' = size - 1 /\ Leave({e})
          /\ element' = element /\ detached' = detached \union {e}
      BY <1>3, <2>2, PopAnyFacts
    <3> QED BY <3>1, TakenOutInv
  <2> QED BY <2>1, <2>2
<1>4. CASE GetAny
  BY <1>4, GetAnyInv
<1>5. CASE GetOther
  BY <1>5, GetOtherInv
<1>6. ASSUME NEW k \in Key, Get(k)
      PROVE  IInv'
  BY <1>6, SameInv DEF Get
<1>7. ASSUME NEW k \in Key, Pop(k)
      PROVE  IInv'
  <2>1. Live /\ DetachIfAny(get(k))
    BY <1>7 DEF Pop
  <2>2. CASE get(k) = NULL
    BY <2>1, <2>2, SameInv DEF DetachIfAny
  <2>3. CASE get(k) # NULL
    <3>1. get(k) \in Stored
      BY <2>1, <2>3, InvFacts, GetFacts
    <3> QED BY <2>1, <2>3, <3>1, DetachInv DEF DetachIfAny
  <2> QED BY <2>2, <2>3
<1>8. ASSUME NEW k \in Key, NEW v \in Value, Put(k, v)
      PROVE  IInv'
  <2>1. CASE PutStored(k, v)
    BY <2>1, SameInv DEF PutStored
  <2>2. ASSUME NEW e \in Elem, PutOver(e, k, v) PROVE IInv'
    BY <1>8, <2>2, PutOverInv DEF Put
  <2>3. ASSUME NEW e \in Elem, PutNew(e, k, v) PROVE IInv'
    BY <1>8, <2>3, PutNewInv DEF Put
  <2> QED BY <1>8, <2>1, <2>2, <2>3 DEF Put
<1>9. ASSUME NEW e \in Stored, Detach(e)
      PROVE  IInv'
  BY <1>9, DetachInv DEF Detach
<1>10. ASSUME NEW e \in Stored, Remove(e)
       PROVE  IInv'
  BY <1>10, RemoveInv
<1>11. ASSUME NEW e \in detached, DestroyElement(e)
       PROVE  IInv'
  BY <1>11, DestroyElementInv
<1>12. CASE UNCHANGED vars
  BY <1>12, SameInv DEF vars
<1> QED BY <1>1, <1>2, <1>3, <1>4, <1>5, <1>6, <1>7, <1>8, <1>9, <1>10, <1>11, <1>12 DEF Next

(* After any history of calls every element is in the bucket where its key   *)
(* is looked for and where it would be unlinked from, no key is there twice, *)
(* the size is the number of elements, and each element that is allocated is *)
(* in the table or the client's, never both: src/hashtable.c.                *)
THEOREM TableCorrect == Spec => []TableInv
<1>1. IInv => TableInv
  BY DEF IInv
<1> QED BY <1>1, InitInv, NextInv, PTL DEF Spec
------------------------------------------------------------------------------
(* What a traversal has given: in its own bucket the stable elements up to   *)
(* the one it is at, all of those in earlier buckets, none of later ones.    *)
AheadAndBehind(i, V, W) ==
  \A j \in Buckets : /\ j < i => Cells(List(j)) \intersect W \subseteq V
                     /\ j > i => Cells(List(j)) \intersect V = {}
Traversal ==
  IF at = NULL
  THEN visited = {} /\ stable = {}
  ELSE LET i == element[at].list_index
       IN  /\ visited \subseteq Stored /\ stable \subseteq Stored
           /\ Scanned(List(i), Position(List(i), at), visited, stable)
           /\ AheadAndBehind(i, visited, stable)

LEMMA PositionOneWay ==
  ASSUME NEW s, Distinct(s), NEW n \in DOMAIN s, NEW c, c = s[n]
  PROVE  Position(s, c) = n /\ c \in Cells(s)
<1>1. c \in Cells(s)
  BY DEF Cells
<1>2. Position(s, c) \in DOMAIN s /\ s[Position(s, c)] = c
  BY <1>1, PositionFacts
<1> QED BY <1>1, <1>2 DEF Distinct

(* A scan goes on where it was when another element leaves its bucket, and   *)
(* when one is appended to it.                                               *)
LEMMA WithoutScanned ==
  ASSUME NEW s \in Seq(Elem), Distinct(s), NEW c \in Cells(s), NEW a \in Cells(s), a # c,
         NEW V, NEW W, Scanned(s, Position(s, a), V, W)
  PROVE  /\ Without(s, c) \in Seq(Elem) /\ Distinct(Without(s, c))
         /\ a \in Cells(Without(s, c))
         /\ Cells(Without(s, c)) = Cells(s) \ {c}
         /\ Scanned(Without(s, c), Position(Without(s, c), a), V \ {c}, W \ {c})
<1> DEFINE k == Position(s, c)
           p == Position(s, a)
           t == RemovedAt(s, k)
           q == IF k <= p THEN p - 1 ELSE p
<1>1. Len(s) \in Nat /\ DOMAIN s = 1..Len(s)
  OBVIOUS
<1>2. k \in 1..Len(s) /\ s[k] = c /\ p \in 1..Len(s) /\ s[p] = a
  BY <1>1, PositionFacts
<1> HIDE DEF k, p
<1>3. k # p /\ p \in 0..Len(s)
  BY <1>2
<1>4. /\ t \in Seq(Elem) /\ Len(t) = Len(s) - 1
      /\ \A i \in 1..Len(s) - 1 : t[i] = IF i < k THEN s[i] ELSE s[i + 1]
      /\ Cells(t) = Cells(s) \ {s[k]} /\ Distinct(t)
  <2>1. /\ RemovedAt(s, k) \in Seq(Elem)
        /\ Len(RemovedAt(s, k)) = Len(s) - 1
        /\ \A i \in 1..Len(s) - 1 :
             RemovedAt(s, k)[i] = IF i < k THEN s[i] ELSE s[i + 1]
        /\ Distinct(s) => /\ Cells(RemovedAt(s, k)) = Cells(s) \ {s[k]}
                          /\ Distinct(RemovedAt(s, k))
    BY <1>2, RemovedFacts
  <2> QED BY <2>1
<1>5. Scanned(s, p, V, W)
  BY DEF p
<1>6. Scanned(t, q, V \ {s[k]}, W \ {s[k]})
  BY <1>2, <1>3, <1>5, RemovedScanned
<1> HIDE DEF t
<1>7. q \in 1..Len(t) /\ t[q] = a /\ DOMAIN t = 1..Len(t)
  BY <1>1, <1>2, <1>3, <1>4
<1>8. Position(t, a) = q /\ a \in Cells(t)
  BY <1>4, <1>7, PositionOneWay
<1> QED BY <1>2, <1>4, <1>6, <1>8 DEF Without, t, k

LEMMA AtEndCells ==
  ASSUME NEW s \in Seq(Elem), NEW c \in Elem
  PROVE  Cells(AtEnd(s, c)) = Cells(s) \union {c}
<1> DEFINE n == Len(s) + 1
<1>1. n \in 1..Len(s) + 1
  OBVIOUS
<1> HIDE DEF n
<1>2. /\ InsertedAt(s, n, c) \in Seq(Elem)
      /\ Len(InsertedAt(s, n, c)) = Len(s) + 1
      /\ \A i \in 1..Len(s) + 1 :
           InsertedAt(s, n, c)[i] =
             IF i < n THEN s[i] ELSE IF i = n THEN c ELSE s[i - 1]
      /\ Cells(InsertedAt(s, n, c)) = Cells(s) \union {c}
      /\ Distinct(s) /\ c \notin Cells(s) => Distinct(InsertedAt(s, n, c))
  BY <1>1, InsertedFacts
<1> QED BY <1>2 DEF AtEnd, n

LEMMA AtEndScanned ==
  ASSUME NEW s \in Seq(Elem), Distinct(s), NEW c \in Elem, c \notin Cells(s),
         NEW a \in Cells(s), NEW V, NEW W, c \notin V, c \notin W,
         Scanned(s, Position(s, a), V, W)
  PROVE  Scanned(AtEnd(s, c), Position(AtEnd(s, c), a), V, W)
<1> DEFINE k == Len(s) + 1
           p == Position(s, a)
           t == InsertedAt(s, k, c)
<1>1. Len(s) \in Nat /\ DOMAIN s = 1..Len(s) /\ k \in 1..Len(s) + 1
  OBVIOUS
<1>2. p \in 1..Len(s) /\ s[p] = a
  BY <1>1, PositionFacts
<1> HIDE DEF p
<1>3. ~(k <= p) /\ p < k /\ p \in 0..Len(s) /\ p \in 1..Len(s) + 1
  BY <1>1, <1>2
<1>4. Scanned(s, p, V, W)
  BY DEF p
<1> HIDE DEF k
<1>5. Scanned(t, IF k <= p THEN p + 1 ELSE p, V, W)
  BY <1>1, <1>3, <1>4, InsertedScanned
<1>6. /\ t \in Seq(Elem) /\ Len(t) = Len(s) + 1
      /\ \A i \in 1..Len(s) + 1 :
           t[i] = IF i < k THEN s[i] ELSE IF i = k THEN c ELSE s[i - 1]
      /\ Cells(t) = Cells(s) \union {c} /\ Distinct(t)
  <2>1. /\ InsertedAt(s, k, c) \in Seq(Elem)
        /\ Len(InsertedAt(s, k, c)) = Len(s) + 1
        /\ \A i \in 1..Len(s) + 1 :
             InsertedAt(s, k, c)[i] =
               IF i < k THEN s[i] ELSE IF i = k THEN c ELSE s[i - 1]
        /\ Cells(InsertedAt(s, k, c)) = Cells(s) \union {c}
        /\ Distinct(s) /\ c \notin Cells(s) => Distinct(InsertedAt(s, k, c))
    BY <1>1, InsertedFacts
  <2> QED BY <2>1
<1> HIDE DEF t
<1>7. p \in DOMAIN t /\ t[p] = a
  BY <1>2, <1>3, <1>6
<1>8. Position(t, a) = p
  BY <1>6, <1>7, PositionOneWay
<1> QED BY <1>3, <1>5, <1>8 DEF AtEnd, t, k

(* What has to be shown of a step that leaves the traversal at its element.  *)
LEMMA TraversalStays ==
  ASSUME IInv, Traversal, at # NULL, at' = at, NEW G, NEW i, i = element[at].list_index,
         visited' = visited \ G, stable' = stable \ G, Stored \ G \subseteq Stored',
         element'[at].list_index = element[at].list_index, Buckets' = Buckets,
         \A j \in Buckets :
           Cells(List(j)') \intersect (visited \union stable) \subseteq Cells(List(j)),
         Scanned(List(i)', Position(List(i)', at), visited', stable')
  PROVE  Traversal'
<1>1. visited \subseteq Stored /\ stable \subseteq Stored /\ AheadAndBehind(i, visited, stable)
  BY DEF Traversal
<1>2. visited' \subseteq Stored' /\ stable' \subseteq Stored'
  BY <1>1
<1>3. \A j \in Buckets : /\ j < i => Cells(List(j)') \intersect stable' \subseteq visited'
                         /\ j > i => Cells(List(j)') \intersect visited' = {}
  BY <1>1 DEF AheadAndBehind
<1>4. AheadAndBehind(i, visited, stable)'
  BY <1>3 DEF AheadAndBehind
<1> QED BY <1>2, <1>4 DEF Traversal

LEMMA TraversalEnds ==
  ASSUME Traversal, NEW S, Leave(S), at = NULL \/ at \in S
  PROVE  Traversal'
  BY DEF Leave, Traversal

(* A scan is not disturbed by what happens in other buckets.                 *)
LEMMA SameScanned ==
  ASSUME NEW s, NEW p, NEW V, NEW W, NEW c, c \notin Cells(s), Scanned(s, p, V, W)
  PROVE  Scanned(s, p, V \ {c}, W \ {c})
  BY DEF Scanned, Cells
LEMMA TakenOutTraversal ==
  ASSUME IInv, Traversal, NEW e \in Stored, NEW i, i = element[e].list_index,
         capacity' = capacity, table' = [table EXCEPT ![i] = Without(List(i), e)],
         \A d \in Stored \ {e} : element'[d] = element[d], Leave({e})
  PROVE  Traversal'
<1>1. CASE at = NULL \/ at = e
  BY <1>1, TraversalEnds
<1>2. CASE at # NULL /\ at # e
  <2>0. PICK b : b = element[at].list_index
    OBVIOUS
  <2> DEFINE V == visited
             W == stable
  <2>1. at' = at /\ visited' = V \ {e} /\ stable' = W \ {e}
    BY <1>2 DEF Leave
  <2>2. /\ Buckets' = Buckets
        /\ List(i)' = Without(List(i), e)
        /\ \A j \in Buckets : j # i => List(j)' = List(j)
        /\ Stored' = Stored \ {e}
    <3>1. TypeOK /\ InItsBucket
      BY InvFacts
    <3> QED BY <3>1, TakenOut
  <2>3. /\ at \in Stored /\ b \in Buckets /\ at \in Cells(List(b))
        /\ i \in Buckets /\ e \in Cells(List(i))
        /\ \A j \in Buckets : /\ List(j) \in Seq(Elem) /\ Distinct(List(j))
                              /\ \A d \in Cells(List(j)) : element[d].list_index = j
    BY <1>2, <2>0, InvFacts, BucketFacts DEF IInv, AtStored
  <2>4. element'[at].list_index = element[at].list_index
    BY <1>2, <2>3
  <2>5. Scanned(List(b), Position(List(b), at), V, W)
    BY <1>2, <2>0 DEF Traversal
  <2>6. e \in Cells(List(b)) => b = i
    BY <2>3
  <2> HIDE DEF V, W
  <2>7. Scanned(List(b)', Position(List(b)', at), V \ {e}, W \ {e})
    <3>1. CASE b = i
      <4>1. List(b)' = Without(List(b), e) /\ e \in Cells(List(b))
        BY <2>2, <2>3, <3>1
      <4>2. Scanned(Without(List(b), e), Position(Without(List(b), e), at), V \ {e}, W \ {e})
        BY <1>2, <2>3, <2>5, <4>1, WithoutScanned
      <4> QED BY <4>1, <4>2
    <3>2. CASE b # i
      <4>1. List(b)' = List(b) /\ e \notin Cells(List(b))
        BY <2>2, <2>3, <2>6, <3>2
      <4>2. Scanned(List(b), Position(List(b), at), V \ {e}, W \ {e})
        BY <2>5, <4>1, SameScanned
      <4> QED BY <4>1, <4>2
    <3> QED BY <3>1, <3>2
  <2>8. ASSUME NEW j \in Buckets
        PROVE  Cells(List(j)') \subseteq Cells(List(j))
    <3>1. CASE j = i
      <4>1. List(j) \in Seq(Elem) /\ Distinct(List(j)) /\ e \in Cells(List(j))
            /\ List(j)' = Without(List(j), e)
        BY <2>2, <2>3, <3>1
      <4> DEFINE k == Position(List(j), e)
      <4>2. k \in 1..Len(List(j))
        BY <4>1, PositionFacts
      <4>3. Cells(RemovedAt(List(j), k)) = Cells(List(j)) \ {List(j)[k]}
        BY <4>1, <4>2, RemovedFacts
      <4> QED BY <4>1, <4>3 DEF Without
    <3>2. CASE j # i
      BY <2>2, <3>2
    <3> QED BY <3>1, <3>2
  <2> QED BY <1>2, <2>0, <2>1, <2>2, <2>4, <2>7, <2>8, TraversalStays DEF V, W
<1> QED BY <1>1, <1>2

LEMMA PutNewTraversal ==
  ASSUME IInv, Traversal, Live, NEW e \in Elem, NEW k \in Key, NEW v \in Value,
         PutNew(e, k, v)
  PROVE  Traversal'
<1>0. PICK i : i = index(k)
  OBVIOUS
<1>1. /\ add_element(e, i, List(i), k, v) /\ capacity' = capacity
      /\ at' = at /\ visited' = visited /\ stable' = stable
  BY <1>0 DEF PutNew, traversal
<1>2. i \in Buckets
  BY <1>0, InvFacts, IndexFacts
<1>3. /\ \A j \in Buckets : List(j) \in Seq(Elem) /\ Distinct(List(j))
                            /\ Cells(List(j)) \subseteq Stored
  BY InvFacts, BucketFacts
<1>4. /\ Buckets' = Buckets
      /\ \A j \in Buckets : List(j)' = IF j = i THEN AtEnd(List(i), e) ELSE List(j)
      /\ e \notin Stored
      /\ Stored' = (Stored \ Cells(List(i))) \union Cells(List(i)) \union {e}
      /\ \A d \in Elem : d # e => element'[d] = element[d]
  <2> DEFINE list == List(i)
  <2>1. /\ list \in Seq(Elem) /\ Distinct(list) /\ Cells(list) \subseteq Cells(List(index(k)))
        /\ add_element(e, index(k), list, k, v)
    BY <1>0, <1>1, <1>2, <1>3
  <2> HIDE DEF list
  <2>2. /\ Buckets' = Buckets
        /\ table' \in [0..capacity' - 1 -> Seq(Elem) \union {NULL}]
        /\ \A j \in Buckets :
             List(j)' = IF j = index(k) THEN AtEnd(list, e) ELSE List(j)
        /\ e \notin Stored
        /\ Stored' = (Stored \ Cells(List(index(k)))) \union Cells(list) \union {e}
        /\ InItsBucket'
        /\ element'[e] = [key |-> k, value |-> v, list_index |-> index(k)]
        /\ \A d \in Elem : d # e => element'[d] = element[d]
        /\ element' \in [Elem -> Record \union {NULL}]
    BY <1>1, <2>1, InvFacts, PutIn
  <2> QED BY <1>0, <2>2 DEF list
<1>5. CASE at = NULL
  BY <1>1, <1>5 DEF Traversal
<1>6. CASE at # NULL
  <2>0. PICK b : b = element[at].list_index
    OBVIOUS
  <2> DEFINE V == visited
             W == stable
  <2>1. /\ at \in Stored /\ b \in Buckets /\ at \in Cells(List(b)) /\ at \in Elem
    BY <1>6, <2>0, InvFacts, BucketFacts DEF IInv, AtStored
  <2>2. element'[at].list_index = element[at].list_index
    BY <1>4, <2>1
  <2>3. /\ Scanned(List(b), Position(List(b), at), V, W)
        /\ e \notin V /\ e \notin W
    BY <1>4, <1>6, <2>0 DEF Traversal
  <2> HIDE DEF V, W
  <2>4. Scanned(List(b)', Position(List(b)', at), V, W)
    <3>1. CASE b = i
      <4>1. List(b)' = AtEnd(List(b), e) /\ e \notin Cells(List(b))
        BY <1>2, <1>3, <1>4, <3>1
      <4>2. Scanned(AtEnd(List(b), e), Position(AtEnd(List(b), e), at), V, W)
        BY <1>3, <2>1, <2>3, <4>1, AtEndScanned
      <4> QED BY <4>1, <4>2
    <3>2. CASE b # i
      <4>1. List(b)' = List(b)
        BY <1>4, <2>1, <3>2
      <4> QED BY <2>3, <4>1
    <3> QED BY <3>1, <3>2
  <2>5. ASSUME NEW j \in Buckets
        PROVE  Cells(List(j)') \intersect (V \union W) \subseteq Cells(List(j))
    <3>1. CASE j = i
      <4> DEFINE s == List(j)
      <4>1. s \in Seq(Elem) /\ s' = AtEnd(s, e)
        BY <1>3, <1>4, <3>1
      <4>2. Cells(AtEnd(s, e)) = Cells(s) \union {e}
        BY <4>1, AtEndCells
      <4> QED BY <2>3, <4>1, <4>2
    <3>2. CASE j # i
      BY <1>4, <3>2
    <3> QED BY <3>1, <3>2
  <2>6. Stored \ {} \subseteq Stored' /\ visited' = V \ {} /\ stable' = W \ {}
    BY <1>1, <1>4 DEF V, W
  <2>7. Scanned(List(b)', Position(List(b)', at), visited', stable')
    BY <1>1, <2>4 DEF V, W
  <2> QED BY <1>1, <1>4, <1>6, <2>0, <2>2, <2>5, <2>6, <2>7, TraversalStays DEF V, W
<1> QED BY <1>5, <1>6

LEMMA PutOverTraversal ==
  ASSUME IInv, Traversal, Live, NEW e \in Elem, NEW k \in Key, NEW v \in Value,
         PutOver(e, k, v)
  PROVE  Traversal'
<1>0. PICK i : i = index(k)
  OBVIOUS
<1> DEFINE old == get(k)
           list == Without(List(i), old)
<1>1. /\ add_element(e, i, list, k, v) /\ capacity' = capacity /\ Leave({old})
      /\ old # NULL
  BY <1>0 DEF PutOver
<1>2. i \in Buckets /\ old \in Cells(List(i)) /\ old \in Stored
      /\ element[old].list_index = i
  BY <1>0, <1>1, InvFacts, IndexFacts, GetFacts
<1>3. /\ \A j \in Buckets : /\ List(j) \in Seq(Elem) /\ Distinct(List(j))
                            /\ DOMAIN List(j) = 1..Len(List(j))
                            /\ Cells(List(j)) \subseteq Stored
                            /\ \A d \in Cells(List(j)) : element[d].list_index = j
  BY InvFacts, BucketFacts
<1>4. list \in Seq(Elem) /\ Distinct(list) /\ Cells(list) = Cells(List(i)) \ {old}
  <2> DEFINE p == Position(List(i), old)
  <2>1. p \in 1..Len(List(i)) /\ List(i)[p] = old
    BY <1>2, <1>3, PositionFacts
  <2> QED BY <1>2, <1>3, <2>1, RemovedFacts DEF Without
<1> HIDE DEF list, old
<1>5. /\ Buckets' = Buckets
      /\ \A j \in Buckets : List(j)' = IF j = i THEN AtEnd(list, e) ELSE List(j)
      /\ e \notin Stored
      /\ Stored' = (Stored \ Cells(List(i))) \union Cells(list) \union {e}
      /\ \A d \in Elem : d # e => element'[d] = element[d]
  <2>1. /\ Cells(list) \subseteq Cells(List(index(k)))
        /\ add_element(e, index(k), list, k, v)
    BY <1>0, <1>1, <1>4
  <2>2. /\ Buckets' = Buckets
        /\ table' \in [0..capacity' - 1 -> Seq(Elem) \union {NULL}]
        /\ \A j \in Buckets :
             List(j)' = IF j = index(k) THEN AtEnd(list, e) ELSE List(j)
        /\ e \notin Stored
        /\ Stored' = (Stored \ Cells(List(index(k)))) \union Cells(list) \union {e}
        /\ InItsBucket'
        /\ element'[e] = [key |-> k, value |-> v, list_index |-> index(k)]
        /\ \A d \in Elem : d # e => element'[d] = element[d]
        /\ element' \in [Elem -> Record \union {NULL}]
    BY <1>1, <1>4, <2>1, InvFacts, PutIn
  <2> QED BY <1>0, <2>2
<1>6. CASE at = NULL \/ at = old
  BY <1>1, <1>6, TraversalEnds
<1>7. CASE at # NULL /\ at # old
  <2>0. PICK b : b = element[at].list_index
    OBVIOUS
  <2> DEFINE V == visited
             W == stable
  <2>1. /\ at \in Stored /\ b \in Buckets /\ at \in Cells(List(b)) /\ at \in Elem
    BY <1>7, <2>0, InvFacts, BucketFacts DEF IInv, AtStored
  <2>2. element'[at].list_index = element[at].list_index
    BY <1>5, <2>1
  <2>3. /\ Scanned(List(b), Position(List(b), at), V, W)
        /\ e \notin V /\ e \notin W
    BY <1>5, <1>7, <2>0 DEF Traversal
  <2>4. at' = at /\ visited' = V \ {old} /\ stable' = W \ {old}
    BY <1>1, <1>7 DEF Leave
  <2>5. old \in Cells(List(b)) => b = i
    BY <1>2, <1>3, <2>1
  <2> HIDE DEF V, W
  <2>6. Scanned(List(b)', Position(List(b)', at), V \ {old}, W \ {old})
    <3>1. CASE b = i
      <4>1. List(b)' = AtEnd(list, e) /\ e \notin Cells(list)
        BY <1>2, <1>3, <1>4, <1>5, <3>1
      <4>2. /\ at \in Cells(Without(List(b), old))
            /\ Scanned(Without(List(b), old), Position(Without(List(b), old), at),
                       V \ {old}, W \ {old})
        BY <1>2, <1>3, <1>7, <2>1, <2>3, <3>1, WithoutScanned
      <4>3. at \in Cells(list) /\ Scanned(list, Position(list, at), V \ {old}, W \ {old})
        BY <3>1, <4>2 DEF list
      <4>4. e \notin V \ {old} /\ e \notin W \ {old}
        BY <2>3
      <4>5. Scanned(AtEnd(list, e), Position(AtEnd(list, e), at), V \ {old}, W \ {old})
        BY <1>4, <4>1, <4>3, <4>4, AtEndScanned
      <4> QED BY <4>1, <4>5
    <3>2. CASE b # i
      <4>1. List(b)' = List(b) /\ old \notin Cells(List(b))
        BY <1>5, <2>1, <2>5, <3>2
      <4>2. Scanned(List(b), Position(List(b), at), V \ {old}, W \ {old})
        BY <2>3, <4>1, SameScanned
      <4> QED BY <4>1, <4>2
    <3> QED BY <3>1, <3>2
  <2>7. ASSUME NEW j \in Buckets
        PROVE  Cells(List(j)') \intersect (V \union W) \subseteq Cells(List(j))
    <3>1. CASE j = i
      <4>1. List(j)' = AtEnd(list, e)
        BY <1>5, <3>1
      <4>2. Cells(AtEnd(list, e)) = Cells(list) \union {e}
        BY <1>4, AtEndCells
      <4> QED BY <1>4, <2>3, <3>1, <4>1, <4>2
    <3>2. CASE j # i
      BY <1>5, <3>2
    <3> QED BY <3>1, <3>2
  <2>8. Stored \ {old} \subseteq Stored'
    BY <1>4, <1>5
  <2>9. Scanned(List(b)', Position(List(b)', at), visited', stable')
    BY <2>4, <2>6
  <2> QED BY <1>5, <1>7, <2>0, <2>2, <2>4, <2>7, <2>8, <2>9, TraversalStays DEF V, W
<1> QED BY <1>6, <1>7
(* A step that leaves the buckets and the elements in them alone.            *)
LEMMA SameTraversal ==
  ASSUME IInv, Traversal, capacity' = capacity, table' = table,
         \A d \in Stored : element'[d] = element[d], UNCHANGED traversal
  PROVE  Traversal'
<1>1. /\ at' = at /\ visited' = visited /\ stable' = stable
  BY DEF traversal
<1>2. Buckets' = Buckets /\ Stored' = Stored /\ \A j : List(j)' = List(j)
  BY DEF Stored, List, Buckets
<1>3. CASE at = NULL
  BY <1>1, <1>3 DEF Traversal
<1>4. CASE at # NULL
  <2>1. at \in Stored /\ element'[at] = element[at]
    BY <1>4 DEF IInv, AtStored
  <2>2. PICK b : b = element[at].list_index
    OBVIOUS
  <2>3. Scanned(List(b), Position(List(b), at), visited, stable)
    BY <1>4, <2>2 DEF Traversal
  <2>4. Scanned(List(b)', Position(List(b)', at), visited', stable')
    BY <1>1, <1>2, <2>3
  <2>5. \A j \in Buckets :
          Cells(List(j)') \intersect (visited \union stable) \subseteq Cells(List(j))
    BY <1>2
  <2>6. visited' = visited \ {} /\ stable' = stable \ {} /\ Stored \ {} \subseteq Stored'
    BY <1>1, <1>2
  <2> QED BY <1>1, <1>2, <1>4, <2>1, <2>2, <2>4, <2>5, <2>6, TraversalStays
<1> QED BY <1>3, <1>4

LEMMA MakeTraversal == ASSUME IInv, Traversal, NEW request \in Request, Make(request)
                       PROVE  Traversal'
<1>1. ~(capacity > 0) /\ capacity \in Nat /\ UNCHANGED traversal
  BY DEF IInv, TableInv, TypeOK, Make, Live
<1>2. Stored = {}
  BY <1>1 DEF Stored, Buckets
<1>3. at = NULL
  BY <1>2 DEF IInv, AtStored
<1> QED BY <1>1, <1>3 DEF Traversal, traversal

LEMMA DestroyTraversal == ASSUME IInv, Traversal, Destroy PROVE Traversal'
  BY TraversalEnds DEF Destroy, IInv, AtStored

LEMMA GetAnyTraversal == ASSUME IInv, GetAny PROVE Traversal'
<1>1. /\ at' = get_next(0) /\ visited' = {at'} \ {NULL} /\ stable' = Stored
      /\ capacity' = capacity /\ table' = table /\ element' = element
  BY DEF GetAny, store
<1>2. Buckets' = Buckets /\ Stored' = Stored /\ \A j : List(j)' = List(j)
  BY <1>1 DEF Stored, List, Buckets
<1>3. TypeOK /\ InItsBucket /\ \A j \in Buckets : j \in Nat
  BY InvFacts DEF Buckets
<1>4. \A j \in Buckets : /\ List(j) \in Seq(Elem) /\ Distinct(List(j))
                         /\ DOMAIN List(j) = 1..Len(List(j))
                         /\ \A d \in Cells(List(j)) : element[d].list_index = j
  BY <1>3, BucketFacts
<1>5. CASE Filled(0) = {}
  <2>1. get_next(0) = NULL /\ \A j \in Buckets : j >= 0 => Cells(List(j)) = {}
    BY <1>3, <1>5, NextFacts
  <2>2. Stored = {}
    BY <1>3, <2>1 DEF Stored
  <2> QED BY <1>1, <2>1, <2>2 DEF Traversal
<1>6. CASE Filled(0) # {}
  <2>1. PICK b : b = Least(Filled(0))
    OBVIOUS
  <2>2. PICK e : e = get_next(0)
    OBVIOUS
  <2>3. /\ b \in Buckets /\ 1 \in DOMAIN List(b) /\ e = List(b)[1] /\ e \in Cells(List(b))
        /\ e \in Stored /\ e # NULL /\ element[e].list_index = b
        /\ \A m \in Buckets : m >= 0 /\ m < b => Cells(List(m)) = {}
    BY <1>3, <1>6, <2>1, <2>2, NextFacts
  <2>4. at' = e /\ visited' = {e} /\ stable' = Stored
    BY <1>1, <2>2, <2>3
  <2>5. Position(List(b), e) = 1
    BY <1>4, <2>3, PositionOneWay
  <2>6. Scanned(List(b), 1, {e}, Stored)
    <3> SUFFICES ASSUME NEW n \in DOMAIN List(b)
                 PROVE  /\ n <= 1 /\ List(b)[n] \in Stored => List(b)[n] \in {e}
                        /\ List(b)[n] \in {e} => n <= 1
      BY DEF Scanned
    <3>1. n \in Nat /\ n >= 1
      BY <1>4, <2>3
    <3>2. List(b)[n] = e => n = 1
      BY <1>4, <2>3 DEF Distinct
    <3> QED BY <2>3, <3>1, <3>2
  <2>7. \A j \in Buckets : /\ j < b => Cells(List(j)) \intersect Stored \subseteq {e}
                           /\ j > b => Cells(List(j)) \intersect {e} = {}
    <3> SUFFICES ASSUME NEW j \in Buckets
                 PROVE  /\ j < b => Cells(List(j)) \intersect Stored \subseteq {e}
                        /\ j > b => Cells(List(j)) \intersect {e} = {}
      OBVIOUS
    <3>1. j \in Nat /\ b \in Nat
      BY <1>3, <2>3
    <3>2. j # b => e \notin Cells(List(j))
      BY <1>4, <2>3
    <3> QED BY <2>3, <3>1, <3>2
  <2>8. element'[at'].list_index = b /\ at' # NULL
    BY <1>1, <2>3, <2>4
  <2>9. visited' \subseteq Stored' /\ stable' \subseteq Stored'
    BY <1>2, <2>3, <2>4
  <2>10. Scanned(List(b)', Position(List(b)', at'), visited', stable')
    BY <1>2, <2>4, <2>5, <2>6
  <2>11. AheadAndBehind(b, visited, stable)'
    BY <1>2, <2>4, <2>7 DEF AheadAndBehind
  <2> QED BY <2>8, <2>9, <2>10, <2>11 DEF Traversal
<1> QED BY <1>5, <1>6

(* Going on gives a new element, or ends with all the stable ones given.     *)
LEMMA GetOtherTraversal ==
  ASSUME IInv, Traversal, GetOther
  PROVE  /\ Traversal'
         /\ IF at' = NULL THEN stable \subseteq visited ELSE at' \notin visited
<1>1. /\ at # NULL /\ at' = get_other(at)
      /\ IF at' = NULL
         THEN visited' = {} /\ stable' = {}
         ELSE visited' = visited \union {at'} /\ stable' = stable
      /\ capacity' = capacity /\ table' = table /\ element' = element
  BY DEF GetOther, store
<1>2. Buckets' = Buckets /\ Stored' = Stored /\ \A j : List(j)' = List(j)
  BY <1>1 DEF Stored, List, Buckets
<1>3. TypeOK /\ InItsBucket /\ \A j \in Buckets : j \in Nat
  BY InvFacts DEF Buckets
<1>4. \A j \in Buckets : /\ List(j) \in Seq(Elem) /\ Distinct(List(j))
                         /\ DOMAIN List(j) = 1..Len(List(j))
                         /\ \A d \in Cells(List(j)) : element[d].list_index = j
  BY <1>3, BucketFacts
<1>5. \A d \in Stored : /\ element[d].list_index \in Buckets
                        /\ d \in Cells(List(element[d].list_index))
  BY <1>3, BucketFacts
<1>6. PICK b : b = element[at].list_index
  OBVIOUS
<1>7. PICK p : p = Position(List(b), at)
  OBVIOUS
<1> DEFINE L == Len(List(b))
           V == visited
           W == stable
<1>8. /\ b \in Buckets /\ b \in Nat /\ L \in Nat /\ DOMAIN List(b) = 1..L
      /\ p \in 1..L /\ List(b)[p] = at
      /\ p < L => /\ p + 1 \in DOMAIN List(b)
                  /\ get_other(at) = List(b)[p + 1]
                  /\ get_other(at) \in Cells(List(b))
      /\ p = L => get_other(at) = get_next(b + 1)
  BY <1>1, <1>6, <1>7, OtherFacts
<1>9. /\ V \subseteq Stored /\ W \subseteq Stored
      /\ \A n \in DOMAIN List(b) : /\ n <= p /\ List(b)[n] \in W => List(b)[n] \in V
                                   /\ List(b)[n] \in V => n <= p
      /\ \A j \in Buckets : /\ j < b => Cells(List(j)) \intersect W \subseteq V
                            /\ j > b => Cells(List(j)) \intersect V = {}
  BY <1>1, <1>6, <1>7 DEF Traversal, Scanned, AheadAndBehind
<1> HIDE DEF L, V, W
(* Where the next element is in bucket j at place q.                         *)
<1>10. ASSUME NEW j \in Buckets, NEW q \in DOMAIN List(j), NEW e,
              e = List(j)[q], at' = e, e # NULL,
              e \notin V,
              \A n \in DOMAIN List(j) :
                /\ n < q /\ List(j)[n] \in W => List(j)[n] \in V
                /\ List(j)[n] \in V => n < q,
              \A m \in Buckets : /\ m < j => Cells(List(m)) \intersect W \subseteq V
                                 /\ m > j => Cells(List(m)) \intersect V = {}
       PROVE  Traversal'
  <2>1. visited' = V \union {e} /\ stable' = W
    BY <1>1, <1>10 DEF V, W
  <2>2. e \in Cells(List(j)) /\ e \in Stored /\ Position(List(j), e) = q
    BY <1>4, <1>10, PositionOneWay DEF Stored
  <2>3. element'[e].list_index = j
    BY <1>1, <1>4, <2>2
  <2>4. Scanned(List(j), q, V \union {e}, W)
    <3> SUFFICES ASSUME NEW n \in DOMAIN List(j)
                 PROVE  /\ n <= q /\ List(j)[n] \in W => List(j)[n] \in V \union {e}
                        /\ List(j)[n] \in V \union {e} => n <= q
      BY DEF Scanned
    <3>1. n \in Nat /\ q \in Nat
      BY <1>4
    <3>2. List(j)[n] = e => n = q
      BY <1>4, <1>10 DEF Distinct
    <3>3. n <= q => n < q \/ n = q
      BY <3>1
    <3>4. n < q => n <= q
      BY <3>1
    <3>5. q <= q
      BY <3>1
    <3> QED BY <1>10, <3>2, <3>3, <3>4, <3>5
  <2>5. \A m \in Buckets : /\ m < j => Cells(List(m)) \intersect W \subseteq V \union {e}
                           /\ m > j => Cells(List(m)) \intersect (V \union {e}) = {}
    <3> SUFFICES ASSUME NEW m \in Buckets
                 PROVE  /\ m < j => Cells(List(m)) \intersect W \subseteq V \union {e}
                        /\ m > j => Cells(List(m)) \intersect (V \union {e}) = {}
      OBVIOUS
    <3>1. m \in Nat /\ j \in Nat
      BY <1>3
    <3>2. m > j => m # j
      BY <3>1
    <3>3. m # j => e \notin Cells(List(m))
      BY <1>4, <2>2
    <3> QED BY <1>10, <3>2, <3>3
  <2>6. visited' \subseteq Stored' /\ stable' \subseteq Stored'
    BY <1>2, <1>9, <2>1, <2>2
  <2>7. Scanned(List(j)', Position(List(j)', at'), visited', stable')
    BY <1>2, <1>10, <2>1, <2>2, <2>4
  <2>8. AheadAndBehind(j, visited, stable)'
    BY <1>2, <2>1, <2>5 DEF AheadAndBehind
  <2> QED BY <1>10, <2>3, <2>6, <2>7, <2>8 DEF Traversal
<1>11. CASE p < L
  <2>1. PICK e : e = get_other(at)
    OBVIOUS
  <2>2. /\ p + 1 \in DOMAIN List(b) /\ e = List(b)[p + 1] /\ at' = e
    BY <1>1, <1>8, <1>11, <2>1
  <2>3. e # NULL
    BY <1>4, <1>8, <2>2, NullAssumption
  <2>4. e \notin V
    <3>1. ~(p + 1 <= p)
      BY <1>8
    <3> QED BY <1>9, <2>2, <3>1
  <2>5. \A n \in DOMAIN List(b) :
           /\ n < p + 1 /\ List(b)[n] \in W => List(b)[n] \in V
           /\ List(b)[n] \in V => n < p + 1
    <3>1. \A n \in DOMAIN List(b) : n < p + 1 <=> n <= p
      BY <1>8
    <3> QED BY <1>9, <3>1
  <2>6. Traversal'
    BY <1>8, <1>9, <1>10, <2>2, <2>3, <2>4, <2>5
  <2> QED BY <2>2, <2>3, <2>4, <2>6 DEF V
<1>12. CASE p = L
  <2>1. at' = get_next(b + 1) /\ b + 1 \in Nat
    BY <1>1, <1>8, <1>12
  <2>2. \A j \in Buckets : j >= b + 1 <=> j > b
    BY <1>3, <1>8
  <2>3. Cells(List(b)) \intersect W \subseteq V
    <3>1. \A n \in DOMAIN List(b) : n <= p
      BY <1>8, <1>12
    <3> QED BY <1>9, <3>1 DEF Cells
  <2>4. CASE Filled(b + 1) = {}
    <3>1. at' = NULL /\ \A j \in Buckets : j >= b + 1 => Cells(List(j)) = {}
      BY <1>3, <2>1, <2>4, NextFacts
    <3>2. Traversal'
      BY <1>1, <3>1 DEF Traversal
    <3>3. ASSUME NEW d \in W
          PROVE  d \in V
      <4>1. PICK j \in Buckets : d \in Cells(List(j))
        BY <1>5, <1>9
      <4>2. j < b \/ j = b \/ j > b
        BY <1>3, <1>8
      <4> QED BY <1>9, <2>2, <2>3, <3>1, <4>1, <4>2
    <3> QED BY <3>1, <3>2, <3>3 DEF V, W
  <2>5. CASE Filled(b + 1) # {}
    <3>1. PICK j : j = Least(Filled(b + 1))
      OBVIOUS
    <3>2. PICK e : e = get_next(b + 1)
      OBVIOUS
    <3>3. /\ j \in Buckets /\ j >= b + 1 /\ 1 \in DOMAIN List(j) /\ e = List(j)[1]
          /\ e \in Cells(List(j)) /\ e # NULL
          /\ \A m \in Buckets : m >= b + 1 /\ m < j => Cells(List(m)) = {}
      BY <1>3, <2>1, <2>5, <3>1, <3>2, NextFacts
    <3>4. at' = e /\ e \notin V /\ Cells(List(j)) \intersect V = {}
      BY <1>9, <2>1, <2>2, <3>2, <3>3
    <3>5. \A n \in DOMAIN List(j) : /\ n < 1 /\ List(j)[n] \in W => List(j)[n] \in V
                                    /\ List(j)[n] \in V => n < 1
      <4>1. \A n \in DOMAIN List(j) : ~(n < 1)
        BY <1>4, <3>3
      <4>2. \A n \in DOMAIN List(j) : List(j)[n] \notin V
        BY <3>4 DEF Cells
      <4> QED BY <4>1, <4>2
    <3>6. \A m \in Buckets : /\ m < j => Cells(List(m)) \intersect W \subseteq V
                             /\ m > j => Cells(List(m)) \intersect V = {}
      <4> SUFFICES ASSUME NEW m \in Buckets
                   PROVE  /\ m < j => Cells(List(m)) \intersect W \subseteq V
                          /\ m > j => Cells(List(m)) \intersect V = {}
        OBVIOUS
      <4>1. /\ m < b \/ m = b \/ m >= b + 1
            /\ m > j => m > b
        BY <1>3, <1>8, <3>3
      <4> QED BY <1>9, <2>3, <3>3, <4>1
    <3>7. Traversal'
      BY <1>10, <3>3, <3>4, <3>5, <3>6
    <3> QED BY <3>3, <3>4, <3>7 DEF V
  <2> QED BY <2>4, <2>5
<1> QED BY <1>8, <1>11, <1>12

LEMMA NextTraversal == IInv /\ Traversal /\ [Next]_vars => Traversal'
<1> SUFFICES ASSUME IInv, Traversal, [Next]_vars PROVE Traversal'
  OBVIOUS
<1>0. ASSUME UNCHANGED <<store, traversal>> PROVE Traversal'
  BY <1>0, SameTraversal DEF store
<1>1. CASE \E request \in Request : Make(request)
  BY <1>1, MakeTraversal
<1>2. CASE Destroy
  BY <1>2, DestroyTraversal
<1>3. CASE PopAny
  <2>1. CASE Filled(0) = {}
    BY <1>0, <1>3, <2>1 DEF PopAny
  <2>2. CASE Filled(0) # {}
    <3> DEFINE e == get_next(0)
               i == element[e].list_index
    <3>1. /\ e \in Stored /\ capacity' = capacity
          /\ table' = [table EXCEPT ![i] = Without(List(i), e)]
          /\ size' = size - 1 /\ Leave({e})
          /\ element' = element /\ detached' = detached \union {e}
      BY <1>3, <2>2, PopAnyFacts
    <3> QED BY <3>1, TakenOutTraversal
  <2> QED BY <2>1, <2>2
<1>4. CASE GetAny
  BY <1>4, GetAnyTraversal
<1>5. CASE GetOther
  BY <1>5, GetOtherTraversal
<1>6. ASSUME NEW k \in Key, Get(k)
      PROVE  Traversal'
  BY <1>0, <1>6 DEF Get
<1>7. ASSUME NEW e \in Stored, detach(e)
      PROVE  Traversal'
  BY <1>7, TakenOutTraversal DEF detach, Unlink
<1>8. ASSUME NEW k \in Key, Pop(k)
      PROVE  Traversal'
  <2>1. Live /\ DetachIfAny(get(k))
    BY <1>8 DEF Pop
  <2>2. CASE get(k) = NULL
    BY <1>0, <2>1, <2>2 DEF DetachIfAny
  <2>3. CASE get(k) # NULL
    <3>1. get(k) \in Stored
      BY <2>1, <2>3, InvFacts, GetFacts
    <3> QED BY <1>7, <2>1, <2>3, <3>1 DEF DetachIfAny
  <2> QED BY <2>2, <2>3
<1>9. ASSUME NEW k \in Key, NEW v \in Value, Put(k, v)
      PROVE  Traversal'
  <2>1. CASE PutStored(k, v)
    BY <1>0, <2>1 DEF PutStored
  <2>2. ASSUME NEW e \in Elem, PutOver(e, k, v) PROVE Traversal'
    BY <1>9, <2>2, PutOverTraversal DEF Put
  <2>3. ASSUME NEW e \in Elem, PutNew(e, k, v) PROVE Traversal'
    BY <1>9, <2>3, PutNewTraversal DEF Put
  <2> QED BY <1>9, <2>1, <2>2, <2>3 DEF Put
<1>10. ASSUME NEW e \in Stored, Detach(e)
       PROVE  Traversal'
  BY <1>7, <1>10 DEF Detach
<1>11. ASSUME NEW e \in Stored, Remove(e)
       PROVE  Traversal'
  <2>1. \A d \in Stored \ {e} : element'[d] = element[d]
    BY <1>11, InvFacts DEF Remove
  <2> QED BY <1>11, <2>1, TakenOutTraversal DEF Remove, Unlink
<1>12. ASSUME NEW e \in detached, DestroyElement(e)
       PROVE  Traversal'
  <2>1. \A d \in Stored : element'[d] = element[d]
    BY <1>12, InvFacts DEF DestroyElement
  <2> QED BY <1>12, <2>1, SameTraversal DEF DestroyElement
<1>13. CASE UNCHANGED vars
  BY <1>0, <1>13 DEF vars
<1> QED BY <1>1, <1>2, <1>3, <1>4, <1>5, <1>6, <1>8, <1>9, <1>10, <1>11, <1>12, <1>13 DEF Next

(* hash_table_get_any() and hash_table_get_other() give every element that   *)
(* stays in the table, and none twice, whatever else is put, removed or      *)
(* detached between two of their calls.                                      *)
THEOREM VisitsCorrect == Spec => VisitsEachOnce
<1>1. Init => Traversal
  BY DEF Init, Traversal
<1>2. IInv /\ Traversal /\ [Next]_vars
        => [GetOther => IF at' = NULL THEN stable \subseteq visited
                        ELSE at' \notin stable \intersect visited]_vars
  BY GetOtherTraversal
<1> QED BY <1>1, <1>2, InitInv, NextInv, NextTraversal, PTL DEF Spec, VisitsEachOnce
------------------------------------------------------------------------------
(* The dictionary the table stands for.                                      *)
Ranks == {Rank[k] : k \in Key}
Entries == [key : Key, value : Value]
EntryMap == [r \in Ranks |-> EntryOf(r)]

EntriesRight ==
  \A r : /\ \A e \in Stored : Rank[element[e].key] = r => EntryOf(r) = Entry(e)
         /\ (\A e \in Stored : Rank[element[e].key] # r) => EntryOf(r) = NULL
MapsRight == /\ ~Live => maps = [t \in {"table"} |-> NULL]
             /\ Live => maps = [t \in {"table"} |-> EntryMap]
             /\ EntryMap \in [Ranks -> Entries \union {NULL}] /\ EntryMap # NULL
             /\ EntriesRight /\ Stored \subseteq Elem

LEMMA MapsFacts == IInv => MapsRight
<1> SUFFICES ASSUME IInv PROVE MapsRight
  OBVIOUS
<1>1. /\ OnePerKey /\ Stored \subseteq Elem
      /\ \A e \in Stored : element[e] \in Record /\ e # NULL
  BY InvFacts, BucketFacts, NullAssumption
<1>2. ASSUME NEW e \in Stored
      PROVE  Entry(e) = [key |-> element[e].key, value |-> element[e].value]
             /\ Entry(e) \in Entries
  BY <1>1, <1>2 DEF Entry, Entries, Record
<1>3. ASSUME NEW r, NEW e \in Stored, Rank[element[e].key] = r
      PROVE  EntryOf(r) = Entry(e)
  <2> DEFINE hits == {d \in Stored : Rank[element[d].key] = r}
  <2>1. hits = {e}
    BY <1>1, <1>3 DEF OnePerKey
  <2>2. (CHOOSE d \in hits : TRUE) = e
    BY <2>1
  <2> QED BY <2>1, <2>2 DEF EntryOf
<1>4. ASSUME NEW r, \A e \in Stored : Rank[element[e].key] # r
      PROVE  EntryOf(r) = NULL
  BY <1>4 DEF EntryOf
<1>5. EntriesRight
  BY <1>3, <1>4 DEF EntriesRight
<1>6. ASSUME NEW r \in Ranks PROVE EntryOf(r) \in Entries \union {NULL}
  <2>1. CASE \E e \in Stored : Rank[element[e].key] = r
    BY <1>2, <1>3, <2>1
  <2>2. CASE \A e \in Stored : Rank[element[e].key] # r
    BY <1>4, <2>2
  <2> QED BY <2>1, <2>2
<1>7. EntryMap \in [Ranks -> Entries \union {NULL}]
  BY <1>6 DEF EntryMap
<1>8. NULL \notin [Ranks -> Entries \union {NULL}]
  BY NullAssumption DEF Ranks, Entries
<1>9. EntryMap # NULL
  BY <1>7, <1>8
<1> QED BY <1>1, <1>5, <1>7, <1>9 DEF MapsRight, maps, EntryMap, Ranks

LEMMA MapsFactsNext == IInv' => MapsRight'
  BY MapsFacts, PTL

(* The entry of a key is the one hash_table_get() finds.                     *)
LEMMA GetEntry ==
  ASSUME IInv, Live, NEW k \in Key
  PROVE  EntryMap[Rank[k]] = Entry(get(k)) /\ Rank[k] \in Ranks
<1>1. Rank[k] \in Ranks
  BY DEF Ranks
<1>2. EntryMap[Rank[k]] = EntryOf(Rank[k])
  BY <1>1 DEF EntryMap
<1>3. EntriesRight
  BY MapsFacts DEF MapsRight
<1>4. CASE get(k) = NULL
  <2>1. \A e \in Stored : Rank[element[e].key] # Rank[k]
    BY <1>4, InvFacts, GetFacts
  <2>2. EntryOf(Rank[k]) = NULL
    BY <1>3, <2>1 DEF EntriesRight
  <2> QED BY <1>1, <1>2, <1>4, <2>2 DEF Entry
<1>5. CASE get(k) # NULL
  <2>1. get(k) \in Stored /\ Rank[element[get(k)].key] = Rank[k]
    BY <1>5, InvFacts, GetFacts
  <2> QED BY <1>1, <1>2, <1>3, <2>1 DEF EntriesRight
<1> QED BY <1>4, <1>5

LEMMA StoredEntry ==
  ASSUME IInv, NEW e \in Stored
  PROVE  /\ Rank[element[e].key] \in Ranks
         /\ EntryMap[Rank[element[e].key]] = Entry(e)
         /\ Entry(e) = [key |-> element[e].key, value |-> element[e].value]
         /\ Entry(e) # NULL
<1>1. element[e] \in Record /\ e # NULL /\ element[e].key \in Key
  BY InvFacts, BucketFacts, NullAssumption
<1>2. Rank[element[e].key] \in Ranks
  BY <1>1 DEF Ranks
<1>3. EntryOf(Rank[element[e].key]) = Entry(e)
  BY MapsFacts DEF MapsRight, EntriesRight
<1>4. Entry(e) = [key |-> element[e].key, value |-> element[e].value]
      /\ Entry(e) \in Entries
  BY <1>1 DEF Entry, Entries, Record
<1>5. NULL \notin Entries
  BY NullAssumption DEF Entries
<1> QED BY <1>2, <1>3, <1>4, <1>5 DEF EntryMap

(* What the dictionary becomes.                                              *)
LEMMA SameMap ==
  ASSUME IInv, IInv', Stored' = Stored, \A d \in Stored : element'[d] = element[d]
  PROVE  EntryMap' = EntryMap
<1>1. EntriesRight /\ EntriesRight'
  BY MapsFacts, MapsFactsNext DEF MapsRight
<1>2. ASSUME NEW r PROVE EntryOf(r)' = EntryOf(r)
  <2>1. CASE \E e \in Stored : Rank[element[e].key] = r
    <3>1. PICK e \in Stored : Rank[element[e].key] = r
      BY <2>1
    <3>2. EntryOf(r) = Entry(e) /\ EntryOf(r)' = Entry(e)'
      BY <1>1, <3>1 DEF EntriesRight
    <3> QED BY <3>1, <3>2 DEF Entry
  <2>2. CASE \A e \in Stored : Rank[element[e].key] # r
    BY <1>1, <2>2 DEF EntriesRight
  <2> QED BY <2>1, <2>2
<1> QED BY <1>2 DEF EntryMap

LEMMA TakenMap ==
  ASSUME IInv, IInv', NEW e \in Stored, Stored' = Stored \ {e},
         \A d \in Stored \ {e} : element'[d] = element[d]
  PROVE  EntryMap' = [EntryMap EXCEPT ![Rank[element[e].key]] = NULL]
<1>1. EntriesRight /\ EntriesRight' /\ OnePerKey
  BY InvFacts, MapsFacts, MapsFactsNext DEF MapsRight
<1>2. PICK q : q = Rank[element[e].key]
  OBVIOUS
<1>3. EntryOf(q)' = NULL
  <2>1. \A d \in Stored' : Rank[element'[d].key] # q
    BY <1>1, <1>2 DEF OnePerKey
  <2> QED BY <1>1, <2>1 DEF EntriesRight
<1>4. ASSUME NEW r, r # q PROVE EntryOf(r)' = EntryOf(r)
  <2>1. CASE \E d \in Stored : Rank[element[d].key] = r
    <3>1. PICK d \in Stored : Rank[element[d].key] = r
      BY <2>1
    <3>2. d \in Stored' /\ element'[d] = element[d]
      BY <1>2, <1>4, <3>1
    <3>3. EntryOf(r) = Entry(d) /\ EntryOf(r)' = Entry(d)'
      BY <1>1, <3>1, <3>2 DEF EntriesRight
    <3> QED BY <3>2, <3>3 DEF Entry
  <2>2. CASE \A d \in Stored : Rank[element[d].key] # r
    <3>1. \A d \in Stored' : Rank[element'[d].key] # r
      BY <2>2
    <3> QED BY <1>1, <2>2, <3>1 DEF EntriesRight
  <2> QED BY <2>1, <2>2
<1> QED BY <1>2, <1>3, <1>4 DEF EntryMap

LEMMA PutMap ==
  ASSUME IInv, IInv', NEW k \in Key, NEW v \in Value, NEW e, NEW S,
         Stored' = (Stored \ S) \union {e}, e \notin Stored,
         element'[e] = [key |-> k, value |-> v, list_index |-> index(k)],
         \A d \in Stored : element'[d] = element[d],
         \A d \in S : Rank[element[d].key] = Rank[k]
  PROVE  EntryMap' = [EntryMap EXCEPT ![Rank[k]] = [key |-> k, value |-> v]]
<1>1. EntriesRight /\ EntriesRight' /\ OnePerKey'
  BY MapsFacts, MapsFactsNext DEF MapsRight, IInv, TableInv
<1>2. PICK q : q = Rank[k]
  OBVIOUS
<1>3. EntryOf(q)' = [key |-> k, value |-> v]
  <2>1. e \in Stored' /\ Rank[element'[e].key] = q
    BY <1>2
  <2>2. EntryOf(q)' = Entry(e)'
    BY <1>1, <2>1 DEF EntriesRight
  <2>3. e # NULL
    <3>1. Stored' \subseteq Elem
      BY MapsFactsNext DEF MapsRight
    <3> QED BY <2>1, <3>1, NullAssumption
  <2> QED BY <2>2, <2>3 DEF Entry
<1>4. ASSUME NEW r, r # q PROVE EntryOf(r)' = EntryOf(r)
  <2>1. CASE \E d \in Stored : Rank[element[d].key] = r
    <3>1. PICK d \in Stored : Rank[element[d].key] = r
      BY <2>1
    <3>2. d \in Stored' /\ element'[d] = element[d]
      BY <1>2, <1>4, <3>1
    <3>3. EntryOf(r) = Entry(d) /\ EntryOf(r)' = Entry(d)'
      BY <1>1, <3>1, <3>2 DEF EntriesRight
    <3> QED BY <3>2, <3>3 DEF Entry
  <2>2. CASE \A d \in Stored : Rank[element[d].key] # r
    <3>1. \A d \in Stored' : Rank[element'[d].key] # r
      BY <1>2, <1>4, <2>2
    <3> QED BY <1>1, <2>2, <3>1 DEF EntriesRight
  <2> QED BY <2>1, <2>2
<1> QED BY <1>2, <1>3, <1>4 DEF EntryMap
LEMMA OneTable ==
  ASSUME NEW F, NEW m, m = [t \in {"table"} |-> F]
  PROVE  /\ m["table"] = F
         /\ \A r, x : [m EXCEPT !["table"][r] = x] = [t \in {"table"} |-> [F EXCEPT ![r] = x]]
  OBVIOUS

(* A table that is live is made, and its map is the one of its entries.      *)
LEMMA LiveMaps ==
  ASSUME IInv, Live
  PROVE  /\ maps = [t \in {"table"} |-> EntryMap] /\ maps["table"] = EntryMap
         /\ "table" \in Abstract!Made
         /\ \A r, x : [maps EXCEPT !["table"][r] = x] =
                        [t \in {"table"} |-> [EntryMap EXCEPT ![r] = x]]
<1>1. maps = [t \in {"table"} |-> EntryMap] /\ EntryMap # NULL
  BY MapsFacts DEF MapsRight
<1>2. /\ maps["table"] = EntryMap
      /\ \A r, x : [maps EXCEPT !["table"][r] = x] =
                     [t \in {"table"} |-> [EntryMap EXCEPT ![r] = x]]
  BY <1>1, OneTable
<1> QED BY <1>1, <1>2 DEF Abstract!Made

LEMMA LiveMapsNext ==
  ASSUME IInv', Live, capacity' = capacity
  PROVE  maps' = [t \in {"table"} |-> EntryMap']
<1>1. Live'
  BY DEF Live
<1> QED BY <1>1, MapsFactsNext DEF MapsRight

(* An action that leaves the entries alone leaves the dictionary alone.      *)
LEMMA KeptMaps ==
  ASSUME IInv, IInv', capacity' = capacity, Stored' = Stored,
         \A d \in Stored : element'[d] = element[d]
  PROVE  maps' = maps
<1>1. EntryMap' = EntryMap
  BY SameMap
<1>2. Live' = Live
  BY DEF Live
<1> QED BY <1>1, <1>2, MapsFacts, MapsFactsNext DEF MapsRight

(* Putting an element in the table puts its entry in the dictionary.         *)
LEMMA PutMaps ==
  ASSUME IInv, IInv', Live, capacity' = capacity,
         NEW k \in Key, NEW v \in Value, NEW e, NEW S,
         Stored' = (Stored \ S) \union {e}, e \notin Stored,
         element'[e] = [key |-> k, value |-> v, list_index |-> index(k)],
         \A d \in Stored : element'[d] = element[d],
         \A d \in S : Rank[element[d].key] = Rank[k]
  PROVE  maps' = [maps EXCEPT !["table"][Rank[k]] = [key |-> k, value |-> v]]
<1>1. PICK r, x : r = Rank[k] /\ x = [key |-> k, value |-> v]
  OBVIOUS
<1>2. EntryMap' = [EntryMap EXCEPT ![r] = x]
  BY <1>1, PutMap
<1>3. maps' = [t \in {"table"} |-> EntryMap']
  BY LiveMapsNext
<1>4. PICK m, F : m = maps /\ F = EntryMap
  OBVIOUS
<1>5. m = [t \in {"table"} |-> F]
  BY <1>4, LiveMaps
<1>6. [m EXCEPT !["table"][r] = x] = [t \in {"table"} |-> [F EXCEPT ![r] = x]]
  BY <1>5
<1>7. [maps EXCEPT !["table"][r] = x] = [t \in {"table"} |-> [EntryMap EXCEPT ![r] = x]]
  BY <1>4, <1>6
<1>8. maps' = [maps EXCEPT !["table"][r] = x]
  BY <1>2, <1>3, <1>7
<1> QED BY <1>1, <1>8

(* Taking an element out of the table takes its entry from the dictionary.   *)
LEMMA TakenStep ==
  ASSUME IInv, IInv', Live, capacity' = capacity, NEW e \in Stored,
         Stored' = Stored \ {e}, \A d \in Stored \ {e} : element'[d] = element[d],
         NEW r, r = Rank[element[e].key]
  PROVE  /\ maps' = [maps EXCEPT !["table"][r] = NULL]
         /\ r \in Ranks /\ maps["table"][r] = Entry(e) /\ Entry(e) # NULL
<1>1. EntryMap' = [EntryMap EXCEPT ![r] = NULL]
  BY TakenMap
<1>2. maps' = [t \in {"table"} |-> [EntryMap EXCEPT ![r] = NULL]]
  BY <1>1, LiveMapsNext
<1>3. r \in Ranks /\ EntryMap[r] = Entry(e) /\ Entry(e) # NULL
  BY StoredEntry
<1> QED BY <1>2, <1>3, LiveMaps

(* What TakenOutInv says of the actions that take an element out.            *)
LEMMA TakenFacts ==
  ASSUME IInv, NEW e \in Stored, NEW i, i = element[e].list_index,
         capacity' = capacity, table' = [table EXCEPT ![i] = Without(List(i), e)],
         \/ element' = element
         \/ element' = [element EXCEPT ![e] = NULL]
  PROVE  Stored' = Stored \ {e} /\ \A d \in Stored \ {e} : element'[d] = element[d]
<1>1. TypeOK /\ InItsBucket /\ Stored \subseteq Elem
      /\ element \in [Elem -> Record \union {NULL}]
  BY InvFacts
<1>2. \A d \in Stored \ {e} : element'[d] = element[d]
  BY <1>1
<1> QED BY <1>1, <1>2, TakenOut

LEMMA StoredLive == ASSUME TypeOK, NEW e \in Stored PROVE Live
<1>1. PICK i \in Buckets : e \in Cells(List(i))
  BY DEF Stored
<1> QED BY <1>1 DEF Buckets, Live, TypeOK

LEMMA MakeStep == ASSUME IInv, NEW request \in Request, Make(request) PROVE Abstract!Next
<1>1. /\ ~Live /\ capacity' \in Nat \ {0} /\ table' = [i \in 0..capacity' - 1 |-> NULL]
      /\ call' = [op |-> "make", on |-> "table", arg |-> NULL] /\ answer' = NULL
  BY CapacityFacts DEF Make, Called, Entry
<1>2. IInv'
  BY MakeInv
<1>3. maps = [t \in {"table"} |-> NULL]
  BY <1>1, MapsFacts DEF MapsRight
<1>4. Live' /\ maps' = [t \in {"table"} |-> EntryMap'] /\ EntriesRight'
  BY <1>1, <1>2, MapsFactsNext DEF MapsRight, Live
<1>5. Stored' = {}
  <2>1. \A i \in Buckets' : List(i)' = <<>>
    BY <1>1 DEF List, Buckets
  <2> QED BY <2>1 DEF Stored, Cells
<1>6. EntryMap' = [r \in Ranks |-> NULL]
  BY <1>4, <1>5 DEF EntriesRight, EntryMap
<1>7. maps' = [maps EXCEPT !["table"] = [r \in Ranks |-> NULL]]
  BY <1>3, <1>4, <1>6
<1>8. "table" \notin Abstract!Made
  BY <1>3 DEF Abstract!Made
<1>9. Abstract!Make("table")
  BY <1>1, <1>7, <1>8 DEF Abstract!Make, Abstract!Call, Abstract!Empty, Abstract!Ranks, Ranks
<1> QED BY <1>9 DEF Abstract!Next

LEMMA DestroyStep == ASSUME IInv, Destroy PROVE Abstract!Next
<1>1. /\ Live /\ capacity' = 0
      /\ call' = [op |-> "destroy", on |-> "table", arg |-> NULL] /\ answer' = NULL
  BY DEF Destroy, Called, Entry
<1>2. IInv' /\ ~Live'
  BY <1>1, DestroyInv DEF Live
<1>3. maps = [t \in {"table"} |-> EntryMap] /\ "table" \in Abstract!Made
  BY <1>1, LiveMaps
<1>4. maps' = [t \in {"table"} |-> NULL]
  BY <1>2, MapsFactsNext DEF MapsRight
<1>5. maps' = [maps EXCEPT !["table"] = NULL]
  BY <1>3, <1>4
<1>6. Abstract!Destroy("table")
  BY <1>1, <1>3, <1>5 DEF Abstract!Destroy, Abstract!Call
<1> QED BY <1>6 DEF Abstract!Next

LEMMA GetStep == ASSUME IInv, NEW k \in Key, Get(k) PROVE Abstract!Next
<1>1. /\ Live /\ UNCHANGED <<store, traversal>>
      /\ call' = [op |-> "get", on |-> "table", arg |-> k] /\ answer' = Entry(get(k))
  BY DEF Get, Called
<1>2. IInv' /\ Stored' = Stored /\ capacity' = capacity /\ element' = element
  BY <1>1, SameInv DEF store
<1>3. maps' = maps
  BY <1>2, KeptMaps
<1>4. maps["table"][Rank[k]] = Entry(get(k)) /\ "table" \in Abstract!Made
  BY <1>1, LiveMaps, GetEntry
<1>5. Abstract!Get("table", k)
  BY <1>1, <1>3, <1>4 DEF Abstract!Get, Abstract!Call
<1> QED BY <1>5 DEF Abstract!Next

LEMMA PutStep ==
  ASSUME IInv, IInv', NEW k \in Key, NEW v \in Value, Put(k, v)
  PROVE  Abstract!Next
<1>1. Live
  BY DEF Put
<1> DEFINE old == maps["table"][Rank[k]]
           new == [key |-> k, value |-> v]
<1>2. "table" \in Abstract!Made /\ old = Entry(get(k))
  BY <1>1, LiveMaps, GetEntry
<1>3. get(k) # NULL => /\ get(k) \in Stored
                       /\ Rank[element[get(k)].key] = Rank[k]
                       /\ old # NULL /\ old.value = element[get(k)].value
  <2>1. get(k) # NULL => get(k) \in Stored /\ Rank[element[get(k)].key] = Rank[k]
    BY <1>1, InvFacts, GetFacts
  <2>2. ASSUME get(k) # NULL PROVE old # NULL /\ old.value = element[get(k)].value
    BY <1>2, <2>1, <2>2, StoredEntry
  <2> QED BY <2>1, <2>2
<1>4. get(k) = NULL => old = NULL
  BY <1>2 DEF Entry
<1> HIDE DEF old
<1>5. ASSUME NEW keep \in BOOLEAN, keep <=> old # NULL /\ old.value = v,
             call' = [op |-> "put", on |-> "table", arg |-> <<k, v>>],
             maps' = IF keep THEN maps ELSE [maps EXCEPT !["table"][Rank[k]] = new],
             answer' = IF keep THEN NULL ELSE old
      PROVE  Abstract!Next
  <2>1. keep <=> (TRUE /\ maps["table"][Rank[k]] # NULL /\ maps["table"][Rank[k]].value = v)
    BY <1>5 DEF old
  <2>2. Abstract!Put("table", k, v)
    BY <1>2, <1>5, <2>1 DEF Abstract!Put, Abstract!Call, old
  <2> QED BY <2>2 DEF Abstract!Next
<1>6. CASE PutStored(k, v)
  <2>1. /\ IsStored(k, v) /\ UNCHANGED <<store, traversal>>
        /\ call' = [op |-> "put", on |-> "table", arg |-> <<k, v>>] /\ answer' = NULL
    BY <1>6 DEF PutStored, Called, Entry
  <2>2. Stored' = Stored /\ capacity' = capacity /\ element' = element
    BY <2>1, SameInv DEF store
  <2>3. maps' = maps
    BY <2>2, KeptMaps
  <2>4. old # NULL /\ old.value = v
    BY <1>3, <2>1 DEF IsStored
  <2> QED BY <1>5, <2>1, <2>3, <2>4
<1>7. ASSUME NEW e \in Elem, PutOver(e, k, v) PROVE Abstract!Next
  <2>1. /\ get(k) # NULL /\ element[get(k)].value # v /\ capacity' = capacity
        /\ add_element(e, index(k), Without(List(index(k)), get(k)), k, v)
        /\ call' = [op |-> "put", on |-> "table", arg |-> <<k, v>>]
        /\ answer' = Entry(get(k))
    BY <1>7 DEF PutOver, IsStored, Called
  <2>2. Stored' = (Stored \ {get(k)}) \union {e} /\ e \notin Stored
    BY <1>1, <1>7, PutOverInv
  <2>3. /\ element'[e] = [key |-> k, value |-> v, list_index |-> index(k)]
        /\ \A d \in Stored : element'[d] = element[d]
    BY <2>1, <2>2, InvFacts DEF add_element
  <2>4. maps' = [maps EXCEPT !["table"][Rank[k]] = new]
    <3>1. PICK S : S = {get(k)}
      OBVIOUS
    <3>2. Stored' = (Stored \ S) \union {e} /\ \A d \in S : Rank[element[d].key] = Rank[k]
      BY <1>3, <2>1, <2>2, <3>1
    <3> QED BY <1>1, <2>1, <2>2, <2>3, <3>2, PutMaps
  <2>5. ~(old # NULL /\ old.value = v) /\ answer' = old
    BY <1>2, <1>3, <2>1
  <2> QED BY <1>5, <2>1, <2>4, <2>5
<1>8. ASSUME NEW e \in Elem, PutNew(e, k, v) PROVE Abstract!Next
  <2>1. /\ get(k) = NULL /\ capacity' = capacity
        /\ add_element(e, index(k), List(index(k)), k, v)
        /\ call' = [op |-> "put", on |-> "table", arg |-> <<k, v>>]
        /\ answer' = NULL
    BY <1>8 DEF PutNew, Called, Entry
  <2>2. Stored' = (Stored \ {}) \union {e} /\ e \notin Stored
    BY <1>1, <1>8, PutNewInv
  <2>3. /\ element'[e] = [key |-> k, value |-> v, list_index |-> index(k)]
        /\ \A d \in Stored : element'[d] = element[d]
    BY <2>1, <2>2, InvFacts DEF add_element
  <2>4. maps' = [maps EXCEPT !["table"][Rank[k]] = new]
    <3>1. PICK S : S = {}
      OBVIOUS
    <3>2. Stored' = (Stored \ S) \union {e} /\ \A d \in S : Rank[element[d].key] = Rank[k]
      BY <2>2, <3>1
    <3> QED BY <1>1, <2>1, <2>2, <2>3, <3>2, PutMaps
  <2>5. ~(old # NULL /\ old.value = v) /\ answer' = old
    BY <1>4, <2>1
  <2> QED BY <1>5, <2>1, <2>4, <2>5
<1> QED BY <1>6, <1>7, <1>8 DEF Put

LEMMA DetachStep == ASSUME IInv, IInv', NEW e \in Stored, Detach(e) PROVE Abstract!Next
<1>1. PICK r : r = Rank[element[e].key]
  OBVIOUS
<1>2. /\ call' = [op |-> "detach", on |-> "table", arg |-> r] /\ answer' = Entry(e)
      /\ Unlink(e) /\ element' = element /\ capacity' = capacity
  BY <1>1 DEF Detach, detach, Called, Unlink
<1>3. Live
  BY InvFacts, StoredLive
<1>4. Stored' = Stored \ {e} /\ \A d \in Stored \ {e} : element'[d] = element[d]
  BY <1>2, TakenFacts DEF Unlink
<1>5. /\ maps' = [maps EXCEPT !["table"][r] = NULL]
      /\ r \in Ranks /\ maps["table"][r] = Entry(e) /\ Entry(e) # NULL
  BY <1>1, <1>2, <1>3, <1>4, TakenStep
<1>6. "table" \in Abstract!Made
  BY <1>3, LiveMaps
<1>7. r \in Abstract!Ranks /\ r \in Abstract!Stored("table")
  BY <1>5 DEF Abstract!Ranks, Abstract!Stored, Ranks
<1>8. Abstract!Detach("table", r)
  BY <1>2, <1>5, <1>6, <1>7 DEF Abstract!Detach, Abstract!Call, Abstract!Take
<1> QED BY <1>7, <1>8 DEF Abstract!Next

LEMMA RemoveStep == ASSUME IInv, IInv', NEW e \in Stored, Remove(e) PROVE Abstract!Next
<1>1. PICK r : r = Rank[element[e].key]
  OBVIOUS
<1>2. /\ call' = [op |-> "remove", on |-> "table", arg |-> r] /\ answer' = NULL
      /\ Unlink(e) /\ element' = [element EXCEPT ![e] = NULL] /\ capacity' = capacity
  BY <1>1 DEF Remove, Called, Unlink, Entry
<1>3. Live
  BY InvFacts, StoredLive
<1>4. Stored' = Stored \ {e} /\ \A d \in Stored \ {e} : element'[d] = element[d]
  BY <1>2, TakenFacts DEF Unlink
<1>5. /\ maps' = [maps EXCEPT !["table"][r] = NULL]
      /\ r \in Ranks /\ maps["table"][r] = Entry(e) /\ Entry(e) # NULL
  BY <1>1, <1>2, <1>3, <1>4, TakenStep
<1>6. "table" \in Abstract!Made
  BY <1>3, LiveMaps
<1>7. r \in Abstract!Ranks /\ r \in Abstract!Stored("table")
  BY <1>5 DEF Abstract!Ranks, Abstract!Stored, Ranks
<1>8. Abstract!Remove("table", r)
  BY <1>2, <1>5, <1>6, <1>7 DEF Abstract!Remove, Abstract!Call
<1> QED BY <1>7, <1>8 DEF Abstract!Next

LEMMA PopStep == ASSUME IInv, IInv', NEW k \in Key, Pop(k) PROVE Abstract!Next
<1>1. /\ Live /\ DetachIfAny(get(k)) /\ answer' = Entry(get(k))
      /\ call' = [op |-> "pop", on |-> "table", arg |-> k]
  BY DEF Pop, Called
<1>2. PICK r : r = Rank[k]
  OBVIOUS
<1>3. "table" \in Abstract!Made /\ maps["table"][r] = Entry(get(k)) /\ r \in Ranks
  BY <1>1, <1>2, LiveMaps, GetEntry
<1>4. maps' = [maps EXCEPT !["table"][r] = NULL]
  <2>1. CASE get(k) = NULL
    <3>1. UNCHANGED <<store, traversal>>
      BY <1>1, <2>1 DEF DetachIfAny
    <3>2. Stored' = Stored /\ capacity' = capacity /\ element' = element
      BY <3>1, SameInv DEF store
    <3>3. EntryMap[r] = NULL
      BY <1>1, <1>2, <2>1, GetEntry DEF Entry
    <3>4. [EntryMap EXCEPT ![r] = NULL] = EntryMap
      BY <3>3 DEF EntryMap
    <3> QED BY <1>1, <3>2, <3>4, KeptMaps, LiveMaps
  <2>2. CASE get(k) # NULL
    <3>1. PICK e : e = get(k)
      OBVIOUS
    <3>2. e \in Stored /\ Rank[element[e].key] = r
      BY <1>1, <1>2, <2>2, <3>1, InvFacts, GetFacts
    <3>3. Unlink(e) /\ element' = element /\ capacity' = capacity
      BY <1>1, <2>2, <3>1 DEF DetachIfAny, detach, Unlink
    <3>4. Stored' = Stored \ {e} /\ \A d \in Stored \ {e} : element'[d] = element[d]
      BY <3>2, <3>3, TakenFacts DEF Unlink
    <3> QED BY <1>1, <3>2, <3>3, <3>4, TakenStep
  <2> QED BY <2>1, <2>2
<1>5. Abstract!Pop("table", k)
  BY <1>1, <1>2, <1>3, <1>4 DEF Abstract!Pop, Abstract!Call, Abstract!Take
<1> QED BY <1>5 DEF Abstract!Next

LEMMA PopAnyStep == ASSUME IInv, IInv', PopAny PROVE Abstract!Next
<1>1. /\ Live /\ answer' = Entry(get_next(0))
      /\ call' = [op |-> "pop_any", on |-> "table", arg |-> NULL]
  BY DEF PopAny, Called
<1>2. "table" \in Abstract!Made /\ maps["table"] = EntryMap
  BY <1>1, LiveMaps
<1>3. CASE Filled(0) = {}
  <2>1. UNCHANGED <<store, traversal>>
    BY <1>3 DEF PopAny
  <2>2. Stored' = Stored /\ capacity' = capacity /\ element' = element
    BY <2>1, SameInv DEF store
  <2>3. get_next(0) = NULL /\ Stored = {}
    <3>1. TypeOK /\ InItsBucket /\ \A j \in Buckets : j >= 0
      BY InvFacts DEF Buckets
    <3> QED BY <1>3, <3>1, NextFacts DEF Stored
  <2>4. Abstract!Stored("table") = {}
    <3>1. \A r \in Ranks : EntryMap[r] = NULL
      BY <2>3, MapsFacts DEF MapsRight, EntriesRight, EntryMap
    <3> QED BY <1>2, <3>1 DEF Abstract!Stored, Abstract!Ranks, Ranks
  <2>5. maps' = maps /\ answer' = NULL
    BY <1>1, <2>2, <2>3, KeptMaps DEF Entry
  <2>6. Abstract!PopAny("table")
    BY <1>1, <1>2, <2>4, <2>5 DEF Abstract!PopAny, Abstract!TakeOneOf, Abstract!Call
  <2> QED BY <2>6 DEF Abstract!Next
<1>4. CASE Filled(0) # {}
  <2>1. PICK e : e = get_next(0)
    OBVIOUS
  <2>2. PICK r : r = Rank[element[e].key]
    OBVIOUS
  <2>3. PICK i : i = element[e].list_index
    OBVIOUS
  <2>4. /\ e \in Stored /\ capacity' = capacity
        /\ table' = [table EXCEPT ![i] = Without(List(i), e)] /\ element' = element
    BY <1>4, <2>1, <2>3, PopAnyFacts
  <2>5. Stored' = Stored \ {e} /\ \A d \in Stored \ {e} : element'[d] = element[d]
    BY <2>3, <2>4, TakenFacts
  <2>6. /\ maps' = [maps EXCEPT !["table"][r] = NULL]
        /\ r \in Ranks /\ maps["table"][r] = Entry(e) /\ Entry(e) # NULL
    BY <1>1, <2>2, <2>4, <2>5, TakenStep
  <2>7. r \in Abstract!Stored("table")
    BY <2>6 DEF Abstract!Ranks, Abstract!Stored, Ranks
  <2>8. Abstract!Take("table", r)
    BY <1>1, <2>1, <2>6 DEF Abstract!Take
  <2>9. Abstract!PopAny("table")
    BY <1>1, <1>2, <2>7, <2>8 DEF Abstract!PopAny, Abstract!TakeOneOf, Abstract!Call
  <2> QED BY <2>9 DEF Abstract!Next
<1> QED BY <1>3, <1>4

LEMMA MapsInit == Init => Abstract!Init
<1> SUFFICES ASSUME Init PROVE Abstract!Init
  OBVIOUS
<1>1. ~Live
  BY DEF Init, Live
<1>2. maps = [t \in {"table"} |-> NULL]
  BY <1>1, InitInv, MapsFacts DEF MapsRight
<1> QED BY <1>2 DEF Init, Abstract!Init

LEMMA MapsNext == IInv /\ IInv' /\ [Next]_vars => [Abstract!Next]_Abstract!vars
<1> SUFFICES ASSUME IInv, IInv', [Next]_vars
             PROVE  Abstract!Next \/ UNCHANGED <<maps, call, answer>>
  BY DEF Abstract!vars
<1>1. ASSUME UNCHANGED store PROVE maps' = maps
  <2>1. /\ capacity' = capacity /\ table' = table /\ element' = element
    BY <1>1 DEF store
  <2>2. Stored' = Stored
    BY <2>1 DEF Stored, List, Buckets
  <2> QED BY <2>1, <2>2, KeptMaps
<1>2. CASE GetAny \/ GetOther \/ UNCHANGED vars
  BY <1>1, <1>2 DEF GetAny, GetOther, vars
<1>3. ASSUME NEW e \in detached, DestroyElement(e)
      PROVE  UNCHANGED <<maps, call, answer>>
  <2>1. Stored' = Stored /\ capacity' = capacity
    BY <1>3, DestroyElementInv DEF DestroyElement
  <2>2. \A d \in Stored : element'[d] = element[d]
    BY <1>3, InvFacts DEF DestroyElement
  <2> QED BY <1>3, <2>1, <2>2, KeptMaps DEF DestroyElement
<1> QED BY <1>2, <1>3, MakeStep, DestroyStep, PopAnyStep, GetStep, PopStep, PutStep,
           DetachStep, RemoveStep DEF Next

(* The hash table is a dictionary: what each call changes and answers is     *)
(* what it would of a map from keys to entries, whatever the hash function,  *)
(* the capacity and the calls before.                                        *)
THEOREM DictionaryImplemented == Spec => ImplementsDictionary
<1>1. IInv /\ [Next]_vars => IInv'
  BY NextInv
<1> QED BY <1>1, InitInv, MapsInit, MapsNext, PTL
        DEF Spec, ImplementsDictionary, Abstract!Spec
==============================================================================
