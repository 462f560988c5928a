----------------------------- MODULE AVLMapProofs -----------------------------
(* Proofs about AVLTree and AVLMap, for any number of trees in one memory:   *)
(* every tree stays sound, no element is ever in two trees, lost, or freed   *)
(* while a tree points to it, and the queries answer what the sorted         *)
(* elements say, and the trees are dictionaries.                             *)
EXTENDS AVLMap, AVLTreeProofs
------------------------------------------------------------------------------
(* All the trees in one memory, with the elements that each owns.            *)

(* A tree of the nodes S, between two calls.                                 *)
SoundTree(r, sz, n, S) ==
  /\ IsFiniteSet(S) /\ sz = Cardinality(S)
  /\ \E sub, h : SearchTree(n, r, S, sub) /\ LevelBut(n, S, h, NULL, "left", 0)

(* A tree is sound whatever happens to other nodes.                          *)
LEMMA SoundFrame ==
  ASSUME NEW n, NEW r, NEW sz, NEW S, SoundTree(r, sz, n, S), NEW m \in Heap, \A y \in S : m[y] = n[y]
  PROVE  SoundTree(r, sz, m, S)
<1>1. PICK sub, h : SearchTree(n, r, S, sub) /\ LevelBut(n, S, h, NULL, "left", 0)
  BY DEF SoundTree
<1>2. /\ FieldsOf(n, S) /\ r \in S \union {NULL}
      /\ \A x \in S, s \in Side : n[x][s] # NULL => n[x][s] \in S /\ n[n[x][s]].parent = x
      /\ r # NULL => n[r].parent = NULL
      /\ \A x \in S \ {r} : n[x].parent \in S /\ \E s \in Side : n[n[x].parent][s] = x
  BY <1>1 DEF SearchTree, Shaped
<1>3. FieldsOf(m, S)
  BY <1>2 DEF FieldsOf
<1>4. \A x \in S, s \in Side : m[x][s] # NULL => m[x][s] \in S /\ m[m[x][s]].parent = x
  BY <1>2
<1>5. r # NULL => m[r].parent = NULL
  BY <1>2
<1>6. \A x \in S \ {r} : m[x].parent \in S /\ \E s \in Side : m[m[x].parent][s] = x
  BY <1>2
<1>7. Shaped(m, r, S)
  BY <1>2, <1>3, <1>4, <1>5, <1>6 DEF Shaped
<1>8. Nested(m, r, S, sub)
  <2>1. \A x \in S : NestedAt(m, sub, x)
    BY <1>1 DEF SearchTree, Nested, NestedAt
  <2> QED BY <1>1, <2>1 DEF SearchTree, Nested
<1>9. ASSUME NEW x \in S, NEW s \in Side, NEW z \in sub[m[x][s]]
      PROVE  Beyond(m, s, z, x)
  <2>1. z \in sub[n[x][s]]
    BY <1>9
  <2>2. Beyond(n, s, z, x)
    BY <1>1, <2>1 DEF SearchTree, Ordered, OrderedAt
  <2>3. z \in S
    <3>1. n[x][s] \in Pointer
      BY <1>2, FieldTypes
    <3> QED BY <1>1, <2>1, <3>1 DEF SearchTree, Nested
  <2> QED BY <2>2, <2>3 DEF Beyond, rank
<1>10. Ordered(m, S, sub)
  BY <1>9 DEF Ordered, OrderedAt
<1>11. LevelBut(m, S, h, NULL, "left", 0)
  <2>1. \A x \in S, s \in Side : \A d : Even(n, h, x, s, d) <=> Even(m, h, x, s, d)
    BY DEF Even
  <2> QED BY <1>1, <2>1 DEF LevelBut, Side
<1> QED BY <1>7, <1>8, <1>10, <1>11 DEF SoundTree, SearchTree

(* The nodes of a sound tree.                                                *)
LEMMA SoundNodes ==
  ASSUME NEW n, NEW r, NEW sz, NEW S, SoundTree(r, sz, n, S)
  PROVE  /\ sz \in Nat /\ r \in Pointer /\ r \in S \union {NULL} /\ S \in SUBSET Elem /\ n \in Heap /\ FieldsOf(n, S)
         /\ \A y \in S : n[y] \in Node /\ n[y] # Free
<1>1. PICK sub, h : SearchTree(n, r, S, sub) /\ LevelBut(n, S, h, NULL, "left", 0)
  BY DEF SoundTree
<1>2. FieldsOf(n, S) /\ r \in S \union {NULL} /\ S \in SUBSET Elem /\ n \in Heap
  BY <1>1 DEF SearchTree, Shaped, FieldsOf
<1>3. r \in Pointer
  BY <1>2 DEF Pointer
<1>4. sz \in Nat
  BY FS_CardinalityType DEF SoundTree
<1>5. \A y \in S : n[y] \in Node /\ n[y] # Free
  BY <1>1, <1>2, NodesOf
<1> QED BY <1>2, <1>3, <1>4, <1>5

(* What the functions leave is a sound tree.                                 *)
LEMMA WholeSound ==
  ASSUME NEW t, NEW sz, NEW n, NEW S, Whole(t, sz, n, S), IsFiniteSet(S), sz = Cardinality(S)
  PROVE  \E n2, r2 : /\ t = Record(r2, sz, n2) /\ SoundTree(r2, sz, n2, S)
                     /\ \A y \in Elem \ S : n2[y] = n[y]
<1>1. PICK n2, r2, sub2, h2 : /\ t = Record(r2, sz, n2) /\ SearchTree(n2, r2, S, sub2)
                              /\ LevelBut(n2, S, h2, NULL, "left", 0) /\ \A y \in Elem \ S : n2[y] = n[y]
  BY DEF Whole
<1>2. SoundTree(r2, sz, n2, S)
  BY <1>1 DEF SoundTree
<1> QED BY <1>1, <1>2

(* NULL is no element, and freed memory is no node.                          *)
LEMMA NullPointers == Free \notin Pointer /\ NULL \in Pointer /\ NULL \notin Elem /\ Node \subseteq Fields /\ Free \notin Node
<1>1. Free \notin Pointer /\ Free \notin Node /\ NULL \notin Elem
  BY NullAssumption
<1> QED BY <1>1 DEF Pointer, Node, Fields

(* own[tr]: the elements of the tree tr; D: those that the client is to      *)
(* destroy.                                                                  *)
OwnedBy(R, Z, n, D, own) ==
  /\ R \in [Tree -> Pointer \union {Free}] /\ Z \in [Tree -> Nat] /\ n \in [Elem -> Node \union {Free}]
  /\ own \in [Tree -> SUBSET Elem] /\ D \in SUBSET Elem
  /\ \A tr \in Tree : IF R[tr] = Free THEN own[tr] = {} /\ Z[tr] = 0
                      ELSE SoundTree(R[tr], Z[tr], n, own[tr])
  /\ \A tr \in Tree, u \in Tree : tr # u => own[tr] \intersect own[u] = {}
  /\ \A tr \in Tree : own[tr] \intersect D = {}
  /\ \A e \in Elem : n[e] # Free <=> e \in D \/ \E tr \in Tree : e \in own[tr]

(* A call on one tree that takes and gives elements leaves the others sound. *)
LEMMA OwnedStep ==
  ASSUME NEW R, NEW Z, NEW n, NEW D, NEW own, OwnedBy(R, Z, n, D, own), NEW tr \in Tree,
         NEW T \in SUBSET Elem, NEW r2, NEW sz2, NEW n2 \in [Elem -> Node \union {Free}],
         NEW D2 \in SUBSET Elem, SoundTree(r2, sz2, n2, T), T \intersect D2 = {},
         \A u \in Tree : u # tr => /\ own[u] \intersect T = {} /\ own[u] \intersect D2 = {}
                                   /\ \A y \in own[u] : n2[y] = n[y],
         \A e \in Elem : n2[e] # Free <=> e \in D2 \/ e \in T \/ \E u \in Tree : u # tr /\ e \in own[u]
  PROVE  OwnedBy([R EXCEPT ![tr] = r2], [Z EXCEPT ![tr] = sz2], n2, D2, [own EXCEPT ![tr] = T])
<1>1. /\ R \in [Tree -> Pointer \union {Free}] /\ Z \in [Tree -> Nat] /\ own \in [Tree -> SUBSET Elem]
      /\ \A u \in Tree : IF R[u] = Free THEN own[u] = {} /\ Z[u] = 0 ELSE SoundTree(R[u], Z[u], n, own[u])
      /\ \A v \in Tree, u \in Tree : v # u => own[v] \intersect own[u] = {}
  BY DEF OwnedBy
<1>2. PICK R2, Z2, own2 : /\ R2 = [R EXCEPT ![tr] = r2] /\ Z2 = [Z EXCEPT ![tr] = sz2]
                          /\ own2 = [own EXCEPT ![tr] = T]
  OBVIOUS
<1>3. /\ R2[tr] = r2 /\ Z2[tr] = sz2 /\ own2[tr] = T
      /\ \A u \in Tree : u # tr => R2[u] = R[u] /\ Z2[u] = Z[u] /\ own2[u] = own[u]
  BY <1>1, <1>2
<1>4. sz2 \in Nat /\ r2 \in Pointer
  BY SoundNodes
<1>5. R2 \in [Tree -> Pointer \union {Free}] /\ Z2 \in [Tree -> Nat] /\ own2 \in [Tree -> SUBSET Elem]
  BY <1>1, <1>2, <1>4
<1>6. n2 \in Heap
  BY NullPointers DEF Heap
<1>7. r2 # Free
  BY <1>4, NullPointers
<1>8. ASSUME NEW u \in Tree
      PROVE  IF R2[u] = Free THEN own2[u] = {} /\ Z2[u] = 0 ELSE SoundTree(R2[u], Z2[u], n2, own2[u])
  <2>1. CASE u = tr
    BY <1>3, <1>7, <2>1
  <2>2. CASE u # tr
    <3>1. CASE R[u] = Free
      BY <1>1, <1>3, <2>2, <3>1
    <3>2. CASE R[u] # Free
      <4>1. SoundTree(R[u], Z[u], n, own[u])
        BY <1>1, <3>2
      <4>2. \A y \in own[u] : n2[y] = n[y]
        BY <2>2
      <4>3. SoundTree(R[u], Z[u], n2, own[u])
        BY <1>6, <4>1, <4>2, SoundFrame
      <4> QED BY <1>3, <2>2, <3>2, <4>3
    <3> QED BY <3>1, <3>2
  <2> QED BY <2>1, <2>2
<1>9. \A v \in Tree, u \in Tree : v # u => own2[v] \intersect own2[u] = {}
  BY <1>1, <1>3
<1>10. \A u \in Tree : own2[u] \intersect D2 = {}
  BY <1>3
<1>11. \A e \in Elem : n2[e] # Free <=> e \in D2 \/ \E u \in Tree : e \in own2[u]
  BY <1>3
<1>12. OwnedBy(R2, Z2, n2, D2, own2)
  BY <1>5, <1>8, <1>9, <1>10, <1>11 DEF OwnedBy
<1> QED BY <1>2, <1>12

------------------------------------------------------------------------------
(* The inductive invariant: every tree is sound, the trees and the client    *)
(* own different elements, and what nobody owns is free. Each call keeps it. *)

(* One call on the tree tr, which may take the free nodes X.                 *)
Turn(n2, n, S, X, T, D, D2) ==
  /\ \A y \in Elem \ (S \union X) : n2[y] = n[y]
  /\ \A y \in X : n[y] = Free
  /\ T \subseteq S \union X /\ D \subseteq D2 /\ D2 \subseteq D \union S \union X /\ T \intersect D2 = {}
  /\ \A y \in S \union X : IF y \in D2 THEN n2[y] \in Node ELSE y \notin T => n2[y] = Free

(* The same, of a call that changes the elements of its tree from S to T.    *)
LEMMA OwnedTurn ==
  ASSUME NEW R, NEW Z, NEW n, NEW D, NEW own, OwnedBy(R, Z, n, D, own), NEW tr \in Tree,
         NEW S, S = own[tr], NEW X \in SUBSET Elem, NEW T \in SUBSET Elem, NEW D2 \in SUBSET Elem,
         NEW r2, NEW sz2, NEW n2, SoundTree(r2, sz2, n2, T), Turn(n2, n, S, X, T, D, D2)
  PROVE  OwnedBy([R EXCEPT ![tr] = r2], [Z EXCEPT ![tr] = sz2], n2, D2, [own EXCEPT ![tr] = T])
<1>1. /\ n \in [Elem -> Node \union {Free}] /\ own \in [Tree -> SUBSET Elem] /\ D \in SUBSET Elem
      /\ \A v \in Tree, u \in Tree : v # u => own[v] \intersect own[u] = {}
      /\ \A u \in Tree : own[u] \intersect D = {}
      /\ \A e \in Elem : n[e] # Free <=> e \in D \/ \E u \in Tree : e \in own[u]
  BY DEF OwnedBy
<1>2. /\ \A y \in Elem \ (S \union X) : n2[y] = n[y]
      /\ \A y \in X : n[y] = Free
      /\ T \subseteq S \union X /\ D \subseteq D2 /\ D2 \subseteq D \union S \union X /\ T \intersect D2 = {}
      /\ \A y \in S \union X : IF y \in D2 THEN n2[y] \in Node ELSE y \notin T => n2[y] = Free
  BY DEF Turn
<1>3. n2 \in Heap /\ \A y \in T : n2[y] \in Node /\ n2[y] # Free
  BY SoundNodes
<1>4. Free \notin Node
  BY NullPointers
<1>5. S \in SUBSET Elem
  BY <1>1
<1>6. ASSUME NEW y \in Elem
      PROVE  n2[y] \in Node \union {Free}
  <2>1. CASE y \in S \union X
    BY <1>2, <1>3, <2>1
  <2>2. CASE y \notin S \union X
    BY <1>1, <1>2, <2>2
  <2> QED BY <2>1, <2>2
<1>7. n2 \in [Elem -> Node \union {Free}]
  BY <1>3, <1>6 DEF Heap
<1>8. ASSUME NEW u \in Tree, u # tr
      PROVE  /\ own[u] \intersect T = {} /\ own[u] \intersect D2 = {}
             /\ \A y \in own[u] : n2[y] = n[y]
  <2>1. own[u] \in SUBSET Elem /\ own[u] \intersect S = {} /\ own[u] \intersect D = {}
    BY <1>1, <1>8
  <2>2. own[u] \intersect X = {}
    BY <1>1, <1>2, <2>1
  <2> QED BY <1>2, <2>1, <2>2
<1>9. ASSUME NEW y \in Elem
      PROVE  n2[y] # Free <=> y \in D2 \/ y \in T \/ \E u \in Tree : u # tr /\ y \in own[u]
  <2>1. CASE y \in S \union X
    <3>1. \A u \in Tree : u # tr => y \notin own[u]
      BY <1>1, <1>2, <2>1
    <3> QED BY <1>2, <1>3, <1>4, <2>1, <3>1
  <2>2. CASE y \notin S \union X
    <3>1. n2[y] = n[y] /\ y \notin T /\ (y \in D2 <=> y \in D)
      BY <1>2, <2>2
    <3>2. (\E u \in Tree : y \in own[u]) <=> (\E u \in Tree : u # tr /\ y \in own[u])
      BY <2>2
    <3> QED BY <1>1, <3>1, <3>2
  <2> QED BY <2>1, <2>2
<1>10. T \intersect D2 = {}
  BY <1>2
<1> QED BY <1>7, <1>8, <1>9, <1>10, OwnedStep

IInv == \E own : OwnedBy(root, size, node, detached, own)

(* The new element was free.                                                 *)
LEMMA FreshFacts ==
  ASSUME NEW n, NEW k \in Key, FreeSlots(n, k) # {}
  PROVE  Fresh(n, k) \in Elem /\ n[Fresh(n, k)] = Free /\ Fresh(n, k)[1] = k
<1>1. PICK F : F = FreeSlots(n, k)
  OBVIOUS
<1>2. F \in SUBSET Nat
  BY <1>1, SlotAssumption DEF FreeSlots
<1>3. PICK s : s = CHOOSE x \in F : \A z \in F : x <= z
  OBVIOUS
<1>4. s \in F
  BY <1>1, <1>2, <1>3, LeastFacts
<1>5. s \in Slot /\ n[<<k, s>>] = Free
  BY <1>1, <1>4 DEF FreeSlots
<1>6. Fresh(n, k) = <<k, s>>
  BY <1>1, <1>3 DEF Fresh
<1> QED BY <1>5, <1>6 DEF Elem

(* The tree of the nodes S becomes one of the nodes T: a new node has the    *)
(* entry that is put, and takes the place of those with the rank of its key. *)
PutNode(n2, n, D2, D, S, T, k, v, e, X) ==
  /\ T = (S \ X) \union {e} /\ D2 = D \union X
  /\ n2[e].key = k /\ n2[e].value = v
  /\ \A y \in S : n2[y].key = n[y].key /\ n2[y].value = n[y].value
  /\ \A y \in Elem \ (S \union {e}) : n2[y] = n[y]
  /\ \A x \in X : x \notin D /\ rank(n, x) = Rank[k]
PutLeaves(n2, n, D2, D, S, T, k, v) ==
  \E e \in T \ S, X \in SUBSET S : PutNode(n2, n, D2, D, S, T, k, v, e, X)

(* One call on the tree tr has left the nodes T in it.                       *)
Holds(own, tr, T) ==
  /\ OwnedBy(root', size', node', detached', [own EXCEPT ![tr] = T])
  /\ \E r \in Pointer : root' = [root EXCEPT ![tr] = r]

(* Such a call keeps the invariant.                                          *)
LEMMA HoldsIInv ==
  ASSUME NEW own, NEW tr, NEW T, Holds(own, tr, T)
  PROVE  IInv'
  BY DEF Holds, IInv

(* make_avl_tree() leaves an empty tree.                                     *)
LEMMA MakeOwned ==
  ASSUME NEW own, OwnedBy(root, size, node, detached, own), NEW tr \in Tree, Make(tr)
  PROVE  Holds(own, tr, {})
<1>1. OwnedBy(root, size, node, detached, own)
  OBVIOUS
<1>2. /\ root[tr] = Free /\ root' = [root EXCEPT ![tr] = NULL]
      /\ size' = size /\ node' = node /\ detached' = detached
  BY DEF Make
<1>3. own[tr] = {} /\ size[tr] = 0 /\ size \in [Tree -> Nat] /\ node \in [Elem -> Node \union {Free}]
      /\ detached \in SUBSET Elem
  BY <1>1, <1>2 DEF OwnedBy
<1>4. node \in Heap
  BY <1>3, NullPointers DEF Heap
<1>5. SoundTree(NULL, 0, node, {})
  <2>1. Whole(Record(NULL, 0, node), 0, node, {})
    BY <1>4, EmptyWhole
  <2>2. IsFiniteSet({}) /\ 0 = Cardinality({})
    BY FS_EmptySet
  <2>3. PICK n2, r2 : Record(NULL, 0, node) = Record(r2, 0, n2) /\ SoundTree(r2, 0, n2, {})
    BY <2>1, <2>2, WholeSound
  <2>4. r2 = NULL /\ n2 = node
    BY <2>3, RecordFacts
  <2> QED BY <2>3, <2>4
<1>6. Turn(node, node, {}, {}, {}, detached, detached)
  BY DEF Turn
<1>7. OwnedBy([root EXCEPT ![tr] = NULL], [size EXCEPT ![tr] = 0], node, detached, [own EXCEPT ![tr] = {}])
  BY <1>1, <1>3, <1>5, <1>6, OwnedTurn
<1>8. [size EXCEPT ![tr] = 0] = size
  BY <1>3
<1>9. NULL \in Pointer
  BY NullPointers
<1> QED BY <1>2, <1>7, <1>8, <1>9 DEF Holds

(* make_avl_tree().                                                          *)
LEMMA MakeSound ==
  ASSUME IInv, NEW tr \in Tree, Make(tr)
  PROVE  IInv'
<1>1. PICK own : OwnedBy(root, size, node, detached, own)
  BY DEF IInv
<1> QED BY <1>1, MakeOwned, HoldsIInv

(* avl_tree_put() leaves the new node in the tree, and in the hands of the   *)
(* client the one it replaces.                                               *)
LEMMA PutOwned ==
  ASSUME NEW own, OwnedBy(root, size, node, detached, own),
         NEW tr \in Tree, NEW k \in Key, NEW v \in Value, Put(tr, k, v)
  PROVE  \E T : Holds(own, tr, T) /\ PutLeaves(node', node, detached', detached, own[tr], T, k, v)
<1>1. OwnedBy(root, size, node, detached, own)
  OBVIOUS
<1>2. PICK r, sz, S : r = root[tr] /\ sz = size[tr] /\ S = own[tr]
  OBVIOUS
<1>3. /\ root \in [Tree -> Pointer \union {Free}] /\ size \in [Tree -> Nat]
      /\ node \in [Elem -> Node \union {Free}] /\ own \in [Tree -> SUBSET Elem] /\ detached \in SUBSET Elem
      /\ S \in SUBSET Elem
      /\ \A u \in Tree : own[u] \intersect detached = {}
      /\ \A e \in Elem : node[e] # Free <=> e \in detached \/ \E u \in Tree : e \in own[u]
  BY <1>1, <1>2 DEF OwnedBy
<1>4. r # Free /\ FreeSlots(node, k) # {}
  BY <1>2 DEF Put, Live
<1>5. SoundTree(r, sz, node, S)
  BY <1>1, <1>2, <1>4 DEF OwnedBy
<1>6. PICK e : e = Fresh(node, k)
  OBVIOUS
<1>7. e \in Elem /\ node[e] = Free
  BY <1>4, <1>6, FreshFacts
<1>8. e \notin S /\ e \notin detached
  BY <1>2, <1>3, <1>7
<1>9. PICK n1 : n1 = [node EXCEPT ![e] = make_element(k, v)]
  OBVIOUS
<1>10. make_element(k, v) \in Node /\ make_element(k, v).left = NULL /\ make_element(k, v).right = NULL
       /\ make_element(k, v).parent = NULL /\ make_element(k, v).balance = 0
       /\ make_element(k, v).key = k /\ make_element(k, v).value = v
  BY NullPointers DEF make_element, Node
<1>11. n1 \in Heap /\ n1[e] = make_element(k, v) /\ \A y \in Elem : y # e => n1[y] = node[y]
  BY <1>3, <1>7, <1>9, <1>10, NullPointers DEF Heap
<1>12. SoundTree(r, sz, n1, S)
  <2>1. \A y \in S : n1[y] = node[y]
    BY <1>3, <1>8, <1>11
  <2> QED BY <1>5, <1>11, <2>1, SoundFrame
<1>13. Made(n1, S, e)
  <2>1. FieldsOf(n1, S)
    BY <1>12, SoundNodes
  <2>2. n1[e] \in Fields /\ \A s \in Side : n1[e][s] = NULL
    BY <1>10, <1>11, NullPointers DEF Side
  <2>3. FieldsOf(n1, S \union {e})
    BY <1>7, <2>1, <2>2 DEF FieldsOf
  <2> QED BY <1>7, <1>8, <1>10, <1>11, <2>2, <2>3 DEF Made
<1>14. PICK s : s = avl_tree_put(Record(r, sz, n1), e)
  OBVIOUS
<1>15. PutResult(s, sz, n1, S, e)
  <2>1. PICK sub, h : SearchTree(n1, r, S, sub) /\ LevelBut(n1, S, h, NULL, "left", 0)
    BY <1>12 DEF SoundTree
  <2>2. IsFiniteSet(S) /\ sz = Cardinality(S)
    BY <1>12 DEF SoundTree
  <2> QED BY <1>13, <1>14, <2>1, <2>2, TreePutSound
<1>16. /\ root' = [root EXCEPT ![tr] = s.tree.root] /\ size' = [size EXCEPT ![tr] = s.tree.size]
       /\ node' = s.tree.node /\ detached' = detached \union ({s.removed} \ {NULL})
  <2>1. [tree(tr) EXCEPT !.node[e] = make_element(k, v)] = Record(r, sz, n1)
    BY <1>2, <1>9 DEF tree, Record
  <2>2. Stored(tr, s)
    BY <1>6, <1>14, <2>1 DEF Put
  <2> QED BY <2>2 DEF Stored, Become
<1>17. IsFiniteSet(S) /\ sz = Cardinality(S) /\ sz \in Nat
  BY <1>5, SoundNodes DEF SoundTree
<1>17a. Carries(s.tree, n1)
  BY <1>15 DEF PutResult
<1>17b. ASSUME NEW m, Kept(m, n1)
        PROVE  /\ m[e].key = k /\ m[e].value = v
               /\ \A y \in S : m[y].key = node[y].key /\ m[y].value = node[y].value
  <2>1. PICK A : A = S \union {e}
    OBVIOUS
  <2>2. FieldsOf(n1, A)
    BY <1>13, <2>1 DEF Made
  <2>3. \A y \in A : m[y].key = n1[y].key /\ m[y].value = n1[y].value
    BY <1>17b, <2>2, KeptFields
  <2>4. \A y \in S : n1[y] = node[y]
    BY <1>3, <1>8, <1>11
  <2> QED BY <1>10, <1>11, <2>1, <2>3, <2>4
<1>18. CASE s.removed = NULL /\ Whole(s.tree, sz + 1, n1, S \union {e})
  <2>1. PICK T : T = S \union {e}
    OBVIOUS
  <2>2. IsFiniteSet(T) /\ sz + 1 = Cardinality(T)
    <3>1. /\ IsFiniteSet(S \union {e})
          /\ Cardinality(S \union {e}) = IF e \in S THEN Cardinality(S) ELSE Cardinality(S) + 1
      BY <1>17, FS_AddElement
    <3> QED BY <1>8, <1>17, <2>1, <3>1
  <2>3. PICK n2, r2 : /\ s.tree = Record(r2, sz + 1, n2) /\ SoundTree(r2, sz + 1, n2, T)
                      /\ \A y \in Elem \ T : n2[y] = n1[y]
    BY <1>18, <2>1, <2>2, WholeSound
  <2>4. Turn(n2, node, S, {e}, T, detached, detached)
    <3>1. \A y \in Elem \ (S \union {e}) : n2[y] = node[y]
      BY <1>11, <2>1, <2>3
    <3>2. \A y \in S \union {e} : y \notin detached /\ y \in T
      BY <1>2, <1>3, <1>8, <2>1
    <3> QED BY <1>7, <2>1, <3>1, <3>2 DEF Turn
  <2>5. T \in SUBSET Elem /\ {e} \in SUBSET Elem
    BY <1>3, <1>7, <2>1
  <2>6. OwnedBy([root EXCEPT ![tr] = r2], [size EXCEPT ![tr] = sz + 1], n2, detached, [own EXCEPT ![tr] = T])
    BY <1>1, <1>2, <1>3, <2>3, <2>4, <2>5, OwnedTurn
  <2>7. /\ root' = [root EXCEPT ![tr] = r2] /\ size' = [size EXCEPT ![tr] = sz + 1]
        /\ node' = n2 /\ detached' = detached
    <3>1. s.tree.root = r2 /\ s.tree.size = sz + 1 /\ s.tree.node = n2
      BY <2>3, RecordFacts
    <3>2. detached' = detached
      BY <1>16, <1>18
    <3> QED BY <1>16, <3>1, <3>2
  <2>8. Kept(n2, n1)
    BY <1>17a, <2>3, CarriesNode
  <2>9. r2 \in Pointer
    BY <2>3, SoundNodes
  <2>10. PutLeaves(n2, node, detached, detached, S, T, k, v)
    <3>1. PICK X : X = {}
      OBVIOUS
    <3>2. \A y \in Elem \ (S \union {e}) : n2[y] = node[y]
      BY <1>11, <2>1, <2>3
    <3>3. T = (S \ X) \union {e} /\ detached = detached \union X /\ e \in T \ S /\ X \in SUBSET S
      BY <1>8, <2>1, <3>1
    <3>4. PutNode(n2, node, detached, detached, S, T, k, v, e, X)
      BY <1>17b, <2>8, <3>1, <3>2, <3>3 DEF PutNode
    <3> QED BY <3>3, <3>4 DEF PutLeaves
  <2> QED BY <1>2, <2>6, <2>7, <2>9, <2>10 DEF Holds
<1>19. CASE s.removed \in S /\ rank(n1, s.removed) = rank(n1, e) /\ Whole(s.tree, sz, n1, (S \ {s.removed}) \union {e})
  <2>1. PICK x \in S : x = s.removed
    BY <1>19
  <2>2. PICK T : T = (S \ {x}) \union {e}
    OBVIOUS
  <2>3. IsFiniteSet(T) /\ sz = Cardinality(T)
    <3>1. PICK S1 : S1 = S \ {x}
      OBVIOUS
    <3>2. IsFiniteSet(S1) /\ Cardinality(S1) = sz - 1
      <4>1. /\ IsFiniteSet(S \ {x})
            /\ Cardinality(S \ {x}) = IF x \in S THEN Cardinality(S) - 1 ELSE Cardinality(S)
        BY <1>17, FS_RemoveElement
      <4> QED BY <1>17, <2>1, <3>1, <4>1
    <3>3. /\ IsFiniteSet(S1 \union {e})
          /\ Cardinality(S1 \union {e}) = IF e \in S1 THEN Cardinality(S1) ELSE Cardinality(S1) + 1
      BY <3>2, FS_AddElement
    <3>4. e \notin S1
      BY <1>8, <3>1
    <3> QED BY <1>17, <2>2, <3>1, <3>2, <3>3, <3>4
  <2>4. PICK n2, r2 : /\ s.tree = Record(r2, sz, n2) /\ SoundTree(r2, sz, n2, T)
                      /\ \A y \in Elem \ T : n2[y] = n1[y]
    BY <1>19, <2>1, <2>2, <2>3, WholeSound
  <2>5. PICK D2 : D2 = detached \union {x}
    OBVIOUS
  <2>6. x \in Elem /\ x # e /\ x # NULL /\ node[x] \in Node
    <3>1. x \in Elem
      BY <1>3, <2>1
    <3>2. node[x] \in Node
      BY <1>5, <2>1, SoundNodes
    <3> QED BY <1>8, <2>1, <3>1, <3>2, NullPointers
  <2>7. Turn(n2, node, S, {e}, T, detached, D2)
    <3>1. \A y \in Elem \ (S \union {e}) : n2[y] = node[y]
      BY <1>11, <2>2, <2>4
    <3>2. n2[x] = node[x]
      BY <1>11, <2>2, <2>4, <2>6
    <3>3. \A y \in S \union {e} : IF y \in D2 THEN n2[y] \in Node ELSE y \in T
      BY <1>2, <1>3, <1>8, <2>2, <2>5, <2>6, <3>2
    <3>4. T \subseteq S \union {e} /\ T \intersect D2 = {}
      BY <1>2, <1>3, <1>8, <2>2, <2>5, <2>6
    <3> QED BY <1>7, <2>5, <3>1, <3>3, <3>4 DEF Turn
  <2>8. T \in SUBSET Elem /\ {e} \in SUBSET Elem /\ D2 \in SUBSET Elem
    BY <1>3, <1>7, <2>2, <2>5, <2>6
  <2>9. OwnedBy([root EXCEPT ![tr] = r2], [size EXCEPT ![tr] = sz], n2, D2, [own EXCEPT ![tr] = T])
    BY <1>1, <1>2, <2>4, <2>7, <2>8, OwnedTurn
  <2>10. /\ root' = [root EXCEPT ![tr] = r2] /\ size' = [size EXCEPT ![tr] = sz]
         /\ node' = n2 /\ detached' = D2
    <3>1. s.tree.root = r2 /\ s.tree.size = sz /\ s.tree.node = n2
      BY <2>4, RecordFacts
    <3>2. detached' = D2
      BY <1>16, <2>1, <2>5, <2>6
    <3> QED BY <1>16, <3>1, <3>2
  <2>11. Kept(n2, n1)
    BY <1>17a, <2>4, CarriesNode
  <2>12. r2 \in Pointer
    BY <2>4, SoundNodes
  <2>13. PutLeaves(n2, node, D2, detached, S, T, k, v)
    <3>1. PICK X : X = {x}
      OBVIOUS
    <3>2. \A y \in Elem \ (S \union {e}) : n2[y] = node[y]
      BY <1>11, <2>2, <2>4
    <3>3. T = (S \ X) \union {e} /\ D2 = detached \union X /\ e \in T \ S /\ X \in SUBSET S
      BY <1>8, <2>1, <2>2, <2>5, <3>1
    <3>4. rank(node, x) = Rank[k]
      <4>1. n1[x] = node[x] /\ n1[e].key = k
        BY <1>10, <1>11, <2>6
      <4> QED BY <1>19, <2>1, <4>1 DEF rank
    <3>5. x \notin detached
      BY <1>2, <1>3, <2>1
    <3>6. PutNode(n2, node, D2, detached, S, T, k, v, e, X)
      BY <1>17b, <2>11, <3>1, <3>2, <3>3, <3>4, <3>5 DEF PutNode
    <3> QED BY <3>3, <3>6 DEF PutLeaves
  <2> QED BY <1>2, <2>9, <2>10, <2>12, <2>13 DEF Holds
<1> QED BY <1>15, <1>18, <1>19 DEF PutResult

(* avl_tree_put(): the new element is in the tree, the replaced one is the   *)
(* client's.                                                                 *)
LEMMA PutIInv ==
  ASSUME IInv, NEW tr \in Tree, NEW k \in Key, NEW v \in Value, Put(tr, k, v)
  PROVE  IInv'
<1>1. PICK own : OwnedBy(root, size, node, detached, own)
  BY DEF IInv
<1> QED BY <1>1, PutOwned, HoldsIInv

(* The walk of a sound tree.                                                 *)
LEMMA SoundEnumerates ==
  ASSUME NEW r, NEW sz, NEW n, NEW S, SoundTree(r, sz, n, S)
  PROVE  Enumerates(Walk(n, sz)[r], n, S)
<1>1. PICK sub, h : SearchTree(n, r, S, sub) /\ LevelBut(n, S, h, NULL, "left", 0)
  BY DEF SoundTree
<1>2. IsFiniteSet(S) /\ sz \in Nat /\ Cardinality(S) <= sz /\ \A x \in S : n[x] # Free
  <2>1. IsFiniteSet(S) /\ sz = Cardinality(S)
    BY DEF SoundTree
  <2>2. sz \in Nat /\ \A x \in S : n[x] # Free
    BY SoundNodes
  <2> QED BY <2>1, <2>2
<1> QED BY <1>1, <1>2, WalkSound

(* The elements that the walk finds are those that the tree owns.            *)
LEMMA OwnElements ==
  ASSUME NEW own, OwnedBy(root, size, node, detached, own), NEW tr \in Tree, root[tr] # Free
  PROVE  /\ Enumerates(InOrder(tr), node, own[tr]) /\ Elements(tr) = own[tr]
         /\ SoundTree(root[tr], size[tr], node, own[tr])
<1>1. SoundTree(root[tr], size[tr], node, own[tr])
  BY DEF OwnedBy
<1>2. PICK w : w = InOrder(tr)
  OBVIOUS
<1>3. Enumerates(w, node, own[tr])
  BY <1>1, <1>2, SoundEnumerates DEF InOrder
<1>4. w \in Seq(Elem) /\ own[tr] = {w[i] : i \in 1..Len(w)}
  BY <1>3, EnumeratesFacts
<1>5. Elements(tr) = {w[i] : i \in DOMAIN w}
  BY <1>2 DEF Elements
<1>6. DOMAIN w = 1..Len(w)
  BY <1>4
<1>7. Elements(tr) = own[tr]
  BY <1>4, <1>5, <1>6
<1> QED BY <1>1, <1>2, <1>3, <1>7

(* avl_tree_detach() of e leaves t.                                          *)
DetachSound(t, sz, n, S, e) ==
  \E r2, n2 : /\ t = Record(r2, sz - 1, n2) /\ SoundTree(r2, sz - 1, n2, S \ {e})
              /\ n2[e] \in Node /\ (\A y \in Elem \ S : n2[y] = n[y]) /\ Kept(n2, n)

(* avl_tree_detach() of a sound tree.                                        *)
LEMMA DetachLeaves ==
  ASSUME NEW n, NEW r, NEW sz, NEW S, SoundTree(r, sz, n, S), NEW e \in S
  PROVE  DetachSound(avl_tree_detach(Record(r, sz, n), e), sz, n, S, e)
<1>1. PICK sub, h : SearchTree(n, r, S, sub) /\ LevelBut(n, S, h, NULL, "left", 0)
  BY DEF SoundTree
<1>2. IsFiniteSet(S) /\ sz \in Nat /\ sz = Cardinality(S) /\ Cardinality(S) <= sz /\ S \in SUBSET Elem
  <2>1. IsFiniteSet(S) /\ sz = Cardinality(S)
    BY DEF SoundTree
  <2>2. sz \in Nat /\ S \in SUBSET Elem
    BY SoundNodes
  <2> QED BY <2>1, <2>2
<1>3. PICK t : t = avl_tree_detach(Record(r, sz, n), e)
  OBVIOUS
<1>4. DetachResult(t, sz - 1, n, S, e)
  BY <1>1, <1>2, <1>3, TreeDetachSound
<1>5. PICK n1 \in Heap : /\ Whole(t, sz - 1, n1, S \ {e}) /\ n1[e] \in Node
                         /\ \A y \in Elem \ S : n1[y] = n[y]
  BY <1>4 DEF DetachResult
<1>6. PICK T : T = S \ {e}
  OBVIOUS
<1>7. IsFiniteSet(T) /\ sz - 1 = Cardinality(T)
  <2>1. /\ IsFiniteSet(S \ {e})
        /\ Cardinality(S \ {e}) = IF e \in S THEN Cardinality(S) - 1 ELSE Cardinality(S)
    BY <1>2, FS_RemoveElement
  <2> QED BY <1>2, <1>6, <2>1
<1>8. PICK n2, r2 : /\ t = Record(r2, sz - 1, n2) /\ SoundTree(r2, sz - 1, n2, T)
                    /\ \A y \in Elem \ T : n2[y] = n1[y]
  BY <1>5, <1>6, <1>7, WholeSound
<1>9. n2[e] \in Node /\ \A y \in Elem \ S : n2[y] = n[y]
  BY <1>2, <1>5, <1>6, <1>8
<1>10. Kept(n2, n)
  <2>1. Carries(t, n)
    BY <1>4 DEF DetachResult
  <2> QED BY <1>8, <2>1, CarriesNode
<1> QED BY <1>3, <1>6, <1>8, <1>9, <1>10 DEF DetachSound

(* The tree of the nodes S becomes one of the nodes T, without e.            *)
TakeLeaves(n2, n, S, T, e) ==
  /\ T = S \ {e} /\ e \in S
  /\ \A y \in T : n2[y].key = n[y].key /\ n2[y].value = n[y].value
  /\ \A y \in Elem \ S : n2[y] = n[y]

(* avl_tree_detach() leaves the others in the tree, and the element in the   *)
(* hands of the client.                                                      *)
LEMMA DetachOwned ==
  ASSUME NEW own, OwnedBy(root, size, node, detached, own),
         NEW tr \in Live, NEW e \in Elements(tr), Detach(tr, e)
  PROVE  /\ \E T : Holds(own, tr, T) /\ TakeLeaves(node', node, own[tr], T, e)
         /\ detached' = detached \union {e} /\ e \notin detached
         /\ node'[e].key = node[e].key /\ node'[e].value = node[e].value
<1>1. OwnedBy(root, size, node, detached, own)
  OBVIOUS
<1>2. PICK r, sz, S : r = root[tr] /\ sz = size[tr] /\ S = own[tr]
  OBVIOUS
<1>3. tr \in Tree /\ root[tr] # Free
  BY DEF Live
<1>4. e \in S /\ SoundTree(r, sz, node, S)
  BY <1>1, <1>2, <1>3, OwnElements
<1>5. /\ root \in [Tree -> Pointer \union {Free}] /\ size \in [Tree -> Nat]
      /\ detached \in SUBSET Elem /\ S \in SUBSET Elem /\ S \intersect detached = {}
  BY <1>1, <1>2, <1>3 DEF OwnedBy
<1>6. PICK t : t = avl_tree_detach(Record(r, sz, node), e)
  OBVIOUS
<1>7. DetachSound(t, sz, node, S, e)
  BY <1>4, <1>6, DetachLeaves
<1>8. PICK r2, n2 : /\ t = Record(r2, sz - 1, n2) /\ SoundTree(r2, sz - 1, n2, S \ {e})
                    /\ n2[e] \in Node /\ (\A y \in Elem \ S : n2[y] = node[y]) /\ Kept(n2, node)
  BY <1>7 DEF DetachSound
<1>9. /\ root' = [root EXCEPT ![tr] = t.root] /\ size' = [size EXCEPT ![tr] = t.size]
      /\ node' = t.node /\ detached' = detached \union {e}
  <2>1. tree(tr) = Record(r, sz, node)
    BY <1>2 DEF tree, Record
  <2> QED BY <1>6, <2>1 DEF Detach, Become
<1>10. PICK T, D2 : T = S \ {e} /\ D2 = detached \union {e}
  OBVIOUS
<1>11. Turn(n2, node, S, {}, T, detached, D2)
  <2>1. \A y \in S : IF y \in D2 THEN n2[y] \in Node ELSE y \in T
    BY <1>5, <1>8, <1>10
  <2> QED BY <1>4, <1>5, <1>8, <1>10, <2>1 DEF Turn
<1>12. T \in SUBSET Elem /\ D2 \in SUBSET Elem
  BY <1>4, <1>5, <1>10
<1>13. OwnedBy([root EXCEPT ![tr] = r2], [size EXCEPT ![tr] = sz - 1], n2, D2, [own EXCEPT ![tr] = T])
  BY <1>1, <1>2, <1>3, <1>8, <1>10, <1>11, <1>12, OwnedTurn
<1>14. /\ root' = [root EXCEPT ![tr] = r2] /\ size' = [size EXCEPT ![tr] = sz - 1]
       /\ node' = n2 /\ detached' = D2
  <2>1. t.root = r2 /\ t.size = sz - 1 /\ t.node = n2
    BY <1>8, RecordFacts
  <2> QED BY <1>9, <1>10, <2>1
<1>15. \A y \in S : n2[y].key = node[y].key /\ n2[y].value = node[y].value
  <2>1. FieldsOf(node, S)
    BY <1>4, SoundNodes
  <2> QED BY <1>8, <2>1, KeptFields
<1>16. TakeLeaves(n2, node, S, T, e)
  BY <1>4, <1>8, <1>10, <1>15 DEF TakeLeaves
<1>17. r2 \in Pointer
  BY <1>8, SoundNodes
<1>18. Holds(own, tr, T)
  BY <1>13, <1>14, <1>17 DEF Holds
<1> QED BY <1>2, <1>4, <1>5, <1>10, <1>14, <1>15, <1>16, <1>18

(* avl_tree_detach(): the element is the client's.                           *)
LEMMA DetachIInv ==
  ASSUME IInv, NEW tr \in Live, NEW e \in Elements(tr), Detach(tr, e)
  PROVE  IInv'
<1>1. PICK own : OwnedBy(root, size, node, detached, own)
  BY DEF IInv
<1> QED BY <1>1, DetachOwned, HoldsIInv

(* avl_tree_remove() leaves the others in the tree.                          *)
LEMMA RemoveOwned ==
  ASSUME NEW own, OwnedBy(root, size, node, detached, own),
         NEW tr \in Live, NEW e \in Elements(tr), Remove(tr, e)
  PROVE  \E T : Holds(own, tr, T) /\ TakeLeaves(node', node, own[tr], T, e)
<1>1. OwnedBy(root, size, node, detached, own)
  OBVIOUS
<1>2. PICK r, sz, S : r = root[tr] /\ sz = size[tr] /\ S = own[tr]
  OBVIOUS
<1>3. tr \in Tree /\ root[tr] # Free
  BY DEF Live
<1>4. e \in S /\ SoundTree(r, sz, node, S)
  BY <1>1, <1>2, <1>3, OwnElements
<1>5. /\ root \in [Tree -> Pointer \union {Free}] /\ size \in [Tree -> Nat]
      /\ detached \in SUBSET Elem /\ S \in SUBSET Elem /\ S \intersect detached = {}
  BY <1>1, <1>2, <1>3 DEF OwnedBy
<1>6. PICK t : t = avl_tree_detach(Record(r, sz, node), e)
  OBVIOUS
<1>7. DetachSound(t, sz, node, S, e)
  BY <1>4, <1>6, DetachLeaves
<1>8. PICK r2, n2 : /\ t = Record(r2, sz - 1, n2) /\ SoundTree(r2, sz - 1, n2, S \ {e})
                    /\ n2[e] \in Node /\ (\A y \in Elem \ S : n2[y] = node[y]) /\ Kept(n2, node)
  BY <1>7 DEF DetachSound
<1>9. PICK n3 : n3 = [n2 EXCEPT ![e] = Free]
  OBVIOUS
<1>10. n2 \in Heap /\ n3 \in Heap /\ n3[e] = Free /\ \A y \in Elem : y # e => n3[y] = n2[y]
  <2>1. n2 \in Heap
    BY <1>8, SoundNodes
  <2> QED BY <1>4, <1>5, <1>9, <2>1 DEF Heap
<1>11. PICK T : T = S \ {e}
  OBVIOUS
<1>12. SoundTree(r2, sz - 1, n3, T)
  <2>1. \A y \in T : n3[y] = n2[y]
    BY <1>5, <1>10, <1>11
  <2> QED BY <1>8, <1>10, <1>11, <2>1, SoundFrame
<1>13. Turn(n3, node, S, {}, T, detached, detached)
  <2>1. \A y \in Elem \ S : n3[y] = node[y]
    BY <1>4, <1>8, <1>10
  <2>2. \A y \in S : y \notin detached /\ (y \notin T => n3[y] = Free)
    BY <1>5, <1>10, <1>11
  <2> QED BY <1>5, <1>11, <2>1, <2>2 DEF Turn
<1>14. T \in SUBSET Elem
  BY <1>5, <1>11
<1>15. OwnedBy([root EXCEPT ![tr] = r2], [size EXCEPT ![tr] = sz - 1], n3, detached, [own EXCEPT ![tr] = T])
  BY <1>1, <1>2, <1>3, <1>5, <1>12, <1>13, <1>14, OwnedTurn
<1>16. /\ root' = [root EXCEPT ![tr] = r2] /\ size' = [size EXCEPT ![tr] = sz - 1]
       /\ node' = n3 /\ detached' = detached
  <2>1. tree(tr) = Record(r, sz, node)
    BY <1>2 DEF tree, Record
  <2>2. Removed(t, e) = Record(r2, sz - 1, n3)
    BY <1>8, <1>9 DEF Removed, Record
  <2>3. Removed(t, e).root = r2 /\ Removed(t, e).size = sz - 1 /\ Removed(t, e).node = n3
    BY <2>2, RecordFacts
  <2> QED BY <1>6, <2>1, <2>3 DEF Remove, Become
<1>17. TakeLeaves(n3, node, S, T, e)
  <2>1. FieldsOf(node, S)
    BY <1>4, SoundNodes
  <2>2. \A y \in S : n2[y].key = node[y].key /\ n2[y].value = node[y].value
    BY <1>8, <2>1, KeptFields
  <2>3. \A y \in T : n3[y] = n2[y] /\ y \in S
    BY <1>5, <1>10, <1>11
  <2>4. \A y \in Elem \ S : n3[y] = node[y]
    BY <1>4, <1>8, <1>10
  <2> QED BY <1>4, <1>11, <2>2, <2>3, <2>4 DEF TakeLeaves
<1>18. r2 \in Pointer
  BY <1>8, SoundNodes
<1>19. Holds(own, tr, T)
  BY <1>15, <1>16, <1>18 DEF Holds
<1> QED BY <1>2, <1>16, <1>17, <1>19

(* avl_tree_remove(): the element is freed.                                  *)
LEMMA RemoveIInv ==
  ASSUME IInv, NEW tr \in Live, NEW e \in Elements(tr), Remove(tr, e)
  PROVE  IInv'
<1>1. PICK own : OwnedBy(root, size, node, detached, own)
  BY DEF IInv
<1> QED BY <1>1, RemoveOwned, HoldsIInv

(* Elements of trees that are destroyed, or of the client, are freed.        *)
LEMMA ReleaseOwned ==
  ASSUME NEW R, NEW Z, NEW n, NEW D, NEW own, OwnedBy(R, Z, n, D, own), NEW X,
         NEW R2 \in [Tree -> Pointer \union {Free}], NEW Z2 \in [Tree -> Nat], NEW own2 \in [Tree -> SUBSET Elem],
         \A u \in Tree : \/ R2[u] = R[u] /\ Z2[u] = Z[u] /\ own2[u] = own[u] /\ own[u] \intersect X = {}
                         \/ R2[u] = Free /\ Z2[u] = 0 /\ own2[u] = {} /\ own[u] \subseteq X
  PROVE  OwnedBy(R2, Z2, Release(n, X), D \ X, own2)
<1>1. /\ n \in [Elem -> Node \union {Free}] /\ own \in [Tree -> SUBSET Elem] /\ D \in SUBSET Elem
      /\ \A u \in Tree : IF R[u] = Free THEN own[u] = {} /\ Z[u] = 0 ELSE SoundTree(R[u], Z[u], n, own[u])
      /\ \A v \in Tree, u \in Tree : v # u => own[v] \intersect own[u] = {}
      /\ \A u \in Tree : own[u] \intersect D = {}
      /\ \A e \in Elem : n[e] # Free <=> e \in D \/ \E u \in Tree : e \in own[u]
  BY DEF OwnedBy
<1>2. PICK n2, D2 : n2 = Release(n, X) /\ D2 = D \ X
  OBVIOUS
<1>3. /\ n2 \in [Elem -> Node \union {Free}]
      /\ \A y \in Elem : n2[y] = IF y \in X THEN Free ELSE n[y]
  BY <1>1, <1>2 DEF Release
<1>4. n2 \in Heap
  BY <1>3, NullPointers DEF Heap
<1>5. ASSUME NEW u \in Tree
      PROVE  IF R2[u] = Free THEN own2[u] = {} /\ Z2[u] = 0 ELSE SoundTree(R2[u], Z2[u], n2, own2[u])
  <2>1. CASE R2[u] = R[u] /\ Z2[u] = Z[u] /\ own2[u] = own[u] /\ own[u] \intersect X = {}
    <3>1. CASE R[u] = Free
      BY <1>1, <2>1, <3>1
    <3>2. CASE R[u] # Free
      <4>1. SoundTree(R[u], Z[u], n, own[u])
        BY <1>1, <3>2
      <4>2. \A y \in own[u] : n2[y] = n[y]
        BY <1>1, <1>3, <2>1
      <4>3. SoundTree(R[u], Z[u], n2, own[u])
        BY <1>4, <4>1, <4>2, SoundFrame
      <4> QED BY <2>1, <3>2, <4>3
    <3> QED BY <3>1, <3>2
  <2>2. CASE R2[u] = Free /\ Z2[u] = 0 /\ own2[u] = {}
    BY <2>2
  <2> QED BY <2>1, <2>2
<1>6. \A u \in Tree : own2[u] \subseteq own[u] /\ own2[u] \intersect X = {}
  OBVIOUS
<1>7. \A v \in Tree, u \in Tree : v # u => own2[v] \intersect own2[u] = {}
  BY <1>1, <1>6
<1>8. \A u \in Tree : own2[u] \intersect D2 = {}
  BY <1>1, <1>2, <1>6
<1>9. ASSUME NEW e \in Elem
      PROVE  n2[e] # Free <=> e \in D2 \/ \E u \in Tree : e \in own2[u]
  <2>1. CASE e \in X
    BY <1>2, <1>3, <1>6, <2>1
  <2>2. CASE e \notin X
    <3>1. \A u \in Tree : e \in own2[u] <=> e \in own[u]
      BY <2>2
    <3> QED BY <1>1, <1>2, <1>3, <2>2, <3>1
  <2> QED BY <2>1, <2>2
<1>10. D2 \in SUBSET Elem
  BY <1>1, <1>2
<1>11. OwnedBy(R2, Z2, n2, D2, own2)
  BY <1>3, <1>5, <1>7, <1>8, <1>9, <1>10 DEF OwnedBy
<1> QED BY <1>2, <1>11

(* destroy_avl_tree() frees the nodes of that tree only.                     *)
LEMMA DestroyOwned ==
  ASSUME NEW own, OwnedBy(root, size, node, detached, own), NEW tr \in Tree, Destroy(tr)
  PROVE  /\ OwnedBy(root', size', node', detached', [own EXCEPT ![tr] = {}])
         /\ root' = [root EXCEPT ![tr] = Free] /\ detached' = detached
         /\ \A y \in Elem \ own[tr] : node'[y] = node[y]
<1>1. OwnedBy(root, size, node, detached, own)
  OBVIOUS
<1>2. /\ root \in [Tree -> Pointer \union {Free}] /\ size \in [Tree -> Nat] /\ own \in [Tree -> SUBSET Elem]
      /\ \A u \in Tree, v \in Tree : u # v => own[u] \intersect own[v] = {}
      /\ own[tr] \intersect detached = {}
  BY <1>1 DEF OwnedBy
<1>3. root[tr] # Free
  BY DEF Destroy, Live
<1>4. Elements(tr) = own[tr]
  BY <1>1, <1>3, OwnElements
<1>5. PICK R2, Z2, own2, X : /\ R2 = [root EXCEPT ![tr] = Free] /\ Z2 = [size EXCEPT ![tr] = 0]
                             /\ own2 = [own EXCEPT ![tr] = {}] /\ X = own[tr]
  OBVIOUS
<1>6. R2 \in [Tree -> Pointer \union {Free}] /\ Z2 \in [Tree -> Nat] /\ own2 \in [Tree -> SUBSET Elem]
  BY <1>2, <1>5
<1>7. \A u \in Tree : \/ R2[u] = root[u] /\ Z2[u] = size[u] /\ own2[u] = own[u] /\ own[u] \intersect X = {}
                      \/ R2[u] = Free /\ Z2[u] = 0 /\ own2[u] = {} /\ own[u] \subseteq X
  BY <1>2, <1>5
<1>8. OwnedBy(R2, Z2, Release(node, X), detached \ X, own2)
  BY <1>1, <1>6, <1>7, ReleaseOwned
<1>9. /\ root' = R2 /\ size' = Z2 /\ node' = Release(node, X) /\ detached' = detached \ X
  BY <1>2, <1>4, <1>5 DEF Destroy
<1>10. \A y \in Elem \ X : node'[y] = node[y]
  BY <1>9 DEF Release
<1> QED BY <1>5, <1>8, <1>9, <1>10 DEF Destroy

(* destroy_avl_tree().                                                       *)
LEMMA DestroyIInv ==
  ASSUME IInv, NEW tr \in Tree, Destroy(tr)
  PROVE  IInv'
<1>1. PICK own : OwnedBy(root, size, node, detached, own)
  BY DEF IInv
<1> QED BY <1>1, DestroyOwned DEF IInv

(* Destroying a detached element frees that node only.                       *)
LEMMA DestroyElementOwned ==
  ASSUME NEW own, OwnedBy(root, size, node, detached, own), NEW e, DestroyElement(e)
  PROVE  /\ OwnedBy(root', size', node', detached', own)
         /\ root' = root /\ e \in detached /\ \A y \in Elem \ {e} : node'[y] = node[y]
<1>1. OwnedBy(root, size, node, detached, own)
  OBVIOUS
<1>2. /\ root \in [Tree -> Pointer \union {Free}] /\ size \in [Tree -> Nat] /\ own \in [Tree -> SUBSET Elem]
      /\ \A u \in Tree : own[u] \intersect detached = {}
  BY <1>1 DEF OwnedBy
<1>3. PICK X : X = {e}
  OBVIOUS
<1>4. \A u \in Tree : root[u] = root[u] /\ size[u] = size[u] /\ own[u] = own[u] /\ own[u] \intersect X = {}
  BY <1>2, <1>3 DEF DestroyElement
<1>5. OwnedBy(root, size, Release(node, X), detached \ X, own)
  BY <1>1, <1>2, <1>4, ReleaseOwned
<1>6. root' = root /\ size' = size /\ node' = Release(node, X) /\ detached' = detached \ X
  BY <1>3 DEF DestroyElement
<1>7. \A y \in Elem \ X : node'[y] = node[y]
  BY <1>6 DEF Release
<1> QED BY <1>3, <1>5, <1>6, <1>7 DEF DestroyElement

(* destroy_avl_element().                                                    *)
LEMMA DestroyElementIInv ==
  ASSUME IInv, NEW e, DestroyElement(e)
  PROVE  IInv'
<1>1. PICK own : OwnedBy(root, size, node, detached, own)
  BY DEF IInv
<1> QED BY <1>1, DestroyElementOwned DEF IInv

------------------------------------------------------------------------------
(* What the invariant says of the trees as the calls see them.               *)

(* There are no trees at first.                                              *)
LEMMA InitIInv == Init => IInv
<1> SUFFICES ASSUME Init
             PROVE  IInv
  OBVIOUS
<1>1. PICK own : own = [tr \in Tree |-> {}]
  OBVIOUS
<1>2. OwnedBy(root, size, node, detached, own)
  BY <1>1 DEF Init, OwnedBy
<1> QED BY <1>2 DEF IInv

(* The calls that change nothing.                                            *)
LEMMA UnchangedIInv ==
  ASSUME IInv, UNCHANGED vars
  PROVE  IInv'
  BY DEF IInv, vars

(* The inductive invariant holds: after any calls every tree is sound and    *)
(* owns its elements alone.                                                  *)
THEOREM AVLSpecIInv == Spec => []IInv
<1>1. Init => IInv
  BY InitIInv
<1>2. IInv /\ [Next]_vars => IInv'
  <2> SUFFICES ASSUME IInv, [Next]_vars
               PROVE  IInv'
    OBVIOUS
  <2>1. ASSUME NEW tr \in Tree, Make(tr)
        PROVE  IInv'
    BY <2>1, MakeSound
  <2>2. ASSUME NEW tr \in Tree, Destroy(tr)
        PROVE  IInv'
    BY <2>2, DestroyIInv
  <2>3. ASSUME NEW tr \in Tree, NEW k \in Key, NEW v \in Value, Put(tr, k, v)
        PROVE  IInv'
    BY <2>3, PutIInv
  <2>4. ASSUME NEW tr \in Live, NEW e \in Elements(tr), Remove(tr, e)
        PROVE  IInv'
    BY <2>4, RemoveIInv
  <2>5. CASE UNCHANGED vars
    BY <2>5, UnchangedIInv
  <2> QED BY <2>1, <2>2, <2>3, <2>4, <2>5 DEF Next
<1> QED BY <1>1, <1>2, PTL DEF Spec

(* The invariant implies Ownership.                                          *)
LEMMA IInvOwnership == IInv => Ownership
<1> SUFFICES ASSUME IInv
             PROVE  Ownership
  OBVIOUS
<1>1. PICK own : OwnedBy(root, size, node, detached, own)
  BY DEF IInv
<1>2. /\ own \in [Tree -> SUBSET Elem] /\ detached \in SUBSET Elem
      /\ \A u \in Tree : root[u] = Free => own[u] = {}
      /\ \A u \in Tree, v \in Tree : u # v => own[u] \intersect own[v] = {}
      /\ \A u \in Tree : own[u] \intersect detached = {}
      /\ \A e \in Elem : node[e] # Free <=> e \in detached \/ \E u \in Tree : e \in own[u]
  BY <1>1 DEF OwnedBy
<1>3. \A u \in Live : u \in Tree /\ root[u] # Free
  BY DEF Live
<1>4. \A u \in Live : Elements(u) = own[u]
  BY <1>1, <1>3, OwnElements
<1>5. ASSUME NEW tr \in Live
      PROVE  /\ Elements(tr) \subseteq Elem \ detached
             /\ Cardinality(Elements(tr)) = Len(InOrder(tr))
             /\ size[tr] = Len(InOrder(tr))
             /\ \A u \in Live \ {tr} : Elements(tr) \intersect Elements(u) = {}
  <2>1. tr \in Tree /\ root[tr] # Free
    BY <1>3
  <2>2. /\ Enumerates(InOrder(tr), node, own[tr]) /\ SoundTree(root[tr], size[tr], node, own[tr])
    BY <1>1, <2>1, OwnElements
  <2>3. Len(InOrder(tr)) = Cardinality(own[tr])
    BY <2>2, EnumeratesFacts
  <2>4. size[tr] = Cardinality(own[tr])
    BY <2>2 DEF SoundTree
  <2>5. Elements(tr) = own[tr]
    BY <1>4
  <2>6. \A u \in Live \ {tr} : Elements(tr) \intersect Elements(u) = {}
    BY <1>2, <1>3, <1>4, <2>1
  <2>7. own[tr] \subseteq Elem \ detached
    BY <1>2, <2>1
  <2> QED BY <2>3, <2>4, <2>5, <2>6, <2>7
<1>6. ASSUME NEW e \in Elem
      PROVE  (\E u \in Tree : e \in own[u]) <=> e \in UNION {Elements(u) : u \in Live}
  <2>1. \A u \in Tree : e \in own[u] => u \in Live
    BY <1>2 DEF Live
  <2> QED BY <1>3, <1>4, <2>1
<1>7. UNION {Elements(u) : u \in Live} \subseteq Elem
  BY <1>2, <1>3, <1>4
<1>8. {e \in Elem : node[e] # Free} = detached \union UNION {Elements(u) : u \in Live}
  <2> DEFINE A == UNION {Elements(u) : u \in Live}
  <2>1. A \subseteq Elem /\ \A e \in Elem : node[e] # Free <=> e \in detached \/ e \in A
    BY <1>2, <1>6, <1>7
  <2> HIDE DEF A
  <2>2. {e \in Elem : node[e] # Free} = detached \union A
    BY <1>2, <2>1
  <2> QED BY <2>2 DEF A
<1> QED BY <1>5, <1>8 DEF Ownership

(* Every live tree is sound.                                                 *)
LEMMA IInvTrees ==
  ASSUME IInv, NEW tr \in Live
  PROVE  \E S : /\ Elements(tr) = S /\ Enumerates(InOrder(tr), node, S)
                /\ SoundTree(root[tr], size[tr], node, S)
  BY OwnElements DEF IInv, Live

(* The invariant implies SearchOrder.                                        *)
LEMMA IInvSearchOrder == IInv => SearchOrder
<1> SUFFICES ASSUME IInv, NEW tr \in Live, NEW s, s = InOrder(tr), NEW i \in 1..Len(s) - 1
             PROVE  cmp(node[s[i]].key, node[s[i + 1]].key) < 0
  BY DEF SearchOrder
<1>1. PICK S : Enumerates(s, node, S) /\ SoundTree(root[tr], size[tr], node, S)
  BY IInvTrees
<1>2. /\ Len(s) \in Nat /\ (\A j \in 1..Len(s) : s[j] \in S)
      /\ \A j \in 1..Len(s), k \in 1..Len(s) : j < k => rank(node, s[j]) < rank(node, s[k])
  BY <1>1, EnumeratesFacts
<1>3. \A x \in S : rank(node, x) \in Int
  <2>1. FieldsOf(node, S)
    BY <1>1, SoundNodes
  <2> QED BY <2>1, RankFacts
<1>4. PICK j : j = i + 1
  OBVIOUS
<1>5. i \in 1..Len(s) /\ j \in 1..Len(s) /\ i < j
  BY <1>2, <1>4
<1>6. rank(node, s[i]) < rank(node, s[j]) /\ rank(node, s[i]) \in Int /\ rank(node, s[j]) \in Int
  BY <1>2, <1>3, <1>5
<1>7. cmp(node[s[i]].key, node[s[j]].key) = rank(node, s[i]) - rank(node, s[j])
  BY DEF cmp, rank
<1>8. cmp(node[s[i]].key, node[s[j]].key) < 0
  BY <1>6, <1>7
<1> QED BY <1>4, <1>8

(* The invariant implies Balanced.                                           *)
LEMMA IInvBalanced == IInv => Balanced
<1> SUFFICES ASSUME IInv, NEW tr \in Live, NEW e \in Elements(tr), NEW b, b = node[e].balance,
                    NEW H, H = Height(node, size[tr])
             PROVE  b \in -1..1 /\ b = H[node[e].right] - H[node[e].left]
  BY DEF Balanced
<1>1. PICK S : Elements(tr) = S /\ SoundTree(root[tr], size[tr], node, S)
  BY IInvTrees
<1>2. PICK r, sz : r = root[tr] /\ sz = size[tr]
  OBVIOUS
<1>3. PICK sub, h : SearchTree(node, r, S, sub) /\ LevelBut(node, S, h, NULL, "left", 0)
  BY <1>1, <1>2 DEF SoundTree
<1>4. IsFiniteSet(S) /\ sz \in Nat /\ Cardinality(S) <= sz
  <2>1. IsFiniteSet(S) /\ sz = Cardinality(S)
    BY <1>1, <1>2 DEF SoundTree
  <2>2. sz \in Nat
    BY <1>1, <1>2, SoundNodes
  <2> QED BY <2>1, <2>2
<1>5. Forked(node, r, S, sub)
  BY <1>3, SearchForked
<1>6. \A x \in S \union {NULL} : Height(node, sz)[x] = h[x]
  BY <1>3, <1>4, <1>5, HeightSound
<1>7. e \in S /\ e # NULL
  <2>1. S \in SUBSET Elem
    BY <1>1, SoundNodes
  <2> QED BY <1>1, <2>1, NullPointers
<1>8. node[e].left \in S \union {NULL} /\ node[e].right \in S \union {NULL}
  BY <1>5, <1>7 DEF Forked, Shaped, Side
<1>9. PICK x, y : x = node[e].left /\ y = node[e].right
  OBVIOUS
<1>10. Even(node, h, e, "left", 0) /\ h \in [Pointer -> Nat]
  BY <1>3, <1>7 DEF LevelBut, Heights
<1>11. x \in Pointer /\ y \in Pointer
  <2>1. S \in SUBSET Elem
    BY <1>1, SoundNodes
  <2> QED BY <1>8, <1>9, <2>1 DEF Pointer
<1>12. PICK c \in Nat, d \in Nat : c = h[x] /\ d = h[y]
  BY <1>10, <1>11
<1>13. Fits(h[e], b, c - 0, d, "left")
  BY <1>9, <1>10, <1>12 DEF Even, Other
<1>14. b = d - c /\ c - d \in -1..1
  BY <1>13 DEF Fits
<1>15. H[x] = c /\ H[y] = d
  BY <1>2, <1>6, <1>8, <1>9, <1>12
<1> QED BY <1>9, <1>14, <1>15

(* The invariant implies ParentLinks.                                        *)
LEMMA IInvParentLinks == IInv => ParentLinks
<1> SUFFICES ASSUME IInv, NEW tr \in Live
             PROVE  /\ NULL \notin Elements(tr)
                    /\ root[tr] # NULL => node[root[tr]].parent = NULL
                    /\ \A e \in Elements(tr) : \A child \in {node[e].left, node[e].right} \ {NULL} :
                         node[child].parent = e
  BY DEF ParentLinks
<1>1. PICK S : Elements(tr) = S /\ SoundTree(root[tr], size[tr], node, S)
  BY IInvTrees
<1>2. PICK sub, h : SearchTree(node, root[tr], S, sub)
  BY <1>1 DEF SoundTree
<1>3. /\ root[tr] # NULL => node[root[tr]].parent = NULL
      /\ \A x \in S, s \in Side : node[x][s] # NULL => node[node[x][s]].parent = x
  BY <1>2 DEF SearchTree, Shaped
<1>4. NULL \notin S
  <2>1. S \in SUBSET Elem
    BY <1>1, SoundNodes
  <2> QED BY <2>1, NullPointers
<1>5. ASSUME NEW e \in S, NEW child \in {node[e].left, node[e].right}, child # NULL
      PROVE  node[child].parent = e
  BY <1>3, <1>5 DEF Side
<1> QED BY <1>1, <1>3, <1>4, <1>5

(* The invariant implies TypeOK.                                             *)
LEMMA IInvTypeOK == IInv => TypeOK
  BY DEF IInv, OwnedBy, TypeOK

(* The invariant implies TreeInv.                                            *)
LEMMA IInvTreeInv == IInv => TreeInv
  BY IInvTypeOK, IInvOwnership, IInvSearchOrder, IInvBalanced, IInvParentLinks DEF TreeInv

(* TreeInv holds: for any keys and any number of trees and elements, put and *)
(* remove keep the trees searchable, balanced and linked both ways.          *)
THEOREM AVLSpecTreeInv == Spec => []TreeInv
<1>1. IInv => TreeInv
  BY IInvTreeInv
<1> QED BY <1>1, AVLSpecIInv, PTL

------------------------------------------------------------------------------
(* The calls that hand out elements, and the copy.                           *)

(* avl_tree_get() answers an element of the tree, or NULL.                   *)
LEMMA GetMember ==
  ASSUME NEW n, NEW r, NEW sz, NEW S, SoundTree(r, sz, n, S), NEW k
  PROVE  avl_tree_get(Record(r, sz, n), k) \in S \union {NULL}
<1>1. PICK sub, h : SearchTree(n, r, S, sub)
  BY DEF SoundTree
<1>2. r \in S \union {NULL} /\ \A x \in S, s \in Side : n[x][s] \in S \union {NULL}
  BY <1>1 DEF SearchTree, Shaped
<1>3. PICK V : V = S \union {NULL}
  OBVIOUS
<1>4. \A v \in V : Search(n, v, k) \in V
  BY <1>2, <1>3 DEF Search, Side
<1>5. PICK G : G = [d \in Nat |-> [v \in V |-> Search(n, v, k)]]
  OBVIOUS
<1>6. G \in [Nat -> [V -> V]] /\ \A d \in Nat, v \in V : G[d][v] = Search(n, v, k)
  BY <1>4, <1>5
<1>7. PICK g : Recursive(g, r, G)
  BY <1>2, <1>3, <1>6, RecursionExists
<1>8. Computes(g, V, r, G)
  BY <1>2, <1>3, <1>6, <1>7, RecursionTyped
<1>0. PICK t : t = Record(r, sz, n)
  OBVIOUS
<1>0a. t.root = r /\ t.size = sz /\ t.node = n
  BY <1>0, RecordFacts
<1> DEFINE Loop(f) == f = [i \in Nat |-> IF i = 0 THEN t.root ELSE Search(t.node, f[i - 1], k)]
<1>9. Loop(g)
  <2>1. g = [i \in Nat |-> IF i = 0 THEN r ELSE G[i][g[i - 1]]]
    BY <1>7 DEF Recursive
  <2>2. g \in [Nat -> V]
    BY <1>8 DEF Computes
  <2>3. \A i \in Nat : i # 0 => G[i][g[i - 1]] = Search(n, g[i - 1], k)
    BY <1>6, <2>2
  <2> QED BY <1>0a, <2>1, <2>3
<1>10. \E a : Loop(a)
  BY <1>9
<1>10a. avl_tree_get(t, k) = (CHOOSE a : Loop(a))[t.size]
  BY DEF avl_tree_get
<1> HIDE DEF Loop
<1>11. PICK f : f = CHOOSE a : Loop(a)
  OBVIOUS
<1>12. Loop(f)
  BY <1>10, <1>11, Zenon
<1>13. avl_tree_get(Record(r, sz, n), k) = f[sz]
  BY <1>0, <1>0a, <1>10a, <1>11
<1>14. f[0] = r /\ \A i \in Nat : f[i + 1] = Search(n, f[i], k)
  BY <1>0a, <1>12 DEF Loop
<1> DEFINE K == {i \in Nat : f[i] \in V}
<1>15. K = Nat
  <2>1. 0 \in K /\ (\A i \in K : i + 1 \in K) /\ K \in SUBSET Nat
    BY <1>2, <1>3, <1>4, <1>14
  <2> HIDE DEF K
  <2> QED BY <2>1, EveryNumber
<1>16. sz \in Nat
  BY SoundNodes
<1> QED BY <1>3, <1>13, <1>15, <1>16

(* The first and the last element are elements of the tree.                  *)
LEMMA EndMember ==
  ASSUME NEW n, NEW r, NEW sz, NEW S, SoundTree(r, sz, n, S), r # NULL, NEW o \in Side
  PROVE  Outermost(Record(r, sz, n), r, o) \in S
<1>1. PICK sub, h : SearchTree(n, r, S, sub)
  BY DEF SoundTree
<1>2. IsFiniteSet(S) /\ sz \in Nat /\ Cardinality(S) <= sz /\ r \in S
  <2>1. IsFiniteSet(S) /\ sz = Cardinality(S)
    BY DEF SoundTree
  <2>2. sz \in Nat /\ r \in S
    BY SoundNodes
  <2> QED BY <2>1, <2>2
<1>3. Forked(n, r, S, sub)
  BY <1>1, SearchForked
<1>4. sub[r] = S /\ \A x \in sub[r] : OrderedAt(n, sub, x)
  BY <1>1 DEF SearchTree, Nested, Ordered
<1>5. PICK y : y = Outermost(Record(r, sz, n), r, o)
  OBVIOUS
<1>6. Outward(n, sub, r, o, y)
  BY <1>2, <1>3, <1>4, <1>5, OutermostSound
<1> QED BY <1>4, <1>5, <1>6 DEF Outward

(* A call that detaches what a query answers.                                *)
LEMMA PopIInv ==
  ASSUME IInv, NEW tr \in Live, NEW e \in Elements(tr) \union {NULL}, DetachIfAny(tr, e)
  PROVE  IInv'
<1>1. CASE e = NULL
  BY <1>1, UnchangedIInv DEF DetachIfAny
<1>2. CASE e # NULL
  BY <1>2, DetachIInv DEF DetachIfAny
<1> QED BY <1>1, <1>2

(* What the pops detach is an element of the tree.                           *)
LEMMA Popped ==
  ASSUME IInv, NEW tr \in Live
  PROVE  /\ \A k : avl_tree_get(tree(tr), k) \in Elements(tr) \union {NULL}
         /\ avl_tree_get_first(tree(tr)) \in Elements(tr) \union {NULL}
         /\ avl_tree_get_last(tree(tr)) \in Elements(tr) \union {NULL}
<1>1. PICK S : Elements(tr) = S /\ SoundTree(root[tr], size[tr], node, S)
  BY IInvTrees
<1>2. PICK r, sz : r = root[tr] /\ sz = size[tr]
  OBVIOUS
<1>3. tree(tr) = Record(r, sz, node) /\ tree(tr).root = r
  BY <1>2 DEF tree, Record
<1>4. \A k : avl_tree_get(tree(tr), k) \in S \union {NULL}
  BY <1>1, <1>2, <1>3, GetMember
<1>5. ASSUME r # NULL
      PROVE  /\ Outermost(Record(r, sz, node), r, "left") \in S
             /\ Outermost(Record(r, sz, node), r, "right") \in S
  BY <1>1, <1>2, <1>5, EndMember DEF Side
<1> QED BY <1>1, <1>3, <1>4, <1>5 DEF avl_tree_get_first, avl_tree_get_last

(* avl_tree_copy(): the node made for e.                                     *)
CopyTo(e) == IF e = NULL THEN NULL ELSE Fresh(node, node[e].key)
Duplicated(e, r) == [node[e] EXCEPT !.left = CopyTo(@), !.right = CopyTo(@),
                                    !.parent = IF e = r THEN NULL ELSE CopyTo(@)]

(* The elements of a tree have different keys.                               *)
LEMMA SameRankSame ==
  ASSUME NEW w, NEW n, NEW S, Enumerates(w, n, S), NEW r, NEW sz, SoundTree(r, sz, n, S),
         NEW x \in S, NEW y \in S, rank(n, x) = rank(n, y)
  PROVE  x = y
<1>1. /\ Len(w) \in Nat /\ S = {w[i] : i \in 1..Len(w)}
      /\ \A i \in 1..Len(w), j \in 1..Len(w) : i < j => rank(n, w[i]) < rank(n, w[j])
  BY EnumeratesFacts
<1>2. PICK i \in 1..Len(w), j \in 1..Len(w) : x = w[i] /\ y = w[j]
  BY <1>1
<1>3. rank(n, x) \in Int /\ rank(n, y) \in Int
  <2>1. FieldsOf(n, S)
    BY SoundNodes
  <2> QED BY <2>1, RankFacts
<1>4. i \in Int /\ j \in Int
  BY <1>1
<1>5. ~(i < j) /\ ~(j < i)
  BY <1>1, <1>2, <1>3
<1> QED BY <1>2, <1>4, <1>5

(* N2 has, at to[e], a duplicate of every node e of S.                       *)
Duplicates(n2, n, r, S, to) ==
  \A e \in S : /\ to[e] \in Elem /\ n2[to[e]] \in Fields
               /\ n2[to[e]].key = n[e].key /\ n2[to[e]].balance = n[e].balance
               /\ \A s \in Side : n2[to[e]][s] = to[n[e][s]]
               /\ n2[to[e]].parent = IF e = r THEN NULL ELSE to[n[e].parent]
OneToOne(to, S) == \A e \in S, x \in S : to[e] = to[x] => e = x
CopyNodes(to, S) == {to[e] : e \in S}

(* A copy has as many nodes as the original.                                 *)
LEMMA CopySize ==
  ASSUME NEW S, IsFiniteSet(S), NEW to, OneToOne(to, S)
  PROVE  IsFiniteSet(CopyNodes(to, S)) /\ Cardinality(CopyNodes(to, S)) = Cardinality(S)
<1>1. PICK f, T : f = [e \in S |-> to[e]] /\ T = CopyNodes(to, S)
  OBVIOUS
<1>2. f \in [S -> T] /\ (\A t \in T : \E e \in S : f[e] = t)
  BY <1>1 DEF CopyNodes
<1>3. \A a \in S, b \in S : f[a] = f[b] => a = b
  BY <1>1 DEF OneToOne
<1>4. f \in Surjection(S, T) /\ f \in Injection(S, T)
  BY <1>2, <1>3 DEF Surjection, Injection, IsInjective
<1> QED BY <1>1, <1>4, FS_Surjection

(* A copy is the original with other nodes.                                  *)
LEMMA CopyRenamed ==
  ASSUME NEW n, NEW r, NEW S, Shaped(n, r, S), NEW n2 \in Heap, NEW to, to[NULL] = NULL,
         OneToOne(to, S), Duplicates(n2, n, r, S, to), NEW T, T = CopyNodes(to, S)
  PROVE  \E q : Renamed(n2, to[r], T, n, r, S, q) /\ \A y \in T : q[y] \in S /\ y = to[q[y]]
<1>1. PICK q : q = [y \in T \union {NULL} |-> IF y \in T THEN CHOOSE e \in S : to[e] = y ELSE NULL]
  OBVIOUS
<1>2. \A y \in T : \E e \in S : to[e] = y
  BY DEF CopyNodes
<1>3. T \subseteq Elem /\ NULL \notin T /\ NULL \notin S
  <2>1. T \subseteq Elem
    BY DEF CopyNodes, Duplicates
  <2>2. S \subseteq Elem
    BY DEF Shaped, FieldsOf
  <2> QED BY <2>1, <2>2, NullPointers
<1>4. \A y \in T : q[y] \in S /\ to[q[y]] = y
  BY <1>1, <1>2
<1>5. q[NULL] = NULL
  BY <1>1, <1>3
<1>6. \A e \in S \union {NULL} : to[e] \in T \union {NULL} /\ q[to[e]] = e
  <2>1. ASSUME NEW e \in S
        PROVE  to[e] \in T /\ q[to[e]] = e
    <3>1. to[e] \in T
      BY DEF CopyNodes
    <3>2. q[to[e]] \in S /\ to[q[to[e]]] = to[e]
      BY <1>4, <3>1
    <3> QED BY <3>1, <3>2 DEF OneToOne
  <2> QED BY <1>5, <2>1
<1>7. Renaming(q, T, S)
  <2>1. \A y \in T, z \in T : q[y] = q[z] => y = z
    BY <1>4
  <2>2. \A x \in S : \E y \in T : q[y] = x
    <3>1. ASSUME NEW x \in S
          PROVE  to[x] \in T /\ q[to[x]] = x
      BY <1>3, <1>5, <1>6, NullPointers DEF Duplicates
    <3> QED BY <3>1
  <2> QED BY <1>3, <1>4, <1>5, <2>1, <2>2 DEF Renaming
<1>8. FieldsOf(n2, T)
  BY <1>3 DEF FieldsOf, CopyNodes, Duplicates
<1>9. r \in S \union {NULL} /\ to[r] \in T \union {NULL} /\ q[to[r]] = r
  BY <1>6 DEF Shaped
<1>10. ASSUME NEW y \in T, NEW s \in Side
       PROVE  n2[y][s] \in T \union {NULL} /\ q[n2[y][s]] = n[q[y]][s]
  <2>1. PICK e \in S : e = q[y] /\ y = to[e]
    BY <1>4
  <2>2. n2[y][s] = to[n[e][s]]
    BY <2>1 DEF Duplicates
  <2>3. n[e][s] \in S \union {NULL}
    BY <2>1 DEF Shaped
  <2> QED BY <1>6, <2>1, <2>2, <2>3
<1>11. ASSUME NEW y \in T
       PROVE  /\ n2[y].parent \in T \union {NULL} /\ q[n2[y].parent] = n[q[y]].parent
              /\ n2[y].balance = n[q[y]].balance
  <2>1. PICK e \in S : e = q[y] /\ y = to[e]
    BY <1>4
  <2>2. n2[y].parent = (IF e = r THEN NULL ELSE to[n[e].parent]) /\ n2[y].balance = n[e].balance
    BY <2>1 DEF Duplicates
  <2>3. CASE e = r
    <3>1. n[e].parent = NULL
      BY <1>3, <2>1, <2>3 DEF Shaped
    <3> QED BY <1>5, <2>1, <2>2, <2>3, <3>1
  <2>4. CASE e # r
    <3>1. n[e].parent \in S
      BY <2>1, <2>4 DEF Shaped
    <3> QED BY <1>6, <2>1, <2>2, <2>4, <3>1
  <2> QED BY <2>3, <2>4
<1>12. Renamed(n2, to[r], T, n, r, S, q)
  BY <1>7, <1>8, <1>9, <1>10, <1>11 DEF Renamed
<1> QED BY <1>4, <1>12

(* A copy is a sound tree.                                                   *)
LEMMA CopySound ==
  ASSUME NEW n, NEW r, NEW sz, NEW S, SoundTree(r, sz, n, S), NEW n2 \in Heap, NEW to, to[NULL] = NULL,
         OneToOne(to, S), Duplicates(n2, n, r, S, to), NEW T, T = CopyNodes(to, S)
  PROVE  SoundTree(to[r], sz, n2, T)
<1>1. PICK sub, h : SearchTree(n, r, S, sub) /\ LevelBut(n, S, h, NULL, "left", 0)
  BY DEF SoundTree
<1>2. Shaped(n, r, S) /\ Forked(n, r, S, sub) /\ FieldsOf(n, S)
  <2>1. Forked(n, r, S, sub)
    BY <1>1, SearchForked
  <2> QED BY <2>1 DEF Forked, Shaped
<1>3. PICK r2 : r2 = to[r]
  OBVIOUS
<1>4. PICK q : Renamed(n2, r2, T, n, r, S, q) /\ \A y \in T : q[y] \in S /\ y = to[q[y]]
  BY <1>2, <1>3, CopyRenamed
<1>5. PICK sub2, h2 : sub2 = SubRenamed(sub, q, T) /\ h2 = HeightsRenamed(h, q, T)
  OBVIOUS
<1>6. Forked(n2, r2, T, sub2)
  BY <1>2, <1>4, <1>5, RenamedForked
<1>7. LevelBut(n2, T, h2, NULL, "left", 0)
  BY <1>1, <1>2, <1>4, <1>5, RenamedLevel
<1>8. \A y \in T : rank(n2, y) = rank(n, q[y])
  <2>1. \A e \in S : n2[to[e]].key = n[e].key
    BY DEF Duplicates
  <2> QED BY <1>4, <2>1 DEF rank
<1>9. ASSUME NEW y \in T, NEW s \in Side, NEW z \in sub2[n2[y][s]]
      PROVE  Beyond(n2, s, z, y)
  <2>1. PICK k : k = n2[y][s]
    OBVIOUS
  <2>2. k \in T \union {NULL} /\ q[k] = n[q[y]][s]
    BY <1>4, <2>1 DEF Renamed
  <2>3. k \in Pointer /\ NULL \notin T
    <3>1. T \subseteq Elem
      BY <1>6 DEF Forked, Shaped, FieldsOf
    <3> QED BY <2>2, <3>1, NullPointers DEF Pointer
  <2>4. k \in T /\ z \in T /\ q[z] \in sub[q[k]]
    BY <1>5, <2>1, <2>3 DEF SubRenamed
  <2>5. q[y] \in S
    BY <1>4
  <2>6. Beyond(n, s, q[z], q[y])
    BY <1>1, <2>2, <2>4, <2>5 DEF SearchTree, Ordered, OrderedAt
  <2> QED BY <1>8, <2>4, <2>6 DEF Beyond
<1>10. SearchTree(n2, r2, T, sub2)
  BY <1>6, <1>9 DEF SearchTree, Forked, Ordered, OrderedAt
<1>11. IsFiniteSet(T) /\ sz = Cardinality(T)
  <2>1. IsFiniteSet(S) /\ sz = Cardinality(S)
    BY DEF SoundTree
  <2> QED BY <2>1, CopySize
<1> QED BY <1>3, <1>7, <1>10, <1>11 DEF SoundTree

(* avl_tree_copy(), spelled out.                                             *)
LEMMA CopyWrites ==
  ASSUME NEW tr, NEW copy, Copy(tr, copy), NEW own, OwnedBy(root, size, node, detached, own)
  PROVE  /\ tr \in Tree /\ copy \in Tree /\ root[tr] # Free /\ root[copy] = Free
         /\ \A e \in own[tr] : FreeSlots(node, node[e].key) # {}
         /\ root' = [root EXCEPT ![copy] = CopyTo(root[tr])] /\ size' = [size EXCEPT ![copy] = size[tr]]
         /\ node' = [x \in Elem |-> IF {e \in own[tr] : CopyTo(e) = x} = {} THEN node[x]
                                    ELSE Duplicated(CHOOSE e \in {e \in own[tr] : CopyTo(e) = x} : TRUE, root[tr])]
         /\ detached' = detached
<1>1. tr \in Tree /\ copy \in Tree /\ root[tr] # Free /\ root[copy] = Free
  <2>1. tr \in Live /\ copy \in Tree \ Live
    BY Zenon DEF Copy
  <2> QED BY <2>1 DEF Live
<1>2. Elements(tr) = own[tr]
  BY <1>1, OwnElements
<1>3. /\ \A e \in own[tr] : FreeSlots(node, node[e].key) # {}
      /\ root' = [root EXCEPT ![copy] = CopyTo(root[tr])] /\ size' = [size EXCEPT ![copy] = size[tr]]
      /\ detached' = detached
  <2>1. \A e \in own[tr] : FreeSlots(node, node[e].key) # {}
    BY <1>2, Zenon DEF Copy
  <2>2. root' = [root EXCEPT ![copy] = CopyTo(root[tr])]
    BY Zenon DEF Copy, CopyTo
  <2>3. size' = [size EXCEPT ![copy] = size[tr]] /\ detached' = detached
    BY Zenon DEF Copy
  <2> QED BY <2>1, <2>2, <2>3
<1>4. node' = [x \in Elem |-> IF {e \in own[tr] : CopyTo(e) = x} = {} THEN node[x]
                              ELSE Duplicated(CHOOSE e \in {e \in own[tr] : CopyTo(e) = x} : TRUE, root[tr])]
  <2>1. node' = [x \in Elem |-> IF {e \in Elements(tr) : CopyTo(e) = x} = {} THEN node[x]
                                ELSE Duplicated(CHOOSE e \in {e \in Elements(tr) : CopyTo(e) = x} : TRUE, root[tr])]
    BY Zenon DEF Copy, CopyTo, Duplicated
  <2> QED BY <1>2, <2>1
<1> QED BY <1>1, <1>3, <1>4

(* What avl_tree_copy() of the tree of the nodes S writes, over the map to.  *)
CopyLeaves(n2, n, r, S, to, T) ==
  /\ to[NULL] = NULL /\ OneToOne(to, S) /\ T = CopyNodes(to, S) /\ T \in SUBSET Elem
  /\ n2 \in [Elem -> Node \union {Free}]
  /\ \A y \in T : n[y] = Free
  /\ \A y \in Elem \ T : n2[y] = n[y]
  /\ Duplicates(n2, n, r, S, to)
  /\ \A e \in S : n2[to[e]].value = n[e].value

(* It makes a duplicate of every node, of memory that was free.              *)
LEMMA CopyShape ==
  ASSUME NEW own, OwnedBy(root, size, node, detached, own), NEW tr, NEW copy, Copy(tr, copy),
         NEW r, r = root[tr], NEW S, S = own[tr]
  PROVE  \E to, T : /\ CopyLeaves(node', node, r, S, to, T)
                    /\ root' = [root EXCEPT ![copy] = to[r]] /\ size' = [size EXCEPT ![copy] = size[tr]]
                    /\ detached' = detached /\ tr \in Tree /\ copy \in Tree
                    /\ root[tr] # Free /\ root[copy] = Free
<1>1. /\ tr \in Tree /\ copy \in Tree /\ root[tr] # Free /\ root[copy] = Free
      /\ \A e \in S : FreeSlots(node, node[e].key) # {}
      /\ root' = [root EXCEPT ![copy] = CopyTo(root[tr])] /\ size' = [size EXCEPT ![copy] = size[tr]]
      /\ node' = [x \in Elem |-> IF {e \in S : CopyTo(e) = x} = {} THEN node[x]
                                 ELSE Duplicated(CHOOSE e \in {e \in S : CopyTo(e) = x} : TRUE, r)]
      /\ detached' = detached
  BY CopyWrites
<1>2. SoundTree(r, size[tr], node, S) /\ Enumerates(InOrder(tr), node, S)
  BY <1>1, OwnElements
<1>3. PICK sub : SearchTree(node, r, S, sub)
  BY <1>2 DEF SoundTree
<1>4. /\ r \in S \union {NULL} /\ S \in SUBSET Elem /\ FieldsOf(node, S)
      /\ \A y \in S : node[y] \in Node
  BY <1>2, SoundNodes
<1>5. NULL \notin S /\ NULL \notin Elem
  BY <1>4, NullPointers
<1>6. PICK to : to = [e \in S \union {NULL} |-> CopyTo(e)]
  OBVIOUS
<1>7. to[NULL] = NULL /\ (\A e \in S : to[e] = Fresh(node, node[e].key)) /\ to[r] = CopyTo(r)
  BY <1>4, <1>5, <1>6 DEF CopyTo
<1>8. ASSUME NEW e \in S
      PROVE  to[e] \in Elem /\ node[to[e]] = Free /\ to[e][1] = node[e].key
  <2>1. PICK k : k = node[e].key
    OBVIOUS
  <2>2. k \in Key /\ FreeSlots(node, k) # {}
    BY <1>1, <1>4, <2>1 DEF Node
  <2>3. Fresh(node, k) \in Elem /\ node[Fresh(node, k)] = Free /\ Fresh(node, k)[1] = k
    BY <2>2, FreshFacts
  <2> QED BY <1>7, <2>1, <2>3
<1>9. OneToOne(to, S)
  <2>1. ASSUME NEW x \in S, NEW y \in S, to[x] = to[y]
        PROVE  x = y
    <3>1. node[x].key = node[y].key
      BY <1>8, <2>1
    <3>2. rank(node, x) = rank(node, y)
      BY <3>1 DEF rank
    <3> QED BY <1>2, <3>2, SameRankSame
  <2> QED BY <2>1 DEF OneToOne
<1>10. PICK T : T = CopyNodes(to, S)
  OBVIOUS
<1>11. T \in SUBSET Elem /\ \A y \in T : node[y] = Free
  BY <1>8, <1>10 DEF CopyNodes
<1>12. \A e \in S : CopyTo(e) = to[e]
  BY <1>5, <1>6
<1>13. ASSUME NEW y \in Elem \ T
       PROVE  node'[y] = node[y]
  <2>1. {e \in S : CopyTo(e) = y} = {}
    BY <1>10, <1>12, <1>13 DEF CopyNodes
  <2> QED BY <1>1, <2>1
<1>14. ASSUME NEW e \in S
       PROVE  node'[to[e]] = Duplicated(e, r)
  <2>1. PICK x : x = to[e]
    OBVIOUS
  <2>2. {y \in S : CopyTo(y) = x} = {e}
    BY <1>9, <1>12, <2>1 DEF OneToOne
  <2>3. (CHOOSE y \in {y \in S : CopyTo(y) = x} : TRUE) = e
    BY <2>2
  <2>4. x \in Elem
    BY <1>8, <2>1
  <2> QED BY <1>1, <2>1, <2>2, <2>3, <2>4
<1>15. ASSUME NEW e \in S
       PROVE  /\ Duplicated(e, r) \in Node
              /\ Duplicated(e, r).key = node[e].key /\ Duplicated(e, r).value = node[e].value
              /\ Duplicated(e, r).balance = node[e].balance
              /\ \A s \in Side : Duplicated(e, r)[s] = to[node[e][s]]
              /\ Duplicated(e, r).parent = IF e = r THEN NULL ELSE to[node[e].parent]
  <2>1. /\ node[e] \in Node /\ node[e].left \in S \union {NULL} /\ node[e].right \in S \union {NULL}
        /\ e # r => node[e].parent \in S
    BY <1>3, <1>4 DEF SearchTree, Shaped, Side
  <2>2. PICK a, b, c : /\ a = CopyTo(node[e].left) /\ b = CopyTo(node[e].right)
                       /\ c = IF e = r THEN NULL ELSE CopyTo(node[e].parent)
    OBVIOUS
  <2>3. a = to[node[e].left] /\ b = to[node[e].right] /\ c = IF e = r THEN NULL ELSE to[node[e].parent]
    BY <1>6, <2>1, <2>2
  <2>4. a \in Pointer /\ b \in Pointer /\ c \in Pointer
    BY <1>7, <1>8, <2>1, <2>3 DEF Pointer
  <2>5. Duplicated(e, r) = [node[e] EXCEPT !.left = a, !.right = b, !.parent = c]
    BY <2>2 DEF Duplicated
  <2> QED BY <2>1, <2>3, <2>4, <2>5 DEF Node, Side
<1>16. Duplicates(node', node, r, S, to) /\ \A e \in S : node'[to[e]].value = node[e].value
  <2>1. Node \subseteq Fields
    BY NullPointers
  <2> QED BY <1>8, <1>14, <1>15, <2>1 DEF Duplicates
<1>17. node' \in [Elem -> Node \union {Free}]
  <2>1. \A y \in Elem \ T : node'[y] \in Node \union {Free}
    BY <1>13 DEF OwnedBy
  <2>2. \A y \in T : node'[y] \in Node \union {Free}
    BY <1>10, <1>14, <1>15 DEF CopyNodes
  <2>3. \A y \in Elem : node'[y] \in Node \union {Free}
    BY <2>1, <2>2
  <2>4. node' = [y \in Elem |-> node'[y]]
    BY <1>1
  <2> QED BY <2>3, <2>4
<1>18. CopyLeaves(node', node, r, S, to, T)
  BY <1>7, <1>9, <1>10, <1>11, <1>13, <1>16, <1>17 DEF CopyLeaves
<1> QED BY <1>1, <1>7, <1>18

(* avl_tree_copy() leaves the duplicates in the copy.                        *)
LEMMA CopyOwned ==
  ASSUME NEW own, OwnedBy(root, size, node, detached, own), NEW tr, NEW copy, Copy(tr, copy)
  PROVE  /\ \E to, T : Holds(own, copy, T) /\ CopyLeaves(node', node, root[tr], own[tr], to, T)
         /\ detached' = detached /\ tr \in Tree /\ copy \in Tree
         /\ root[tr] # Free /\ root[copy] = Free
<1>1. OwnedBy(root, size, node, detached, own)
  OBVIOUS
<1>2. PICK r, sz, S : r = root[tr] /\ sz = size[tr] /\ S = own[tr]
  OBVIOUS
<1>3. PICK to, T : /\ CopyLeaves(node', node, r, S, to, T)
                   /\ root' = [root EXCEPT ![copy] = to[r]] /\ size' = [size EXCEPT ![copy] = size[tr]]
                   /\ detached' = detached /\ tr \in Tree /\ copy \in Tree
                   /\ root[tr] # Free /\ root[copy] = Free
  BY <1>1, <1>2, CopyShape
<1>4. PICK n2, r2 : n2 = node' /\ r2 = to[r]
  OBVIOUS
<1>5. SoundTree(r, sz, node, S)
  BY <1>1, <1>2, <1>3 DEF OwnedBy
<1>6. /\ to[NULL] = NULL /\ OneToOne(to, S) /\ T = CopyNodes(to, S) /\ T \in SUBSET Elem
      /\ n2 \in [Elem -> Node \union {Free}] /\ Duplicates(n2, node, r, S, to)
      /\ (\A y \in T : node[y] = Free) /\ \A y \in Elem \ T : n2[y] = node[y]
  BY <1>3, <1>4 DEF CopyLeaves
<1>7. n2 \in Heap
  BY <1>6, NullPointers DEF Heap
<1>8. SoundTree(r2, sz, n2, T)
  BY <1>4, <1>5, <1>6, <1>7, CopySound
<1>9. PICK S2, D2 : S2 = own[copy] /\ D2 = detached
  OBVIOUS
<1>10. S2 = {} /\ D2 \in SUBSET Elem /\ \A y \in D2 : node[y] # Free
  BY <1>1, <1>3, <1>9 DEF OwnedBy
<1>11. T \intersect D2 = {}
  BY <1>6, <1>10
<1>12. Turn(n2, node, S2, T, T, detached, D2)
  BY <1>6, <1>9, <1>10, <1>11 DEF Turn
<1>13. OwnedBy([root EXCEPT ![copy] = r2], [size EXCEPT ![copy] = sz], n2, D2, [own EXCEPT ![copy] = T])
  BY <1>1, <1>3, <1>6, <1>8, <1>9, <1>10, <1>12, OwnedTurn
<1>14. r2 \in Pointer
  BY <1>8, SoundNodes
<1>15. Holds(own, copy, T)
  BY <1>2, <1>3, <1>4, <1>9, <1>13, <1>14 DEF Holds
<1> QED BY <1>2, <1>3, <1>15

(* avl_tree_copy().                                                          *)
LEMMA CopyIInv ==
  ASSUME IInv, NEW tr, NEW copy, Copy(tr, copy)
  PROVE  IInv'
<1>1. PICK own : OwnedBy(root, size, node, detached, own)
  BY DEF IInv
<1> QED BY <1>1, CopyOwned, HoldsIInv

(* Every call keeps the invariant.                                           *)
LEMMA MapStepIInv ==
  ASSUME IInv, [MapNext]_mapVars
  PROVE  IInv'
<1>1. CASE UNCHANGED vars
  BY <1>1, UnchangedIInv
<1>2. ASSUME NEW tr \in Tree, Make(tr)
      PROVE  IInv'
  BY <1>2, MakeSound
<1>3. ASSUME NEW tr \in Tree, Destroy(tr)
      PROVE  IInv'
  BY <1>3, DestroyIInv
<1>4. ASSUME NEW tr \in Tree, PopFirst(tr) \/ PopLast(tr) \/ \E k \in Key : Pop(tr, k)
      PROVE  IInv'
  <2>1. tr \in Live
    BY <1>4 DEF PopFirst, PopLast, Pop
  <2>2. \E e \in Elements(tr) \union {NULL} : DetachIfAny(tr, e)
    BY <1>4, <2>1, Popped DEF PopFirst, PopLast, Pop
  <2> QED BY <2>1, <2>2, PopIInv
<1>5. ASSUME NEW tr \in Tree, NEW k \in Key, NEW v \in Value, Put(tr, k, v)
      PROVE  IInv'
  BY <1>5, PutIInv
<1>6. ASSUME NEW tr \in Live, NEW e \in Elements(tr), Detach(tr, e) \/ Remove(tr, e)
      PROVE  IInv'
  BY <1>6, DetachIInv, RemoveIInv
<1>7. ASSUME NEW tr \in Tree, NEW copy \in Tree, Copy(tr, copy)
      PROVE  IInv'
  BY <1>7, CopyIInv
<1>8. ASSUME NEW e \in detached, DestroyElement(e)
      PROVE  IInv'
  BY <1>8, DestroyElementIInv
<1>9. CASE MapNext
  BY <1>1, <1>2, <1>3, <1>4, <1>5, <1>6, <1>7, <1>8, <1>9 DEF MapNext, Query
<1>10. CASE UNCHANGED mapVars
  BY <1>1, <1>10 DEF mapVars
<1> QED BY <1>9, <1>10

(* The inductive invariant holds for the calls that hand out elements and    *)
(* copy trees as well.                                                       *)
THEOREM MapSpecIInv == MapSpec => []IInv
<1>1. MapInit => IInv
  BY InitIInv DEF MapInit
<1>2. IInv /\ [MapNext]_mapVars => IInv'
  BY MapStepIInv
<1> QED BY <1>1, <1>2, PTL DEF MapSpec

(* Ownership holds: after any calls every element is in one tree, once, or   *)
(* the client's, no copy shares a node with its original, and nothing is     *)
(* lost.                                                                     *)
THEOREM MapSpecOwnership == MapSpec => []Ownership
<1>1. IInv => Ownership
  BY IInvOwnership
<1> QED BY <1>1, MapSpecIInv, PTL

------------------------------------------------------------------------------
(* The queries. A loop that goes down or up the tree is a function of the    *)
(* number of its steps that some measure of its state bounds; what it        *)
(* answers is told by the elements of the tree and their ranks alone.        *)

(* A loop that repeats the step F from c.                                    *)
Repeats(f, c, F) == f[0] = c /\ \A k \in Nat : f[k + 1] = F[f[k]]

(* There is such a loop.                                                     *)
LEMMA RepeatsExists ==
  ASSUME NEW V, NEW c \in V, NEW F \in [V -> V]
  PROVE  \E f : f \in [Nat -> V] /\ f = [k \in Nat |-> IF k = 0 THEN c ELSE F[f[k - 1]]]
<1>1. PICK G : G = [k \in Nat |-> F]
  OBVIOUS
<1>2. G \in [Nat -> [V -> V]] /\ \A k \in Nat : G[k] = F
  BY <1>1
<1>3. PICK g : Recursive(g, c, G)
  BY <1>2, RecursionExists
<1>4. Computes(g, V, c, G)
  BY <1>2, <1>3, RecursionTyped
<1>5. g \in [Nat -> V]
  BY <1>4 DEF Computes
<1>6. g = [k \in Nat |-> IF k = 0 THEN c ELSE G[k][g[k - 1]]]
  BY <1>3 DEF Recursive
<1>7. g = [k \in Nat |-> IF k = 0 THEN c ELSE F[g[k - 1]]]
  BY <1>2, <1>6
<1> QED BY <1>5, <1>7

(* A step that lowers a measure of the state ends the loop within as many    *)
(* steps as it measures.                                                     *)
LEMMA RepeatsSettle ==
  ASSUME NEW V, NEW c \in V, NEW F \in [V -> V], NEW f, Repeats(f, c, F), NEW m \in [V -> Nat],
         NEW sz \in Nat, m[c] <= sz,
         \A v \in V : IF m[v] = 0 THEN m[F[v]] = 0 ELSE m[F[v]] < m[v]
  PROVE  f[sz] \in V /\ m[f[sz]] = 0
<1> DEFINE K == {k \in Nat : f[k] \in V /\ (m[f[k]] = 0 \/ m[f[k]] + k <= sz)}
<1>1. f[0] = c /\ \A k \in Nat : f[k + 1] = F[f[k]]
  BY DEF Repeats
<1>2. 0 \in K
  BY <1>1
<1>3. ASSUME NEW k \in K
      PROVE  k + 1 \in K
  <2>1. PICK v \in V : v = f[k]
    OBVIOUS
  <2>2. PICK w \in V : w = F[v] /\ w = f[k + 1]
    BY <1>1, <2>1
  <2>3. PICK a \in Nat, b \in Nat : a = m[v] /\ b = m[w]
    OBVIOUS
  <2>4. IF a = 0 THEN b = 0 ELSE b < a
    BY <2>2, <2>3
  <2>5. a = 0 \/ a + k <= sz
    BY <2>1, <2>3
  <2>6. k \in Nat /\ k + 1 \in Nat
    OBVIOUS
  <2>7. b = 0 \/ b + (k + 1) <= sz
    BY <2>4, <2>5, <2>6
  <2> QED BY <2>2, <2>3, <2>6, <2>7
<1>4. K = Nat
  <2>1. K \in SUBSET Nat
    OBVIOUS
  <2> HIDE DEF K
  <2> QED BY <1>2, <1>3, <2>1, EveryNumber
<1>5. f[sz] \in V /\ (m[f[sz]] = 0 \/ m[f[sz]] + sz <= sz)
  BY <1>4
<1>6. m[f[sz]] \in Nat
  BY <1>5
<1> QED BY <1>5, <1>6

(* The search for the rank q is below x, or has ended.                       *)
Sought(n, S, sub, q, x) ==
  \A z \in S : rank(n, z) = q => x # NULL /\ (z \in sub[x] \/ rank(n, x) = q)

(* One step of the search of avl_tree_get().                                 *)
LEMMA SearchFacts ==
  ASSUME NEW n, NEW r, NEW S, NEW sub, SearchTree(n, r, S, sub), IsFiniteSet(S), NEW k \in Key,
         NEW x \in S \union {NULL}, Sought(n, S, sub, Rank[k], x), NEW y, y = Search(n, x, k)
  PROVE  /\ y \in S \union {NULL} /\ Sought(n, S, sub, Rank[k], y)
         /\ IF x = NULL \/ rank(n, x) = Rank[k] THEN y = x
            ELSE y = NULL \/ (y \in S /\ Cardinality(sub[y]) < Cardinality(sub[x]))
<1>1. FieldsOf(n, S) /\ NULL \notin S /\ IsFiniteSet(S)
  BY NullAssumption DEF SearchTree, Shaped, FieldsOf, Pointer
<1>2. PICK q \in Int : q = Rank[k]
  BY RankAssumption
<1>3. CASE x = NULL
  BY <1>3 DEF Search
<1>4. CASE x # NULL
  <2>1. x \in S /\ rank(n, x) \in Int
    BY <1>1, <1>4, RankFacts
  <2>2. cmp(k, n[x].key) = q - rank(n, x)
    BY <1>2 DEF cmp, rank
  <2>3. CASE rank(n, x) = q
    <3>1. cmp(k, n[x].key) = 0
      BY <2>1, <2>2, <2>3
    <3>2. y = x
      BY <3>1 DEF Search
    <3> QED BY <1>2, <2>1, <2>3, <3>2
  <2>4. CASE rank(n, x) # q
    <3>1. PICK s \in Side : /\ s = IF q > rank(n, x) THEN "right" ELSE "left"
                            /\ y = n[x][s]
      <4>1. cmp(k, n[x].key) # 0 /\ (cmp(k, n[x].key) > 0 <=> q > rank(n, x))
        BY <2>1, <2>2, <2>4
      <4> QED BY <1>4, <4>1 DEF Search, Side
    <3>2. /\ y \in S \union {NULL}
          /\ y # NULL => n[y].parent = x /\ y \in S /\ y # r
          /\ x \in sub[x] /\ sub[x] \subseteq S
          /\ sub[y] \subseteq sub[x] /\ x \notin sub[y]
          /\ y # NULL => y \in sub[y] /\ y # x
          /\ sub[x] = {x} \union sub[y] \union sub[n[x][Other(s)]]
      BY <2>1, <3>1, KidFacts
    <3>3. \A z \in sub[n[x][Other(s)]] : z \in S /\ Beyond(n, Other(s), z, x)
      <4>1. Other(s) \in Side
        BY SideFacts
      <4>2. PICK w : w = n[x][Other(s)]
        OBVIOUS
      <4>3. \A z \in sub[w] : z \in S /\ Beyond(n, Other(s), z, x)
        BY <2>1, <4>1, <4>2, KidFacts
      <4> QED BY <4>2, <4>3
    <3>4. ASSUME NEW z \in S, rank(n, z) = q
          PROVE  y # NULL /\ z \in sub[y]
      <4>1. z \in sub[x]
        BY <1>2, <1>4, <2>4, <3>4 DEF Sought
      <4>2. z # x
        BY <2>4, <3>4
      <4>3. z \notin sub[n[x][Other(s)]]
        <5>1. ~Beyond(n, Other(s), z, x)
          BY <1>2, <2>1, <2>4, <3>1, <3>4 DEF Beyond, Other
        <5> QED BY <3>3, <5>1
      <4>4. z \in sub[y]
        BY <3>2, <4>1, <4>2, <4>3
      <4>5. sub[NULL] = {}
        BY DEF SearchTree, Nested
      <4> QED BY <4>4, <4>5
    <3>5. Sought(n, S, sub, Rank[k], y)
      BY <1>2, <3>4 DEF Sought
    <3>6. y # NULL => y \in S /\ Cardinality(sub[y]) < Cardinality(sub[x])
      <4> SUFFICES ASSUME y # NULL
                   PROVE  Cardinality(sub[y]) < Cardinality(sub[x])
        BY <3>2
      <4>1. sub[x] \in SUBSET S /\ sub[y] \in SUBSET S
        BY <3>2
      <4> QED BY <1>1, <3>2, <4>1, SmallerSet
    <3> QED BY <1>2, <1>4, <2>4, <3>2, <3>5, <3>6
  <2> QED BY <1>2, <2>3, <2>4
<1> QED BY <1>3, <1>4

(* What avl_tree_get() answers.                                              *)
Gets(n, S, q, y) ==
  IF y = NULL THEN \A z \in S : rank(n, z) # q ELSE y \in S /\ rank(n, y) = q

(* avl_tree_get() answers the element of that key, or NULL if there is none. *)
LEMMA GetSound ==
  ASSUME NEW n, NEW r, NEW sz, NEW S, SoundTree(r, sz, n, S), NEW k \in Key
  PROVE  Gets(n, S, Rank[k], avl_tree_get(Record(r, sz, n), k))
<1>1. PICK sub : SearchTree(n, r, S, sub)
  BY DEF SoundTree
<1>2. IsFiniteSet(S) /\ sz \in Nat /\ sz = Cardinality(S) /\ r \in S \union {NULL} /\ NULL \notin S
  <2>1. IsFiniteSet(S) /\ sz = Cardinality(S)
    BY DEF SoundTree
  <2>2. sz \in Nat /\ r \in S \union {NULL} /\ S \in SUBSET Elem
    BY SoundNodes
  <2> QED BY <2>1, <2>2, NullPointers
<1>3. sub[r] = S /\ sub[NULL] = {}
  BY <1>1 DEF SearchTree, Nested
<1>4. \A x \in S : sub[x] \in SUBSET S /\ Cardinality(sub[x]) \in Nat /\ Cardinality(sub[x]) # 0
                   /\ Cardinality(sub[x]) <= sz
  <2> SUFFICES ASSUME NEW x \in S
               PROVE  sub[x] \in SUBSET S /\ Cardinality(sub[x]) \in Nat /\ Cardinality(sub[x]) # 0
                      /\ Cardinality(sub[x]) <= sz
    OBVIOUS
  <2>1. Forked(n, r, S, sub)
    BY <1>1, SearchForked
  <2>2. /\ sub[x] \in SUBSET S /\ x \in sub[x]
        /\ Cardinality(sub[x]) \in Nat /\ Cardinality(sub[x]) # 0
        /\ Cardinality(sub[x]) <= Cardinality(S) /\ Cardinality(S) \in Nat
    BY <1>2, <2>1, NodeFacts
  <2> QED BY <1>2, <2>2
<1>5. PICK q : q = Rank[k]
  OBVIOUS
<1>6. PICK V : V = {x \in S \union {NULL} : Sought(n, S, sub, q, x)}
  OBVIOUS
<1>7. PICK F : F = [x \in V |-> Search(n, x, k)]
  OBVIOUS
<1>8. \A x \in V : /\ F[x] = Search(n, x, k)
                   /\ F[x] \in V
                   /\ IF x = NULL \/ rank(n, x) = q THEN F[x] = x
                      ELSE F[x] = NULL \/ (F[x] \in S /\ Cardinality(sub[F[x]]) < Cardinality(sub[x]))
  <2> SUFFICES ASSUME NEW x \in V
               PROVE  /\ F[x] = Search(n, x, k)
                      /\ F[x] \in V
                      /\ IF x = NULL \/ rank(n, x) = q THEN F[x] = x
                         ELSE F[x] = NULL \/ (F[x] \in S /\ Cardinality(sub[F[x]]) < Cardinality(sub[x]))
    OBVIOUS
  <2>1. x \in S \union {NULL} /\ Sought(n, S, sub, Rank[k], x)
    BY <1>5, <1>6
  <2>2. PICK y : y = Search(n, x, k)
    OBVIOUS
  <2>3. /\ y \in S \union {NULL} /\ Sought(n, S, sub, Rank[k], y)
        /\ IF x = NULL \/ rank(n, x) = Rank[k] THEN y = x
           ELSE y = NULL \/ (y \in S /\ Cardinality(sub[y]) < Cardinality(sub[x]))
    BY <1>1, <1>2, <2>1, <2>2, SearchFacts
  <2>4. F[x] = y
    BY <1>7, <2>2
  <2> QED BY <1>5, <1>6, <2>2, <2>3, <2>4
<1>9. F \in [V -> V]
  BY <1>7, <1>8
<1>10. r \in V
  <2>1. Sought(n, S, sub, q, r)
    BY <1>2, <1>3 DEF Sought
  <2> QED BY <1>2, <1>6, <2>1
<1>11. PICK m : m = [x \in V |-> IF x = NULL \/ rank(n, x) = q THEN 0 ELSE Cardinality(sub[x])]
  OBVIOUS
<1>12. m \in [V -> Nat] /\ m[r] <= sz
  BY <1>2, <1>4, <1>6, <1>10, <1>11
<1>13. ASSUME NEW x \in V
       PROVE  IF m[x] = 0 THEN m[F[x]] = 0 ELSE m[F[x]] < m[x]
  <2>1. PICK y \in V : y = F[x]
    BY <1>8
  <2>2. CASE x = NULL \/ rank(n, x) = q
    BY <1>8, <1>11, <2>2
  <2>3. CASE ~(x = NULL \/ rank(n, x) = q)
    <3>1. x \in S
      BY <1>6, <2>3
    <3>2. PICK a \in Nat : a = Cardinality(sub[x]) /\ a # 0
      BY <1>4, <3>1
    <3>3. m[x] = a
      BY <1>11, <2>3, <3>2
    <3>4. y = NULL \/ (y \in S /\ Cardinality(sub[y]) < a)
      BY <1>8, <2>1, <2>3, <3>2
    <3>5. m[y] < a
      BY <1>11, <3>2, <3>4
    <3> QED BY <2>1, <3>2, <3>3, <3>5
  <2> QED BY <2>2, <2>3
<1>14. PICK t : t = Record(r, sz, n)
  OBVIOUS
<1>15. t.root = r /\ t.size = sz /\ t.node = n
  BY <1>14, RecordFacts
<1> DEFINE Loop(f) == f = [i \in Nat |-> IF i = 0 THEN t.root ELSE Search(t.node, f[i - 1], k)]
<1>16. \E a : Loop(a)
  <2>1. PICK g : g \in [Nat -> V] /\ g = [i \in Nat |-> IF i = 0 THEN r ELSE F[g[i - 1]]]
    BY <1>9, <1>10, RepeatsExists
  <2>2. \A i \in Nat : i # 0 => F[g[i - 1]] = Search(n, g[i - 1], k)
    BY <1>8, <2>1
  <2>3. Loop(g)
    BY <1>15, <2>1, <2>2
  <2> QED BY <2>3
<1>17. avl_tree_get(t, k) = (CHOOSE a : Loop(a))[t.size]
  BY DEF avl_tree_get
<1> HIDE DEF Loop
<1>18. PICK f : f = CHOOSE a : Loop(a)
  OBVIOUS
<1>19. Loop(f)
  BY <1>16, <1>18, Zenon
<1>20. avl_tree_get(Record(r, sz, n), k) = f[sz]
  BY <1>14, <1>15, <1>17, <1>18
<1>21. f[0] = r /\ \A i \in Nat : f[i + 1] = Search(n, f[i], k)
  BY <1>15, <1>19 DEF Loop
<1>22. Repeats(f, r, F)
  <2> DEFINE K == {i \in Nat : f[i] \in V}
  <2>1. 0 \in K /\ (\A i \in K : i + 1 \in K) /\ K \in SUBSET Nat
    BY <1>8, <1>10, <1>21
  <2>2. K = Nat
    <3> HIDE DEF K
    <3> QED BY <2>1, EveryNumber
  <2>3. \A i \in Nat : F[f[i]] = Search(n, f[i], k)
    BY <1>8, <2>2
  <2> QED BY <1>21, <2>3 DEF Repeats
<1>23. f[sz] \in V /\ m[f[sz]] = 0
  BY <1>2, <1>9, <1>10, <1>12, <1>13, <1>22, RepeatsSettle
<1>24. PICK y : y = f[sz]
  OBVIOUS
<1>25. y = NULL \/ rank(n, y) = q
  BY <1>4, <1>6, <1>11, <1>23, <1>24
<1>26. y \in S \union {NULL} /\ Sought(n, S, sub, q, y)
  BY <1>6, <1>23, <1>24
<1>27. Gets(n, S, q, y)
  BY <1>2, <1>25, <1>26 DEF Gets, Sought
<1> QED BY <1>5, <1>20, <1>24, <1>27

(* Wanted keys lie on one side: what is beyond a wanted node, away from      *)
(* side, is wanted too.                                                      *)
OneSided(n, S, wanted, side) ==
  \A x \in S, z \in S : n[x].key \in wanted /\ Beyond(n, Other(side), z, x) => n[z].key \in wanted

(* Among the nodes A, those that are wanted are no further to side than c.   *)
Bounds(n, A, wanted, side, c) ==
  \A z \in A : n[z].key \in wanted => c # NULL /\ (z = c \/ Beyond(n, Other(side), z, c))

(* The candidate a.candidate is the closest but for the nodes below          *)
(* a.element.                                                                *)
Closing(n, S, sub, wanted, side, a) ==
  /\ a.element \in S \union {NULL} /\ a.candidate \in S \union {NULL}
  /\ a.candidate # NULL => n[a.candidate].key \in wanted
  /\ Bounds(n, S \ sub[a.element], wanted, side, a.candidate)
  /\ a.candidate # NULL => \A z \in sub[a.element] : Beyond(n, side, z, a.candidate)

(* The search goes on below a.element to k, with the candidate c.            *)
GoesOn(n, a, wanted, side, k, c) ==
  IF n[a.element].key \in wanted THEN k = n[a.element][side] /\ c = a.element
  ELSE k = n[a.element][Other(side)] /\ c = a.candidate
(* The subtree at k, if there is one, is smaller than that at x.             *)
Below(S, sub, k, x) == k = NULL \/ (k \in S /\ Cardinality(sub[k]) < Cardinality(sub[x]))

(* One step of the search for a bound.                                       *)
LEMMA CloserFacts ==
  ASSUME NEW n, NEW r, NEW S, NEW sub, SearchTree(n, r, S, sub), IsFiniteSet(S),
         NEW side \in Side, NEW wanted, OneSided(n, S, wanted, side),
         NEW a, Closing(n, S, sub, wanted, side, a), a.element # NULL,
         NEW k, NEW c, GoesOn(n, a, wanted, side, k, c),
         NEW b, b.element = k, b.candidate = c
  PROVE  Closing(n, S, sub, wanted, side, b) /\ Below(S, sub, k, a.element)
<1>1. FieldsOf(n, S) /\ NULL \notin S /\ sub[NULL] = {}
  BY NullAssumption DEF SearchTree, Shaped, Nested, FieldsOf, Pointer
<1>2. PICK x, d : x = a.element /\ d = a.candidate
  OBVIOUS
<1>3. /\ x \in S /\ d \in S \union {NULL}
      /\ d # NULL => n[d].key \in wanted
      /\ Bounds(n, S \ sub[x], wanted, side, d)
      /\ d # NULL => \A z \in sub[x] : Beyond(n, side, z, d)
  BY <1>2 DEF Closing
<1>4. Other(side) \in Side /\ Other(Other(side)) = side
  BY SideFacts
<1>5. PICK u, v : u = n[x][side] /\ v = n[x][Other(side)]
  OBVIOUS
<1>6. /\ u \in S \union {NULL} /\ x \in sub[x] /\ sub[x] \subseteq S /\ sub[u] \subseteq sub[x] /\ x \notin sub[u]
      /\ sub[x] = {x} \union sub[u] \union sub[v]
      /\ \A z \in sub[u] : z \in S /\ Beyond(n, side, z, x)
  BY <1>3, <1>5, KidFacts
<1>7. /\ v \in S \union {NULL} /\ sub[v] \subseteq sub[x] /\ x \notin sub[v]
      /\ \A z \in sub[v] : z \in S /\ Beyond(n, Other(side), z, x)
  BY <1>3, <1>4, <1>5, KidFacts
<1>8. CASE n[x].key \in wanted
  <2>1. k = u /\ c = x
    BY <1>2, <1>5, <1>8 DEF GoesOn
  <2>2. ASSUME NEW z \in S, z \notin sub[u], n[z].key \in wanted
        PROVE  z = x \/ Beyond(n, Other(side), z, x)
    <3>1. CASE z \in sub[x]
      BY <1>6, <1>7, <2>2, <3>1
    <3>2. CASE z \notin sub[x]
      <4>1. d \in S /\ (z = d \/ Beyond(n, Other(side), z, d))
        BY <1>3, <2>2, <3>2 DEF Bounds
      <4>2. Beyond(n, side, x, d)
        BY <1>1, <1>3, <1>6, <4>1
      <4>3. Beyond(n, Other(side), d, x)
        BY <1>1, <1>3, <4>1, <4>2, BeyondFacts
      <4> QED BY <1>1, <1>3, <1>4, <2>2, <4>1, <4>3, BeyondFacts
    <3> QED BY <3>1, <3>2
  <2>3. Bounds(n, S \ sub[u], wanted, side, x)
    BY <1>1, <1>3, <2>2 DEF Bounds
  <2>4. Closing(n, S, sub, wanted, side, b)
    BY <1>3, <1>6, <1>8, <2>1, <2>3 DEF Closing
  <2>5. k \in S \union {NULL} /\ sub[k] \subseteq sub[x] /\ x \notin sub[k]
    BY <1>6, <2>1
  <2>6. k = NULL \/ (k \in S /\ Cardinality(sub[k]) < Cardinality(sub[x]))
    BY <1>1, <1>6, <2>5, SmallerSet
  <2> QED BY <1>2, <2>4, <2>6 DEF Below
<1>9. CASE n[x].key \notin wanted
  <2>1. k = v /\ c = d
    BY <1>2, <1>5, <1>9 DEF GoesOn
  <2>2. ASSUME NEW z \in S, z \notin sub[v], n[z].key \in wanted
        PROVE  d # NULL /\ (z = d \/ Beyond(n, Other(side), z, d))
    <3>1. z \notin sub[u]
      <4> SUFFICES ASSUME z \in sub[u]
                   PROVE  FALSE
        OBVIOUS
      <4>1. Beyond(n, Other(side), x, z)
        BY <1>1, <1>3, <1>6, BeyondFacts
      <4> QED BY <1>3, <1>9, <2>2, <4>1 DEF OneSided
    <3>2. z \notin sub[x]
      BY <1>6, <1>9, <2>2, <3>1
    <3> QED BY <1>3, <2>2, <3>2 DEF Bounds
  <2>3. Bounds(n, S \ sub[v], wanted, side, d)
    BY <2>2 DEF Bounds
  <2>4. Closing(n, S, sub, wanted, side, b)
    BY <1>3, <1>7, <2>1, <2>3 DEF Closing
  <2>5. k \in S \union {NULL} /\ sub[k] \subseteq sub[x] /\ x \notin sub[k]
    BY <1>7, <2>1
  <2>6. k = NULL \/ (k \in S /\ Cardinality(sub[k]) < Cardinality(sub[x]))
    BY <1>1, <1>6, <2>5, SmallerSet
  <2> QED BY <1>2, <2>4, <2>6 DEF Below
<1> QED BY <1>8, <1>9

(* What the loops of the four bounds answer.                                 *)
ClosestTo(n, S, wanted, side, y) ==
  /\ y \in S \union {NULL} /\ (y # NULL => n[y].key \in wanted) /\ Bounds(n, S, wanted, side, y)

(* The subtree of a node of a search tree, and whether it is there.          *)
LEMMA SubFacts ==
  ASSUME NEW n, NEW r, NEW sz, NEW S, SoundTree(r, sz, n, S), NEW sub, SearchTree(n, r, S, sub)
  PROVE  /\ IsFiniteSet(S) /\ sz \in Nat /\ sz = Cardinality(S) /\ r \in S \union {NULL} /\ NULL \notin S
         /\ sub[r] = S /\ sub[NULL] = {} /\ FieldsOf(n, S) /\ Forked(n, r, S, sub)
         /\ \A x \in S : /\ sub[x] \in SUBSET S /\ x \in sub[x] /\ Cardinality(sub[x]) \in Nat
                         /\ Cardinality(sub[x]) # 0 /\ Cardinality(sub[x]) <= sz
<1>2. IsFiniteSet(S) /\ sz \in Nat /\ sz = Cardinality(S) /\ r \in S \union {NULL} /\ NULL \notin S
  <2>1. IsFiniteSet(S) /\ sz = Cardinality(S)
    BY DEF SoundTree
  <2>2. sz \in Nat /\ r \in S \union {NULL} /\ S \in SUBSET Elem
    BY SoundNodes
  <2> QED BY <2>1, <2>2, NullPointers
<1>3. sub[r] = S /\ sub[NULL] = {} /\ FieldsOf(n, S)
  BY DEF SearchTree, Nested, Shaped
<1>4. Forked(n, r, S, sub)
  BY SearchForked
<1>5. ASSUME NEW x \in S
      PROVE  /\ sub[x] \in SUBSET S /\ x \in sub[x] /\ Cardinality(sub[x]) \in Nat
             /\ Cardinality(sub[x]) # 0 /\ Cardinality(sub[x]) <= sz
  <2>2. /\ sub[x] \in SUBSET S /\ x \in sub[x]
        /\ Cardinality(sub[x]) \in Nat /\ Cardinality(sub[x]) # 0
        /\ Cardinality(sub[x]) <= Cardinality(S) /\ Cardinality(S) \in Nat
    BY <1>2, <1>4, NodeFacts
  <2> QED BY <1>2, <2>2
<1> QED BY <1>2, <1>3, <1>4, <1>5

(* The step of the search, spelled out.                                      *)
LEMMA CloserTyped ==
  ASSUME NEW n, NEW S, NEW a \in [element : S \union {NULL}, candidate : S \union {NULL}],
         NEW wanted, NEW side, NEW b, b = Closer(n, a, wanted, side)
  PROVE  IF a.element = NULL THEN b = a
         ELSE IF n[a.element].key \in wanted
         THEN b.element = n[a.element][side] /\ b.candidate = a.element
              /\ b = [element |-> b.element, candidate |-> b.candidate]
         ELSE b.element = n[a.element][Other(side)] /\ b.candidate = a.candidate
              /\ b = [element |-> b.element, candidate |-> b.candidate]
  BY DEF Closer

(* avl_tree_get_before() and the other three bounds answer the closest       *)
(* wanted element, or NULL if none is wanted.                                *)
LEMMA ClosestSound ==
  ASSUME NEW n, NEW r, NEW sz, NEW S, SoundTree(r, sz, n, S),
         NEW side \in Side, NEW wanted, OneSided(n, S, wanted, side)
  PROVE  ClosestTo(n, S, wanted, side, Closest(Record(r, sz, n), wanted, side))
<1>1. PICK sub : SearchTree(n, r, S, sub)
  BY DEF SoundTree
<1>2. /\ IsFiniteSet(S) /\ sz \in Nat /\ sz = Cardinality(S) /\ r \in S \union {NULL} /\ NULL \notin S
      /\ sub[r] = S /\ sub[NULL] = {} /\ FieldsOf(n, S)
      /\ \A x \in S : /\ sub[x] \in SUBSET S /\ x \in sub[x] /\ Cardinality(sub[x]) \in Nat
                      /\ Cardinality(sub[x]) # 0 /\ Cardinality(sub[x]) <= sz
  BY <1>1, SubFacts
<1>3. PICK A : A = [element : S \union {NULL}, candidate : S \union {NULL}]
  OBVIOUS
<1>4. PICK V : V = {a \in A : Closing(n, S, sub, wanted, side, a)}
  OBVIOUS
<1>5. PICK F : F = [a \in V |-> Closer(n, a, wanted, side)]
  OBVIOUS
<1>6. ASSUME NEW a \in V
      PROVE  /\ F[a] = Closer(n, a, wanted, side)
             /\ F[a] \in V
             /\ IF a.element = NULL THEN F[a] = a
                ELSE a.element \in S /\ (F[a].element = NULL
                     \/ (F[a].element \in S /\ Cardinality(sub[F[a].element]) < Cardinality(sub[a.element])))
  <2>1. PICK b : b = Closer(n, a, wanted, side)
    OBVIOUS
  <2>2. a \in A /\ Closing(n, S, sub, wanted, side, a) /\ F[a] = b
    BY <1>4, <1>5, <2>1
  <2>3. CASE a.element = NULL
    <3>1. b = a
      BY <2>1, <2>3 DEF Closer
    <3> QED BY <2>1, <2>2, <2>3, <3>1
  <2>4. CASE a.element # NULL
    <3>1. PICK k, c : IF n[a.element].key \in wanted THEN k = n[a.element][side] /\ c = a.element
                      ELSE k = n[a.element][Other(side)] /\ c = a.candidate
      OBVIOUS
    <3>2. b.element = k /\ b.candidate = c /\ b = [element |-> k, candidate |-> c]
      <4>1. IF a.element = NULL THEN b = a
            ELSE IF n[a.element].key \in wanted
            THEN b.element = n[a.element][side] /\ b.candidate = a.element
                 /\ b = [element |-> b.element, candidate |-> b.candidate]
            ELSE b.element = n[a.element][Other(side)] /\ b.candidate = a.candidate
                 /\ b = [element |-> b.element, candidate |-> b.candidate]
        BY <1>3, <2>1, <2>2, CloserTyped
      <4> QED BY <2>4, <3>1, <4>1
    <3>3. /\ Closing(n, S, sub, wanted, side, b)
          /\ k = NULL \/ (k \in S /\ Cardinality(sub[k]) < Cardinality(sub[a.element]))
      <4>1. IsFiniteSet(S)
        BY <1>2
      <4>2. b.element = k /\ b.candidate = c
        BY <3>2, Zenon
      <4>3. GoesOn(n, a, wanted, side, k, c)
        BY <3>1 DEF GoesOn
      <4>4. Closing(n, S, sub, wanted, side, b) /\ Below(S, sub, k, a.element)
        BY <1>1, <2>2, <2>4, <4>1, <4>2, <4>3, CloserFacts, Zenon
      <4> QED BY <4>4, Zenon DEF Below
    <3>4. k \in S \union {NULL} /\ c \in S \union {NULL}
      BY <3>2, <3>3 DEF Closing
    <3>5. b \in A
      BY <1>3, <3>2, <3>4
    <3>6. a.element \in S
      BY <2>2, <2>4 DEF Closing
    <3> QED BY <1>4, <2>1, <2>2, <2>4, <3>2, <3>3, <3>5, <3>6
  <2> QED BY <2>3, <2>4
<1>7. F \in [V -> V]
  BY <1>5, <1>6
<1>8. PICK c : c = [element |-> r, candidate |-> NULL]
  OBVIOUS
<1>9. c \in V
  <2>1. c \in A /\ c.element = r /\ c.candidate = NULL
    BY <1>2, <1>3, <1>8
  <2>2. Bounds(n, S \ sub[r], wanted, side, NULL)
    BY <1>2 DEF Bounds
  <2>3. Closing(n, S, sub, wanted, side, c)
    BY <1>2, <2>1, <2>2 DEF Closing
  <2> QED BY <1>4, <2>1, <2>3
<1>10. PICK m : m = [a \in V |-> IF a.element = NULL THEN 0 ELSE Cardinality(sub[a.element])]
  OBVIOUS
<1>11. \A a \in V : a.element \in S \union {NULL}
  BY <1>4 DEF Closing
<1>12. m \in [V -> Nat] /\ m[c] <= sz
  <2>1. \A a \in V : m[a] \in Nat /\ m[a] <= sz
    BY <1>2, <1>10, <1>11
  <2> QED BY <1>9, <1>10, <2>1
<1>13. ASSUME NEW a \in V
       PROVE  IF m[a] = 0 THEN m[F[a]] = 0 ELSE m[F[a]] < m[a]
  <2>1. PICK b \in V : b = F[a]
    BY <1>6
  <2>2. CASE a.element = NULL
    BY <1>6, <1>10, <2>2
  <2>3. CASE a.element # NULL
    <3>1. PICK i \in Nat : i = Cardinality(sub[a.element]) /\ i # 0
      BY <1>2, <1>11, <2>3
    <3>2. m[a] = i
      BY <1>10, <2>3, <3>1
    <3>3. b.element = NULL \/ (b.element \in S /\ Cardinality(sub[b.element]) < i)
      BY <1>6, <2>1, <2>3, <3>1
    <3>4. m[b] < i
      BY <1>10, <3>1, <3>3
    <3> QED BY <2>1, <3>1, <3>2, <3>4
  <2> QED BY <2>2, <2>3
<1>14. PICK t : t = Record(r, sz, n)
  OBVIOUS
<1>15. t.root = r /\ t.size = sz /\ t.node = n
  BY <1>14, RecordFacts
<1> DEFINE Loop(f) == f = [i \in Nat |-> IF i = 0 THEN [element |-> t.root, candidate |-> NULL]
                                         ELSE Closer(t.node, f[i - 1], wanted, side)]
<1>16. \E a : Loop(a)
  <2>1. PICK g : g \in [Nat -> V] /\ g = [i \in Nat |-> IF i = 0 THEN c ELSE F[g[i - 1]]]
    BY <1>7, <1>9, RepeatsExists
  <2>2. \A i \in Nat : i # 0 => F[g[i - 1]] = Closer(n, g[i - 1], wanted, side)
    BY <1>6, <2>1
  <2>3. Loop(g)
    BY <1>8, <1>15, <2>1, <2>2
  <2> QED BY <2>3
<1>17. Closest(t, wanted, side) = (CHOOSE a : Loop(a))[t.size].candidate
  BY DEF Closest
<1> HIDE DEF Loop
<1>18. PICK f : f = CHOOSE a : Loop(a)
  OBVIOUS
<1>19. Loop(f)
  BY <1>16, <1>18, Zenon
<1>20. Closest(Record(r, sz, n), wanted, side) = f[sz].candidate
  BY <1>14, <1>15, <1>17, <1>18
<1>21. f[0] = c /\ \A i \in Nat : f[i + 1] = Closer(n, f[i], wanted, side)
  BY <1>8, <1>15, <1>19 DEF Loop
<1>22. Repeats(f, c, F)
  <2> DEFINE K == {i \in Nat : f[i] \in V}
  <2>1. 0 \in K /\ (\A i \in K : i + 1 \in K) /\ K \in SUBSET Nat
    BY <1>6, <1>9, <1>21
  <2>2. K = Nat
    <3> HIDE DEF K
    <3> QED BY <2>1, EveryNumber
  <2>3. \A i \in Nat : F[f[i]] = Closer(n, f[i], wanted, side)
    BY <1>6, <2>2
  <2> QED BY <1>21, <2>3 DEF Repeats
<1>23. f[sz] \in V /\ m[f[sz]] = 0
  BY <1>2, <1>7, <1>9, <1>12, <1>13, <1>22, RepeatsSettle
<1>24. PICK b : b = f[sz]
  OBVIOUS
<1>25. b.element = NULL
  BY <1>2, <1>10, <1>11, <1>23, <1>24
<1>26. Closing(n, S, sub, wanted, side, b)
  BY <1>4, <1>23, <1>24
<1>27. S \ sub[NULL] = S
  BY <1>2
<1>28. ClosestTo(n, S, wanted, side, b.candidate)
  BY <1>25, <1>26, <1>27 DEF Closing, ClosestTo
<1> QED BY <1>20, <1>24, <1>28

------------------------------------------------------------------------------
(* The neighbours of an element: down its subtree on that side, or up to the *)
(* first ancestor of which it is on the other side. What is outside a        *)
(* subtree lies on one side of all of it.                                    *)

(* z is on one side of the whole subtree at x.                               *)
Aside(n, sub, z, x) == \E d \in Side : \A v \in sub[x] : Beyond(n, d, z, v)
(* Wherever z shares a subtree of at most m nodes with that at x, it is      *)
(* aside of it.                                                              *)
AsideTo(n, S, sub, z, x, m) ==
  \A y \in S : Cardinality(sub[y]) <= m /\ x \in sub[y] /\ z \in sub[y] => Aside(n, sub, z, x)

(* What lies beside a subtree lies beside the subtree of its child.          *)
LEMMA AsideStep ==
  ASSUME NEW n, NEW r, NEW S, NEW sub, SearchTree(n, r, S, sub), IsFiniteSet(S),
         NEW x \in S, NEW z \in S, z \notin sub[x], NEW m \in Nat, AsideTo(n, S, sub, z, x, m)
  PROVE  AsideTo(n, S, sub, z, x, m + 1)
<1> SUFFICES ASSUME NEW y \in S, Cardinality(sub[y]) <= m + 1, x \in sub[y], z \in sub[y]
             PROVE  Aside(n, sub, z, x)
  BY DEF AsideTo
<1>1. FieldsOf(n, S) /\ sub[NULL] = {} /\ Forked(n, r, S, sub)
  BY SearchForked DEF SearchTree, Shaped, Nested
<1>2. x # y
  OBVIOUS
<1>3. ASSUME NEW s \in Side, NEW k, k = n[y][s]
      PROVE  /\ sub[k] \in SUBSET S /\ (k \in S => Cardinality(sub[k]) <= m) /\ (sub[k] # {} => k \in S)
             /\ \A v \in sub[k] : v \in S /\ Beyond(n, s, v, y)
  <2>1. /\ k \in S \union {NULL} /\ y \in sub[y] /\ sub[y] \subseteq S
        /\ sub[k] \subseteq sub[y] /\ y \notin sub[k]
        /\ \A v \in sub[k] : v \in S /\ Beyond(n, s, v, y)
    BY <1>3, KidFacts
  <2>2. sub[k] \in SUBSET S /\ sub[y] \in SUBSET S
    BY <2>1
  <2>3. /\ Cardinality(sub[k]) \in Nat /\ Cardinality(sub[y]) \in Nat
        /\ Cardinality(sub[k]) < Cardinality(sub[y]) /\ Cardinality(sub[y]) <= Cardinality(S)
    <3>1. PICK A \in SUBSET S, B \in SUBSET S : A = sub[k] /\ B = sub[y]
      BY <2>2
    <3>2. A \subseteq B /\ y \in B /\ y \notin A
      BY <2>1, <3>1
    <3>3. /\ Cardinality(A) \in Nat /\ Cardinality(B) \in Nat
          /\ Cardinality(A) < Cardinality(B) /\ Cardinality(B) <= Cardinality(S)
      BY <3>2, SmallerSet
    <3> QED BY <3>1, <3>3
  <2>4. Cardinality(sub[k]) <= m
    BY <2>3
  <2> QED BY <1>1, <2>1, <2>2, <2>4
<1>4. PICK s \in Side : x \in sub[n[y][s]]
  <2>1. sub[y] = {y} \union sub[n[y]["left"]] \union sub[n[y][Other("left")]]
    BY DEF SearchTree, Nested, NestedAt, Side
  <2> QED BY <1>2, <2>1, SideFacts DEF Side
<1>5. PICK k, w : k = n[y][s] /\ w = n[y][Other(s)]
  OBVIOUS
<1>6. Other(s) \in Side /\ Other(Other(s)) = s
  BY SideFacts
<1>7. /\ k \in S /\ Cardinality(sub[k]) <= m /\ x \in sub[k]
      /\ \A v \in sub[k] : v \in S /\ Beyond(n, s, v, y)
  BY <1>3, <1>4, <1>5
<1>8. \A v \in sub[w] : v \in S /\ Beyond(n, Other(s), v, y)
  BY <1>3, <1>5, <1>6
<1>9. sub[x] \subseteq sub[k]
  BY <1>1, <1>7, Within
<1>10. sub[y] = {y} \union sub[k] \union sub[w]
  BY <1>5 DEF SearchTree, Nested, NestedAt
<1>11. CASE z \in sub[k]
  BY <1>7, <1>11 DEF AsideTo
<1>12. CASE z \in {y} \union sub[w]
  <2>1. ASSUME NEW v \in sub[x]
        PROVE  Beyond(n, Other(s), z, v)
    <3>1. v \in S /\ Beyond(n, s, v, y)
      BY <1>7, <1>9
    <3>2. Beyond(n, Other(s), y, v)
      BY <1>1, <3>1, BeyondFacts
    <3>3. z = y \/ Beyond(n, Other(s), z, y)
      BY <1>8, <1>12
    <3> QED BY <1>1, <1>6, <3>1, <3>2, <3>3, BeyondFacts
  <2> QED BY <1>6, <2>1 DEF Aside
<1> QED BY <1>10, <1>11, <1>12

(* What is outside a subtree lies on one side of it.                         *)
LEMMA AsideOf ==
  ASSUME NEW n, NEW r, NEW S, NEW sub, SearchTree(n, r, S, sub), IsFiniteSet(S),
         NEW x \in S, NEW z \in S, z \notin sub[x]
  PROVE  Aside(n, sub, z, x)
<1> DEFINE M == {m \in Nat : AsideTo(n, S, sub, z, x, m)}
<1>1. Forked(n, r, S, sub)
  BY SearchForked
<1>2. \A y \in S : Cardinality(sub[y]) \in Nat /\ Cardinality(sub[y]) # 0
  BY <1>1, NodeFacts
<1>3. 0 \in M
  BY <1>2 DEF AsideTo
<1>4. \A m \in M : m + 1 \in M
  BY AsideStep
<1>5. M = Nat
  <2>1. M \in SUBSET Nat
    OBVIOUS
  <2> HIDE DEF M
  <2> QED BY <1>3, <1>4, <2>1, EveryNumber
<1>6. r \in S /\ sub[r] = S
  BY DEF SearchTree, Shaped, Nested
<1>7. AsideTo(n, S, sub, z, x, Cardinality(sub[r]))
  BY <1>2, <1>5, <1>6
<1>8. Cardinality(sub[r]) \in Nat
  BY <1>2, <1>6
<1> QED BY <1>6, <1>7, <1>8 DEF AsideTo

(* y is next to e on that side.                                              *)
NextTo(n, S, side, e, y) ==
  IF y = NULL THEN \A z \in S : z # e => Beyond(n, Other(side), z, e)
  ELSE y \in S /\ Beyond(n, side, y, e)
       /\ \A z \in S : ~(Beyond(n, side, z, e) /\ Beyond(n, Other(side), z, y))

(* Nothing outside a subtree lies between two of its nodes.                  *)
LEMMA NotBetween ==
  ASSUME NEW n, NEW r, NEW S, NEW sub, SearchTree(n, r, S, sub), IsFiniteSet(S), NEW side \in Side,
         NEW x \in S, NEW e \in sub[x], NEW y \in sub[x], NEW z \in S, z \notin sub[x]
  PROVE  ~(Beyond(n, side, z, e) /\ Beyond(n, Other(side), z, y))
<1>1. FieldsOf(n, S) /\ Forked(n, r, S, sub)
  BY SearchForked DEF SearchTree, Shaped
<1>2. PICK d \in Side : \A v \in sub[x] : Beyond(n, d, z, v)
  BY AsideOf DEF Aside
<1>3. e \in S /\ y \in S
  BY <1>1, NodeFacts
<1>4. Other(side) \in Side /\ Other(Other(side)) = side
  BY SideFacts
<1>5. Beyond(n, d, z, e) /\ Beyond(n, d, z, y)
  BY <1>2
<1>6. d = side \/ d = Other(side)
  BY TwoSides
<1>7. Beyond(n, side, z, e) => ~Beyond(n, Other(side), z, e)
  BY <1>1, <1>3, BeyondFacts
<1>8. Beyond(n, side, z, y) => ~Beyond(n, Other(side), z, y)
  BY <1>1, <1>3, BeyondFacts
<1> QED BY <1>5, <1>6, <1>7, <1>8

(* avl_tree_next() and avl_tree_previous() of an element that has a subtree  *)
(* on that side.                                                             *)
LEMMA DescendantNext ==
  ASSUME NEW n, NEW r, NEW sz, NEW S, SoundTree(r, sz, n, S), NEW side \in Side, NEW e \in S,
         NEW c, c = n[e][side], c # NULL,
         NEW y, y = Outermost(Record(r, sz, n), c, Other(side))
  PROVE  NextTo(n, S, side, e, y)
<1>1. PICK sub : SearchTree(n, r, S, sub)
  BY DEF SoundTree
<1>2. /\ IsFiniteSet(S) /\ sz \in Nat /\ sz = Cardinality(S) /\ r \in S \union {NULL} /\ NULL \notin S
      /\ sub[r] = S /\ sub[NULL] = {} /\ FieldsOf(n, S) /\ Forked(n, r, S, sub)
      /\ \A x \in S : /\ sub[x] \in SUBSET S /\ x \in sub[x] /\ Cardinality(sub[x]) \in Nat
                      /\ Cardinality(sub[x]) # 0 /\ Cardinality(sub[x]) <= sz
  BY <1>1, SubFacts
<1>3. Other(side) \in Side /\ Other(Other(side)) = side
  BY SideFacts
<1>4. /\ c \in S /\ sub[c] \subseteq sub[e] /\ e \in sub[e] /\ sub[e] \subseteq S
      /\ sub[e] = {e} \union sub[c] \union sub[n[e][Other(side)]]
      /\ \A z \in sub[c] : z \in S /\ Beyond(n, side, z, e)
  BY <1>1, KidFacts
<1>5. \A x \in sub[c] : OrderedAt(n, sub, x)
  BY <1>1, <1>4 DEF SearchTree, Ordered
<1>6. PICK o \in Side : o = Other(side) /\ Other(o) = side
  BY <1>3
<1>7. Outward(n, sub, c, o, y) /\ n[y][o] = NULL
  <2>1. y = Outermost(Record(r, sz, n), c, o)
    BY <1>6
  <2>2. Cardinality(S) <= sz
    BY <1>2
  <2> QED BY <1>2, <1>4, <1>5, <2>1, <2>2, OutermostSound
<1>8. y \in sub[c] /\ \A z \in sub[c] : z \in sub[y] \/ Beyond(n, side, z, y)
  BY <1>6, <1>7 DEF Outward
<1>9. y \in S /\ Beyond(n, side, y, e)
  BY <1>4, <1>8
<1>10. sub[y] = {y} \union sub[n[y][side]]
  <2>1. sub[y] = {y} \union sub[n[y][side]] \union sub[n[y][Other(side)]]
    BY <1>1, <1>9 DEF SearchTree, Nested, NestedAt
  <2> QED BY <1>2, <1>6, <1>7, <2>1
<1>11. \A z \in sub[n[y][side]] : Beyond(n, side, z, y)
  BY <1>5, <1>8 DEF OrderedAt
<1>12. ASSUME NEW z \in sub[c]
       PROVE  ~Beyond(n, Other(side), z, y)
  <2>1. z = y \/ Beyond(n, side, z, y)
    BY <1>8, <1>10, <1>11
  <2>2. z \in S
    BY <1>4
  <2>3. ~Beyond(n, Other(side), y, y)
    BY <1>2, <1>3, <1>9, BeyondFacts
  <2>4. Beyond(n, side, z, y) => ~Beyond(n, Other(side), z, y)
    BY <1>2, <1>9, <2>2, BeyondFacts
  <2> QED BY <2>1, <2>3, <2>4
<1>13. PICK v : v = n[e][Other(side)]
  OBVIOUS
<1>14. \A z \in sub[v] : z \in S /\ Beyond(n, Other(side), z, e)
  BY <1>1, <1>3, <1>13, KidFacts
<1>15. ASSUME NEW z \in S, Beyond(n, side, z, e), Beyond(n, Other(side), z, y)
       PROVE  FALSE
  <2>1. z \in sub[e]
    <3>1. y \in sub[e]
      BY <1>4, <1>8
    <3> QED BY <1>1, <1>2, <1>4, <1>15, <3>1, NotBetween
  <2>2. z # e
    BY <1>2, <1>15, BeyondFacts
  <2>3. ~Beyond(n, Other(side), z, e)
    BY <1>2, <1>15, BeyondFacts
  <2>4. z \in sub[c]
    BY <1>4, <1>13, <1>14, <2>1, <2>2, <2>3
  <2> QED BY <1>12, <1>15, <2>4
<1>16. y # NULL
  BY <1>2, <1>9
<1> QED BY <1>9, <1>15, <1>16 DEF NextTo

(* The way up from e, which stays the outermost of the subtree at x.         *)
Climbs(n, sub, side, e, x) == e \in sub[x] /\ \A z \in sub[x] : z # e => Beyond(n, Other(side), z, e)

(* One step of the way up.                                                   *)
LEMMA UpwardFacts ==
  ASSUME NEW n, NEW r, NEW S, NEW sub, SearchTree(n, r, S, sub), IsFiniteSet(S), NEW side \in Side,
         NEW e \in S, NEW x \in S, Climbs(n, sub, side, e, x), NEW p, p = n[x].parent,
         p # NULL, n[p][side] = x
  PROVE  p \in S /\ Climbs(n, sub, side, e, p) /\ Cardinality(sub[x]) < Cardinality(sub[p])
<1>1. FieldsOf(n, S) /\ NULL \notin S
  BY NullAssumption DEF SearchTree, Shaped, FieldsOf, Pointer
<1>2. p \in S
  BY <1>1 DEF SearchTree, Shaped
<1>3. Other(side) \in Side /\ Other(Other(side)) = side
  BY SideFacts
<1>4. PICK v : v = n[p][Other(side)]
  OBVIOUS
<1>5. /\ x \in S \union {NULL} /\ p \in sub[p] /\ sub[p] \subseteq S /\ sub[x] \subseteq sub[p] /\ p \notin sub[x]
      /\ sub[p] = {p} \union sub[x] \union sub[n[p][Other(side)]]
      /\ \A z \in sub[x] : z \in S /\ Beyond(n, side, z, p)
  BY <1>2, KidFacts
<1>6. \A z \in sub[v] : z \in S /\ Beyond(n, Other(side), z, p)
  BY <1>2, <1>3, <1>4, KidFacts
<1>7. e \in sub[x] /\ \A z \in sub[x] : z # e => Beyond(n, Other(side), z, e)
  BY DEF Climbs
<1>8. Beyond(n, side, e, p)
  BY <1>5, <1>7
<1>9. Beyond(n, Other(side), p, e)
  BY <1>1, <1>2, <1>8, BeyondFacts
<1>10. ASSUME NEW z \in sub[p], z # e
       PROVE  Beyond(n, Other(side), z, e)
  <2>1. CASE z \in sub[x]
    BY <1>7, <1>10, <2>1
  <2>2. CASE z = p
    BY <1>9, <2>2
  <2>3. CASE z \in sub[v]
    <3>1. z \in S /\ Beyond(n, Other(side), z, p)
      BY <1>6, <2>3
    <3> QED BY <1>1, <1>2, <1>3, <1>9, <3>1, BeyondFacts
  <2> QED BY <1>4, <1>5, <2>1, <2>2, <2>3
<1>11. Climbs(n, sub, side, e, p)
  BY <1>5, <1>7, <1>10 DEF Climbs
<1>12. sub[x] \in SUBSET S /\ sub[p] \in SUBSET S
  BY <1>5
<1>13. Cardinality(sub[x]) < Cardinality(sub[p])
  BY <1>5, <1>12, SmallerSet
<1> QED BY <1>2, <1>11, <1>13

(* Where the way up ends, the parent is the neighbour, or there is none.     *)
LEMMA ClimbEnds ==
  ASSUME NEW n, NEW r, NEW S, NEW sub, SearchTree(n, r, S, sub), IsFiniteSet(S), NEW side \in Side,
         NEW e \in S, NEW x \in S, Climbs(n, sub, side, e, x), NEW p, p = n[x].parent,
         ~(p # NULL /\ n[p][side] = x)
  PROVE  NextTo(n, S, side, e, p)
<1>1. FieldsOf(n, S) /\ NULL \notin S /\ sub[r] = S
  BY NullAssumption DEF SearchTree, Shaped, FieldsOf, Pointer, Nested
<1>2. e \in sub[x] /\ \A z \in sub[x] : z # e => Beyond(n, Other(side), z, e)
  BY DEF Climbs
<1>3. CASE x = r
  <2>1. p = NULL
    BY <1>1, <1>3 DEF SearchTree, Shaped
  <2> QED BY <1>1, <1>2, <1>3, <2>1 DEF NextTo
<1>4. CASE x # r
  <2>1. PICK z \in Side : p \in S /\ n[p][z] = x
    BY <1>4 DEF SearchTree, Shaped
  <2>2. z = Other(side) /\ p # NULL
    BY <1>1, <2>1, TwoSides
  <2>3. Other(side) \in Side /\ Other(Other(side)) = side
    BY SideFacts
  <2>4. PICK o \in Side : o = Other(side) /\ Other(o) = side /\ n[p][o] = x
    BY <2>1, <2>2, <2>3
  <2>5. /\ p \in sub[p] /\ sub[p] \subseteq S /\ sub[x] \subseteq sub[p]
        /\ sub[p] = {p} \union sub[x] \union sub[n[p][Other(o)]]
        /\ \A u \in sub[x] : u \in S /\ Beyond(n, o, u, p)
    BY <2>1, <2>4, KidFacts
  <2>6. PICK v : v = n[p][side]
    OBVIOUS
  <2>7. \A u \in sub[v] : u \in S /\ Beyond(n, side, u, p)
    BY <2>1, <2>6, KidFacts
  <2>8. Beyond(n, side, p, e)
    BY <1>1, <1>2, <2>1, <2>4, <2>5, BeyondFacts
  <2>9. ASSUME NEW u \in S, Beyond(n, side, u, e), Beyond(n, Other(side), u, p)
        PROVE  FALSE
    <3>1. u \in sub[p]
      BY <1>1, <1>2, <2>1, <2>5, <2>9, NotBetween
    <3>2. u # p
      BY <1>1, <2>1, <2>3, <2>9, BeyondFacts
    <3>3. u \notin sub[v]
      BY <1>1, <2>1, <2>7, <2>9, BeyondFacts
    <3>4. u \in sub[x]
      BY <2>4, <2>5, <2>6, <3>1, <3>2, <3>3
    <3>5. u = e \/ Beyond(n, Other(side), u, e)
      BY <1>2, <3>4
    <3> QED BY <1>1, <2>9, <3>5, BeyondFacts
  <2> QED BY <2>1, <2>2, <2>8, <2>9 DEF NextTo
<1> QED BY <1>3, <1>4

(* avl_tree_next() and avl_tree_previous() of an element that has no subtree *)
(* on that side.                                                             *)
LEMMA ClimbSound ==
  ASSUME NEW n, NEW r, NEW sz, NEW S, SoundTree(r, sz, n, S), NEW side \in Side, NEW e \in S,
         n[e][side] = NULL
  PROVE  NextTo(n, S, side, e, Climb(Record(r, sz, n), e, side))
<1>1. PICK sub : SearchTree(n, r, S, sub)
  BY DEF SoundTree
<1>2. /\ IsFiniteSet(S) /\ sz \in Nat /\ sz = Cardinality(S) /\ r \in S \union {NULL} /\ NULL \notin S
      /\ sub[r] = S /\ sub[NULL] = {} /\ FieldsOf(n, S) /\ Forked(n, r, S, sub)
      /\ \A x \in S : /\ sub[x] \in SUBSET S /\ x \in sub[x] /\ Cardinality(sub[x]) \in Nat
                      /\ Cardinality(sub[x]) # 0 /\ Cardinality(sub[x]) <= sz
  BY <1>1, SubFacts
<1>3. PICK V : V = {x \in S : Climbs(n, sub, side, e, x)}
  OBVIOUS
<1>4. PICK F : F = [x \in V |-> Upward(n, x, side)]
  OBVIOUS
<1>5. ASSUME NEW x \in V
      PROVE  /\ F[x] = Upward(n, x, side) /\ F[x] \in V
             /\ F[x] = x \/ Cardinality(sub[x]) < Cardinality(sub[F[x]])
             /\ F[x] = x => ~(n[x].parent # NULL /\ n[n[x].parent][side] = x)
  <2>1. F[x] = Upward(n, x, side) /\ x \in S /\ Climbs(n, sub, side, e, x)
    BY <1>3, <1>4
  <2>2. PICK p : p = n[x].parent
    OBVIOUS
  <2>3. CASE p # NULL /\ n[p][side] = x
    <3>1. p \in S /\ Climbs(n, sub, side, e, p) /\ Cardinality(sub[x]) < Cardinality(sub[p])
      BY <1>1, <1>2, <2>1, <2>2, <2>3, UpwardFacts
    <3>2. F[x] = p
      BY <2>1, <2>2, <2>3 DEF Upward
    <3>3. p # x
      BY <1>2, <2>1, <3>1
    <3> QED BY <1>3, <2>1, <3>1, <3>2, <3>3
  <2>4. CASE ~(p # NULL /\ n[p][side] = x)
    <3>1. F[x] = x
      BY <2>1, <2>2, <2>4 DEF Upward
    <3> QED BY <2>1, <2>2, <2>4, <3>1
  <2> QED BY <2>3, <2>4
<1>6. F \in [V -> V]
  BY <1>4, <1>5
<1>7. e \in V
  <2>1. PICK v : v = n[e][Other(side)]
    OBVIOUS
  <2>2. Other(side) \in Side
    BY SideFacts
  <2>3. \A z \in sub[v] : z \in S /\ Beyond(n, Other(side), z, e)
    BY <1>1, <2>1, <2>2, KidFacts
  <2>4. sub[e] = {e} \union sub[n[e][side]] \union sub[n[e][Other(side)]]
    BY <1>1 DEF SearchTree, Nested, NestedAt
  <2>5. sub[e] = {e} \union sub[v]
    BY <1>2, <2>1, <2>4
  <2>6. Climbs(n, sub, side, e, e)
    BY <2>3, <2>5 DEF Climbs
  <2> QED BY <1>3, <2>6
<1>8. PICK m : m = [x \in V |-> IF F[x] = x THEN 0 ELSE sz + 1 - Cardinality(sub[x])]
  OBVIOUS
<1>9. ASSUME NEW x \in V
      PROVE  m[x] \in Nat /\ m[x] <= sz /\ IF m[x] = 0 THEN m[F[x]] = 0 ELSE m[F[x]] < m[x]
  <2>1. x \in S /\ F[x] \in V /\ F[x] \in S
    BY <1>3, <1>5
  <2>2. PICK y \in V : y = F[x]
    BY <2>1
  <2>3. PICK a \in Nat, b \in Nat : /\ a = Cardinality(sub[x]) /\ a # 0 /\ a <= sz
                                    /\ b = Cardinality(sub[y]) /\ b # 0 /\ b <= sz
    BY <1>2, <2>1, <2>2
  <2>4. CASE y = x
    <3>1. m[x] = 0 /\ m[F[x]] = 0
      BY <1>8, <2>2, <2>4
    <3> QED BY <1>2, <3>1
  <2>5. CASE y # x
    <3>1. a < b
      BY <1>5, <2>2, <2>3, <2>5
    <3>2. m[x] = sz + 1 - a
      BY <1>8, <2>2, <2>3, <2>5
    <3>3. m[y] = 0 \/ m[y] = sz + 1 - b
      BY <1>8, <2>3
    <3> QED BY <1>2, <2>2, <2>3, <3>1, <3>2, <3>3
  <2> QED BY <2>4, <2>5
<1>10. m \in [V -> Nat] /\ m[e] <= sz
  BY <1>7, <1>8, <1>9
<1>11. PICK t : t = Record(r, sz, n)
  OBVIOUS
<1>12. t.size = sz /\ t.node = n
  BY <1>11, RecordFacts
<1> DEFINE Loop(f) == f = [i \in Nat |-> IF i = 0 THEN e ELSE Upward(t.node, f[i - 1], side)]
<1>13. \E a : Loop(a)
  <2>1. PICK g : g \in [Nat -> V] /\ g = [i \in Nat |-> IF i = 0 THEN e ELSE F[g[i - 1]]]
    BY <1>6, <1>7, RepeatsExists
  <2>2. \A i \in Nat : i # 0 => F[g[i - 1]] = Upward(n, g[i - 1], side)
    BY <1>5, <2>1
  <2>3. Loop(g)
    BY <1>12, <2>1, <2>2
  <2> QED BY <2>3
<1>14. Climb(t, e, side) = t.node[(CHOOSE a : Loop(a))[t.size]].parent
  BY DEF Climb
<1> HIDE DEF Loop
<1>15. PICK f : f = CHOOSE a : Loop(a)
  OBVIOUS
<1>16. Loop(f)
  BY <1>13, <1>15, Zenon
<1>17. Climb(Record(r, sz, n), e, side) = n[f[sz]].parent
  BY <1>11, <1>12, <1>14, <1>15
<1>18. f[0] = e /\ \A i \in Nat : f[i + 1] = Upward(n, f[i], side)
  BY <1>12, <1>16 DEF Loop
<1>19. Repeats(f, e, F)
  <2> DEFINE K == {i \in Nat : f[i] \in V}
  <2>1. 0 \in K /\ (\A i \in K : i + 1 \in K) /\ K \in SUBSET Nat
    BY <1>5, <1>7, <1>18
  <2>2. K = Nat
    <3> HIDE DEF K
    <3> QED BY <2>1, EveryNumber
  <2>3. \A i \in Nat : F[f[i]] = Upward(n, f[i], side)
    BY <1>5, <2>2
  <2> QED BY <1>18, <2>3 DEF Repeats
<1>20. \A x \in V : IF m[x] = 0 THEN m[F[x]] = 0 ELSE m[F[x]] < m[x]
  BY <1>9
<1>21. f[sz] \in V /\ m[f[sz]] = 0
  BY <1>2, <1>6, <1>7, <1>10, <1>19, <1>20, RepeatsSettle
<1>22. PICK x \in V : x = f[sz] /\ m[x] = 0
  BY <1>21
<1>23. x \in S /\ Climbs(n, sub, side, e, x) /\ Cardinality(sub[x]) \in Nat /\ Cardinality(sub[x]) <= sz
  BY <1>2, <1>3
<1>24. F[x] = x
  BY <1>2, <1>8, <1>22, <1>23
<1>25. ~(n[x].parent # NULL /\ n[n[x].parent][side] = x)
  BY <1>5, <1>24
<1>26. NextTo(n, S, side, e, n[x].parent)
  BY <1>1, <1>2, <1>23, <1>25, ClimbEnds
<1> QED BY <1>17, <1>22, <1>26

(* avl_tree_next() and avl_tree_previous() answer the neighbour, or NULL at  *)
(* the end.                                                                  *)
LEMMA NeighbourSound ==
  ASSUME NEW n, NEW r, NEW sz, NEW S, SoundTree(r, sz, n, S), NEW side \in Side, NEW e \in S
  PROVE  NextTo(n, S, side, e, Neighbour(Record(r, sz, n), e, side))
<1>1. PICK t : t = Record(r, sz, n)
  OBVIOUS
<1>2. t.node = n
  BY <1>1, RecordFacts
<1>3. CASE n[e][side] = NULL
  <2>1. Neighbour(t, e, side) = Climb(t, e, side)
    BY <1>2, <1>3 DEF Neighbour
  <2> QED BY <1>1, <1>3, <2>1, ClimbSound
<1>4. CASE n[e][side] # NULL
  <2>1. PICK c : c = n[e][side]
    OBVIOUS
  <2>2. Neighbour(t, e, side) = Outermost(t, c, Other(side))
    BY <1>2, <1>4, <2>1 DEF Neighbour, descendant
  <2> QED BY <1>1, <1>4, <2>1, <2>2, DescendantNext
<1> QED BY <1>3, <1>4

(* avl_tree_get_first() and avl_tree_get_last().                             *)
EndOf(n, S, o, y) ==
  IF y = NULL THEN S = {} ELSE y \in S /\ \A z \in S : z # y => Beyond(n, Other(o), z, y)

(* avl_tree_get_first() and avl_tree_get_last() answer the outermost         *)
(* elements.                                                                 *)
LEMMA EndSound ==
  ASSUME NEW n, NEW r, NEW sz, NEW S, SoundTree(r, sz, n, S), NEW o \in Side
  PROVE  EndOf(n, S, o, IF r = NULL THEN NULL ELSE Outermost(Record(r, sz, n), r, o))
<1>1. PICK sub : SearchTree(n, r, S, sub)
  BY DEF SoundTree
<1>2. /\ IsFiniteSet(S) /\ sz \in Nat /\ sz = Cardinality(S) /\ r \in S \union {NULL} /\ NULL \notin S
      /\ sub[r] = S /\ sub[NULL] = {} /\ FieldsOf(n, S) /\ Forked(n, r, S, sub)
      /\ \A x \in S : /\ sub[x] \in SUBSET S /\ x \in sub[x] /\ Cardinality(sub[x]) \in Nat
                      /\ Cardinality(sub[x]) # 0 /\ Cardinality(sub[x]) <= sz
  BY <1>1, SubFacts
<1>3. CASE r = NULL
  BY <1>2, <1>3 DEF EndOf
<1>4. CASE r # NULL
  <2>1. \A x \in sub[r] : OrderedAt(n, sub, x)
    BY <1>1, <1>2 DEF SearchTree, Ordered
  <2>2. PICK y : y = Outermost(Record(r, sz, n), r, o)
    OBVIOUS
  <2>3. Outward(n, sub, r, o, y) /\ n[y][o] = NULL
    <3>1. Cardinality(S) <= sz /\ r \in S
      BY <1>2, <1>4
    <3> QED BY <1>2, <2>1, <2>2, <3>1, OutermostSound
  <2>4. y \in S /\ \A z \in S : z \in sub[y] \/ Beyond(n, Other(o), z, y)
    BY <1>2, <2>3 DEF Outward
  <2>5. sub[y] = {y} \union sub[n[y][Other(o)]]
    <3>1. sub[y] = {y} \union sub[n[y][o]] \union sub[n[y][Other(o)]]
      BY <1>1, <2>4 DEF SearchTree, Nested, NestedAt
    <3> QED BY <1>2, <2>3, <3>1
  <2>6. \A z \in sub[n[y][Other(o)]] : Beyond(n, Other(o), z, y)
    <3>1. Other(o) \in Side
      BY SideFacts
    <3> QED BY <1>2, <2>1, <2>4, <3>1 DEF OrderedAt
  <2>7. \A z \in S : z # y => Beyond(n, Other(o), z, y)
    BY <2>4, <2>5, <2>6
  <2>8. y # NULL
    BY <1>2, <2>4
  <2> QED BY <1>4, <2>2, <2>4, <2>7, <2>8 DEF EndOf
<1> QED BY <1>3, <1>4

------------------------------------------------------------------------------
(* The answers as places in the sorted sequence of the elements: the         *)
(* elements less than a key come first, and their number says where the key  *)
(* is.                                                                       *)

(* A set of the first numbers is as many as it says.                         *)
LEMMA CountedUp ==
  ASSUME NEW N \in Nat, NEW D \in SUBSET (1..N), \A i \in D, j \in 1..N : j < i => j \in D
  PROVE  Cardinality(D) \in 0..N /\ D = 1..Cardinality(D)
<1>1. \A k \in Nat : IsFiniteSet(1..k) /\ Cardinality(1..k) = k
  <2> SUFFICES ASSUME NEW k \in Nat
               PROVE  IsFiniteSet(1..k) /\ Cardinality(1..k) = k
    OBVIOUS
  <2>1. /\ IsFiniteSet(1..k)
        /\ Cardinality(1..k) = IF 1 > k THEN 0 ELSE k - 1 + 1
    BY FS_Interval
  <2> QED BY <2>1
<1>2. \E k \in 0..N : D = 1..k
  <2>1. CASE D = 1..N
    BY <2>1
  <2>2. CASE D # 1..N
    <3>1. PICK R : R = (1..N) \ D
      OBVIOUS
    <3>2. R \in SUBSET Nat /\ R # {}
      <4>1. R # {}
        BY <2>2, <3>1, Zenon
      <4> QED BY <3>1, <4>1
    <3>3. PICK m : m = CHOOSE k \in R : \A i \in R : k <= i
      OBVIOUS
    <3>4. m \in R /\ \A i \in R : m <= i
      BY <3>2, <3>3, LeastFacts
    <3>5. m \in 1..N /\ m \notin D /\ m - 1 \in 0..N
      BY <3>1, <3>4
    <3>6. ASSUME NEW i \in 1..N
          PROVE  i \in D <=> i <= m - 1
      <4>1. CASE i < m
        BY <3>1, <3>4, <3>5, <4>1
      <4>2. CASE i = m
        BY <3>5, <4>2
      <4>3. CASE i > m
        BY <3>5, <4>3
      <4> QED BY <3>5, <4>1, <4>2, <4>3
    <3>7. D = 1..(m - 1)
      <4>1. PICK c : c = m - 1
        OBVIOUS
      <4>2. c \in 0..N
        BY <3>5, <4>1
      <4>3. \A i \in 1..N : i \in D <=> i <= c
        BY <3>6, <4>1
      <4>4. ASSUME NEW i
            PROVE  i \in D <=> i \in 1..c
        <5>1. i \in D => i \in 1..N
          OBVIOUS
        <5>2. i \in 1..c => i \in 1..N /\ i <= c
          BY <4>2
        <5>3. i \in 1..N /\ i <= c => i \in 1..c
          BY <4>2
        <5> QED BY <4>3, <5>1, <5>2, <5>3, Zenon
      <4>5. D = 1..c
        BY <4>4, Zenon
      <4> QED BY <4>1, <4>5
    <3> QED BY <3>5, <3>7
  <2> QED BY <2>1, <2>2
<1>3. PICK k \in 0..N : D = 1..k
  BY <1>2
<1>4. Cardinality(D) = k
  BY <1>1, <1>3
<1> QED BY <1>3, <1>4

(* The sequence s of the nodes S, by rank.                                   *)
Sorted(s, n, S) ==
  /\ Len(s) \in Nat /\ NULL \notin S
  /\ \A i \in 1..Len(s) : s[i] \in S /\ rank(n, s[i]) \in Int
  /\ \A y \in S : \E i \in 1..Len(s) : y = s[i]
  /\ \A i \in 1..Len(s), j \in 1..Len(s) : i < j => rank(n, s[i]) < rank(n, s[j])

(* The walk of a sound tree is sorted.                                       *)
LEMMA SortedWalk ==
  ASSUME NEW r, NEW sz, NEW n, NEW S, SoundTree(r, sz, n, S), NEW s, Enumerates(s, n, S)
  PROVE  Sorted(s, n, S)
<1>1. /\ s \in Seq(Elem) /\ Len(s) \in Nat /\ Len(s) = Cardinality(S)
      /\ S = {s[i] : i \in 1..Len(s)}
      /\ \A i \in 1..Len(s) : s[i] \in S
      /\ \A i \in 1..Len(s), j \in 1..Len(s) : i < j => rank(n, s[i]) < rank(n, s[j])
  BY EnumeratesFacts
<1>2. FieldsOf(n, S) /\ NULL \notin S
  <2>1. FieldsOf(n, S) /\ S \in SUBSET Elem
    BY SoundNodes
  <2> QED BY <2>1, NullPointers
<1>3. \A x \in S : rank(n, x) \in Int
  BY <1>2, RankFacts
<1>4. \A i \in 1..Len(s) : s[i] \in S /\ rank(n, s[i]) \in Int
  BY <1>1, <1>3
<1>5. \A y \in S : \E i \in 1..Len(s) : y = s[i]
  BY <1>1
<1> QED BY <1>1, <1>2, <1>4, <1>5 DEF Sorted

(* Before and after in the sorted sequence is left and right in the tree.    *)
LEMMA SortedSides ==
  ASSUME NEW s, NEW n, NEW S, Sorted(s, n, S), NEW i \in 1..Len(s), NEW j \in 1..Len(s)
  PROVE  /\ Beyond(n, "left", s[i], s[j]) <=> i < j
         /\ Beyond(n, "right", s[i], s[j]) <=> j < i
         /\ rank(n, s[i]) < rank(n, s[j]) <=> i < j
         /\ rank(n, s[i]) = rank(n, s[j]) => i = j
<1>1. /\ Len(s) \in Nat /\ i \in Int /\ j \in Int
      /\ rank(n, s[i]) \in Int /\ rank(n, s[j]) \in Int
      /\ i < j => rank(n, s[i]) < rank(n, s[j])
      /\ j < i => rank(n, s[j]) < rank(n, s[i])
  BY DEF Sorted
<1>2. rank(n, s[i]) < rank(n, s[j]) <=> i < j
  BY <1>1
<1>3. rank(n, s[j]) < rank(n, s[i]) <=> j < i
  BY <1>1
<1>4. rank(n, s[i]) > rank(n, s[j]) <=> rank(n, s[j]) < rank(n, s[i])
  BY <1>1
<1> QED BY <1>1, <1>2, <1>3, <1>4 DEF Beyond

(* The element at the place i of s, or NULL.                                 *)
CellAt(s, i) == IF i \in 1..Len(s) THEN s[i] ELSE NULL

(* The outermost elements are the first and the last of the sequence.        *)
LEMMA EndPlaces ==
  ASSUME NEW s, NEW n, NEW S, Sorted(s, n, S)
  PROVE  /\ \A y : EndOf(n, S, "left", y) => y = CellAt(s, 1)
         /\ \A y : EndOf(n, S, "right", y) => y = CellAt(s, Len(s))
<1>1. PICK N \in Nat : N = Len(s)
  BY DEF Sorted
<1>2. /\ NULL \notin S /\ \A i \in 1..N : s[i] \in S
      /\ \A y \in S : \E i \in 1..N : y = s[i]
  BY <1>1 DEF Sorted
<1>3. ASSUME NEW o \in Side, NEW y, EndOf(n, S, o, y), y = NULL
      PROVE  N = 0
  <2>1. S = {}
    BY <1>3 DEF EndOf
  <2> QED BY <1>2, <2>1
<1>4. ASSUME NEW y, EndOf(n, S, "left", y)
      PROVE  y = CellAt(s, 1)
  <2>1. CASE y = NULL
    <3>1. N = 0
      BY <1>3, <1>4, <2>1 DEF Side
    <3> QED BY <1>1, <2>1, <3>1 DEF CellAt
  <2>2. CASE y # NULL
    <3>1. y \in S /\ \A z \in S : z # y => Beyond(n, "right", z, y)
      BY <1>4, <2>2 DEF EndOf, Other
    <3>2. PICK i \in 1..N : y = s[i]
      BY <1>2, <3>1
    <3>3. 1 \in 1..N
      OBVIOUS
    <3>4. s[1] = y \/ Beyond(n, "right", s[1], s[i])
      BY <1>2, <3>1, <3>2, <3>3
    <3>5. Beyond(n, "right", s[1], s[i]) => i < 1
      BY <1>1, <3>3, SortedSides
    <3>6. ~(i < 1)
      OBVIOUS
    <3> QED BY <1>1, <3>3, <3>4, <3>5, <3>6 DEF CellAt
  <2> QED BY <2>1, <2>2
<1>5. ASSUME NEW y, EndOf(n, S, "right", y)
      PROVE  y = CellAt(s, N)
  <2>1. CASE y = NULL
    <3>1. N = 0
      BY <1>3, <1>5, <2>1 DEF Side
    <3> QED BY <1>1, <2>1, <3>1 DEF CellAt
  <2>2. CASE y # NULL
    <3>1. y \in S /\ \A z \in S : z # y => Beyond(n, "left", z, y)
      BY <1>5, <2>2 DEF EndOf, Other
    <3>2. PICK i \in 1..N : y = s[i]
      BY <1>2, <3>1
    <3>3. N \in 1..N
      OBVIOUS
    <3>4. s[N] = y \/ Beyond(n, "left", s[N], s[i])
      BY <1>2, <3>1, <3>2, <3>3
    <3>5. Beyond(n, "left", s[N], s[i]) => N < i
      BY <1>1, <3>3, SortedSides
    <3>6. ~(N < i)
      OBVIOUS
    <3> QED BY <1>1, <3>3, <3>4, <3>5, <3>6 DEF CellAt
  <2> QED BY <2>1, <2>2
<1> QED BY <1>1, <1>4, <1>5

(* The neighbours are the elements beside in the sequence.                   *)
LEMMA NextPlaces ==
  ASSUME NEW s, NEW n, NEW S, Sorted(s, n, S), NEW i \in 1..Len(s), NEW y
  PROVE  /\ NextTo(n, S, "right", s[i], y) => y = CellAt(s, i + 1)
         /\ NextTo(n, S, "left", s[i], y) => y = CellAt(s, i - 1)
<1>1. PICK N \in Nat : N = Len(s) /\ i \in 1..N
  BY DEF Sorted
<1>2. /\ NULL \notin S /\ \A k \in 1..N : s[k] \in S
      /\ \A z \in S : \E k \in 1..N : z = s[k]
  BY <1>1 DEF Sorted
<1>3. \A j \in 1..N, k \in 1..N : /\ Beyond(n, "left", s[j], s[k]) <=> j < k
                                  /\ Beyond(n, "right", s[j], s[k]) <=> k < j
  BY <1>1, SortedSides
<1>4. Other("left") = "right" /\ Other("right") = "left"
  BY DEF Other
<1>5. ASSUME NextTo(n, S, "right", s[i], y)
      PROVE  y = CellAt(s, i + 1)
  <2>1. CASE y = NULL
    <3>1. \A z \in S : z # s[i] => Beyond(n, "left", z, s[i])
      BY <1>4, <1>5, <2>1 DEF NextTo
    <3>2. i + 1 \notin 1..N
      <4> SUFFICES ASSUME i + 1 \in 1..N
                   PROVE  FALSE
        OBVIOUS
      <4>1. Beyond(n, "right", s[i + 1], s[i]) /\ ~Beyond(n, "left", s[i + 1], s[i]) /\ ~Beyond(n, "right", s[i], s[i])
        BY <1>1, <1>3
      <4> QED BY <1>2, <3>1, <4>1
    <3> QED BY <1>1, <2>1, <3>2 DEF CellAt
  <2>2. CASE y # NULL
    <3>1. /\ y \in S /\ Beyond(n, "right", y, s[i])
          /\ \A z \in S : ~(Beyond(n, "right", z, s[i]) /\ Beyond(n, "left", z, y))
      BY <1>4, <1>5, <2>2 DEF NextTo
    <3>2. PICK k \in 1..N : y = s[k]
      BY <1>2, <3>1
    <3>3. i < k
      BY <1>1, <1>3, <3>1, <3>2
    <3>4. i + 1 \in 1..N
      BY <1>1, <3>3
    <3>5. ~(i < i + 1 /\ i + 1 < k)
      BY <1>1, <1>2, <1>3, <3>1, <3>2, <3>4
    <3>6. k = i + 1
      BY <1>1, <3>3, <3>5
    <3> QED BY <1>1, <3>2, <3>4, <3>6 DEF CellAt
  <2> QED BY <2>1, <2>2
<1>6. ASSUME NextTo(n, S, "left", s[i], y)
      PROVE  y = CellAt(s, i - 1)
  <2>1. CASE y = NULL
    <3>1. \A z \in S : z # s[i] => Beyond(n, "right", z, s[i])
      BY <1>4, <1>6, <2>1 DEF NextTo
    <3>2. i - 1 \notin 1..N
      <4> SUFFICES ASSUME i - 1 \in 1..N
                   PROVE  FALSE
        OBVIOUS
      <4>1. Beyond(n, "left", s[i - 1], s[i]) /\ ~Beyond(n, "right", s[i - 1], s[i]) /\ ~Beyond(n, "left", s[i], s[i])
        BY <1>1, <1>3
      <4> QED BY <1>2, <3>1, <4>1
    <3> QED BY <1>1, <2>1, <3>2 DEF CellAt
  <2>2. CASE y # NULL
    <3>1. /\ y \in S /\ Beyond(n, "left", y, s[i])
          /\ \A z \in S : ~(Beyond(n, "left", z, s[i]) /\ Beyond(n, "right", z, y))
      BY <1>4, <1>6, <2>2 DEF NextTo
    <3>2. PICK k \in 1..N : y = s[k]
      BY <1>2, <3>1
    <3>3. k < i
      BY <1>1, <1>3, <3>1, <3>2
    <3>4. i - 1 \in 1..N
      BY <1>1, <3>3
    <3>5. ~(i - 1 < i /\ k < i - 1)
      BY <1>1, <1>2, <1>3, <3>1, <3>2, <3>4
    <3>6. k = i - 1
      BY <1>1, <3>3, <3>5
    <3> QED BY <1>1, <3>2, <3>4, <3>6 DEF CellAt
  <2> QED BY <2>1, <2>2
<1> QED BY <1>5, <1>6

(* How many elements are less than k, and how many have its rank.            *)
Less(s, n, q) == {i \in 1..Len(s) : rank(n, s[i]) < q}
Equal(s, n, q) == {i \in 1..Len(s) : rank(n, s[i]) = q}
(* A elements come before the rank q, and b elements have it.                *)
Tally(s, n, q, a, b) ==
  /\ a \in Nat /\ b \in Nat /\ a + b <= Len(s) /\ (b = 0 <=> Equal(s, n, q) = {})
  /\ \A i \in 1..Len(s) : /\ rank(n, s[i]) < q <=> i <= a
                          /\ rank(n, s[i]) <= q <=> i <= a + b

(* The elements less than a key come first, and at most one has the key.     *)
LEMMA Counted ==
  ASSUME NEW s, NEW n, NEW S, Sorted(s, n, S), NEW q \in Int,
         NEW a, a = Cardinality(Less(s, n, q)), NEW b, b = Cardinality(Equal(s, n, q))
  PROVE  Tally(s, n, q, a, b)
<1>1. PICK N \in Nat : N = Len(s)
  BY DEF Sorted
<1>2. /\ \A i \in 1..N : rank(n, s[i]) \in Int
      /\ \A i \in 1..N, j \in 1..N : i < j => rank(n, s[i]) < rank(n, s[j])
  BY <1>1 DEF Sorted
<1>3. PICK D, E, U : D = Less(s, n, q) /\ E = Equal(s, n, q) /\ U = D \union E
  OBVIOUS
<1>4. /\ D \in SUBSET (1..N) /\ E \in SUBSET (1..N) /\ U \in SUBSET (1..N) /\ D \intersect E = {}
      /\ \A i \in 1..N : (i \in D <=> rank(n, s[i]) < q) /\ (i \in U <=> rank(n, s[i]) <= q)
  BY <1>1, <1>2, <1>3 DEF Less, Equal
<1>5. \A i \in D, j \in 1..N : j < i => j \in D
  BY <1>2, <1>4
<1>6. \A i \in U, j \in 1..N : j < i => j \in U
  BY <1>2, <1>4
<1>7. Cardinality(D) \in 0..N /\ D = 1..Cardinality(D)
  BY <1>4, <1>5, CountedUp
<1>8. Cardinality(U) \in 0..N /\ U = 1..Cardinality(U)
  BY <1>4, <1>6, CountedUp
<1>9. IsFiniteSet(D) /\ IsFiniteSet(E) /\ Cardinality(E) \in Nat /\ (Cardinality(E) = 0 <=> E = {})
  <2>1. IsFiniteSet(1..N)
    BY FS_Interval
  <2>2. IsFiniteSet(D) /\ IsFiniteSet(E)
    BY <1>4, <2>1, FS_Subset
  <2> QED BY <2>2, FS_CardinalityType, FS_EmptySet
<1>10. Cardinality(U) = Cardinality(D) + Cardinality(E)
  <2>1. IsFiniteSet(D \union E) /\ Cardinality(D \union E) = Cardinality(D) + Cardinality(E) - Cardinality(D \intersect E)
    BY <1>9, FS_Union
  <2>2. Cardinality({}) = 0
    BY FS_EmptySet
  <2>3. Cardinality(D \intersect E) = 0 /\ D \union E = U
    BY <1>3, <1>4, <2>2
  <2>4. Cardinality(D) \in Nat /\ Cardinality(E) \in Nat
    BY <1>7, <1>9
  <2>5. Cardinality(U) = Cardinality(D) + Cardinality(E) - 0
    BY <2>1, <2>3, Zenon
  <2>6. PICK x, y, z : x = Cardinality(D) /\ y = Cardinality(E) /\ z = Cardinality(U)
    OBVIOUS
  <2>7. z = x + y
    BY <2>4, <2>5, <2>6
  <2> QED BY <2>6, <2>7, Zenon
<1>11. a \in Nat /\ b \in Nat /\ a + b = Cardinality(U) /\ a + b <= N /\ (b = 0 <=> E = {})
  BY <1>3, <1>7, <1>8, <1>9, <1>10
<1>12. D = 1..a /\ U = 1..(a + b)
  BY <1>3, <1>7, <1>8, <1>11
<1>13. \A i \in 1..N : /\ rank(n, s[i]) < q <=> i <= a
                       /\ rank(n, s[i]) <= q <=> i <= a + b
  <2>1. ASSUME NEW i \in 1..N
        PROVE  (i \in 1..a <=> i <= a) /\ (i \in 1..(a + b) <=> i <= a + b)
    BY <1>11
  <2>2. ASSUME NEW i \in 1..N
        PROVE  (i \in D <=> i <= a) /\ (i \in U <=> i <= a + b)
    BY <1>12, <2>1, Zenon
  <2>3. ASSUME NEW i \in 1..N
        PROVE  /\ rank(n, s[i]) < q <=> i <= a
               /\ rank(n, s[i]) <= q <=> i <= a + b
    <3>1. (i \in D <=> rank(n, s[i]) < q) /\ (i \in U <=> rank(n, s[i]) <= q)
      BY <1>4, Zenon
    <3> QED BY <2>2, <3>1, Zenon
  <2> QED BY <2>3, Zenon
<1>14. a + b <= Len(s) /\ (b = 0 <=> Equal(s, n, q) = {})
  BY <1>1, <1>3, <1>11, Zenon
<1>15. \A i \in 1..Len(s) : /\ rank(n, s[i]) < q <=> i <= a
                            /\ rank(n, s[i]) <= q <=> i <= a + b
  <2> SUFFICES ASSUME NEW i \in 1..Len(s)
               PROVE  /\ rank(n, s[i]) < q <=> i <= a
                      /\ rank(n, s[i]) <= q <=> i <= a + b
    OBVIOUS
  <2>1. i \in 1..N
    BY <1>1
  <2> QED BY <1>13, <2>1
<1>16. a \in Nat /\ b \in Nat
  BY <1>11
<1> QED BY <1>14, <1>15, <1>16, Zenon DEF Tally

(* Where the wanted elements come first, the closest is the last of them.    *)
LEMMA ClosestLow ==
  ASSUME NEW s, NEW n, NEW S, Sorted(s, n, S), NEW wanted, NEW c \in 0..Len(s),
         \A i \in 1..Len(s) : n[s[i]].key \in wanted <=> i <= c,
         NEW y, ClosestTo(n, S, wanted, "right", y)
  PROVE  y = CellAt(s, c)
<1>1. PICK N \in Nat : N = Len(s)
  BY DEF Sorted
<1>2. /\ NULL \notin S /\ \A k \in 1..N : s[k] \in S
      /\ \A z \in S : \E k \in 1..N : z = s[k]
  BY <1>1 DEF Sorted
<1>3. \A j \in 1..N, k \in 1..N : Beyond(n, "left", s[j], s[k]) <=> j < k
  BY <1>1, SortedSides
<1>4. /\ y \in S \union {NULL} /\ (y # NULL => n[y].key \in wanted)
      /\ \A z \in S : n[z].key \in wanted => y # NULL /\ (z = y \/ Beyond(n, "left", z, y))
  BY DEF ClosestTo, Bounds, Other
<1>5. CASE y = NULL
  <2>1. ~(1 <= c)
    <3> SUFFICES ASSUME 1 <= c
                 PROVE  FALSE
      OBVIOUS
    <3>1. 1 \in 1..N /\ n[s[1]].key \in wanted
      BY <1>1
    <3> QED BY <1>2, <1>4, <1>5, <3>1
  <2> QED BY <1>1, <1>5, <2>1 DEF CellAt
<1>6. CASE y # NULL
  <2>1. PICK k \in 1..N : y = s[k]
    BY <1>2, <1>4, <1>6
  <2>2. k <= c
    BY <1>1, <1>4, <1>6, <2>1
  <2>3. c \in 1..N /\ n[s[c]].key \in wanted
    BY <1>1, <2>2
  <2>4. s[c] = y \/ c < k
    BY <1>2, <1>3, <1>4, <2>1, <2>3
  <2>5. s[c] = y
    BY <1>1, <2>2, <2>4
  <2> QED BY <1>1, <2>3, <2>5 DEF CellAt
<1> QED BY <1>5, <1>6

(* Where the wanted elements come last, the closest is the first of them.    *)
LEMMA ClosestHigh ==
  ASSUME NEW s, NEW n, NEW S, Sorted(s, n, S), NEW wanted, NEW c \in 0..Len(s),
         \A i \in 1..Len(s) : n[s[i]].key \in wanted <=> i > c,
         NEW y, ClosestTo(n, S, wanted, "left", y)
  PROVE  y = CellAt(s, c + 1)
<1>1. PICK N \in Nat : N = Len(s)
  BY DEF Sorted
<1>2. /\ NULL \notin S /\ \A k \in 1..N : s[k] \in S
      /\ \A z \in S : \E k \in 1..N : z = s[k]
  BY <1>1 DEF Sorted
<1>3. \A j \in 1..N, k \in 1..N : Beyond(n, "right", s[j], s[k]) <=> k < j
  BY <1>1, SortedSides
<1>4. /\ y \in S \union {NULL} /\ (y # NULL => n[y].key \in wanted)
      /\ \A z \in S : n[z].key \in wanted => y # NULL /\ (z = y \/ Beyond(n, "right", z, y))
  BY DEF ClosestTo, Bounds, Other
<1>5. PICK d \in 1..(N + 1) : d = c + 1
  BY <1>1
<1>6. CASE y = NULL
  <2>1. d \notin 1..N
    <3> SUFFICES ASSUME d \in 1..N
                 PROVE  FALSE
      OBVIOUS
    <3>1. n[s[d]].key \in wanted
      BY <1>1, <1>5
    <3> QED BY <1>2, <1>4, <1>6, <3>1
  <2> QED BY <1>1, <1>5, <1>6, <2>1 DEF CellAt
<1>7. CASE y # NULL
  <2>1. PICK k \in 1..N : y = s[k]
    BY <1>2, <1>4, <1>7
  <2>2. k > c
    BY <1>1, <1>4, <1>7, <2>1
  <2>3. d \in 1..N /\ n[s[d]].key \in wanted
    BY <1>1, <1>5, <2>2
  <2>4. s[d] = y \/ k < d
    BY <1>2, <1>3, <1>4, <2>1, <2>3
  <2>5. s[d] = y
    BY <1>1, <1>5, <2>2, <2>4
  <2> QED BY <1>1, <1>5, <2>3, <2>5 DEF CellAt
<1> QED BY <1>6, <1>7

(* What the four bounds want, in terms of ranks.                             *)
LEMMA WantedSides ==
  ASSUME NEW n, NEW S, FieldsOf(n, S), NEW k \in Key, NEW q, q = Rank[k]
  PROVE  /\ \A x \in S : /\ n[x].key \in {z \in Key : cmp(k, z) > 0} <=> rank(n, x) < q
                         /\ n[x].key \in {z \in Key : cmp(k, z) >= 0} <=> rank(n, x) <= q
                         /\ n[x].key \in {z \in Key : cmp(k, z) < 0} <=> ~(rank(n, x) <= q)
                         /\ n[x].key \in {z \in Key : cmp(k, z) <= 0} <=> ~(rank(n, x) < q)
         /\ OneSided(n, S, {z \in Key : cmp(k, z) > 0}, "right")
         /\ OneSided(n, S, {z \in Key : cmp(k, z) >= 0}, "right")
         /\ OneSided(n, S, {z \in Key : cmp(k, z) < 0}, "left")
         /\ OneSided(n, S, {z \in Key : cmp(k, z) <= 0}, "left")
<1>1. q \in Int
  BY RankAssumption
<1>2. \A x \in S : rank(n, x) \in Int /\ n[x].key \in Key /\ cmp(k, n[x].key) = q - rank(n, x)
  BY RankFacts, FieldTypes DEF cmp, rank
<1>3. \A x \in S : /\ n[x].key \in {z \in Key : cmp(k, z) > 0} <=> rank(n, x) < q
                   /\ n[x].key \in {z \in Key : cmp(k, z) >= 0} <=> rank(n, x) <= q
                   /\ n[x].key \in {z \in Key : cmp(k, z) < 0} <=> ~(rank(n, x) <= q)
                   /\ n[x].key \in {z \in Key : cmp(k, z) <= 0} <=> ~(rank(n, x) < q)
  BY <1>1, <1>2
<1>4. PICK B, OB, A, OA : /\ B = {z \in Key : cmp(k, z) > 0} /\ OB = {z \in Key : cmp(k, z) >= 0}
                          /\ A = {z \in Key : cmp(k, z) < 0} /\ OA = {z \in Key : cmp(k, z) <= 0}
  OBVIOUS
<1>5. \A x \in S : /\ n[x].key \in B <=> rank(n, x) < q
                   /\ n[x].key \in OB <=> rank(n, x) <= q
                   /\ n[x].key \in A <=> ~(rank(n, x) <= q)
                   /\ n[x].key \in OA <=> ~(rank(n, x) < q)
  BY <1>3, <1>4
<1>6. /\ \A z, x : Beyond(n, Other("right"), z, x) <=> rank(n, z) < rank(n, x)
      /\ \A z, x : Beyond(n, Other("left"), z, x) <=> rank(n, z) > rank(n, x)
  BY DEF Beyond, Other
<1>7. OneSided(n, S, B, "right") /\ OneSided(n, S, OB, "right")
  BY <1>1, <1>2, <1>5, <1>6 DEF OneSided
<1>8. OneSided(n, S, A, "left") /\ OneSided(n, S, OA, "left")
  BY <1>1, <1>2, <1>5, <1>6 DEF OneSided
<1> QED BY <1>3, <1>4, <1>7, <1>8

(* The answers on a tree t whose elements in key order are s, for the key k. *)
KeyAnswers(t, s, n, k, a, b) ==
  /\ avl_tree_get(t, k) = IF b = 0 THEN NULL ELSE CellAt(s, a + 1)
  /\ avl_tree_get_before(t, k) = CellAt(s, a)
  /\ avl_tree_get_on_or_before(t, k) = CellAt(s, a + b)
  /\ avl_tree_get_after(t, k) = CellAt(s, a + b + 1)
  /\ avl_tree_get_on_or_after(t, k) = CellAt(s, a + 1)

(* The answers of avl_tree_get() and of the four bounds.                     *)
LEMMA KeysAnswered ==
  ASSUME NEW r, NEW sz, NEW n, NEW S, SoundTree(r, sz, n, S), NEW s, Enumerates(s, n, S),
         NEW k \in Key, NEW q, q = Rank[k],
         NEW a, a = Cardinality(Less(s, n, q)), NEW b, b = Cardinality(Equal(s, n, q))
  PROVE  KeyAnswers(Record(r, sz, n), s, n, k, a, b)
<1>1. Sorted(s, n, S) /\ FieldsOf(n, S) /\ q \in Int
  BY SortedWalk, SoundNodes, RankAssumption
<1>2. PICK N \in Nat : N = Len(s)
  BY <1>1 DEF Sorted
<1>3. /\ a \in Nat /\ b \in Nat /\ a + b <= Len(s) /\ (b = 0 <=> Equal(s, n, q) = {})
      /\ \A i \in 1..Len(s) : /\ rank(n, s[i]) < q <=> i <= a
                              /\ rank(n, s[i]) <= q <=> i <= a + b
  <2>1. Tally(s, n, q, a, b)
    BY <1>1, Counted
  <2> QED BY <2>1, Zenon DEF Tally
<1>4. /\ NULL \notin S /\ \A i \in 1..N : s[i] \in S /\ rank(n, s[i]) \in Int
      /\ \A z \in S : \E i \in 1..N : z = s[i]
  BY <1>1, <1>2 DEF Sorted
<1>5. PICK B, OB, A, OA : /\ B = {z \in Key : cmp(k, z) > 0} /\ OB = {z \in Key : cmp(k, z) >= 0}
                          /\ A = {z \in Key : cmp(k, z) < 0} /\ OA = {z \in Key : cmp(k, z) <= 0}
  OBVIOUS
<1>6. /\ \A x \in S : /\ n[x].key \in B <=> rank(n, x) < q
                      /\ n[x].key \in OB <=> rank(n, x) <= q
                      /\ n[x].key \in A <=> ~(rank(n, x) <= q)
                      /\ n[x].key \in OA <=> ~(rank(n, x) < q)
      /\ OneSided(n, S, B, "right") /\ OneSided(n, S, OB, "right")
      /\ OneSided(n, S, A, "left") /\ OneSided(n, S, OA, "left")
  BY <1>1, <1>5, WantedSides
<1>7. "left" \in Side /\ "right" \in Side
  BY DEF Side
<1>8. PICK t : t = Record(r, sz, n)
  OBVIOUS
<1>9. a \in 0..Len(s) /\ a + b \in 0..Len(s)
  BY <1>2, <1>3
<1>10. avl_tree_get_before(t, k) = CellAt(s, a)
  <2>1. ClosestTo(n, S, B, "right", Closest(t, B, "right"))
    BY <1>6, <1>7, <1>8, ClosestSound
  <2>2. \A i \in 1..Len(s) : n[s[i]].key \in B <=> i <= a
    BY <1>2, <1>3, <1>4, <1>6
  <2>3. Closest(t, B, "right") = CellAt(s, a)
    BY <1>1, <1>9, <2>1, <2>2, ClosestLow
  <2> QED BY <1>5, <2>3 DEF avl_tree_get_before
<1>11. avl_tree_get_on_or_before(t, k) = CellAt(s, a + b)
  <2>1. ClosestTo(n, S, OB, "right", Closest(t, OB, "right"))
    BY <1>6, <1>7, <1>8, ClosestSound
  <2>2. \A i \in 1..Len(s) : n[s[i]].key \in OB <=> i <= a + b
    BY <1>2, <1>3, <1>4, <1>6
  <2>3. Closest(t, OB, "right") = CellAt(s, a + b)
    BY <1>1, <1>9, <2>1, <2>2, ClosestLow
  <2> QED BY <1>5, <2>3 DEF avl_tree_get_on_or_before
<1>12. avl_tree_get_after(t, k) = CellAt(s, a + b + 1)
  <2>1. ClosestTo(n, S, A, "left", Closest(t, A, "left"))
    BY <1>6, <1>7, <1>8, ClosestSound
  <2>2. \A i \in 1..Len(s) : n[s[i]].key \in A <=> i > a + b
    BY <1>2, <1>3, <1>4, <1>6
  <2>3. Closest(t, A, "left") = CellAt(s, a + b + 1)
    BY <1>1, <1>9, <2>1, <2>2, ClosestHigh
  <2> QED BY <1>5, <2>3 DEF avl_tree_get_after
<1>13. avl_tree_get_on_or_after(t, k) = CellAt(s, a + 1)
  <2>1. ClosestTo(n, S, OA, "left", Closest(t, OA, "left"))
    BY <1>6, <1>7, <1>8, ClosestSound
  <2>2. \A i \in 1..Len(s) : n[s[i]].key \in OA <=> i > a
    BY <1>2, <1>3, <1>4, <1>6
  <2>3. Closest(t, OA, "left") = CellAt(s, a + 1)
    BY <1>1, <1>9, <2>1, <2>2, ClosestHigh
  <2> QED BY <1>5, <2>3 DEF avl_tree_get_on_or_after
<1>14. avl_tree_get(t, k) = IF b = 0 THEN NULL ELSE CellAt(s, a + 1)
  <2>1. PICK y : y = avl_tree_get(t, k)
    OBVIOUS
  <2>2. Gets(n, S, q, y)
    BY <1>8, <2>1, GetSound
  <2>3. CASE b = 0
    <3>1. \A z \in S : rank(n, z) # q
      BY <1>2, <1>3, <1>4, <2>3 DEF Equal
    <3>2. y = NULL
      BY <2>2, <3>1 DEF Gets
    <3> QED BY <2>1, <2>3, <3>2
  <2>4. CASE b # 0
    <3>1. PICK i \in 1..N : rank(n, s[i]) = q
      BY <1>2, <1>3, <2>4 DEF Equal
    <3>2. a + 1 \in 1..N /\ rank(n, s[a + 1]) = q
      <4>0. PICK w : w = rank(n, s[i])
        OBVIOUS
      <4>1. ~(i <= a) /\ i <= a + b /\ a + 1 \in 1..N
        <5>1. (w < q <=> i <= a) /\ (w <= q <=> i <= a + b)
          BY <1>2, <1>3, <4>0
        <5>2. ~(w < q) /\ w <= q
          BY <1>1, <3>1, <4>0
        <5>3. ~(i <= a) /\ i <= a + b
          BY <5>1, <5>2
        <5>4. a \in Nat /\ i \in 1..N
          BY <1>3, <3>1
        <5> QED BY <5>3, <5>4
      <4>2. PICK j \in 1..N : j = a + 1
        BY <4>1
      <4>3. ~(j <= a) /\ j <= a + b
        BY <1>3, <2>4, <4>2
      <4>4. ~(rank(n, s[j]) < q) /\ rank(n, s[j]) <= q /\ rank(n, s[j]) \in Int
        BY <1>2, <1>3, <1>4, <4>3
      <4> QED BY <1>1, <4>2, <4>4
    <3>3. y # NULL /\ y \in S /\ rank(n, y) = q
      <4>1. s[i] \in S
        BY <1>4
      <4> QED BY <2>2, <3>1, <4>1 DEF Gets
    <3>4. PICK j \in 1..N : y = s[j]
      BY <1>4, <3>3
    <3>5. j = a + 1
      BY <1>1, <1>2, <3>2, <3>3, <3>4, SortedSides
    <3> QED BY <1>2, <2>1, <2>4, <3>2, <3>4, <3>5 DEF CellAt
  <2> QED BY <2>3, <2>4
<1>15. KeyAnswers(t, s, n, k, a, b)
  BY <1>10, <1>11, <1>12, <1>13, <1>14 DEF KeyAnswers
<1> QED BY <1>8, <1>15

(* The answers on the walk.                                                  *)
WalkAnswers(t, s) ==
  /\ avl_tree_get_first(t) = CellAt(s, 1) /\ avl_tree_get_last(t) = CellAt(s, Len(s))
  /\ \A i \in 1..Len(s) : /\ avl_tree_next(t, s[i]) = CellAt(s, i + 1)
                          /\ avl_tree_previous(t, s[i]) = CellAt(s, i - 1)

(* The answers of the ends and of the neighbours.                            *)
LEMMA WalkAnswered ==
  ASSUME NEW r, NEW sz, NEW n, NEW S, SoundTree(r, sz, n, S), NEW s, Enumerates(s, n, S)
  PROVE  WalkAnswers(Record(r, sz, n), s)
<1>1. Sorted(s, n, S)
  BY SortedWalk
<1>2. PICK t : t = Record(r, sz, n)
  OBVIOUS
<1>3. t.root = r
  BY <1>2, RecordFacts
<1>4. "left" \in Side /\ "right" \in Side
  BY DEF Side
<1>5. avl_tree_get_first(t) = CellAt(s, 1)
  <2>1. EndOf(n, S, "left", IF r = NULL THEN NULL ELSE Outermost(Record(r, sz, n), r, "left"))
    BY <1>4, EndSound
  <2>2. EndOf(n, S, "left", avl_tree_get_first(t))
    BY <1>2, <1>3, <2>1 DEF avl_tree_get_first
  <2> QED BY <1>1, <2>2, EndPlaces
<1>6. avl_tree_get_last(t) = CellAt(s, Len(s))
  <2>1. EndOf(n, S, "right", IF r = NULL THEN NULL ELSE Outermost(Record(r, sz, n), r, "right"))
    BY <1>4, EndSound
  <2>2. EndOf(n, S, "right", avl_tree_get_last(t))
    BY <1>2, <1>3, <2>1 DEF avl_tree_get_last
  <2> QED BY <1>1, <2>2, EndPlaces
<1>7. ASSUME NEW i \in 1..Len(s)
      PROVE  /\ avl_tree_next(t, s[i]) = CellAt(s, i + 1)
             /\ avl_tree_previous(t, s[i]) = CellAt(s, i - 1)
  <2>1. s[i] \in S
    BY <1>1 DEF Sorted
  <2>2. NextTo(n, S, "right", s[i], avl_tree_next(t, s[i]))
    BY <1>2, <1>4, <2>1, NeighbourSound DEF avl_tree_next
  <2>3. NextTo(n, S, "left", s[i], avl_tree_previous(t, s[i]))
    BY <1>2, <1>4, <2>1, NeighbourSound DEF avl_tree_previous
  <2>4. avl_tree_next(t, s[i]) = CellAt(s, i + 1)
    BY <1>1, <2>2, NextPlaces
  <2>5. avl_tree_previous(t, s[i]) = CellAt(s, i - 1)
    BY <1>1, <2>3, NextPlaces
  <2> QED BY <2>4, <2>5
<1>8. WalkAnswers(t, s)
  BY <1>5, <1>6, <1>7 DEF WalkAnswers
<1> QED BY <1>2, <1>8

(* The invariant implies QueriesAgree.                                       *)
LEMMA IInvQueries == IInv => QueriesAgree
<1> SUFFICES ASSUME IInv, NEW tr \in Live
             PROVE  LET s == InOrder(tr)
                        t == tree(tr)
                        At(i) == IF i \in 1..Len(s) THEN s[i] ELSE NULL
                    IN  /\ avl_tree_get_first(t) = At(1) /\ avl_tree_get_last(t) = At(Len(s))
                        /\ \A i \in 1..Len(s) : /\ avl_tree_next(t, s[i]) = At(i + 1)
                                                /\ avl_tree_previous(t, s[i]) = At(i - 1)
                        /\ \A k \in Key :
                             LET less == Cardinality({i \in 1..Len(s) : cmp(node[s[i]].key, k) < 0})
                                 equal == Cardinality({i \in 1..Len(s) : cmp(node[s[i]].key, k) = 0})
                             IN  /\ avl_tree_get(t, k) = IF equal = 0 THEN NULL ELSE At(less + 1)
                                 /\ avl_tree_get_before(t, k) = At(less)
                                 /\ avl_tree_get_on_or_before(t, k) = At(less + equal)
                                 /\ avl_tree_get_after(t, k) = At(less + equal + 1)
                                 /\ avl_tree_get_on_or_after(t, k) = At(less + 1)
  BY Zenon DEF QueriesAgree
<1>1. PICK S : Enumerates(InOrder(tr), node, S) /\ SoundTree(root[tr], size[tr], node, S)
  BY IInvTrees
<1>2. PICK s, t, r, sz : s = InOrder(tr) /\ t = tree(tr) /\ r = root[tr] /\ sz = size[tr]
  OBVIOUS
<1>3. t = Record(r, sz, node) /\ Enumerates(s, node, S) /\ SoundTree(r, sz, node, S)
  BY <1>1, <1>2 DEF tree, Record
<1>4. WalkAnswers(t, s)
  BY <1>3, WalkAnswered
<1>5. /\ avl_tree_get_first(t) = CellAt(s, 1) /\ avl_tree_get_last(t) = CellAt(s, Len(s))
      /\ \A i \in 1..Len(s) : /\ avl_tree_next(t, s[i]) = CellAt(s, i + 1)
                              /\ avl_tree_previous(t, s[i]) = CellAt(s, i - 1)
  BY <1>4, Zenon DEF WalkAnswers
<1>6. ASSUME NEW k \in Key,
             NEW less, less = Cardinality({i \in 1..Len(s) : cmp(node[s[i]].key, k) < 0}),
             NEW equal, equal = Cardinality({i \in 1..Len(s) : cmp(node[s[i]].key, k) = 0})
      PROVE  KeyAnswers(t, s, node, k, less, equal)
  <2>1. Sorted(s, node, S)
    BY <1>3, SortedWalk
  <2>2. PICK q \in Int : q = Rank[k]
    BY RankAssumption
  <2>3. \A i \in 1..Len(s) : /\ rank(node, s[i]) \in Int
                             /\ cmp(node[s[i]].key, k) = rank(node, s[i]) - q
    BY <2>1, <2>2 DEF Sorted, cmp, rank
  <2>4. {i \in 1..Len(s) : cmp(node[s[i]].key, k) < 0} = Less(s, node, q)
    BY <2>2, <2>3 DEF Less
  <2>5. {i \in 1..Len(s) : cmp(node[s[i]].key, k) = 0} = Equal(s, node, q)
    BY <2>2, <2>3 DEF Equal
  <2>6. less = Cardinality(Less(s, node, q)) /\ equal = Cardinality(Equal(s, node, q))
    BY <1>6, <2>4, <2>5
  <2> QED BY <1>3, <2>2, <2>6, KeysAnswered
<1> DEFINE At(i) == IF i \in 1..Len(s) THEN s[i] ELSE NULL
<1>7. \A i : At(i) = CellAt(s, i)
  BY DEF CellAt
<1>8. /\ avl_tree_get_first(t) = At(1) /\ avl_tree_get_last(t) = At(Len(s))
      /\ \A i \in 1..Len(s) : /\ avl_tree_next(t, s[i]) = At(i + 1)
                              /\ avl_tree_previous(t, s[i]) = At(i - 1)
  BY <1>5 DEF CellAt
<1>9. ASSUME NEW k \in Key
      PROVE  LET less == Cardinality({i \in 1..Len(s) : cmp(node[s[i]].key, k) < 0})
                 equal == Cardinality({i \in 1..Len(s) : cmp(node[s[i]].key, k) = 0})
             IN  /\ avl_tree_get(t, k) = IF equal = 0 THEN NULL ELSE At(less + 1)
                 /\ avl_tree_get_before(t, k) = At(less)
                 /\ avl_tree_get_on_or_before(t, k) = At(less + equal)
                 /\ avl_tree_get_after(t, k) = At(less + equal + 1)
                 /\ avl_tree_get_on_or_after(t, k) = At(less + 1)
  <2>1. PICK less, equal : /\ less = Cardinality({i \in 1..Len(s) : cmp(node[s[i]].key, k) < 0})
                           /\ equal = Cardinality({i \in 1..Len(s) : cmp(node[s[i]].key, k) = 0})
    OBVIOUS
  <2>2. KeyAnswers(t, s, node, k, less, equal)
    BY <1>6, <2>1
  <2>3. /\ avl_tree_get(t, k) = IF equal = 0 THEN NULL ELSE At(less + 1)
        /\ avl_tree_get_before(t, k) = At(less)
        /\ avl_tree_get_on_or_before(t, k) = At(less + equal)
        /\ avl_tree_get_after(t, k) = At(less + equal + 1)
        /\ avl_tree_get_on_or_after(t, k) = At(less + 1)
    BY <2>2 DEF KeyAnswers, CellAt
  <2> QED BY <2>1, <2>3
<1> QED BY <1>2, <1>8, <1>9

(* QueriesAgree holds: in every tree that any calls make, get, the four      *)
(* bounds, the ends and the neighbours answer what the walk in key order     *)
(* says.                                                                     *)
THEOREM AVLSpecQueriesAgree == Spec => []QueriesAgree
<1>1. IInv => QueriesAgree
  BY IInvQueries
<1> QED BY <1>1, AVLSpecIInv, PTL

(* The same for the trees that are copied and popped from as well.           *)
THEOREM MapSpecQueriesAgree == MapSpec => []QueriesAgree
<1>1. IInv => QueriesAgree
  BY IInvQueries
<1> QED BY <1>1, MapSpecIInv, PTL

------------------------------------------------------------------------------
(* A tree as a map from ranks to entries: the map that its nodes determine,  *)
(* and what putting, taking and copying nodes does to it.                    *)

(* The entry of the node e, and those that a map may have.                   *)
EntryAt(n, e) == [key |-> n[e].key, value |-> n[e].value]
Entries == [key : Key, value : Value]

(* f is what the nodes S are as a map.                                       *)
MapOf(f, n, S) ==
  /\ f \in [Ranks -> Entries \union {NULL}]
  /\ \A e \in S : /\ rank(n, e) \in Ranks /\ EntryAt(n, e) \in Entries
                  /\ f[rank(n, e)] = EntryAt(n, e)
  /\ \A r \in Ranks : f[r] # NULL => \E e \in S : rank(n, e) = r

(* No two nodes of S have one rank.                                          *)
OneEach(n, S) == \A x \in S, y \in S : rank(n, x) = rank(n, y) => x = y

(* In a sound tree, no two nodes have one rank.                              *)
LEMMA SoundOneEach ==
  ASSUME NEW r, NEW sz, NEW n, NEW S, SoundTree(r, sz, n, S)
  PROVE  OneEach(n, S)
<1>1. PICK w : w = Walk(n, sz)[r]
  OBVIOUS
<1>2. Enumerates(w, n, S)
  BY <1>1, SoundEnumerates
<1> QED BY <1>2, SameRankSame DEF OneEach

(* An entry is not NULL.                                                     *)
LEMMA EntryNotNull == \A x \in Entries : x # NULL
  BY EntryAssumption DEF Entries

(* The nodes determine the map.                                              *)
LEMMA MapOfOne ==
  ASSUME NEW f, NEW g, NEW n, NEW S, MapOf(f, n, S), MapOf(g, n, S)
  PROVE  f = g
<1>1. f \in [Ranks -> Entries \union {NULL}] /\ g \in [Ranks -> Entries \union {NULL}]
  BY DEF MapOf
<1>2. ASSUME NEW r \in Ranks
      PROVE  f[r] = g[r]
  <2>1. CASE \E e \in S : rank(n, e) = r
    <3>1. PICK e \in S : rank(n, e) = r
      BY <2>1
    <3>2. f[rank(n, e)] = EntryAt(n, e) /\ g[rank(n, e)] = EntryAt(n, e)
      BY DEF MapOf
    <3> QED BY <3>1, <3>2
  <2>2. CASE ~\E e \in S : rank(n, e) = r
    BY <2>2 DEF MapOf
  <2> QED BY <2>1, <2>2
<1> QED BY <1>1, <1>2

(* By their keys and values only.                                            *)
LEMMA MapOfSame ==
  ASSUME NEW f, NEW n, NEW S, MapOf(f, n, S), NEW m,
         \A y \in S : m[y].key = n[y].key /\ m[y].value = n[y].value
  PROVE  MapOf(f, m, S)
<1>1. \A y \in S : rank(m, y) = rank(n, y) /\ EntryAt(m, y) = EntryAt(n, y)
  BY DEF rank, EntryAt
<1> QED BY <1>1 DEF MapOf

(* The map of no nodes.                                                      *)
LEMMA MapOfEmpty ==
  ASSUME NEW n
  PROVE  MapOf([r \in Ranks |-> NULL], n, {})
  BY DEF MapOf

(* A node with the key and value that are put, instead of that of the same   *)
(* rank: one entry is another. What the map had there is the entry of the    *)
(* node that has gone.                                                       *)
LEMMA MapOfPut ==
  ASSUME NEW f, NEW n, NEW S, MapOf(f, n, S), NEW k \in Key, NEW v \in Value,
         NEW n2, NEW T, NEW D, NEW D2, NEW e \in T \ S, NEW X \in SUBSET S,
         PutNode(n2, n, D2, D, S, T, k, v, e, X), OneEach(n2, T)
  PROVE  /\ MapOf([f EXCEPT ![Rank[k]] = [key |-> k, value |-> v]], n2, T)
         /\ f[Rank[k]] = NULL <=> X = {}
         /\ \A x \in X : f[Rank[k]] = EntryAt(n2, x)
<1>1. PICK q, a : q = Rank[k] /\ a = [key |-> k, value |-> v]
  OBVIOUS
<1>2. PICK g : g = [f EXCEPT ![q] = a]
  OBVIOUS
<1>3. q \in Ranks /\ a \in Entries /\ a # NULL
  BY <1>1, EntryNotNull DEF Ranks, Entries
<1>4. /\ f \in [Ranks -> Entries \union {NULL}]
      /\ \A y \in S : /\ rank(n, y) \in Ranks /\ EntryAt(n, y) \in Entries
                      /\ f[rank(n, y)] = EntryAt(n, y)
      /\ \A r \in Ranks : f[r] # NULL => \E y \in S : rank(n, y) = r
  BY DEF MapOf
<1>5. /\ T = (S \ X) \union {e} /\ n2[e].key = k /\ n2[e].value = v
      /\ \A y \in S : n2[y].key = n[y].key /\ n2[y].value = n[y].value
      /\ \A x \in X : rank(n, x) = q
  BY <1>1 DEF PutNode
<1>6. \A y \in S : rank(n2, y) = rank(n, y) /\ EntryAt(n2, y) = EntryAt(n, y)
  BY <1>5 DEF rank, EntryAt
<1>7. rank(n2, e) = q /\ EntryAt(n2, e) = a
  BY <1>1, <1>5 DEF rank, EntryAt
<1>8. \A y \in S \ X : rank(n, y) # q
  <2> SUFFICES ASSUME NEW y \in S \ X, rank(n, y) = q
               PROVE  FALSE
    OBVIOUS
  <2>1. y \in T /\ e \in T /\ y # e /\ rank(n2, y) = rank(n2, e)
    BY <1>5, <1>6, <1>7
  <2> QED BY <2>1 DEF OneEach
<1>9. g \in [Ranks -> Entries \union {NULL}] /\ g[q] = a /\ \A r \in Ranks : r # q => g[r] = f[r]
  BY <1>2, <1>3, <1>4
<1>10. ASSUME NEW y \in T
       PROVE  /\ rank(n2, y) \in Ranks /\ EntryAt(n2, y) \in Entries
              /\ g[rank(n2, y)] = EntryAt(n2, y)
  <2>1. CASE y = e
    BY <1>3, <1>7, <1>9, <2>1
  <2>2. CASE y # e
    <3>1. y \in S \ X
      BY <1>5, <2>2
    <3> QED BY <1>4, <1>6, <1>8, <1>9, <3>1
  <2> QED BY <2>1, <2>2
<1>11. ASSUME NEW r \in Ranks, g[r] # NULL
       PROVE  \E y \in T : rank(n2, y) = r
  <2>1. CASE r = q
    BY <1>5, <1>7, <2>1
  <2>2. CASE r # q
    <3>1. PICK y \in S : rank(n, y) = r
      BY <1>4, <1>9, <1>11, <2>2
    <3>2. y \in T
      BY <1>5, <2>2, <3>1
    <3> QED BY <1>6, <3>1, <3>2
  <2> QED BY <2>1, <2>2
<1>12. MapOf(g, n2, T)
  BY <1>9, <1>10, <1>11 DEF MapOf
<1>13. \A x \in X : f[q] = EntryAt(n2, x) /\ f[q] # NULL
  BY <1>4, <1>5, <1>6, EntryNotNull
<1>14. X = {} => f[q] = NULL
  <2> SUFFICES ASSUME X = {}, f[q] # NULL
               PROVE  FALSE
    OBVIOUS
  <2>1. PICK y \in S : rank(n, y) = q
    BY <1>3, <1>4
  <2> QED BY <1>8, <2>1
<1> QED BY <1>1, <1>2, <1>12, <1>13, <1>14

(* e leaves the nodes S, of which f is the map, and T are left.              *)
TakesEntry(f, n, S, n2, T, e, q) ==
  MapOf(f, n, S) /\ OneEach(n, S) /\ TakeLeaves(n2, n, S, T, e) /\ q = rank(n, e)

(* A node less: its entry is gone.                                           *)
LEMMA MapOfTake ==
  ASSUME NEW f, NEW n, NEW S, NEW n2, NEW T, NEW e, NEW q, TakesEntry(f, n, S, n2, T, e, q)
  PROVE  /\ MapOf([f EXCEPT ![q] = NULL], n2, T)
         /\ q \in Ranks /\ f[q] = EntryAt(n, e) /\ f[q] # NULL
<1>0. MapOf(f, n, S) /\ OneEach(n, S) /\ TakeLeaves(n2, n, S, T, e) /\ q = rank(n, e)
  BY DEF TakesEntry
<1>1. PICK g : g = [f EXCEPT ![q] = NULL]
  OBVIOUS
<1>2. /\ T = S \ {e} /\ e \in S
      /\ \A y \in T : n2[y].key = n[y].key /\ n2[y].value = n[y].value
  BY <1>0 DEF TakeLeaves
<1>3. /\ f \in [Ranks -> Entries \union {NULL}]
      /\ \A y \in S : /\ rank(n, y) \in Ranks /\ EntryAt(n, y) \in Entries
                      /\ f[rank(n, y)] = EntryAt(n, y)
      /\ \A r \in Ranks : f[r] # NULL => \E y \in S : rank(n, y) = r
  BY <1>0 DEF MapOf
<1>4. q \in Ranks /\ f[q] = EntryAt(n, e) /\ f[q] # NULL
  BY <1>0, <1>2, <1>3, EntryNotNull
<1>5. \A y \in T : rank(n, y) # q
  BY <1>0, <1>2 DEF OneEach
<1>6. g \in [Ranks -> Entries \union {NULL}] /\ g[q] = NULL /\ \A r \in Ranks : r # q => g[r] = f[r]
  BY <1>1, <1>3, <1>4
<1>7. \A y \in T : rank(n2, y) = rank(n, y) /\ EntryAt(n2, y) = EntryAt(n, y) /\ y \in S
  BY <1>2 DEF rank, EntryAt
<1>8. \A y \in T : /\ rank(n2, y) \in Ranks /\ EntryAt(n2, y) \in Entries
                   /\ g[rank(n2, y)] = EntryAt(n2, y)
  BY <1>3, <1>5, <1>6, <1>7
<1>9. ASSUME NEW r \in Ranks, g[r] # NULL
      PROVE  \E y \in T : rank(n2, y) = r
  <2>1. r # q /\ f[r] # NULL
    BY <1>6, <1>9
  <2>2. PICK y \in S : rank(n, y) = r
    BY <1>3, <2>1
  <2>3. y \in T
    BY <1>0, <1>2, <2>1, <2>2
  <2> QED BY <1>7, <2>2, <2>3
<1>10. MapOf(g, n2, T)
  BY <1>6, <1>8, <1>9 DEF MapOf
<1> QED BY <1>1, <1>4, <1>10

(* The duplicates have the map of their originals.                           *)
LEMMA MapOfCopy ==
  ASSUME NEW f, NEW n, NEW S, MapOf(f, n, S), NEW n2, NEW r, NEW to, NEW T, CopyLeaves(n2, n, r, S, to, T)
  PROVE  MapOf(f, n2, T)
<1>1. T = {to[e] : e \in S} /\ \A e \in S : n2[to[e]].value = n[e].value /\ n2[to[e]].key = n[e].key
  BY DEF CopyLeaves, CopyNodes, Duplicates
<1>2. \A e \in S : rank(n2, to[e]) = rank(n, e) /\ EntryAt(n2, to[e]) = EntryAt(n, e)
  BY <1>1 DEF rank, EntryAt
<1>3. /\ f \in [Ranks -> Entries \union {NULL}]
      /\ \A e \in S : /\ rank(n, e) \in Ranks /\ EntryAt(n, e) \in Entries
                      /\ f[rank(n, e)] = EntryAt(n, e)
      /\ \A q \in Ranks : f[q] # NULL => \E e \in S : rank(n, e) = q
  BY DEF MapOf
<1>4. \A y \in T : /\ rank(n2, y) \in Ranks /\ EntryAt(n2, y) \in Entries
                   /\ f[rank(n2, y)] = EntryAt(n2, y)
  BY <1>1, <1>2, <1>3
<1>5. ASSUME NEW q \in Ranks, f[q] # NULL
      PROVE  \E y \in T : rank(n2, y) = q
  <2>1. PICK e \in S : rank(n, e) = q
    BY <1>3, <1>5
  <2> QED BY <1>1, <1>2, <2>1
<1> QED BY <1>3, <1>4, <1>5 DEF MapOf

------------------------------------------------------------------------------
(* The maps of all the trees, as the abstract dictionaries have them.        *)

(* m has the maps of the trees with the roots R, made of the nodes that own  *)
(* says.                                                                     *)
MapsAre(m, R, n, own) ==
  /\ m = [tr \in Tree |-> m[tr]]
  /\ \A tr \in Tree : IF R[tr] = Free THEN m[tr] = NULL ELSE MapOf(m[tr], n, own[tr])
MapsRight == \A own : OwnedBy(root, size, node, detached, own) => MapsAre(maps, root, node, own)

(* The map that AVLMap reads off a tree is the one of its nodes.             *)
LEMMA TreeMap ==
  ASSUME NEW own, OwnedBy(root, size, node, detached, own), NEW tr \in Tree, root[tr] # Free
  PROVE  MapOf([r \in Ranks |-> EntryOf(tr, r)], node, own[tr])
<1>1. PICK S : S = own[tr]
  OBVIOUS
<1>2. Elements(tr) = S /\ SoundTree(root[tr], size[tr], node, S)
  BY <1>1, OwnElements
<1>3. OneEach(node, S)
  BY <1>2, SoundOneEach
<1>4. PICK f : f = [r \in Ranks |-> EntryOf(tr, r)]
  OBVIOUS
<1>5. ASSUME NEW e \in S
      PROVE  rank(node, e) \in Ranks /\ EntryAt(node, e) \in Entries
  <2>1. node[e] \in Node
    BY <1>2, SoundNodes
  <2>2. node[e].key \in Key /\ node[e].value \in Value
    BY <2>1 DEF Node
  <2> QED BY <2>2 DEF rank, Ranks, EntryAt, Entries
<1>6. ASSUME NEW e \in S
      PROVE  EntryOf(tr, rank(node, e)) = EntryAt(node, e)
  <2>1. PICK hits : hits = {x \in S : Rank[node[x].key] = rank(node, e)}
    OBVIOUS
  <2>2. e \in hits /\ \A x \in hits : x = e
    BY <1>3, <2>1 DEF OneEach, rank
  <2>3. PICK x : x = CHOOSE y \in hits : TRUE
    OBVIOUS
  <2>4. x = e /\ hits # {}
    BY <2>2, <2>3
  <2>5. EntryOf(tr, rank(node, e)) = EntryAt(node, x)
    BY <1>2, <2>1, <2>3, <2>4 DEF EntryOf, EntryAt
  <2> QED BY <2>4, <2>5
<1>7. ASSUME NEW r \in Ranks, \A e \in S : rank(node, e) # r
      PROVE  EntryOf(tr, r) = NULL
  <2>1. {x \in S : Rank[node[x].key] = r} = {}
    BY <1>7 DEF rank
  <2> QED BY <1>2, <2>1 DEF EntryOf
<1>8. \A r \in Ranks : EntryOf(tr, r) \in Entries \union {NULL}
  <2> SUFFICES ASSUME NEW r \in Ranks
               PROVE  EntryOf(tr, r) \in Entries \union {NULL}
    OBVIOUS
  <2>1. CASE \E e \in S : rank(node, e) = r
    BY <1>5, <1>6, <2>1
  <2>2. CASE \A e \in S : rank(node, e) # r
    BY <1>7, <2>2
  <2> QED BY <2>1, <2>2
<1>9. f \in [Ranks -> Entries \union {NULL}] /\ \A r \in Ranks : f[r] = EntryOf(tr, r)
  BY <1>4, <1>8
<1>10. MapOf(f, node, S)
  BY <1>5, <1>6, <1>7, <1>9 DEF MapOf
<1> QED BY <1>1, <1>4, <1>10

(* That goes for every tree of the memory.                                   *)
LEMMA MapsFacts == MapsRight
<1> SUFFICES ASSUME NEW own, OwnedBy(root, size, node, detached, own)
             PROVE  MapsAre(maps, root, node, own)
  BY DEF MapsRight
<1>1. maps = [tr \in Tree |-> IF root[tr] # Free THEN [r \in Ranks |-> EntryOf(tr, r)] ELSE NULL]
  BY DEF maps, Live
<1>2. PICK m : m = maps
  OBVIOUS
<1>3. m = [tr \in Tree |-> m[tr]]
  BY <1>1, <1>2
<1>4. ASSUME NEW tr \in Tree
      PROVE  IF root[tr] = Free THEN m[tr] = NULL ELSE MapOf(m[tr], node, own[tr])
  <2>1. CASE root[tr] = Free
    BY <1>1, <1>2, <2>1
  <2>2. CASE root[tr] # Free
    <3>1. m[tr] = [r \in Ranks |-> EntryOf(tr, r)]
      BY <1>1, <1>2, <2>2
    <3> QED BY <2>2, <3>1, TreeMap
  <2> QED BY <2>1, <2>2
<1> QED BY <1>2, <1>3, <1>4 DEF MapsAre

(* And after the step.                                                       *)
LEMMA MapsFactsNext == MapsRight'
  BY MapsFacts, PTL

(* What a call writes, with the maps m before it and m2 after it: the tree   *)
(* tr has from then on the elements T and the root r, and g is their map.    *)
OneChange(m, R, n, own, tr, T, r, g, own2, R2, n2, m2) ==
  /\ own \in [Tree -> SUBSET Elem] /\ own2 = [own EXCEPT ![tr] = T]
  /\ R \in [Tree -> Pointer \union {Free}] /\ R2 = [R EXCEPT ![tr] = r]
  /\ \A u \in Tree : u # tr => \A y \in own[u] : n2[y] = n[y]
  /\ MapsAre(m, R, n, own) /\ MapsAre(m2, R2, n2, own2)
  /\ IF r = Free THEN g = NULL ELSE MapOf(g, n2, T)

(* Such a call changes the map of tr only.                                   *)
LEMMA MapsChange ==
  ASSUME NEW m, NEW R, NEW n, NEW own, NEW tr \in Tree, NEW T, NEW r, NEW g,
         NEW own2, NEW R2, NEW n2, NEW m2,
         OneChange(m, R, n, own, tr, T, r, g, own2, R2, n2, m2)
  PROVE  m2 = [m EXCEPT ![tr] = g]
<1>0. /\ own \in [Tree -> SUBSET Elem] /\ own2 = [own EXCEPT ![tr] = T]
      /\ R \in [Tree -> Pointer \union {Free}] /\ R2 = [R EXCEPT ![tr] = r]
      /\ \A u \in Tree : u # tr => \A y \in own[u] : n2[y] = n[y]
      /\ MapsAre(m, R, n, own) /\ MapsAre(m2, R2, n2, own2)
      /\ IF r = Free THEN g = NULL ELSE MapOf(g, n2, T)
  BY DEF OneChange
<1>1. /\ m = [u \in Tree |-> m[u]]
      /\ \A u \in Tree : IF R[u] = Free THEN m[u] = NULL ELSE MapOf(m[u], n, own[u])
  BY <1>0 DEF MapsAre
<1>2. /\ m2 = [u \in Tree |-> m2[u]]
      /\ \A u \in Tree : IF R2[u] = Free THEN m2[u] = NULL ELSE MapOf(m2[u], n2, own2[u])
  BY <1>0 DEF MapsAre
<1>3. R2[tr] = r /\ own2[tr] = T /\ \A u \in Tree : u # tr => R2[u] = R[u] /\ own2[u] = own[u]
  BY <1>0
<1>4. m2[tr] = g
  <2>1. CASE r = Free
    BY <1>0, <1>2, <1>3, <2>1
  <2>2. CASE r # Free
    <3>1. MapOf(m2[tr], n2, T)
      BY <1>2, <1>3, <2>2
    <3>2. MapOf(g, n2, T)
      BY <1>0, <2>2
    <3> QED BY <3>1, <3>2, MapOfOne
  <2> QED BY <2>1, <2>2
<1>5. ASSUME NEW u \in Tree, u # tr
      PROVE  m2[u] = m[u]
  <2>1. CASE R[u] = Free
    BY <1>1, <1>2, <1>3, <1>5, <2>1
  <2>2. CASE R[u] # Free
    <3>1. MapOf(m[u], n, own[u]) /\ MapOf(m2[u], n2, own[u])
      BY <1>1, <1>2, <1>3, <1>5, <2>2
    <3>2. \A y \in own[u] : n2[y].key = n[y].key /\ n2[y].value = n[y].value
      BY <1>0, <1>5
    <3>3. MapOf(m[u], n2, own[u])
      BY <3>1, <3>2, MapOfSame
    <3> QED BY <3>1, <3>3, MapOfOne
  <2> QED BY <2>1, <2>2
<1>6. \A u \in Tree : m2[u] = IF u = tr THEN g ELSE m[u]
  BY <1>4, <1>5
<1>7. [m EXCEPT ![tr] = g] = [u \in Tree |-> IF u = tr THEN g ELSE m[u]]
  BY <1>1
<1>8. m2 = [u \in Tree |-> IF u = tr THEN g ELSE m[u]]
  BY <1>2, <1>6
<1> QED BY <1>7, <1>8

(* Where no node of a tree is written, the maps are the same.                *)
LEMMA MapsSame ==
  ASSUME NEW m, NEW R, NEW n, NEW own, MapsAre(m, R, n, own),
         NEW n2, \A u \in Tree : \A y \in own[u] : n2[y] = n[y],
         NEW m2, MapsAre(m2, R, n2, own)
  PROVE  m2 = m
<1>1. /\ m = [u \in Tree |-> m[u]]
      /\ \A u \in Tree : IF R[u] = Free THEN m[u] = NULL ELSE MapOf(m[u], n, own[u])
  BY DEF MapsAre
<1>2. /\ m2 = [u \in Tree |-> m2[u]]
      /\ \A u \in Tree : IF R[u] = Free THEN m2[u] = NULL ELSE MapOf(m2[u], n2, own[u])
  BY DEF MapsAre
<1>3. ASSUME NEW u \in Tree
      PROVE  m2[u] = m[u]
  <2>1. CASE R[u] = Free
    BY <1>1, <1>2, <2>1
  <2>2. CASE R[u] # Free
    <3>1. MapOf(m[u], n, own[u]) /\ MapOf(m2[u], n2, own[u])
      BY <1>1, <1>2, <2>2
    <3>2. \A y \in own[u] : n2[y].key = n[y].key /\ n2[y].value = n[y].value
      OBVIOUS
    <3>3. MapOf(m[u], n2, own[u])
      BY <3>1, <3>2, MapOfSame
    <3> QED BY <3>1, <3>3, MapOfOne
  <2> QED BY <2>1, <2>2
<1>4. m2 = [u \in Tree |-> m[u]]
  BY <1>2, <1>3
<1> QED BY <1>1, <1>4

------------------------------------------------------------------------------
(* The steps of the dictionaries, call by call.                              *)

(* A call that writes the nodes of one tree changes its map only.            *)
LEMMA HoldsMaps ==
  ASSUME NEW own, OwnedBy(root, size, node, detached, own), NEW tr \in Tree,
         NEW T, Holds(own, tr, T), \A y \in Elem \ (own[tr] \union T) : node'[y] = node[y],
         NEW g, MapOf(g, node', T)
  PROVE  maps' = [maps EXCEPT ![tr] = g]
<1>1. PICK own2 : own2 = [own EXCEPT ![tr] = T]
  OBVIOUS
<1>2. OwnedBy(root', size', node', detached', own2)
  BY <1>1 DEF Holds
<1>3. PICK r \in Pointer : root' = [root EXCEPT ![tr] = r]
  BY DEF Holds
<1>4. r # Free
  BY NullPointers
<1>5. MapsAre(maps, root, node, own)
  BY MapsFacts DEF MapsRight
<1>6. MapsAre(maps', root', node', own2)
  BY <1>2, MapsFactsNext DEF MapsRight
<1>7. /\ own \in [Tree -> SUBSET Elem] /\ root \in [Tree -> Pointer \union {Free}]
      /\ \A u \in Tree, v \in Tree : u # v => own[u] \intersect own[v] = {}
  BY DEF OwnedBy
<1>8. \A u \in Tree, v \in Tree : u # v => own2[u] \intersect own2[v] = {}
  BY <1>2 DEF OwnedBy
<1>9. ASSUME NEW u \in Tree, u # tr, NEW y \in own[u]
      PROVE  node'[y] = node[y]
  <2>1. y \in Elem /\ y \notin own[tr]
    BY <1>7, <1>9
  <2>2. own2[u] = own[u] /\ own2[tr] = T
    BY <1>1, <1>7, <1>9
  <2>3. y \notin T
    BY <1>8, <1>9, <2>2
  <2> QED BY <2>1, <2>3
<1>10. PICK m, m2, n2, R, R2 : m = maps /\ m2 = maps' /\ n2 = node' /\ R = root /\ R2 = root'
  OBVIOUS
<1>11. /\ MapsAre(m, R, node, own) /\ MapsAre(m2, R2, n2, own2) /\ R2 = [R EXCEPT ![tr] = r]
       /\ MapOf(g, n2, T) /\ R \in [Tree -> Pointer \union {Free}]
       /\ \A u \in Tree : u # tr => \A y \in own[u] : n2[y] = node[y]
  BY <1>3, <1>5, <1>6, <1>7, <1>9, <1>10
<1>12. OneChange(m, R, node, own, tr, T, r, g, own2, R2, n2, m2)
  BY <1>1, <1>4, <1>7, <1>11 DEF OneChange
<1>13. m2 = [m EXCEPT ![tr] = g]
  BY <1>12, MapsChange
<1> QED BY <1>10, <1>13

(* A tree that is live is made, and its map is the one of its nodes.         *)
LEMMA LiveMap ==
  ASSUME NEW own, OwnedBy(root, size, node, detached, own), NEW tr \in Tree
  PROVE  IF root[tr] = Free THEN maps[tr] = NULL /\ tr \notin Abstract!Made
         ELSE /\ MapOf(maps[tr], node, own[tr]) /\ tr \in Abstract!Made
              /\ OneEach(node, own[tr])
              /\ \A q, x : [maps EXCEPT ![tr][q] = x] = [maps EXCEPT ![tr] = [maps[tr] EXCEPT ![q] = x]]
<1>1. MapsAre(maps, root, node, own)
  BY MapsFacts DEF MapsRight
<1>2. CASE root[tr] = Free
  <2>1. maps[tr] = NULL
    BY <1>1, <1>2 DEF MapsAre
  <2> QED BY <1>2, <2>1 DEF Abstract!Made
<1>3. CASE root[tr] # Free
  <2>1. MapOf(maps[tr], node, own[tr]) /\ maps = [u \in Tree |-> maps[u]]
    BY <1>1, <1>3 DEF MapsAre
  <2>2. maps[tr] # NULL
    <3>1. maps[tr] \in [Ranks -> Entries \union {NULL}]
      BY <2>1 DEF MapOf
    <3> QED BY <3>1, EntryAssumption DEF Ranks, Entries
  <2>3. tr \in Abstract!Made
    BY <2>2 DEF Abstract!Made
  <2>4. OneEach(node, own[tr])
    <3>1. SoundTree(root[tr], size[tr], node, own[tr])
      BY <1>3 DEF OwnedBy
    <3> QED BY <3>1, SoundOneEach
  <2>5. \A q, x : [maps EXCEPT ![tr][q] = x] = [maps EXCEPT ![tr] = [maps[tr] EXCEPT ![q] = x]]
    <3>1. PICK m : m = maps
      OBVIOUS
    <3>2. m = [u \in Tree |-> m[u]]
      BY <2>1, <3>1
    <3>3. \A q, x : [m EXCEPT ![tr][q] = x] = [m EXCEPT ![tr] = [m[tr] EXCEPT ![q] = x]]
      BY <3>2
    <3> QED BY <3>1, <3>3
  <2> QED BY <1>3, <2>1, <2>3, <2>4, <2>5
<1> QED BY <1>2, <1>3

(* What a call answers.                                                      *)
LEMMA EntryFacts ==
  /\ \A S : S = {} => Entry(S) = NULL
  /\ \A x : Entry({x}) = EntryAt(node', x)
<1>1. ASSUME NEW S, S = {}
      PROVE  Entry(S) = NULL
  BY <1>1 DEF Entry
<1>2. ASSUME NEW x
      PROVE  Entry({x}) = EntryAt(node', x)
  <2>1. PICK S : S = {x}
    OBVIOUS
  <2>2. PICK e : e = CHOOSE z \in S : TRUE
    OBVIOUS
  <2>3. e = x /\ S # {}
    BY <2>1, <2>2
  <2>4. Entry(S) = EntryAt(node', e)
    BY <2>2, <2>3 DEF Entry, EntryAt
  <2> QED BY <2>1, <2>3, <2>4
<1> QED BY <1>1, <1>2

(* make_avl_tree() makes an empty dictionary.                                *)
LEMMA MakeStep ==
  ASSUME NEW own, OwnedBy(root, size, node, detached, own),
         NEW tr \in Tree, Make(tr), Called("make", tr, NULL)
  PROVE  Abstract!Next
<1>1. root[tr] = Free /\ detached' = detached /\ node' = node
  BY DEF Make
<1>2. /\ call' = [op |-> "make", on |-> tr, arg |-> NULL] /\ answer' = NULL
  <2>1. detached' \ detached = {}
    BY <1>1
  <2> QED BY <2>1, EntryFacts DEF Called
<1>3. maps[tr] = NULL /\ tr \notin Abstract!Made
  BY <1>1, LiveMap
<1>4. PICK g : g = [r \in Ranks |-> NULL]
  OBVIOUS
<1>5. MapOf(g, node', {})
  BY <1>4, MapOfEmpty
<1>6. Holds(own, tr, {})
  BY MakeOwned
<1>7. maps' = [maps EXCEPT ![tr] = g]
  BY <1>1, <1>5, <1>6, HoldsMaps
<1>8. Abstract!Empty = g
  BY <1>4 DEF Abstract!Empty, Abstract!Ranks, Ranks
<1>9. Abstract!Make(tr)
  BY <1>2, <1>3, <1>7, <1>8 DEF Abstract!Make, Abstract!Call
<1> QED BY <1>9 DEF Abstract!Next

(* destroy_avl_tree() is the end of one dictionary.                          *)
LEMMA DestroyStep ==
  ASSUME NEW own, OwnedBy(root, size, node, detached, own),
         NEW tr \in Tree, Destroy(tr), Called("destroy", tr, NULL)
  PROVE  Abstract!Next
<1>1. PICK own2 : own2 = [own EXCEPT ![tr] = {}]
  OBVIOUS
<1>2. /\ OwnedBy(root', size', node', detached', own2)
      /\ root' = [root EXCEPT ![tr] = Free] /\ detached' = detached
      /\ \A y \in Elem \ own[tr] : node'[y] = node[y]
  BY <1>1, DestroyOwned
<1>3. /\ call' = [op |-> "destroy", on |-> tr, arg |-> NULL] /\ answer' = NULL
  <2>1. detached' \ detached = {}
    BY <1>2
  <2> QED BY <2>1, EntryFacts DEF Called
<1>4. root[tr] # Free
  BY DEF Destroy, Live
<1>5. tr \in Abstract!Made
  BY <1>4, LiveMap
<1>6. /\ own \in [Tree -> SUBSET Elem] /\ root \in [Tree -> Pointer \union {Free}]
      /\ \A u \in Tree, v \in Tree : u # v => own[u] \intersect own[v] = {}
  BY DEF OwnedBy
<1>7. \A u \in Tree : u # tr => \A y \in own[u] : node'[y] = node[y]
  BY <1>2, <1>6
<1>8. MapsAre(maps, root, node, own) /\ MapsAre(maps', root', node', own2)
  BY <1>2, MapsFacts, MapsFactsNext DEF MapsRight
<1>9. PICK m, m2, n2, R, R2 : m = maps /\ m2 = maps' /\ n2 = node' /\ R = root /\ R2 = root'
  OBVIOUS
<1>10. PICK r, g, T : r = Free /\ g = NULL /\ T = {}
  OBVIOUS
<1>11. /\ MapsAre(m, R, node, own) /\ MapsAre(m2, R2, n2, own2) /\ R2 = [R EXCEPT ![tr] = r]
       /\ R \in [Tree -> Pointer \union {Free}]
       /\ \A u \in Tree : u # tr => \A y \in own[u] : n2[y] = node[y]
  BY <1>2, <1>6, <1>7, <1>8, <1>9, <1>10
<1>12. IF r = Free THEN g = NULL ELSE MapOf(g, n2, T)
  BY <1>10
<1>13. own \in [Tree -> SUBSET Elem] /\ own2 = [own EXCEPT ![tr] = T]
  BY <1>1, <1>6, <1>10
<1>14. m2 = [m EXCEPT ![tr] = g]
  <2>1. OneChange(m, R, node, own, tr, T, r, g, own2, R2, n2, m2)
    BY <1>11, <1>12, <1>13 DEF OneChange
  <2> QED BY <2>1, MapsChange
<1>15. maps' = [maps EXCEPT ![tr] = NULL]
  BY <1>9, <1>10, <1>14
<1>16. Abstract!Destroy(tr)
  BY <1>3, <1>5, <1>15 DEF Abstract!Destroy, Abstract!Call
<1> QED BY <1>16 DEF Abstract!Next

(* avl_tree_put() sets one entry, and answers the one that was there.        *)
LEMMA PutStep ==
  ASSUME NEW own, OwnedBy(root, size, node, detached, own),
         NEW tr \in Tree, NEW k \in Key, NEW v \in Value, Put(tr, k, v), Called("put", tr, <<k, v>>)
  PROVE  Abstract!Next
<1>1. PICK T : Holds(own, tr, T) /\ PutLeaves(node', node, detached', detached, own[tr], T, k, v)
  BY PutOwned
<1>2. PICK S : S = own[tr]
  OBVIOUS
<1>3. PICK e \in T \ S, X \in SUBSET S : PutNode(node', node, detached', detached, S, T, k, v, e, X)
  BY <1>1, <1>2 DEF PutLeaves
<1>4. /\ T = (S \ X) \union {e} /\ detached' = detached \union X
      /\ \A y \in Elem \ (S \union {e}) : node'[y] = node[y]
      /\ \A x \in X : x \notin detached
  BY <1>3 DEF PutNode
<1>5. root[tr] # Free
  BY DEF Put, Live
<1>6. /\ MapOf(maps[tr], node, S) /\ tr \in Abstract!Made
      /\ \A q, x : [maps EXCEPT ![tr][q] = x] = [maps EXCEPT ![tr] = [maps[tr] EXCEPT ![q] = x]]
  BY <1>2, <1>5, LiveMap
<1>7. OneEach(node', T)
  <2>1. PICK own2 : own2 = [own EXCEPT ![tr] = T]
    OBVIOUS
  <2>2. PICK r \in Pointer : root' = [root EXCEPT ![tr] = r]
    BY <1>1 DEF Holds
  <2>3. own \in [Tree -> SUBSET Elem] /\ root \in [Tree -> Pointer \union {Free}]
    BY DEF OwnedBy
  <2>4. root'[tr] # Free /\ own2[tr] = T
    BY <2>1, <2>2, <2>3, NullPointers
  <2>5. OwnedBy(root', size', node', detached', own2)
    BY <1>1, <2>1 DEF Holds
  <2>6. SoundTree(root'[tr], size'[tr], node', T)
    BY <2>4, <2>5 DEF OwnedBy
  <2> QED BY <2>6, SoundOneEach
<1>8. PICK f, g, q, a : f = maps[tr] /\ q = Rank[k] /\ a = [key |-> k, value |-> v] /\ g = [f EXCEPT ![q] = a]
  OBVIOUS
<1>9. /\ MapOf(g, node', T)
      /\ f[q] = NULL <=> X = {}
      /\ \A x \in X : f[q] = EntryAt(node', x)
  BY <1>3, <1>6, <1>7, <1>8, MapOfPut
<1>10. maps' = [maps EXCEPT ![tr] = g]
  <2>1. \A y \in Elem \ (own[tr] \union T) : node'[y] = node[y]
    BY <1>2, <1>4
  <2> QED BY <1>1, <1>9, <2>1, HoldsMaps
<1>11. answer' = f[q]
  <2>1. detached' \ detached = X
    BY <1>4
  <2>2. answer' = Entry(X)
    BY <2>1 DEF Called
  <2>3. CASE X = {}
    BY <1>9, <2>2, <2>3, EntryFacts
  <2>4. CASE X # {}
    <3>1. PICK x : x = CHOOSE z \in X : TRUE
      OBVIOUS
    <3>2. x \in X
      BY <2>4, <3>1
    <3>3. Entry(X) = EntryAt(node', x)
      BY <2>4, <3>1 DEF Entry, EntryAt
    <3> QED BY <1>9, <2>2, <3>2, <3>3
  <2> QED BY <2>3, <2>4
<1>12. maps' = [maps EXCEPT ![tr][Rank[k]] = [key |-> k, value |-> v]]
  BY <1>6, <1>8, <1>10
<1>13. call' = [op |-> "put", on |-> tr, arg |-> <<k, v>>] /\ answer' = maps[tr][Rank[k]]
  BY <1>8, <1>11 DEF Called
<1>14. Abstract!Put(tr, k, v)
  BY <1>6, <1>12, <1>13 DEF Abstract!Put, Abstract!Call
<1> QED BY <1>14 DEF Abstract!Next

(* What the step does to the dictionary: the entry of rank q leaves the map  *)
(* of tr.                                                                    *)
Leaves(tr, q, a) ==
  /\ maps' = [maps EXCEPT ![tr][q] = NULL] /\ maps[tr][q] = a
  /\ tr \in Abstract!Made /\ q \in Abstract!Ranks /\ q \in Abstract!Stored(tr)

(* A call that takes the node e out of a tree takes its entry out of the     *)
(* map.                                                                      *)
LEMMA TakeMaps ==
  ASSUME NEW own, OwnedBy(root, size, node, detached, own), NEW tr \in Tree, root[tr] # Free,
         NEW e, NEW T, Holds(own, tr, T), TakeLeaves(node', node, own[tr], T, e),
         NEW q, q = rank(node, e)
  PROVE  Leaves(tr, q, EntryAt(node, e))
<1>1. PICK f, S, n, n2 : f = maps[tr] /\ S = own[tr] /\ n = node /\ n2 = node'
  OBVIOUS
<1>2. /\ MapOf(f, n, S) /\ tr \in Abstract!Made /\ OneEach(n, S)
      /\ \A p, x : [maps EXCEPT ![tr][p] = x] = [maps EXCEPT ![tr] = [f EXCEPT ![p] = x]]
  BY <1>1, LiveMap
<1>3. TakeLeaves(n2, n, S, T, e) /\ q = rank(n, e)
  BY <1>1
<1>4. PICK g : g = [f EXCEPT ![q] = NULL]
  OBVIOUS
<1>5. MapOf(g, n2, T) /\ q \in Ranks /\ f[q] = EntryAt(n, e) /\ f[q] # NULL
  <2>1. TakesEntry(f, n, S, n2, T, e, q)
    BY <1>2, <1>3 DEF TakesEntry
  <2>2. /\ MapOf([f EXCEPT ![q] = NULL], n2, T)
        /\ q \in Ranks /\ f[q] = EntryAt(n, e) /\ f[q] # NULL
    BY <2>1, MapOfTake
  <2> QED BY <1>4, <2>2
<1>6. maps' = [maps EXCEPT ![tr] = g]
  <2>1. \A y \in Elem \ (own[tr] \union T) : node'[y] = node[y]
    BY <1>1, <1>3 DEF TakeLeaves
  <2> QED BY <1>1, <1>5, <2>1, HoldsMaps
<1>7. maps' = [maps EXCEPT ![tr][q] = NULL]
  BY <1>2, <1>4, <1>6
<1>8. q \in Abstract!Ranks /\ q \in Abstract!Stored(tr)
  BY <1>1, <1>5 DEF Abstract!Ranks, Abstract!Stored, Ranks
<1> QED BY <1>1, <1>2, <1>5, <1>7, <1>8 DEF Leaves

(* The element that is detached is what the call answers.                    *)
LEMMA DetachTakes ==
  ASSUME NEW own, OwnedBy(root, size, node, detached, own),
         NEW tr \in Live, NEW e \in Elements(tr), Detach(tr, e), NEW q, q = rank(node, e)
  PROVE  Leaves(tr, q, Entry(detached' \ detached))
<1>1. tr \in Tree /\ root[tr] # Free
  BY DEF Live
<1>2. /\ \E T : Holds(own, tr, T) /\ TakeLeaves(node', node, own[tr], T, e)
      /\ detached' = detached \union {e} /\ e \notin detached
      /\ node'[e].key = node[e].key /\ node'[e].value = node[e].value
  BY DetachOwned
<1>3. Leaves(tr, q, EntryAt(node, e))
  BY <1>1, <1>2, TakeMaps
<1>4. detached' \ detached = {e}
  BY <1>2
<1>5. Entry(detached' \ detached) = EntryAt(node', e)
  BY <1>4, EntryFacts
<1>6. EntryAt(node', e) = EntryAt(node, e)
  BY <1>2 DEF EntryAt
<1> QED BY <1>3, <1>5, <1>6

(* avl_tree_detach() takes an entry out, and answers it.                     *)
LEMMA DetachStep ==
  ASSUME NEW own, OwnedBy(root, size, node, detached, own), NEW tr \in Live, NEW e \in Elements(tr),
         NEW q, q = Rank[node[e].key], Detach(tr, e), Called("detach", tr, q)
  PROVE  Abstract!Next
<1>1. Leaves(tr, q, Entry(detached' \ detached))
  BY DetachTakes DEF rank
<1>2. call' = [op |-> "detach", on |-> tr, arg |-> q] /\ answer' = Entry(detached' \ detached) /\ tr \in Tree
  BY DEF Called, Live
<1>3. /\ maps' = [maps EXCEPT ![tr][q] = NULL] /\ maps[tr][q] = answer'
      /\ tr \in Abstract!Made /\ q \in Abstract!Ranks /\ q \in Abstract!Stored(tr)
  BY <1>1, <1>2 DEF Leaves
<1>4. Abstract!Detach(tr, q)
  BY <1>2, <1>3 DEF Abstract!Detach, Abstract!Call, Abstract!Take
<1> QED BY <1>2, <1>3, <1>4 DEF Abstract!Next

(* avl_tree_remove() takes an entry out, and answers nothing.                *)
LEMMA RemoveStep ==
  ASSUME NEW own, OwnedBy(root, size, node, detached, own), NEW tr \in Live, NEW e \in Elements(tr),
         NEW q, q = Rank[node[e].key], Remove(tr, e), Called("remove", tr, q)
  PROVE  Abstract!Next
<1>1. tr \in Tree /\ root[tr] # Free
  BY DEF Live
<1>2. PICK T : Holds(own, tr, T) /\ TakeLeaves(node', node, own[tr], T, e)
  BY RemoveOwned
<1>3. Leaves(tr, q, EntryAt(node, e))
  BY <1>1, <1>2, TakeMaps DEF rank
<1>4. call' = [op |-> "remove", on |-> tr, arg |-> q] /\ answer' = NULL
  <2>1. detached' \ detached = {}
    BY DEF Remove
  <2> QED BY <2>1, EntryFacts DEF Called
<1>5. /\ maps' = [maps EXCEPT ![tr][q] = NULL]
      /\ tr \in Abstract!Made /\ q \in Abstract!Ranks /\ q \in Abstract!Stored(tr)
  BY <1>3 DEF Leaves
<1>6. Abstract!Remove(tr, q)
  BY <1>4, <1>5 DEF Abstract!Remove, Abstract!Call
<1> QED BY <1>1, <1>5, <1>6 DEF Abstract!Next

(* A call that leaves the trees alone leaves the dictionaries alone.         *)
LEMMA KeptMaps ==
  ASSUME NEW own, OwnedBy(root, size, node, detached, own), UNCHANGED vars
  PROVE  maps' = maps
<1>1. root' = root /\ size' = size /\ node' = node /\ detached' = detached
  BY DEF vars
<1>2. OwnedBy(root', size', node', detached', own)
  BY <1>1
<1>3. PICK m, m2 : m = maps /\ m2 = maps'
  OBVIOUS
<1>4. MapsAre(m, root, node, own) /\ MapsAre(m2, root, node, own)
  BY <1>1, <1>2, <1>3, MapsFacts, MapsFactsNext DEF MapsRight
<1>5. m2 = m
  BY <1>4, MapsSame
<1> QED BY <1>3, <1>5

(* What avl_tree_get() finds is the entry of the map.                        *)
LEMMA GetMaps ==
  ASSUME NEW own, OwnedBy(root, size, node, detached, own), NEW tr \in Tree, root[tr] # Free,
         NEW k \in Key, NEW y, y = avl_tree_get(tree(tr), k)
  PROVE  /\ tr \in Abstract!Made
         /\ IF y = NULL THEN maps[tr][Rank[k]] = NULL
            ELSE y \in own[tr] /\ rank(node, y) = Rank[k] /\ maps[tr][Rank[k]] = EntryAt(node, y)
<1>1. PICK f, S, n : f = maps[tr] /\ S = own[tr] /\ n = node
  OBVIOUS
<1>2. MapOf(f, n, S) /\ tr \in Abstract!Made
  BY <1>1, LiveMap
<1>3. PICK q : q = Rank[k]
  OBVIOUS
<1>4. Gets(n, S, q, y)
  <2>1. SoundTree(root[tr], size[tr], n, S)
    BY <1>1, OwnElements
  <2>2. tree(tr) = Record(root[tr], size[tr], n)
    BY <1>1 DEF tree, Record
  <2>3. Gets(n, S, Rank[k], avl_tree_get(Record(root[tr], size[tr], n), k))
    BY <2>1, GetSound
  <2> QED BY <1>3, <2>2, <2>3
<1>5. q \in Ranks
  BY <1>3 DEF Ranks
<1>6. CASE y = NULL
  <2>1. \A z \in S : rank(n, z) # q
    BY <1>4, <1>6 DEF Gets
  <2>2. f[q] = NULL
    BY <1>2, <1>5, <2>1 DEF MapOf
  <2> QED BY <1>1, <1>2, <1>3, <1>6, <2>2
<1>7. CASE y # NULL
  <2>1. y \in S /\ rank(n, y) = q
    BY <1>4, <1>7 DEF Gets
  <2>2. f[q] = EntryAt(n, y)
    BY <1>2, <2>1 DEF MapOf
  <2> QED BY <1>1, <1>2, <1>3, <1>7, <2>1, <2>2
<1> QED BY <1>6, <1>7

(* avl_tree_get() answers the entry.                                         *)
LEMMA GetStep ==
  ASSUME NEW own, OwnedBy(root, size, node, detached, own), NEW tr \in Tree, NEW k \in Key, Query(tr, k)
  PROVE  Abstract!Next
<1>1. PICK y : y = avl_tree_get(tree(tr), k)
  OBVIOUS
<1>2. /\ root[tr] # Free /\ UNCHANGED vars
      /\ call' = [op |-> "get", on |-> tr, arg |-> k] /\ answer' = Entry({y} \ {NULL})
  BY <1>1 DEF Query, Live
<1>3. maps' = maps
  BY <1>2, KeptMaps
<1>4. /\ tr \in Abstract!Made
      /\ IF y = NULL THEN maps[tr][Rank[k]] = NULL ELSE maps[tr][Rank[k]] = EntryAt(node, y)
  BY <1>1, <1>2, GetMaps
<1>5. answer' = maps[tr][Rank[k]]
  <2>1. CASE y = NULL
    <3>1. {y} \ {NULL} = {}
      BY <2>1
    <3> QED BY <1>2, <1>4, <2>1, <3>1, EntryFacts
  <2>2. CASE y # NULL
    <3>1. {y} \ {NULL} = {y} /\ node' = node
      BY <1>2, <2>2 DEF vars
    <3>2. answer' = EntryAt(node', y)
      BY <1>2, <3>1, EntryFacts
    <3> QED BY <1>4, <2>2, <3>1, <3>2
  <2> QED BY <2>1, <2>2
<1>6. Abstract!Get(tr, k)
  BY <1>2, <1>3, <1>4, <1>5 DEF Abstract!Get, Abstract!Call
<1> QED BY <1>6 DEF Abstract!Next

(* avl_tree_pop() takes out the entry of the key, or nothing.                *)
LEMMA PopStep ==
  ASSUME NEW own, OwnedBy(root, size, node, detached, own), NEW tr \in Tree, NEW k \in Key,
         Pop(tr, k), Called("pop", tr, k)
  PROVE  Abstract!Next
<1>1. PICK y, q : y = avl_tree_get(tree(tr), k) /\ q = Rank[k]
  OBVIOUS
<1>2. /\ tr \in Live /\ root[tr] # Free /\ IF y = NULL THEN UNCHANGED vars ELSE Detach(tr, y)
      /\ call' = [op |-> "pop", on |-> tr, arg |-> k] /\ answer' = Entry(detached' \ detached)
  BY <1>1 DEF Pop, DetachIfAny, Live, Called
<1>3. /\ tr \in Abstract!Made
      /\ IF y = NULL THEN maps[tr][q] = NULL ELSE y \in own[tr] /\ rank(node, y) = q
  BY <1>1, <1>2, GetMaps
<1>4. maps' = [maps EXCEPT ![tr][q] = NULL] /\ answer' = maps[tr][q]
  <2>1. CASE y = NULL
    <3>1. maps' = maps
      BY <1>2, <2>1, KeptMaps
    <3>2. answer' = NULL
      <4>1. detached' \ detached = {}
        BY <1>2, <2>1 DEF vars
      <4> QED BY <1>2, <4>1, EntryFacts
    <3>3. [maps EXCEPT ![tr][q] = NULL] = maps
      <4>1. PICK m : m = maps
        OBVIOUS
      <4>2. m[tr] \in [Ranks -> Entries \union {NULL}] /\ m[tr][q] = NULL
        BY <1>2, <1>3, <2>1, <4>1, LiveMap DEF MapOf
      <4>3. m = [u \in Tree |-> m[u]]
        BY <4>1, MapsFacts DEF MapsRight, MapsAre
      <4>4. [m EXCEPT ![tr][q] = NULL] = m
        <5>1. [m[tr] EXCEPT ![q] = NULL] = m[tr]
          BY <4>2
        <5>2. [m EXCEPT ![tr] = m[tr]] = m
          BY <4>3
        <5>3. [m EXCEPT ![tr][q] = NULL] = [m EXCEPT ![tr] = [m[tr] EXCEPT ![q] = NULL]]
          BY <4>3
        <5> QED BY <5>1, <5>2, <5>3
      <4> QED BY <4>1, <4>4
    <3> QED BY <1>3, <2>1, <3>1, <3>2, <3>3
  <2>2. CASE y # NULL
    <3>1. y \in Elements(tr)
      BY <1>2, <1>3, <2>2, OwnElements
    <3>2. Leaves(tr, q, Entry(detached' \ detached))
      BY <1>2, <1>3, <2>2, <3>1, DetachTakes
    <3> QED BY <1>2, <3>2 DEF Leaves
  <2> QED BY <2>1, <2>2
<1>5. Abstract!Pop(tr, k)
  BY <1>1, <1>2, <1>3, <1>4 DEF Abstract!Pop, Abstract!Call, Abstract!Take
<1> QED BY <1>5 DEF Abstract!Next

------------------------------------------------------------------------------
(* Popping an end of a tree, the copy, and the refinement.                   *)

(* r is the first of the ranks R, or the last.                               *)
Outer(r, R, o) == r \in R /\ \A s \in R : IF o = "left" THEN r <= s ELSE s <= r

(* avl_tree_get_first() and avl_tree_get_last() have the least and the       *)
(* greatest of the ranks, so that popping takes that entry out, or nothing   *)
(* where there is none.                                                      *)
LEMMA PopEndTakes ==
  ASSUME NEW own, OwnedBy(root, size, node, detached, own), NEW tr \in Live, NEW o \in Side, NEW y,
         y = IF root[tr] = NULL THEN NULL ELSE Outermost(tree(tr), root[tr], o), DetachIfAny(tr, y)
  PROVE  /\ tr \in Abstract!Made
         /\ \/ /\ Abstract!Stored(tr) = {} /\ maps' = maps
               /\ Entry(detached' \ detached) = NULL
            \/ \E q : /\ Outer(q, Abstract!Stored(tr), o)
                      /\ Leaves(tr, q, Entry(detached' \ detached))
<1>1. PICK f, S, n : f = maps[tr] /\ S = own[tr] /\ n = node
  OBVIOUS
<1>2. tr \in Tree /\ root[tr] # Free
  BY DEF Live
<1>3. MapOf(f, n, S) /\ tr \in Abstract!Made
  BY <1>1, <1>2, LiveMap
<1>4. Elements(tr) = S /\ SoundTree(root[tr], size[tr], n, S)
  BY <1>1, <1>2, OwnElements
<1>5. EndOf(n, S, o, y)
  <2>1. PICK r, sz : r = root[tr] /\ sz = size[tr]
    OBVIOUS
  <2>2. tree(tr) = Record(r, sz, n)
    BY <1>1, <2>1 DEF tree, Record
  <2>3. EndOf(n, S, o, IF r = NULL THEN NULL ELSE Outermost(Record(r, sz, n), r, o))
    BY <1>4, <2>1, EndSound
  <2> QED BY <2>1, <2>2, <2>3
<1>6. \A q \in Abstract!Stored(tr) : q \in Int /\ \E e \in S : rank(n, e) = q
  <2>1. \A q \in Abstract!Stored(tr) : q \in Ranks /\ f[q] # NULL
    BY <1>1 DEF Abstract!Stored, Abstract!Ranks, Ranks
  <2>2. \A q \in Ranks : q \in Int
    BY RankAssumption DEF Ranks
  <2> QED BY <1>3, <2>1, <2>2 DEF MapOf
<1>7. CASE y = NULL
  <2>1. S = {} /\ UNCHANGED vars
    BY <1>5, <1>7 DEF EndOf, DetachIfAny
  <2>2. Abstract!Stored(tr) = {}
    BY <1>6, <2>1
  <2>3. maps' = maps
    BY <2>1, KeptMaps
  <2>4. detached' \ detached = {}
    BY <2>1 DEF vars
  <2> QED BY <1>3, <2>2, <2>3, <2>4, EntryFacts
<1>8. CASE y # NULL
  <2>1. PICK q : q = rank(n, y)
    OBVIOUS
  <2>2. y \in S /\ Detach(tr, y) /\ \A z \in S : z # y => Beyond(n, Other(o), z, y)
    BY <1>5, <1>8 DEF EndOf, DetachIfAny
  <2>3. Leaves(tr, q, Entry(detached' \ detached))
    BY <1>1, <1>4, <2>1, <2>2, DetachTakes
  <2>4. q \in Abstract!Stored(tr)
    BY <2>3 DEF Leaves
  <2>5. \A s \in Abstract!Stored(tr) : IF o = "left" THEN q <= s ELSE s <= q
    <3> SUFFICES ASSUME NEW s \in Abstract!Stored(tr)
                 PROVE  IF o = "left" THEN q <= s ELSE s <= q
      OBVIOUS
    <3>1. PICK e \in S : rank(n, e) = s
      BY <1>6
    <3>2. s \in Int /\ q \in Int
      BY <1>6, <2>4
    <3>3. CASE e = y
      BY <2>1, <3>1, <3>2, <3>3
    <3>4. CASE e # y
      <4>1. Beyond(n, Other(o), e, y)
        BY <2>2, <3>4
      <4>2. CASE o = "left"
        <5>1. Other(o) = "right"
          BY <4>2 DEF Other
        <5>2. rank(n, e) > rank(n, y)
          BY <4>1, <5>1 DEF Beyond
        <5> QED BY <2>1, <3>1, <3>2, <4>2, <5>2
      <4>3. CASE o # "left"
        <5>1. Other(o) = "left"
          BY <4>3 DEF Other
        <5>2. rank(n, e) < rank(n, y)
          BY <4>1, <5>1 DEF Beyond
        <5> QED BY <2>1, <3>1, <3>2, <4>3, <5>2
      <4> QED BY <4>2, <4>3
    <3> QED BY <3>3, <3>4
  <2>6. Outer(q, Abstract!Stored(tr), o)
    BY <2>4, <2>5 DEF Outer
  <2> QED BY <1>3, <2>3, <2>6
<1> QED BY <1>7, <1>8

(* That is one step of the dictionary.                                       *)
LEMMA PopEndStep ==
  ASSUME NEW own, OwnedBy(root, size, node, detached, own), NEW tr \in Live, NEW o \in Side, NEW y,
         y = IF root[tr] = NULL THEN NULL ELSE Outermost(tree(tr), root[tr], o), DetachIfAny(tr, y),
         NEW op, Called(op, tr, NULL)
  PROVE  Abstract!TakeOneOf(tr, op, {r \in Abstract!Stored(tr) : Outer(r, Abstract!Stored(tr), o)})
<1>1. call' = [op |-> op, on |-> tr, arg |-> NULL] /\ answer' = Entry(detached' \ detached)
  BY DEF Called
<1>2. PICK R, O : R = Abstract!Stored(tr) /\ O = {r \in R : Outer(r, R, o)}
  OBVIOUS
<1>3. /\ tr \in Abstract!Made
      /\ \/ R = {} /\ maps' = maps /\ answer' = NULL
         \/ \E q : Outer(q, R, o) /\ Leaves(tr, q, answer')
  BY <1>1, <1>2, PopEndTakes
<1>4. CASE R = {} /\ maps' = maps /\ answer' = NULL
  <2>1. O = {}
    BY <1>2, <1>4
  <2>2. Abstract!TakeOneOf(tr, op, O)
    BY <1>1, <1>3, <1>4, <2>1 DEF Abstract!TakeOneOf, Abstract!Call
  <2> QED BY <1>2, <2>2
<1>5. CASE \E q : Outer(q, R, o) /\ Leaves(tr, q, answer')
  <2>1. PICK q : Outer(q, R, o) /\ Leaves(tr, q, answer')
    BY <1>5
  <2>2. q \in O
    BY <1>2, <2>1 DEF Outer
  <2>3. Abstract!Take(tr, q)
    BY <2>1 DEF Leaves, Abstract!Take
  <2>4. Abstract!TakeOneOf(tr, op, O)
    BY <1>1, <1>3, <2>2, <2>3 DEF Abstract!TakeOneOf, Abstract!Call
  <2> QED BY <1>2, <2>4
<1> QED BY <1>3, <1>4, <1>5

(* avl_tree_pop_first() takes the first entry.                               *)
LEMMA PopFirstStep ==
  ASSUME NEW own, OwnedBy(root, size, node, detached, own), NEW tr \in Tree,
         PopFirst(tr), Called("pop_first", tr, NULL)
  PROVE  Abstract!Next
<1>1. PICK y : y = avl_tree_get_first(tree(tr))
  OBVIOUS
<1>2. tr \in Live /\ DetachIfAny(tr, y)
  BY <1>1 DEF PopFirst
<1>3. y = IF root[tr] = NULL THEN NULL ELSE Outermost(tree(tr), root[tr], "left")
  BY <1>1 DEF avl_tree_get_first, tree
<1>4. Abstract!TakeOneOf(tr, "pop_first", {r \in Abstract!Stored(tr) : Outer(r, Abstract!Stored(tr), "left")})
  BY <1>2, <1>3, PopEndStep DEF Side
<1>5. PICK R : R = Abstract!Stored(tr)
  OBVIOUS
<1>6. {r \in R : Outer(r, R, "left")} = {r \in R : \A s \in R : r <= s}
  BY DEF Outer
<1>7. Abstract!PopFirst(tr)
  BY <1>4, <1>5, <1>6 DEF Abstract!PopFirst
<1> QED BY <1>7 DEF Abstract!Next

(* avl_tree_pop_last() takes the last entry.                                 *)
LEMMA PopLastStep ==
  ASSUME NEW own, OwnedBy(root, size, node, detached, own), NEW tr \in Tree,
         PopLast(tr), Called("pop_last", tr, NULL)
  PROVE  Abstract!Next
<1>1. PICK y : y = avl_tree_get_last(tree(tr))
  OBVIOUS
<1>2. tr \in Live /\ DetachIfAny(tr, y)
  BY <1>1 DEF PopLast
<1>3. y = IF root[tr] = NULL THEN NULL ELSE Outermost(tree(tr), root[tr], "right")
  BY <1>1 DEF avl_tree_get_last, tree
<1>4. Abstract!TakeOneOf(tr, "pop_last", {r \in Abstract!Stored(tr) : Outer(r, Abstract!Stored(tr), "right")})
  BY <1>2, <1>3, PopEndStep DEF Side
<1>5. PICK R : R = Abstract!Stored(tr)
  OBVIOUS
<1>6. {r \in R : Outer(r, R, "right")} = {r \in R : \A s \in R : s <= r}
  BY DEF Outer
<1>7. Abstract!PopLast(tr)
  BY <1>4, <1>5, <1>6 DEF Abstract!PopLast
<1> QED BY <1>7 DEF Abstract!Next

(* avl_tree_copy() makes a dictionary with the map of the original.          *)
LEMMA CopyStep ==
  ASSUME NEW own, OwnedBy(root, size, node, detached, own), NEW tr \in Tree, NEW copy \in Tree,
         Copy(tr, copy), Called("copy", tr, copy)
  PROVE  Abstract!Next
<1>1. /\ \E to, T : Holds(own, copy, T) /\ CopyLeaves(node', node, root[tr], own[tr], to, T)
      /\ detached' = detached /\ root[tr] # Free /\ root[copy] = Free
  BY CopyOwned
<1>2. PICK to, T : Holds(own, copy, T) /\ CopyLeaves(node', node, root[tr], own[tr], to, T)
  BY <1>1
<1>3. call' = [op |-> "copy", on |-> tr, arg |-> copy] /\ answer' = NULL
  <2>1. detached' \ detached = {}
    BY <1>1
  <2> QED BY <2>1, EntryFacts DEF Called
<1>4. tr \in Abstract!Made /\ copy \notin Abstract!Made
  BY <1>1, LiveMap
<1>5. PICK f, S, n, n2, r : f = maps[tr] /\ S = own[tr] /\ n = node /\ n2 = node' /\ r = root[tr]
  OBVIOUS
<1>6. MapOf(f, n, S) /\ CopyLeaves(n2, n, r, S, to, T)
  BY <1>1, <1>2, <1>5, LiveMap
<1>7. MapOf(f, n2, T)
  BY <1>6, MapOfCopy
<1>8. maps' = [maps EXCEPT ![copy] = f]
  <2>1. \A y \in Elem \ (own[copy] \union T) : node'[y] = node[y]
    BY <1>2 DEF CopyLeaves
  <2> QED BY <1>2, <1>5, <1>7, <2>1, HoldsMaps
<1>9. Abstract!Copy(tr, copy)
  BY <1>3, <1>4, <1>5, <1>8 DEF Abstract!Copy, Abstract!Call
<1> QED BY <1>9 DEF Abstract!Next

(* Destroying a detached element is no step of the dictionary.               *)
LEMMA DestroyElementKeeps ==
  ASSUME NEW own, OwnedBy(root, size, node, detached, own), NEW e, DestroyElement(e)
  PROVE  maps' = maps
<1>1. /\ OwnedBy(root', size', node', detached', own)
      /\ root' = root /\ e \in detached /\ \A y \in Elem \ {e} : node'[y] = node[y]
  BY DestroyElementOwned
<1>2. \A u \in Tree : own[u] \subseteq Elem /\ own[u] \intersect detached = {}
  BY DEF OwnedBy
<1>3. PICK m, m2, n, n2, R : m = maps /\ m2 = maps' /\ n = node /\ n2 = node' /\ R = root
  OBVIOUS
<1>4. \A u \in Tree : \A y \in own[u] : n2[y] = n[y]
  BY <1>1, <1>2, <1>3
<1>5. MapsAre(m, R, n, own) /\ MapsAre(m2, R, n2, own)
  BY <1>1, <1>3, MapsFacts, MapsFactsNext DEF MapsRight
<1>6. m2 = m
  BY <1>4, <1>5, MapsSame
<1> QED BY <1>3, <1>6

(* At first no dictionary is made.                                           *)
LEMMA MapsInit == MapInit => Abstract!Init
<1> SUFFICES ASSUME MapInit
             PROVE  Abstract!Init
  OBVIOUS
<1>1. root = [tr \in Tree |-> Free]
  BY DEF MapInit, Init
<1>2. PICK own : OwnedBy(root, size, node, detached, own)
  BY InitIInv DEF MapInit, IInv
<1>3. MapsAre(maps, root, node, own)
  BY <1>2, MapsFacts DEF MapsRight
<1>4. maps = [tr \in Tree |-> NULL]
  <2>1. PICK m : m = maps
    OBVIOUS
  <2>2. m = [tr \in Tree |-> m[tr]] /\ \A tr \in Tree : m[tr] = NULL
    BY <1>1, <1>3, <2>1 DEF MapsAre
  <2> QED BY <2>1, <2>2
<1> QED BY <1>4 DEF MapInit, Abstract!Init

(* Every step of the trees is one of the dictionaries, or leaves them alone. *)
LEMMA MapsNext == IInv /\ [MapNext]_mapVars => [Abstract!Next]_Abstract!vars
<1> SUFFICES ASSUME IInv, [MapNext]_mapVars
             PROVE  Abstract!Next \/ UNCHANGED <<maps, call, answer>>
  BY DEF Abstract!vars
<1>1. PICK own : OwnedBy(root, size, node, detached, own)
  BY DEF IInv
<1>2. ASSUME NEW tr \in Tree,
             \/ Make(tr) /\ Called("make", tr, NULL)
             \/ Destroy(tr) /\ Called("destroy", tr, NULL)
             \/ PopFirst(tr) /\ Called("pop_first", tr, NULL)
             \/ PopLast(tr) /\ Called("pop_last", tr, NULL)
      PROVE  Abstract!Next
  BY <1>1, <1>2, MakeStep, DestroyStep, PopFirstStep, PopLastStep
<1>3. ASSUME NEW tr \in Tree, NEW k \in Key,
             \/ Query(tr, k)
             \/ Pop(tr, k) /\ Called("pop", tr, k)
             \/ \E v \in Value : Put(tr, k, v) /\ Called("put", tr, <<k, v>>)
      PROVE  Abstract!Next
  BY <1>1, <1>3, GetStep, PopStep, PutStep
<1>4. ASSUME NEW tr \in Live, NEW e \in Elements(tr),
             \/ Detach(tr, e) /\ Called("detach", tr, Rank[node[e].key])
             \/ Remove(tr, e) /\ Called("remove", tr, Rank[node[e].key])
      PROVE  Abstract!Next
  BY <1>1, <1>4, DetachStep, RemoveStep
<1>5. ASSUME NEW tr \in Tree, NEW copy \in Tree, Copy(tr, copy), Called("copy", tr, copy)
      PROVE  Abstract!Next
  BY <1>1, <1>5, CopyStep
<1>6. ASSUME NEW e \in detached, DestroyElement(e), UNCHANGED <<call, answer>>
      PROVE  UNCHANGED <<maps, call, answer>>
  BY <1>1, <1>6, DestroyElementKeeps
<1>7. CASE UNCHANGED mapVars
  <2>1. UNCHANGED vars /\ UNCHANGED <<call, answer>>
    BY <1>7 DEF mapVars
  <2> QED BY <1>1, <2>1, KeptMaps
<1>8. CASE MapNext
  BY <1>2, <1>3, <1>4, <1>5, <1>6, <1>8 DEF MapNext
<1> QED BY <1>7, <1>8

(* The trees are dictionaries: what each call changes and answers is what it *)
(* would of maps from keys to entries, one for each tree, whatever the order *)
(* of the keys and the calls before, on an original as on its copy.          *)
THEOREM MapSpecDictionary == MapSpec => ImplementsDictionary
<1>1. MapInit => IInv
  BY InitIInv DEF MapInit
<1>2. IInv /\ [MapNext]_mapVars => IInv'
  BY MapStepIInv
<1> QED BY <1>1, <1>2, MapsInit, MapsNext, PTL
        DEF MapSpec, ImplementsDictionary, Abstract!Spec
==============================================================================
