------------------------------- MODULE AVLTree -------------------------------
(* The balanced binary trees of src/avltree.c, node by node: each call       *)
(* rewrites the child pointers, parent pointers and balances of the nodes it *)
(* passes.  Several trees share the memory; the state of one is passed to    *)
(* the functions of the source as a record t.                                *)
EXTENDS Integers, FiniteSets, Sequences

CONSTANTS Tree,        \* the tree objects
          Key, Value,  \* the objects of the client
          Rank,        \* cmp(a, b) has the sign of Rank[a] - Rank[b]
          Slot,        \* <<k, s>> with s in Slot: the nodes made for key k
          NULL, Free,  \* the null pointer; the content of a freed node
          MaxDetached  \* bound: the detached elements the client may hold

ASSUME RankAssumption == Rank \in [Key -> Int]
ASSUME SlotAssumption == Slot \subseteq Nat

VARIABLES root,      \* root[tr]: the root of a tree, NULL, or Free
          size,      \* size[tr]
          node,      \* node[e]: the fields of the node at e, or Free
          detached   \* the elements the client is to destroy

vars == <<root, size, node, detached>>

Elem == Key \X Slot
Pointer == Elem \union {NULL}
Node == [key : Key, value : Value, left : Pointer, right : Pointer,
         parent : Pointer, balance : -1..1]

ASSUME NullAssumption == /\ NULL \notin Tree \union Key \union Value \union Elem
                         /\ Free \notin Pointer \union Node

TypeOK == /\ root \in [Tree -> Pointer \union {Free}]
          /\ size \in [Tree -> Nat]
          /\ node \in [Elem -> Node \union {Free}]
          /\ detached \subseteq Elem

Init == /\ root = [tr \in Tree |-> Free]
        /\ size = [tr \in Tree |-> 0]
        /\ node = [e \in Elem |-> Free]
        /\ detached = {}

Live == {tr \in Tree : root[tr] # Free}
tree(tr) == [root |-> root[tr], size |-> size[tr], node |-> node]
Become(tr, t) == /\ root' = [root EXCEPT ![tr] = t.root]
                 /\ size' = [size EXCEPT ![tr] = t.size]
                 /\ node' = t.node

cmp(a, b) == Rank[a] - Rank[b]
Other(side) == IF side = "left" THEN "right" ELSE "left"
Sign(side) == IF side = "left" THEN -1 ELSE 1

(* Nodes are compared for equality only: which of the free ones fsalloc()    *)
(* takes makes no difference.                                                *)
FreeSlots(n, k) == {s \in Slot : n[<<k, s>>] = Free}
Fresh(n, k) == <<k, CHOOSE s \in FreeSlots(n, k) : \A z \in FreeSlots(n, k) : s <= z>>
make_element(k, v) == [key |-> k, value |-> v, left |-> NULL, right |-> NULL,
                       parent |-> NULL, balance |-> 0]

(* e->field = v                                                              *)
With(n, e, field, v) == [n EXCEPT ![e][field] = v]
Update(t, n) == [t EXCEPT !.node = n]

(* if (e->side != NULL) e->side->parent = e                                  *)
Adopt(n, e, side) == IF n[e][side] = NULL THEN n ELSE With(n, n[e][side], "parent", e)
AdoptBoth(n, e) == Adopt(Adopt(n, e, "left"), e, "right")
------------------------------------------------------------------------------
(* rotate_right() and rotate_left() mirror each other: the subtree on the    *)
(* side heavy of e is too high.                                              *)
NewTop(n, e, heavy) ==
  LET child == n[e][heavy]
  IN  IF Sign(heavy) * n[child].balance >= 0 THEN child ELSE n[child][Other(heavy)]

RotateOnce(n, e, heavy) ==
  LET light == Other(heavy)
      top == n[e][heavy]
      b == n[top].balance - Sign(heavy)
      n1 == With(n, e, heavy, n[top][light])
      n2 == With(n1, top, light, e)
      n3 == With(n2, top, "balance", b)
  IN  With(n3, e, "balance", -b)

Regroup(n, e, child, top, heavy) ==
  LET light == Other(heavy)
      n1 == With(n, child, light, n[top][heavy])
      n2 == With(n1, top, heavy, child)
      n3 == With(n2, e, heavy, n[top][light])
      n4 == With(n3, top, light, e)
  IN  With(n4, child, "parent", top)

LevelAll(n, top, b) ==
  LET n1 == With(n, n[top].left, "balance", 0)
      n2 == With(n1, n[top].right, "balance", 0)
  IN  With(n2, top, "balance", 0)
Level(n, top, b) ==
  LET n1 == With(n, n[top].left, "balance", -((1 + b) \div 2))
      n2 == With(n1, n[top].right, "balance", (1 - b) \div 2)
  IN  With(n2, top, "balance", 0)

RotateTwice(n, e, heavy) ==
  LET child == n[e][heavy]
      top == n[child][Other(heavy)]
  IN  Level(Adopt(Regroup(n, e, child, top, heavy), child, Other(heavy)), top, n[top].balance)

Crown(n, top, e) == With(With(n, top, "parent", n[e].parent), e, "parent", top)

Rotate(n, e, heavy) ==
  LET top == NewTop(n, e, heavy)
  IN  Adopt(Crown(IF top = n[e][heavy] THEN RotateOnce(n, e, heavy)
                  ELSE RotateTwice(n, e, heavy), top, e), e, heavy)

substitute(t, new, old) ==
  IF old = t.root THEN [t EXCEPT !.root = new]
  ELSE LET parent == t.node[old].parent
           side == IF t.node[parent].left = old THEN "left" ELSE "right"
       IN  Update(t, With(t.node, parent, side, new))
------------------------------------------------------------------------------
(* put(), put_left() and put_right(). Nothing changes on the way down, so    *)
(* the elements that the recursion visits, its path, come first; it cannot   *)
(* be longer than the tree.                                                  *)
Toward(t, e, loc) == IF cmp(t.node[e].key, t.node[loc].key) < 0 THEN "left" ELSE "right"
Ends(t, e, loc) == \/ cmp(t.node[e].key, t.node[loc].key) = 0
                   \/ t.node[loc][Toward(t, e, loc)] = NULL
Onward(t, e, loc) == IF Ends(t, e, loc) THEN loc ELSE t.node[loc][Toward(t, e, loc)]
Path(t, e) ==
  LET visit[k \in Nat] == IF k = 0 THEN t.root ELSE Onward(t, e, visit[k - 1])
  IN  visit

TakeOver(n, e, old) == [n EXCEPT ![e].parent = n[old].parent,
                                 ![e].left = n[old].left,
                                 ![e].right = n[old].right,
                                 ![e].balance = n[old].balance]
Replace(t, loc, e) ==
  LET u == substitute(Update(t, TakeOver(t.node, e, loc)), e, loc)
  IN  Update(u, AdoptBoth(u.node, e))

AddLeaf(t, loc, e, side) ==
  LET n1 == With(t.node, e, "parent", loc)
      n2 == With(n1, loc, side, e)
      n3 == With(n2, loc, "balance", t.node[loc].balance + Sign(side))
  IN  [t EXCEPT !.node = n3, !.size = @ + 1]

(* taller says whether the subtree at the end of the path grew.              *)
Bottom(t, e, loc) ==
  IF cmp(t.node[e].key, t.node[loc].key) = 0
  THEN [tree |-> Replace(t, loc, e), removed |-> loc, taller |-> FALSE]
  ELSE LET side == Toward(t, e, loc)
       IN  [tree |-> AddLeaf(t, loc, e, side), removed |-> NULL,
            taller |-> t.node[loc][Other(side)] = NULL]

(* ploc is the root of the tree, or a child pointer <<node, side>>.          *)
Place(t, ploc, e) == IF ploc = <<>> THEN [t EXCEPT !.root = e]
                     ELSE Update(t, With(t.node, ploc[1], ploc[2], e))

Unbalanced(b) == b \in {-2, 2}

Taller(t, ploc, loc, side) ==
  LET b == Sign(side) * t.node[loc].balance
  IN  IF Unbalanced(b)
      THEN [tree |-> Place(Update(t, Rotate(t.node, loc, side)), ploc,
                           NewTop(t.node, loc, side)),
            removed |-> NULL, taller |-> FALSE]
      ELSE [tree |-> t, removed |-> NULL, taller |-> b = 1]

Tip(n, loc, by) == With(n, loc, "balance", n[loc].balance + by)

Grown(below, ploc, loc, side) ==
  IF ~below.taller THEN below
  ELSE Taller(Update(below.tree, Tip(below.tree.node, loc, Sign(side))), ploc, loc, side)

(* The way back, from the end of the path to the root.                       *)
Link(t, e, k) == IF k = 0 THEN <<>>
                 ELSE <<Path(t, e)[k - 1], Toward(t, e, Path(t, e)[k - 1])>>
Returned(t, e, below, k) ==
  LET loc == Path(t, e)[k]
  IN  IF Ends(t, e, loc) THEN below
      ELSE Grown(below, Link(t, e, k), loc, Toward(t, e, loc))
put(t, e) ==
  LET back[j \in 0..t.size] ==
        IF j = 0 THEN Bottom(t, e, Path(t, e)[t.size])
        ELSE Returned(t, e, back[j - 1], t.size - j)
  IN  back[t.size]

avl_tree_put(t, e) ==
  IF t.root = NULL
  THEN [tree |-> [t EXCEPT !.root = e, !.size = 1], removed |-> NULL, taller |-> TRUE]
  ELSE put(t, e)
------------------------------------------------------------------------------
(* The loops that follow one side as far as it goes.                         *)
Further(n, e, side) == IF n[e][side] = NULL THEN e ELSE n[e][side]
Outermost(t, e, side) ==
  LET at[k \in Nat] == IF k = 0 THEN e ELSE Further(t.node, at[k - 1], side)
  IN  at[t.size]

descendant(t, e, side) ==
  IF t.node[e][side] = NULL THEN NULL ELSE Outermost(t, t.node[e][side], Other(side))
adjacent_descendant(t, e) ==
  IF t.node[e].left # NULL THEN descendant(t, e, "left") ELSE descendant(t, e, "right")

(* lighten_left() and lighten_right(): the subtree on that side of e lost    *)
(* one level. They call lighten_parent() last, of the element up, or not     *)
(* (NULL): the calls follow each other.                                      *)
Settled(t) == [tree |-> t, up |-> NULL]

(* The top of the rotated subtree takes the place of e.                      *)
Relink(t, e, top) ==
  LET parent == t.node[top].parent
  IN  IF e = t.root THEN [t EXCEPT !.root = top]
      ELSE Update(t, With(t.node, parent,
                          IF t.node[parent].right = e THEN "right" ELSE "left", top))

Relinked(t, top, side) ==
  IF t.root = top \/ t.node[top].balance = Sign(side) THEN Settled(t)
  ELSE [tree |-> t, up |-> top]

Lightened(t, e, side) ==
  LET b == Sign(side) * t.node[e].balance
      top == NewTop(t.node, e, Other(side))
  IN  IF b = 0 THEN IF e = t.root THEN Settled(t) ELSE [tree |-> t, up |-> e]
      ELSE IF Unbalanced(b)
      THEN Relinked(Relink(Update(t, Rotate(t.node, e, Other(side))), e, top), top, side)
      ELSE Settled(t)

LightenAt(t, e, side) == Lightened(Update(t, Tip(t.node, e, -Sign(side))), e, side)
lighten_parent(t, e) ==
  LET parent == t.node[e].parent
  IN  LightenAt(t, parent, IF t.node[parent].right = e THEN "right" ELSE "left")

LightenNext(s) == IF s.up = NULL THEN s ELSE lighten_parent(s.tree, s.up)
lighten(t, e, side) ==
  LET call[k \in Nat] == IF k = 0 THEN LightenAt(t, e, side) ELSE LightenNext(call[k - 1])
  IN  call[t.size].tree

(* e1 and e2 change places, also when one is the parent of the other.        *)
Swap(n, e1, e2) ==
  LET Moved(e, to) == [n[to] EXCEPT !.key = n[e].key, !.value = n[e].value]
  IN  [n EXCEPT ![e1] = Moved(e1, e2), ![e2] = Moved(e2, e1)]
exchange(t, e1, e2) ==
  LET u == substitute(substitute(t, e1, e2), e2, e1)
  IN  Update(u, AdoptBoth(AdoptBoth(Swap(u.node, e1, e2), e1), e2))

leaf_element(n, e) == n[e].right = NULL /\ n[e].left = NULL
Sunk(t, e) == IF leaf_element(t.node, e) THEN t ELSE exchange(t, e, adjacent_descendant(t, e))
Sink(t, e) ==
  LET loop[k \in Nat] == IF k = 0 THEN t ELSE Sunk(loop[k - 1], e)
  IN  loop[t.size]

Cut(t, e) ==
  LET parent == t.node[e].parent
      side == IF t.node[parent].left = e THEN "left" ELSE "right"
  IN  IF e = t.root THEN [t EXCEPT !.root = NULL]
      ELSE lighten(Update(t, With(t.node, parent, side, NULL)), parent, side)

avl_tree_detach(t, e) == [Cut(Sink(t, e), e) EXCEPT !.size = @ - 1]
------------------------------------------------------------------------------
(* avl_tree_get(), avl_tree_get_first(), avl_tree_get_last()                 *)
Search(n, e, k) ==
  IF e = NULL \/ cmp(k, n[e].key) = 0 THEN e
  ELSE IF cmp(k, n[e].key) > 0 THEN n[e].right ELSE n[e].left
avl_tree_get(t, k) ==
  LET at[i \in Nat] == IF i = 0 THEN t.root ELSE Search(t.node, at[i - 1], k)
  IN  at[t.size]

avl_tree_get_root(t) == t.root
avl_tree_get_first(t) == IF t.root = NULL THEN NULL ELSE Outermost(t, t.root, "left")
avl_tree_get_last(t) == IF t.root = NULL THEN NULL ELSE Outermost(t, t.root, "right")

(* The four bounds: an element whose key is on the wanted side of k is a     *)
(* candidate, and a closer one may follow on the other side of it.           *)
Closer(n, at, wanted, side) ==
  IF at.element = NULL THEN at
  ELSE IF n[at.element].key \in wanted
  THEN [element |-> n[at.element][side], candidate |-> at.element]
  ELSE [at EXCEPT !.element = n[@][Other(side)]]
Closest(t, wanted, side) ==
  LET at[i \in Nat] == IF i = 0 THEN [element |-> t.root, candidate |-> NULL]
                       ELSE Closer(t.node, at[i - 1], wanted, side)
  IN  at[t.size].candidate
avl_tree_get_before(t, k) == Closest(t, {x \in Key : cmp(k, x) > 0}, "right")
avl_tree_get_on_or_before(t, k) == Closest(t, {x \in Key : cmp(k, x) >= 0}, "right")
avl_tree_get_after(t, k) == Closest(t, {x \in Key : cmp(k, x) < 0}, "left")
avl_tree_get_on_or_after(t, k) == Closest(t, {x \in Key : cmp(k, x) <= 0}, "left")

(* avl_tree_next() and avl_tree_previous(): the size of the tree t that e is *)
(* in bounds the loop.                                                       *)
Upward(n, e, side) ==
  IF n[e].parent # NULL /\ n[n[e].parent][side] = e THEN n[e].parent ELSE e
Climb(t, e, side) ==
  LET at[i \in Nat] == IF i = 0 THEN e ELSE Upward(t.node, at[i - 1], side)
  IN  t.node[at[t.size]].parent
NeighbourWithoutClimb(t, e, side) ==
  IF t.node[e][side] = NULL THEN t.node[e].parent ELSE descendant(t, e, side)
Neighbour(t, e, side) ==
  IF t.node[e][side] = NULL THEN Climb(t, e, side) ELSE descendant(t, e, side)
avl_tree_next(t, e) == Neighbour(t, e, "right")
avl_tree_previous(t, e) == Neighbour(t, e, "left")
------------------------------------------------------------------------------
(* What a tree holds, read off its child pointers in key order, and the      *)
(* heights of its subtrees.  The depth bounds the walk, should the pointers  *)
(* form a cycle.                                                             *)
Walk(n, depth) ==
  LET walk[d \in Nat] ==
        [e \in Pointer |->
           IF e = NULL THEN <<>>
           ELSE IF d = 0 \/ n[e] = Free THEN <<NULL>>
           ELSE walk[d - 1][n[e].left] \o <<e>> \o walk[d - 1][n[e].right]]
  IN  walk[depth]

Higher(i, j) == IF i > j THEN i ELSE j
Height(n, depth) ==
  LET height[d \in Nat] ==
        [e \in Pointer |->
           IF e = NULL \/ d = 0 \/ n[e] = Free THEN 0
           ELSE 1 + Higher(height[d - 1][n[e].left], height[d - 1][n[e].right])]
  IN  height[depth]

InOrder(tr) == Walk(node, size[tr])[root[tr]]
Elements(tr) == {InOrder(tr)[i] : i \in DOMAIN InOrder(tr)}
------------------------------------------------------------------------------
Make(tr) == /\ root[tr] = Free
            /\ root' = [root EXCEPT ![tr] = NULL]
            /\ UNCHANGED <<size, node, detached>>

ReleaseNothing(n, S) == n
Release(n, S) == [e \in Elem |-> IF e \in S THEN Free ELSE n[e]]

(* destroy_avl_tree(): the nodes its recursion reaches are freed.            *)
Destroy(tr) == /\ tr \in Live
               /\ root' = [root EXCEPT ![tr] = Free]
               /\ size' = [size EXCEPT ![tr] = 0]
               /\ node' = Release(node, Elements(tr))
               /\ UNCHANGED detached

WithinBound == Cardinality(detached') <= MaxDetached

Stored(tr, r) == /\ Become(tr, r.tree)
                 /\ detached' = detached \union ({r.removed} \ {NULL})

Put(tr, k, v) ==
  /\ tr \in Live /\ FreeSlots(node, k) # {}
  /\ LET e == Fresh(node, k)
     IN  Stored(tr, avl_tree_put([tree(tr) EXCEPT !.node[e] = make_element(k, v)], e))
  /\ WithinBound

(* The client passes an element of this tree.                                *)
Detach(tr, e) == /\ detached' = detached \union {e}
                 /\ WithinBound
                 /\ Become(tr, avl_tree_detach(tree(tr), e))

Removed(t, e) == [t EXCEPT !.node[e] = Free]
Remove(tr, e) == /\ Become(tr, Removed(avl_tree_detach(tree(tr), e), e))
                 /\ UNCHANGED detached

DestroyElement(e) == /\ e \in detached
                     /\ detached' = detached \ {e}
                     /\ node' = Release(node, {e})
                     /\ UNCHANGED <<root, size>>

DetachIfAny(tr, e) == /\ tr \in Live
                      /\ IF e = NULL THEN UNCHANGED vars ELSE Detach(tr, e)
Pop(tr, k) == tr \in Live /\ DetachIfAny(tr, avl_tree_get(tree(tr), k))
PopFirst(tr) == tr \in Live /\ DetachIfAny(tr, avl_tree_get_first(tree(tr)))
PopLast(tr) == tr \in Live /\ DetachIfAny(tr, avl_tree_get_last(tree(tr)))

(* avl_tree_copy(): the nodes are duplicated, their keys and values are not. *)
Copy(tr, copy) ==
  LET To(e) == IF e = NULL THEN NULL ELSE Fresh(node, node[e].key)
      Source(x) == {e \in Elements(tr) : To(e) = x}
      Duplicate(e) == [node[e] EXCEPT !.left = To(@), !.right = To(@),
                                      !.parent = IF e = root[tr] THEN NULL ELSE To(@)]
  IN  /\ tr \in Live /\ copy \in Tree \ Live
      /\ \A e \in Elements(tr) : FreeSlots(node, node[e].key) # {}
      /\ root' = [root EXCEPT ![copy] = To(root[tr])]
      /\ size' = [size EXCEPT ![copy] = size[tr]]
      /\ node' = [x \in Elem |-> IF Source(x) = {} THEN node[x]
                                ELSE Duplicate(CHOOSE e \in Source(x) : TRUE)]
      /\ UNCHANGED detached

(* The calls that leave the elements to the tree; AVLMap has those that hand *)
(* out elements, and copies, as well.                                        *)
Next == \E tr \in Tree :
          \/ Make(tr) \/ Destroy(tr)
          \/ \E k \in Key, v \in Value : Put(tr, k, v)
          \/ tr \in Live /\ \E e \in Elements(tr) : Remove(tr, e)

Spec == Init /\ [][Next]_vars
------------------------------------------------------------------------------
(* Every element is in one tree, once, or detached for the client to         *)
(* destroy: none is lost, none is freed while a tree still points to it, and *)
(* a copy shares nothing with its original.                                  *)
Ownership ==
  /\ \A tr \in Live :
       /\ Elements(tr) \subseteq Elem \ detached
       /\ Cardinality(Elements(tr)) = Len(InOrder(tr))
       /\ size[tr] = Len(InOrder(tr))
       /\ \A u \in Live \ {tr} : Elements(tr) \intersect Elements(u) = {}
  /\ {e \in Elem : node[e] # Free} = detached \union UNION {Elements(tr) : tr \in Live}

(* The search order: the keys strictly increase along the tree.              *)
SearchOrder ==
  \A tr \in Live : LET s == InOrder(tr) IN
    \A i \in 1..Len(s) - 1 : cmp(node[s[i]].key, node[s[i + 1]].key) < 0

(* Subtrees of a node differ in height by at most one, and balance says how: *)
(* the rotations rely on it, and so does the depth of the recursion.         *)
Balanced ==
  \A tr \in Live : \A e \in Elements(tr) :
    LET b == node[e].balance
        height == Height(node, size[tr])
    IN  b \in -1..1 /\ b = height[node[e].right] - height[node[e].left]

(* Parent pointers lead back up, also after rotations and exchanges, and no  *)
(* child pointer leads to a freed node.                                      *)
ParentLinks ==
  \A tr \in Live :
    /\ NULL \notin Elements(tr)
    /\ root[tr] # NULL => node[root[tr]].parent = NULL
    /\ \A e \in Elements(tr) : \A child \in {node[e].left, node[e].right} \ {NULL} :
         node[child].parent = e

(* The trees are sound between any two calls; a pointer that one call leaves *)
(* wrong would be followed by a later one only.                              *)
TreeInv == TypeOK /\ Ownership /\ SearchOrder /\ Balanced /\ ParentLinks

(* Each query answers what the sequence of the elements in key order does.   *)
QueriesAgree ==
  \A tr \in Live :
    LET s == InOrder(tr)
        t == tree(tr)
        At(i) == IF i \in 1..Len(s) THEN s[i] ELSE NULL
    IN  /\ avl_tree_get_first(t) = At(1) /\ avl_tree_get_last(t) = At(Len(s))
        /\ \A i \in 1..Len(s) : /\ avl_tree_next(t, s[i]) = At(i + 1)
                                /\ avl_tree_previous(t, s[i]) = At(i - 1)
        /\ \A k \in Key :
             LET less == Cardinality({i \in 1..Len(s) : cmp(node[s[i]].key, k) < 0})
                 equal == Cardinality({i \in 1..Len(s) : cmp(node[s[i]].key, k) = 0})
             IN  /\ avl_tree_get(t, k) = IF equal = 0 THEN NULL ELSE At(less + 1)
                 /\ avl_tree_get_before(t, k) = At(less)
                 /\ avl_tree_get_on_or_before(t, k) = At(less + equal)
                 /\ avl_tree_get_after(t, k) = At(less + equal + 1)
                 /\ avl_tree_get_on_or_after(t, k) = At(less + 1)
==============================================================================
