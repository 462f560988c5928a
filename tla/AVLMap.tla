-------------------------------- MODULE AVLMap --------------------------------
(* The calls of include/avltree.h as a client sees them: each with what it   *)
(* answers, over the trees of AVLTree.                                       *)
EXTENDS AVLTree

(* NULL is no entry, and no map from ranks to entries.                       *)
ASSUME EntryAssumption ==
  /\ NULL \notin [key : Key, value : Value]
  /\ NULL \notin [{Rank[k] : k \in Key} -> [key : Key, value : Value] \union {NULL}]

VARIABLES call,    \* the latest call
          answer   \* the key and value of the element it answers, or NULL

mapVars == <<vars, call, answer>>

Entry(S) == IF S = {} THEN NULL
            ELSE LET e == CHOOSE e \in S : TRUE
                 IN  [key |-> node'[e].key, value |-> node'[e].value]

(* An element that a call answers is from then on the client's to destroy.   *)
Called(op, tr, arg) == /\ call' = [op |-> op, on |-> tr, arg |-> arg]
                       /\ answer' = Entry(detached' \ detached)

Query(tr, k) == /\ tr \in Live
                /\ UNCHANGED vars
                /\ call' = [op |-> "get", on |-> tr, arg |-> k]
                /\ answer' = Entry({avl_tree_get(tree(tr), k)} \ {NULL})

MapInit == Init /\ call = [op |-> "none", on |-> NULL, arg |-> NULL] /\ answer = NULL

MapNext ==
  \/ \E tr \in Tree :
       \/ Make(tr) /\ Called("make", tr, NULL)
       \/ Destroy(tr) /\ Called("destroy", tr, NULL)
       \/ PopFirst(tr) /\ Called("pop_first", tr, NULL)
       \/ PopLast(tr) /\ Called("pop_last", tr, NULL)
       \/ \E k \in Key : \/ Query(tr, k)
                         \/ Pop(tr, k) /\ Called("pop", tr, k)
                         \/ \E v \in Value : Put(tr, k, v) /\ Called("put", tr, <<k, v>>)
       \/ /\ tr \in Live
          /\ \E e \in Elements(tr) :
               LET r == Rank[node[e].key]
               IN  \/ Detach(tr, e) /\ Called("detach", tr, r)
                   \/ Remove(tr, e) /\ Called("remove", tr, r)
       \/ \E copy \in Tree : Copy(tr, copy) /\ Called("copy", tr, copy)
  \/ \E e \in detached : DestroyElement(e) /\ UNCHANGED <<call, answer>>

MapSpec == MapInit /\ [][MapNext]_mapVars
------------------------------------------------------------------------------
Ranks == {Rank[k] : k \in Key}
EntryOf(tr, r) ==
  LET hits == {e \in Elements(tr) : Rank[node[e].key] = r}
  IN  IF hits = {} THEN NULL
      ELSE LET e == CHOOSE e \in hits : TRUE
           IN  [key |-> node[e].key, value |-> node[e].value]
maps == [tr \in Tree |-> IF tr \in Live THEN [r \in Ranks |-> EntryOf(tr, r)] ELSE NULL]

(* Every tree is a map of its own: what a call changes and what it answers   *)
(* is what a map from keys to entries would, on the original as on a copy.   *)
Abstract == INSTANCE Dictionary WITH Table <- Tree, None <- NULL, KeepsStored <- FALSE
ImplementsDictionary == Abstract!Spec

(* include/avltree.h, of avl_tree_put(): if the value is already stored at   *)
(* the key, the call has no effect and NULL is returned.                     *)
StoredPutHasNoEffect ==
  [][\A tr \in Live, k \in Key, v \in Value :
       Put(tr, k, v) /\ EntryOf(tr, Rank[k]) = [key |-> k, value |-> v]
         => UNCHANGED vars /\ answer' = NULL]_mapVars
==============================================================================
