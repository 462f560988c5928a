------------------------------ MODULE Dictionary ------------------------------
(* What include/hashtable.h and include/avltree.h promise alike: a table     *)
(* maps keys to entries, at most one for the keys that cmp() takes as equal; *)
(* what leaves the table is what the call answers.                           *)
EXTENDS Integers

CONSTANTS Table,    \* the tables the client may make
          Key,      \* the key objects of the client
          Value,    \* its values
          Rank,     \* cmp(a, b) has the sign of Rank[a] - Rank[b]
          None,     \* the NULL pointer
          KeepsStored   \* whether put() of the stored value has no effect

VARIABLES maps,     \* maps[t][r]: the entry of table t for the keys of rank r
          call,     \* the latest call
          answer    \* the entry it answers, or None

vars == <<maps, call, answer>>

Ranks == {Rank[k] : k \in Key}
Empty == [r \in Ranks |-> None]
Made == {t \in Table : maps[t] # None}
Stored(t) == {r \in Ranks : maps[t][r] # None}

Call(op, t, arg) == call' = [op |-> op, on |-> t, arg |-> arg]

Init == /\ maps = [t \in Table |-> None]
        /\ call = [op |-> "none", on |-> None, arg |-> None]
        /\ answer = None

Make(t) == /\ Call("make", t, None)
           /\ t \notin Made
           /\ maps' = [maps EXCEPT ![t] = Empty]
           /\ answer' = None

Destroy(t) == /\ Call("destroy", t, None)
              /\ t \in Made
              /\ maps' = [maps EXCEPT ![t] = None]
              /\ answer' = None

(* The new entry replaces the old one, which is answered.                    *)
Put(t, k, v) ==
  LET old == maps[t][Rank[k]]
      keep == KeepsStored /\ old # None /\ old.value = v
  IN  /\ Call("put", t, <<k, v>>)
      /\ t \in Made
      /\ maps' = IF keep THEN maps
                 ELSE [maps EXCEPT ![t][Rank[k]] = [key |-> k, value |-> v]]
      /\ answer' = IF keep THEN None ELSE old

Get(t, k) == /\ Call("get", t, k)
             /\ t \in Made
             /\ answer' = maps[t][Rank[k]]
             /\ UNCHANGED maps

(* Detaching the entry of rank r, or nothing where there is none.            *)
Take(t, r) == /\ maps' = [maps EXCEPT ![t][r] = None]
              /\ answer' = maps[t][r]

Detach(t, r) == Call("detach", t, r) /\ t \in Made /\ r \in Stored(t) /\ Take(t, r)
Remove(t, r) == /\ Call("remove", t, r) /\ t \in Made /\ r \in Stored(t)
                /\ maps' = [maps EXCEPT ![t][r] = None]
                /\ answer' = None
Pop(t, k) == Call("pop", t, k) /\ t \in Made /\ Take(t, Rank[k])

TakeOneOf(t, op, S) ==
  /\ Call(op, t, None)
  /\ t \in Made
  /\ IF S = {} THEN UNCHANGED maps /\ answer' = None ELSE \E r \in S : Take(t, r)

PopAny(t) == TakeOneOf(t, "pop_any", Stored(t))
PopFirst(t) ==
  TakeOneOf(t, "pop_first", {r \in Stored(t) : \A s \in Stored(t) : r <= s})
PopLast(t) ==
  TakeOneOf(t, "pop_last", {r \in Stored(t) : \A s \in Stored(t) : s <= r})

(* A shallow copy, from then on a table of its own.                          *)
Copy(t, u) == /\ Call("copy", t, u)
              /\ t \in Made /\ u \notin Made
              /\ maps' = [maps EXCEPT ![u] = maps[t]]
              /\ answer' = None

Next == \E t \in Table :
          \/ Make(t) \/ Destroy(t)
          \/ \E k \in Key : \/ Get(t, k) \/ Pop(t, k)
                            \/ \E v \in Value : Put(t, k, v)
          \/ \E r \in Ranks : Detach(t, r) \/ Remove(t, r)
          \/ PopAny(t) \/ PopFirst(t) \/ PopLast(t)
          \/ \E u \in Table : Copy(t, u)

Spec == Init /\ [][Next]_vars
==============================================================================
