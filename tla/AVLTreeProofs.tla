---------------------------- MODULE AVLTreeProofs ----------------------------
(* Proofs about AVLTree, for any keys, any order and any number of nodes:    *)
(* rotations, put and detach keep a tree a search tree, balanced and linked  *)
(* both ways, and its walk sorted. Each operation is proved on one tree      *)
(* whose elements are a set S, while the rest of the memory stays as it is.  *)
EXTENDS AVLTree, Lemmas, FiniteSetTheorems, SequenceTheorems
------------------------------------------------------------------------------
(* What one assignment to a field does to the memory, and the sequences of   *)
(* assignments that the rotations are.                                       *)

Side == {"left", "right"}
Field == {"key", "value", "left", "right", "parent", "balance"}
Fields == [key : Key, value : Value, left : Pointer, right : Pointer,
           parent : Pointer, balance : Int]
Heap == [Elem -> Fields \union {Free}]

(* An assignment to a pointer writes that field of that node only.           *)
LEMMA WithPointer ==
  ASSUME NEW n \in Heap, NEW e \in Elem, n[e] \in Fields,
         NEW f \in {"left", "right", "parent"}, NEW v \in Pointer
  PROVE  /\ With(n, e, f, v) \in Heap
         /\ With(n, e, f, v)[e] \in Fields
         /\ \A g \in Field : With(n, e, f, v)[e][g] = IF g = f THEN v ELSE n[e][g]
         /\ \A y \in Elem : y # e => With(n, e, f, v)[y] = n[y]
<1>1. [n[e] EXCEPT ![f] = v] \in Fields
  BY DEF Fields
<1>2. With(n, e, f, v) = [n EXCEPT ![e] = [n[e] EXCEPT ![f] = v]]
  BY DEF With
<1>3. /\ [n EXCEPT ![e] = [n[e] EXCEPT ![f] = v]] \in Heap
      /\ [n EXCEPT ![e] = [n[e] EXCEPT ![f] = v]][e] = [n[e] EXCEPT ![f] = v]
      /\ \A y \in Elem : y # e => [n EXCEPT ![e] = [n[e] EXCEPT ![f] = v]][y] = n[y]
  BY <1>1 DEF Heap
<1>4. \A g \in Field : [n[e] EXCEPT ![f] = v][g] = IF g = f THEN v ELSE n[e][g]
  BY DEF Fields, Field
<1> QED BY <1>1, <1>2, <1>3, <1>4

(* So does an assignment to a balance.                                       *)
LEMMA WithBalance ==
  ASSUME NEW n \in Heap, NEW e \in Elem, n[e] \in Fields, NEW v \in Int
  PROVE  /\ With(n, e, "balance", v) \in Heap
         /\ With(n, e, "balance", v)[e] \in Fields
         /\ \A g \in Field : With(n, e, "balance", v)[e][g] = IF g = "balance" THEN v ELSE n[e][g]
         /\ \A y \in Elem : y # e => With(n, e, "balance", v)[y] = n[y]
<1> DEFINE f == "balance"
<1>1. [n[e] EXCEPT ![f] = v] \in Fields
  BY DEF Fields
<1>2. With(n, e, f, v) = [n EXCEPT ![e] = [n[e] EXCEPT ![f] = v]]
  BY DEF With
<1>3. /\ [n EXCEPT ![e] = [n[e] EXCEPT ![f] = v]] \in Heap
      /\ [n EXCEPT ![e] = [n[e] EXCEPT ![f] = v]][e] = [n[e] EXCEPT ![f] = v]
      /\ \A y \in Elem : y # e => [n EXCEPT ![e] = [n[e] EXCEPT ![f] = v]][y] = n[y]
  BY <1>1 DEF Heap
<1>4. \A g \in Field : [n[e] EXCEPT ![f] = v][g] = IF g = f THEN v ELSE n[e][g]
  BY DEF Fields, Field
<1> QED BY <1>1, <1>2, <1>3, <1>4

FieldsOf(n, S) == n \in Heap /\ S \subseteq Elem /\ \A y \in S : n[y] \in Fields

(* The same, as one fact about every field of every node of a set.           *)
Writes(m, n, S, e, f, v) ==
  /\ FieldsOf(m, S)
  /\ \A y \in Elem \ S : m[y] = n[y]
  /\ \A y \in S, g \in Field : m[y][g] = IF y = e /\ g = f THEN v ELSE n[y][g]

(* The same, over the nodes of a set.                                        *)
LEMMA WithWrites ==
  ASSUME NEW n, NEW S, FieldsOf(n, S), NEW e \in S,
         NEW f \in {"left", "right", "parent"}, NEW v \in Pointer
  PROVE  Writes(With(n, e, f, v), n, S, e, f, v)
<1>1. PICK m : m = With(n, e, f, v)
  OBVIOUS
<1>2. n \in Heap /\ S \subseteq Elem /\ \A y \in S : n[y] \in Fields
  BY DEF FieldsOf
<1>3. /\ m \in Heap
      /\ m[e] \in Fields
      /\ \A g \in Field : m[e][g] = IF g = f THEN v ELSE n[e][g]
      /\ \A y \in Elem : y # e => m[y] = n[y]
  BY <1>1, <1>2, WithPointer
<1> QED BY <1>1, <1>2, <1>3 DEF Writes, FieldsOf

(* The same, of a balance.                                                   *)
LEMMA WithWritesBalance ==
  ASSUME NEW n, NEW S, FieldsOf(n, S), NEW e \in S, NEW v \in Int
  PROVE  Writes(With(n, e, "balance", v), n, S, e, "balance", v)
<1>1. PICK m : m = With(n, e, "balance", v)
  OBVIOUS
<1>2. n \in Heap /\ S \subseteq Elem /\ \A y \in S : n[y] \in Fields
  BY DEF FieldsOf
<1>3. /\ m \in Heap
      /\ m[e] \in Fields
      /\ \A g \in Field : m[e][g] = IF g = "balance" THEN v ELSE n[e][g]
      /\ \A y \in Elem : y # e => m[y] = n[y]
  BY <1>1, <1>2, WithBalance
<1> QED BY <1>1, <1>2, <1>3 DEF Writes, FieldsOf

(* The sides, and their signs.                                               *)
LEMMA SideFacts ==
  ASSUME NEW s \in Side
  PROVE  /\ Other(s) \in Side /\ Other(s) # s /\ Other(Other(s)) = s
         /\ Sign(s) \in {-1, 1} /\ Sign(Other(s)) = -Sign(s)
         /\ s \in Field /\ s # "parent" /\ s # "balance" /\ s # "key" /\ s # "value"
  BY DEF Side, Other, Sign, Field

(* The fields of the nodes of a set.                                         *)
LEMMA FieldTypes ==
  ASSUME NEW n, NEW S, FieldsOf(n, S), NEW x \in S
  PROVE  /\ \A s \in Side : n[x][s] \in Pointer
         /\ n[x].parent \in Pointer /\ n[x].balance \in Int /\ n[x].key \in Key
         /\ n[x].left \in Pointer /\ n[x].right \in Pointer
  BY DEF FieldsOf, Fields, Side

(* The assignments of a single rotation, before the parent pointers.         *)
LEMMA RotateOnceFacts ==
  ASSUME NEW n, NEW S, FieldsOf(n, S), NEW heavy \in Side, NEW e \in S, NEW c \in S, e # c,
         n[e][heavy] = c, NEW light, light = Other(heavy), NEW b, b = n[c].balance - Sign(heavy),
         NEW m, m = RotateOnce(n, e, heavy)
  PROVE  /\ FieldsOf(m, S)
         /\ \A y \in Elem \ S : m[y] = n[y]
         /\ \A y \in S, g \in Field : m[y][g] =
              IF y = e /\ g = heavy THEN n[c][light]
              ELSE IF y = c /\ g = light THEN e
              ELSE IF y = c /\ g = "balance" THEN b
              ELSE IF y = e /\ g = "balance" THEN -b
              ELSE n[y][g]
<1>1. n \in Heap /\ S \in SUBSET Elem /\ \A y \in S : n[y] \in Fields
  BY DEF FieldsOf
<1>2. /\ heavy \in {"left", "right", "parent"} /\ light \in {"left", "right", "parent"}
      /\ heavy \in Field /\ light \in Field /\ heavy # "balance" /\ light # "balance"
      /\ light # heavy
  BY DEF Side, Other, Field
<1>3. n[c][light] \in Pointer /\ e \in Pointer /\ b \in Int /\ -b \in Int
  BY <1>1, <1>2, FieldTypes, SideFacts DEF Pointer
<1> DEFINE n1 == With(n, e, heavy, n[c][light])
           n2 == With(n1, c, light, e)
           n3 == With(n2, c, "balance", b)
           n4 == With(n3, e, "balance", -b)
<1>4. m = n4
  BY DEF RotateOnce
<1>5. Writes(n1, n, S, e, heavy, n[c][light])
  BY <1>2, <1>3, WithWrites
<1>5a. FieldsOf(n1, S)
  BY <1>5 DEF Writes
<1> HIDE DEF n1
<1>6. Writes(n2, n1, S, c, light, e)
  BY <1>2, <1>3, <1>5a, WithWrites
<1>6a. FieldsOf(n2, S)
  BY <1>6 DEF Writes
<1> HIDE DEF n2
<1>7. Writes(n3, n2, S, c, "balance", b)
  BY <1>3, <1>6a, WithWritesBalance
<1>7a. FieldsOf(n3, S)
  BY <1>7 DEF Writes
<1> HIDE DEF n3
<1>8. Writes(n4, n3, S, e, "balance", -b)
  BY <1>3, <1>7a, WithWritesBalance
<1> HIDE DEF n4
<1>9. FieldsOf(m, S)
  BY <1>1, <1>4, <1>8 DEF Writes, FieldsOf
<1>10. \A y \in Elem \ S : m[y] = n[y]
  BY <1>1, <1>4, <1>5, <1>6, <1>7, <1>8 DEF Writes
<1>11. ASSUME NEW y \in S, NEW g \in Field
       PROVE  m[y][g] = IF y = e /\ g = heavy THEN n[c][light]
              ELSE IF y = c /\ g = light THEN e
              ELSE IF y = c /\ g = "balance" THEN b
              ELSE IF y = e /\ g = "balance" THEN -b
              ELSE n[y][g]
  BY <1>2, <1>4, <1>5, <1>6, <1>7, <1>8 DEF Writes
<1> QED BY <1>9, <1>10, <1>11

(* A child, if there is one, gets its parent pointer.                        *)
LEMMA AdoptFacts ==
  ASSUME NEW n, NEW S, FieldsOf(n, S), NEW s \in Side, NEW e \in S,
         NEW c \in S \union {NULL}, n[e][s] = c,
         NEW m, m = Adopt(n, e, s)
  PROVE  /\ FieldsOf(m, S)
         /\ \A y \in Elem \ S : m[y] = n[y]
         /\ \A y \in S, g \in Field : m[y][g] = IF y = c /\ g = "parent" THEN e ELSE n[y][g]
<1>1. n \in Heap /\ S \in SUBSET Elem /\ (\A y \in S : n[y] \in Fields) /\ NULL \notin S
  BY NullAssumption DEF FieldsOf
<1>2. CASE c = NULL
  BY <1>1, <1>2 DEF Adopt
<1>3. CASE c \in S
  <2>1. m = With(n, c, "parent", e)
    BY <1>1, <1>3 DEF Adopt
  <2>2. Writes(m, n, S, c, "parent", e)
    BY <1>1, <1>3, <2>1, WithWrites DEF Pointer
  <2> QED BY <1>1, <1>3, <2>2 DEF Writes, FieldsOf
<1> QED BY <1>2, <1>3

Crowned(m, n, S, top, e) ==
  /\ FieldsOf(m, S)
  /\ \A y \in Elem \ S : m[y] = n[y]
  /\ \A y \in S, g \in Field : m[y][g] =
       IF g = "parent" /\ y = top THEN n[e].parent
       ELSE IF g = "parent" /\ y = e THEN top
       ELSE n[y][g]

(* The new top takes over the parent.                                        *)
LEMMA CrownFacts ==
  ASSUME NEW n, NEW S, FieldsOf(n, S), NEW top \in S, NEW e \in S, top # e,
         NEW m, m = Crown(n, top, e)
  PROVE  Crowned(m, n, S, top, e)
<1>1. n \in Heap /\ S \in SUBSET Elem /\ (\A y \in S : n[y] \in Fields) /\ "parent" \in Field
  BY DEF FieldsOf, Field
<1>2. n[e].parent \in Pointer /\ top \in Pointer
  BY <1>1, FieldTypes DEF Pointer
<1> DEFINE n1 == With(n, top, "parent", n[e].parent)
           n2 == With(n1, e, "parent", top)
<1>3. m = n2
  BY DEF Crown
<1>4. Writes(n1, n, S, top, "parent", n[e].parent)
  BY <1>2, WithWrites
<1>4a. FieldsOf(n1, S)
  BY <1>4 DEF Writes
<1> HIDE DEF n1
<1>5. Writes(n2, n1, S, e, "parent", top)
  BY <1>2, <1>4a, WithWrites
<1> HIDE DEF n2
<1>6. FieldsOf(m, S)
  BY <1>1, <1>3, <1>5 DEF Writes, FieldsOf
<1> QED BY <1>1, <1>3, <1>4, <1>5, <1>6 DEF Writes, Crowned

(* n becomes m by a single rotation of e and its child c.                    *)
Once(m, n, S, e, c, q, heavy, light) ==
  /\ FieldsOf(m, S)
  /\ \A y \in Elem \ S : m[y] = n[y]
  /\ \A y \in S, s \in Side : m[y][s] =
       IF y = e /\ s = heavy THEN q ELSE IF y = c /\ s = light THEN e ELSE n[y][s]
  /\ \A y \in S : m[y].parent =
       IF y = q THEN e ELSE IF y = e THEN c ELSE IF y = c THEN n[e].parent ELSE n[y].parent
  /\ \A y \in S : m[y].balance =
       IF y = c THEN n[c].balance - Sign(heavy)
       ELSE IF y = e THEN -(n[c].balance - Sign(heavy)) ELSE n[y].balance
  /\ \A y \in S : m[y].key = n[y].key

(* The rotation is single where the child leans to the heavy side or neither *)
(* way.                                                                      *)
LEMMA RotateToOnce ==
  ASSUME NEW n, NEW S, FieldsOf(n, S), NEW heavy \in Side, NEW e \in S, NEW c \in S, e # c,
         n[e][heavy] = c, NEW light, light = Other(heavy),
         NEW q \in S \union {NULL}, q = n[c][light], q # e, q # c,
         NewTop(n, e, heavy) = c
  PROVE  Once(Rotate(n, e, heavy), n, S, e, c, q, heavy, light)
<1>1. heavy \in Field /\ light \in Field /\ "parent" \in Field /\ "balance" \in Field /\ "key" \in Field
  BY DEF Side, Other, Field
<1>2. NewTop(n, e, heavy) = c
  OBVIOUS
<1> DEFINE n1 == RotateOnce(n, e, heavy)
           n2 == Crown(n1, c, e)
           m == Adopt(n2, e, heavy)
           b == n[c].balance - Sign(heavy)
<1>3. Rotate(n, e, heavy) = m
  BY <1>2 DEF Rotate
<1>4. /\ FieldsOf(n1, S)
      /\ \A y \in Elem \ S : n1[y] = n[y]
      /\ \A y \in S, g \in Field : n1[y][g] =
              IF y = e /\ g = heavy THEN n[c][light]
              ELSE IF y = c /\ g = light THEN e
              ELSE IF y = c /\ g = "balance" THEN b
              ELSE IF y = e /\ g = "balance" THEN -b
              ELSE n[y][g]
  BY RotateOnceFacts
<1> HIDE DEF n1
<1>5a. Crowned(n2, n1, S, c, e)
  BY <1>4, CrownFacts
<1>5. /\ FieldsOf(n2, S)
      /\ \A y \in Elem \ S : n2[y] = n1[y]
      /\ \A y \in S, g \in Field : n2[y][g] =
              IF g = "parent" /\ y = c THEN n1[e].parent
              ELSE IF g = "parent" /\ y = e THEN c
              ELSE n1[y][g]
  BY <1>5a DEF Crowned
<1> HIDE DEF n2
<1>6. n2[e][heavy] = q
  BY <1>1, <1>4, <1>5 DEF Side
<1>7. /\ FieldsOf(m, S)
      /\ \A y \in Elem \ S : m[y] = n2[y]
      /\ \A y \in S, g \in Field : m[y][g] = IF y = q /\ g = "parent" THEN e ELSE n2[y][g]
  BY <1>5, <1>6, AdoptFacts
<1> HIDE DEF m
<1>8. \A y \in Elem \ S : m[y] = n[y]
  BY <1>4, <1>5, <1>7
<1>9. ASSUME NEW y \in S, NEW s \in Side
      PROVE  m[y][s] = IF y = e /\ s = heavy THEN q ELSE IF y = c /\ s = light THEN e ELSE n[y][s]
  <2>1. s \in Field /\ s # "parent" /\ s # "balance"
    BY SideFacts
  <2> QED BY <1>4, <1>5, <1>7, <2>1
<1>10. ASSUME NEW y \in S
       PROVE  m[y].parent =
         IF y = q THEN e ELSE IF y = e THEN c ELSE IF y = c THEN n[e].parent ELSE n[y].parent
  <2>1. heavy # "parent" /\ light # "parent"
    BY SideFacts
  <2> QED BY <1>1, <1>4, <1>5, <1>7, <2>1
<1>11. ASSUME NEW y \in S
       PROVE  /\ m[y].balance = IF y = c THEN b ELSE IF y = e THEN -b ELSE n[y].balance
              /\ m[y].key = n[y].key
  <2>1. heavy # "balance" /\ light # "balance" /\ heavy # "key" /\ light # "key"
    BY DEF Side, Other
  <2> QED BY <1>1, <1>4, <1>5, <1>7, <2>1
<1> QED BY <1>2, <1>3, <1>7, <1>8, <1>9, <1>10, <1>11 DEF Once

Regrouped(m, n, S, e, c, top, heavy, light) ==
  /\ FieldsOf(m, S)
  /\ \A y \in Elem \ S : m[y] = n[y]
  /\ \A y \in S, g \in Field : m[y][g] =
       IF y = c /\ g = light THEN n[top][heavy]
       ELSE IF y = top /\ g = heavy THEN c
       ELSE IF y = e /\ g = heavy THEN n[top][light]
       ELSE IF y = top /\ g = light THEN e
       ELSE IF y = c /\ g = "parent" THEN top
       ELSE n[y][g]

(* The assignments of a double rotation, before the balances.                *)
LEMMA RegroupFacts ==
  ASSUME NEW n, NEW S, FieldsOf(n, S), NEW heavy \in Side, NEW light, light = Other(heavy),
         NEW e \in S, NEW c \in S, NEW top \in S, e # c, top # e, top # c,
         NEW m, m = Regroup(n, e, c, top, heavy)
  PROVE  Regrouped(m, n, S, e, c, top, heavy, light)
<1>1. S \subseteq Elem
  BY DEF FieldsOf
<1>2. /\ heavy \in {"left", "right", "parent"} /\ light \in {"left", "right", "parent"}
      /\ heavy \in Field /\ light \in Field /\ heavy # "parent" /\ light # "parent"
      /\ light # heavy /\ "parent" \in Field /\ heavy \in Side /\ light \in Side
  BY DEF Side, Other, Field
<1>3. n[top][heavy] \in Pointer /\ n[top][light] \in Pointer /\ e \in Pointer /\ c \in Pointer
      /\ top \in Pointer
  BY <1>1, <1>2, FieldTypes DEF Pointer
<1> DEFINE n1 == With(n, c, light, n[top][heavy])
           n2 == With(n1, top, heavy, c)
           n3 == With(n2, e, heavy, n[top][light])
           n4 == With(n3, top, light, e)
           n5 == With(n4, c, "parent", top)
<1>4. m = n5
  BY DEF Regroup
<1>5. Writes(n1, n, S, c, light, n[top][heavy])
  BY <1>2, <1>3, WithWrites
<1>5a. FieldsOf(n1, S)
  BY <1>5 DEF Writes
<1> HIDE DEF n1
<1>6. Writes(n2, n1, S, top, heavy, c)
  BY <1>2, <1>3, <1>5a, WithWrites
<1>6a. FieldsOf(n2, S)
  BY <1>6 DEF Writes
<1> HIDE DEF n2
<1>7. Writes(n3, n2, S, e, heavy, n[top][light])
  BY <1>2, <1>3, <1>6a, WithWrites
<1>7a. FieldsOf(n3, S)
  BY <1>7 DEF Writes
<1> HIDE DEF n3
<1>8. Writes(n4, n3, S, top, light, e)
  BY <1>2, <1>3, <1>7a, WithWrites
<1>8a. FieldsOf(n4, S)
  BY <1>8 DEF Writes
<1> HIDE DEF n4
<1>9. Writes(n5, n4, S, c, "parent", top)
  BY <1>3, <1>8a, WithWrites
<1>9a. FieldsOf(n5, S)
  BY <1>9 DEF Writes
<1> HIDE DEF n5
<1>10. \A y \in Elem \ S : m[y] = n[y]
  BY <1>4, <1>5, <1>6, <1>7, <1>8, <1>9 DEF Writes
<1>11. ASSUME NEW y \in S, NEW g \in Field
       PROVE  m[y][g] = IF y = c /\ g = light THEN n[top][heavy]
              ELSE IF y = top /\ g = heavy THEN c
              ELSE IF y = e /\ g = heavy THEN n[top][light]
              ELSE IF y = top /\ g = light THEN e
              ELSE IF y = c /\ g = "parent" THEN top
              ELSE n[y][g]
  BY <1>2, <1>4, <1>5, <1>6, <1>7, <1>8, <1>9 DEF Writes
<1> QED BY <1>4, <1>9a, <1>10, <1>11 DEF Regrouped

(* The balances that a double rotation leaves below a top that had balance   *)
(* b.                                                                        *)
Half(s, b) == IF s = "left" THEN -((1 + b) \div 2) ELSE (1 - b) \div 2

Leveled(m, n, S, l, r, top, i, j) ==
  /\ FieldsOf(m, S)
  /\ \A y \in Elem \ S : m[y] = n[y]
  /\ \A y \in S, g \in Field : m[y][g] =
       IF g = "balance" /\ y = l THEN i
       ELSE IF g = "balance" /\ y = r THEN j
       ELSE IF g = "balance" /\ y = top THEN 0
       ELSE n[y][g]

(* Its three balances.                                                       *)
LEMMA LevelFacts ==
  ASSUME NEW n, NEW S, FieldsOf(n, S), NEW l \in S, NEW r \in S, NEW top \in S, l # r, top # l, top # r,
         n[top].left = l, n[top].right = r, NEW b \in Int,
         NEW m, m = Level(n, top, b)
  PROVE  Leveled(m, n, S, l, r, top, Half("left", b), Half("right", b))
<1>1. PICK i \in Int : i = Half("left", b)
  BY DEF Half
<1>2. PICK j \in Int : j = Half("right", b)
  BY DEF Half
<1> DEFINE n1 == With(n, l, "balance", i)
           n2 == With(n1, r, "balance", j)
           n3 == With(n2, top, "balance", 0)
<1>3. m = n3
  BY <1>1, <1>2 DEF Level, Half
<1>4. Writes(n1, n, S, l, "balance", i)
  BY WithWritesBalance
<1>4a. FieldsOf(n1, S)
  BY <1>4 DEF Writes
<1> HIDE DEF n1
<1>5. Writes(n2, n1, S, r, "balance", j)
  BY <1>4a, WithWritesBalance
<1>5a. FieldsOf(n2, S)
  BY <1>5 DEF Writes
<1> HIDE DEF n2
<1>6. Writes(n3, n2, S, top, "balance", 0)
  BY <1>5a, WithWritesBalance
<1>6a. FieldsOf(n3, S)
  BY <1>6 DEF Writes
<1> HIDE DEF n3
<1>7. \A y \in Elem \ S : m[y] = n[y]
  BY <1>3, <1>4, <1>5, <1>6 DEF Writes
<1>8. ASSUME NEW y \in S, NEW g \in Field
      PROVE  m[y][g] = IF g = "balance" /\ y = l THEN i
              ELSE IF g = "balance" /\ y = r THEN j
              ELSE IF g = "balance" /\ y = top THEN 0
              ELSE n[y][g]
  BY <1>3, <1>4, <1>5, <1>6 DEF Writes
<1>9. Leveled(m, n, S, l, r, top, i, j)
  BY <1>3, <1>6a, <1>7, <1>8 DEF Leveled
<1> QED BY <1>1, <1>2, <1>9

(* n becomes m by a double rotation of e, its child c and its grandchild     *)
(* top.                                                                      *)
Twice(m, n, S, e, c, top, p, q, heavy, light) ==
  /\ FieldsOf(m, S)
  /\ \A y \in Elem \ S : m[y] = n[y]
  /\ \A y \in S, s \in Side : m[y][s] =
       IF y = c /\ s = light THEN p
       ELSE IF y = e /\ s = heavy THEN q
       ELSE IF y = top THEN (IF s = heavy THEN c ELSE e)
       ELSE n[y][s]
  /\ \A y \in S : m[y].parent =
       IF y = p THEN c ELSE IF y = q THEN e ELSE IF y = e \/ y = c THEN top
       ELSE IF y = top THEN n[e].parent ELSE n[y].parent
  /\ \A y \in S : m[y].balance =
       IF y = c THEN Half(heavy, n[top].balance)
       ELSE IF y = e THEN Half(light, n[top].balance)
       ELSE IF y = top THEN 0 ELSE n[y].balance
  /\ \A y \in S : m[y].key = n[y].key

(* The rotation is double where the child leans the other way.               *)
LEMMA RotateToTwice ==
  ASSUME NEW n, NEW S, FieldsOf(n, S), NEW heavy \in Side, NEW light, light = Other(heavy),
         NEW e \in S, NEW c \in S, NEW top \in S, e # c, top # e, top # c,
         n[e][heavy] = c, n[c][light] = top,
         NEW p \in S \union {NULL}, p = n[top][heavy], NEW q \in S \union {NULL}, q = n[top][light],
         p # e, p # c, p # top, q # e, q # c, q # top, p = q => p = NULL,
         NewTop(n, e, heavy) = top
  PROVE  Twice(Rotate(n, e, heavy), n, S, e, c, top, p, q, heavy, light)
<1>1. heavy \in Field /\ light \in Field /\ "parent" \in Field /\ "balance" \in Field /\ "key" \in Field
      /\ light \in Side /\ heavy # light /\ "left" \in Field /\ "right" \in Field
      /\ heavy # "parent" /\ light # "parent" /\ heavy # "balance" /\ light # "balance"
      /\ heavy # "key" /\ light # "key"
  BY DEF Side, Other, Field
<1>2. NewTop(n, e, heavy) = top
  OBVIOUS
<1> DEFINE n1 == Regroup(n, e, c, top, heavy)
           n2 == Adopt(n1, c, light)
           n3 == Level(n2, top, n[top].balance)
           n4 == Crown(n3, top, e)
           m == Adopt(n4, e, heavy)
<1>3. Rotate(n, e, heavy) = m
  BY <1>2 DEF Rotate, RotateTwice
<1>4a. Regrouped(n1, n, S, e, c, top, heavy, light)
  BY RegroupFacts
<1> HIDE DEF n1
<1>4. /\ FieldsOf(n1, S)
      /\ \A y \in Elem \ S : n1[y] = n[y]
      /\ \A y \in S, g \in Field : n1[y][g] =
              IF y = c /\ g = light THEN n[top][heavy]
              ELSE IF y = top /\ g = heavy THEN c
              ELSE IF y = e /\ g = heavy THEN n[top][light]
              ELSE IF y = top /\ g = light THEN e
              ELSE IF y = c /\ g = "parent" THEN top
              ELSE n[y][g]
  BY <1>4a DEF Regrouped
<1>5. n1[c][light] = p
  BY <1>1, <1>4
<1>6. /\ FieldsOf(n2, S)
      /\ \A y \in Elem \ S : n2[y] = n1[y]
      /\ \A y \in S, g \in Field : n2[y][g] = IF y = p /\ g = "parent" THEN c ELSE n1[y][g]
  BY <1>1, <1>4, <1>5, AdoptFacts
<1> HIDE DEF n2
<1>7. PICK l \in S : l = n2[top].left
  BY <1>1, <1>4, <1>6 DEF Side, Other
<1>8. PICK r \in S : r = n2[top].right
  BY <1>1, <1>4, <1>6 DEF Side, Other
<1>9. IF heavy = "left" THEN l = c /\ r = e ELSE l = e /\ r = c
  BY <1>1, <1>4, <1>6, <1>7, <1>8 DEF Side, Other
<1>10. PICK b \in Int : b = n[top].balance
  BY FieldTypes
<1>11a. Leveled(n3, n2, S, l, r, top, Half("left", b), Half("right", b))
  BY <1>6, <1>7, <1>8, <1>9, <1>10, LevelFacts
<1>11. /\ FieldsOf(n3, S)
       /\ \A y \in Elem \ S : n3[y] = n2[y]
       /\ \A y \in S, g \in Field : n3[y][g] =
              IF g = "balance" /\ y = l THEN Half("left", b)
              ELSE IF g = "balance" /\ y = r THEN Half("right", b)
              ELSE IF g = "balance" /\ y = top THEN 0
              ELSE n2[y][g]
  BY <1>11a DEF Leveled
<1> HIDE DEF n3
<1>12a. Crowned(n4, n3, S, top, e)
  BY <1>11, CrownFacts
<1>12. /\ FieldsOf(n4, S)
       /\ \A y \in Elem \ S : n4[y] = n3[y]
       /\ \A y \in S, g \in Field : n4[y][g] =
              IF g = "parent" /\ y = top THEN n3[e].parent
              ELSE IF g = "parent" /\ y = e THEN top
              ELSE n3[y][g]
  BY <1>12a DEF Crowned
<1> HIDE DEF n4
<1>13. n4[e][heavy] = q
  BY <1>1, <1>4, <1>6, <1>11, <1>12
<1>14. /\ FieldsOf(m, S)
       /\ \A y \in Elem \ S : m[y] = n4[y]
       /\ \A y \in S, g \in Field : m[y][g] = IF y = q /\ g = "parent" THEN e ELSE n4[y][g]
  BY <1>12, <1>13, AdoptFacts
<1> HIDE DEF m
<1>15. \A y \in Elem \ S : m[y] = n[y]
  BY <1>4, <1>6, <1>11, <1>12, <1>14
<1>16. ASSUME NEW y \in S, NEW s \in Side
       PROVE  m[y][s] = IF y = c /\ s = light THEN p
                        ELSE IF y = e /\ s = heavy THEN q
                        ELSE IF y = top THEN (IF s = heavy THEN c ELSE e)
                        ELSE n[y][s]
  <2>1. s \in Field /\ s # "parent" /\ s # "balance" /\ (s = heavy \/ s = light)
    BY DEF Side, Field, Other
  <2>2. m[y][s] = n1[y][s]
    BY <1>6, <1>11, <1>12, <1>14, <2>1
  <2> QED BY <1>1, <1>4, <2>1, <2>2
<1>17. ASSUME NEW y \in S
       PROVE  m[y].parent =
                IF y = p THEN c ELSE IF y = q THEN e ELSE IF y = e \/ y = c THEN top
                ELSE IF y = top THEN n[e].parent ELSE n[y].parent
  <2>1. \A z \in S : n1[z].parent = IF z = c THEN top ELSE n[z].parent
    BY <1>1, <1>4
  <2>2. \A z \in S : n3[z].parent = IF z = p THEN c ELSE n1[z].parent
    BY <1>1, <1>6, <1>11
  <2>3. \A z \in S : m[z].parent = IF z = q THEN e ELSE IF z = top THEN n3[e].parent
                                   ELSE IF z = e THEN top ELSE n3[z].parent
    BY <1>1, <1>12, <1>14
  <2>5. n3[e].parent = n[e].parent
    BY <2>1, <2>2
  <2>6. NULL \notin S
    BY NullAssumption DEF FieldsOf
  <2> QED BY <2>1, <2>2, <2>3, <2>5, <2>6
<1>18. ASSUME NEW y \in S
       PROVE  /\ m[y].balance = IF y = c THEN Half(heavy, n[top].balance)
                                ELSE IF y = e THEN Half(light, n[top].balance)
                                ELSE IF y = top THEN 0 ELSE n[y].balance
              /\ m[y].key = n[y].key
  <2>1. \A z \in S : n2[z].balance = n[z].balance /\ n2[z].key = n[z].key
    BY <1>1, <1>4, <1>6
  <2>2. m[y].balance = n3[y].balance /\ m[y].key = n3[y].key
    BY <1>1, <1>12, <1>14
  <2>3. n3[y].balance = IF y = l THEN Half("left", b) ELSE IF y = r THEN Half("right", b)
                        ELSE IF y = top THEN 0 ELSE n2[y].balance
    BY <1>1, <1>11
  <2>4. n3[y].key = n2[y].key
    BY <1>1, <1>11
  <2> QED BY <1>9, <1>10, <2>1, <2>2, <2>3, <2>4 DEF Side, Other
<1> QED BY <1>2, <1>3, <1>14, <1>15, <1>16, <1>17, <1>18 DEF Twice

------------------------------------------------------------------------------
(* Search trees: a set of nodes that the child pointers span from a root,    *)
(* each subtree with the set of its nodes, the keys in order, and the        *)
(* heights.                                                                  *)

rank(n, x) == Rank[n[x].key]
Beyond(n, s, z, x) == IF s = "left" THEN rank(n, z) < rank(n, x) ELSE rank(n, z) > rank(n, x)

(* r and the child pointers span the nodes of S, the parent pointers lead    *)
(* back.                                                                     *)
Shaped(n, r, S) ==
  /\ FieldsOf(n, S) /\ r \in S \union {NULL}
  /\ \A x \in S, s \in Side : n[x][s] # NULL => n[x][s] \in S /\ n[n[x][s]].parent = x
  /\ r # NULL => n[r].parent = NULL
  /\ \A x \in S \ {r} : n[x].parent \in S /\ \E s \in Side : n[n[x].parent][s] = x

(* sub[x]: the nodes of the subtree at x.                                    *)
NestedAt(n, sub, x) ==
  \A s \in Side : sub[x] = {x} \union sub[n[x][s]] \union sub[n[x][Other(s)]]
Nested(n, r, S, sub) ==
  /\ sub \in [Pointer -> SUBSET S] /\ sub[NULL] = {} /\ sub[r] = S
  /\ \A x \in S : NestedAt(n, sub, x)
OrderedAt(n, sub, x) == \A s \in Side : \A z \in sub[n[x][s]] : Beyond(n, s, z, x)
Ordered(n, S, sub) == \A x \in S : OrderedAt(n, sub, x)

SearchTree(n, r, S, sub) == Shaped(n, r, S) /\ Nested(n, r, S, sub) /\ Ordered(n, S, sub)

(* What a height v and a balance say of the heights a and b below, a on side *)
(* s.                                                                        *)
Fits(v, bal, a, b, s) ==
  /\ v = 1 + Higher(a, b) /\ bal = (IF s = "left" THEN b - a ELSE a - b)
  /\ a - b \in -1..1 /\ a >= 0 /\ b >= 0

(* The child of x on side s counts d less than its height h.                 *)
Even(n, h, x, s, d) == Fits(h[x], n[x].balance, h[n[x][s]] - d, h[n[x][Other(s)]], s)
Heights(h) == h \in [Pointer -> Nat] /\ h[NULL] = 0
LevelBut(n, S, h, loc, side, d) ==
  /\ Heights(h)
  /\ \A x \in S : IF x = loc THEN Even(n, h, x, side, d) ELSE Even(n, h, x, "left", 0)

(* The ranks are numbers.                                                    *)
LEMMA RankFacts ==
  ASSUME NEW n, NEW S, FieldsOf(n, S)
  PROVE  \A x \in S : rank(n, x) \in Int
  BY FieldTypes, RankAssumption DEF rank

(* The order of the nodes by their keys is strict.                           *)
LEMMA BeyondFacts ==
  ASSUME NEW n, NEW S, FieldsOf(n, S), NEW s \in Side, NEW x \in S, NEW y \in S, NEW z \in S
  PROVE  /\ ~Beyond(n, s, x, x)
         /\ Beyond(n, s, x, y) => ~Beyond(n, Other(s), x, y)
         /\ Beyond(n, s, x, y) => Beyond(n, Other(s), y, x)
         /\ Beyond(n, s, x, y) /\ Beyond(n, s, y, z) => Beyond(n, s, x, z)
  BY RankFacts DEF Beyond, Other, Side

(* A child, and what its subtree has to do with that of its parent.          *)
LEMMA KidFacts ==
  ASSUME NEW n, NEW r, NEW S, NEW sub, SearchTree(n, r, S, sub),
         NEW x \in S, NEW s \in Side, NEW k, k = n[x][s]
  PROVE  /\ k \in S \union {NULL}
         /\ k # NULL => n[k].parent = x /\ k \in S /\ k # r
         /\ x \in sub[x] /\ sub[x] \subseteq S
         /\ sub[k] \subseteq sub[x] /\ x \notin sub[k]
         /\ k # NULL => k \in sub[k] /\ k # x
         /\ sub[x] = {x} \union sub[k] \union sub[n[x][Other(s)]]
         /\ sub[k] \intersect sub[n[x][Other(s)]] = {}
         /\ \A z \in sub[k] : z \in S /\ Beyond(n, s, z, x)
<1>1. FieldsOf(n, S) /\ S \subseteq Elem /\ NULL \notin S
  BY NullAssumption DEF SearchTree, Shaped, FieldsOf
<1>2. sub \in [Pointer -> SUBSET S] /\ sub[NULL] = {}
  BY DEF SearchTree, Nested
<1>3. k \in S \union {NULL} /\ (k # NULL => n[k].parent = x /\ k \in S)
  BY DEF SearchTree, Shaped
<1>4. Other(s) \in Side /\ Other(Other(s)) = s
  BY SideFacts
<1>5. sub[x] = {x} \union sub[k] \union sub[n[x][Other(s)]]
  BY DEF SearchTree, Nested, NestedAt
<1>6. sub[x] \subseteq S /\ sub[k] \subseteq S
  BY <1>1, <1>2, <1>3 DEF Pointer
<1>7. \A z \in sub[k] : z \in S /\ Beyond(n, s, z, x)
  BY <1>6 DEF SearchTree, Ordered, OrderedAt
<1>8. \A z \in sub[n[x][Other(s)]] : Beyond(n, Other(s), z, x)
  BY <1>4 DEF SearchTree, Ordered, OrderedAt
<1>9. x \notin sub[k]
  BY <1>1, <1>7, BeyondFacts
<1>10. sub[k] \intersect sub[n[x][Other(s)]] = {}
  <2> SUFFICES ASSUME NEW z \in sub[k], z \in sub[n[x][Other(s)]]
               PROVE  FALSE
    OBVIOUS
  <2>1. Beyond(n, s, z, x) /\ Beyond(n, Other(s), z, x) /\ z \in S
    BY <1>7, <1>8
  <2> QED BY <1>1, <2>1, BeyondFacts
<1>11. k # NULL => k \in sub[k]
  BY <1>3, SideFacts DEF SearchTree, Nested, NestedAt
<1>12. k # NULL => k # r
  <2> SUFFICES ASSUME k # NULL, k = r
               PROVE  FALSE
    OBVIOUS
  <2>1. n[k].parent = NULL
    BY DEF SearchTree, Shaped
  <2> QED BY <1>1, <1>3, <2>1
<1> QED BY <1>3, <1>5, <1>6, <1>7, <1>9, <1>10, <1>11, <1>12

(* There are two sides.                                                      *)
LEMMA TwoSides ==
  ASSUME NEW s \in Side, NEW z \in Side, z # s
  PROVE  z = Other(s)
  BY DEF Side, Other

(* A node is the child of one node, on one side.                             *)
LEMMA OneLink ==
  ASSUME NEW n, NEW r, NEW S, NEW sub, SearchTree(n, r, S, sub),
         NEW x \in S, NEW s \in Side, NEW y \in S, NEW z \in Side, n[x][s] = n[y][z], n[x][s] # NULL
  PROVE  x = y /\ s = z
<1>1. PICK k : k = n[x][s]
  OBVIOUS
<1>2. n[k].parent = x /\ n[k].parent = y
  BY <1>1 DEF SearchTree, Shaped
<1>3. k \in sub[k] /\ sub[k] \intersect sub[n[x][Other(s)]] = {}
  BY <1>1, KidFacts
<1>4. z # s => z = Other(s)
  BY TwoSides
<1> QED BY <1>1, <1>2, <1>3, <1>4

(* The height of a node, seen from one side or from the other.               *)
LEMMA FitsBothWays ==
  ASSUME NEW v, NEW bal, NEW a \in Int, NEW b \in Int
  PROVE  Fits(v, bal, a, b, "left") <=> Fits(v, bal, b, a, "right")
  BY DEF Fits, Higher

(* The same of a node of the tree.                                           *)
LEMMA EvenBothWays ==
  ASSUME NEW n, NEW h, Heights(h), NEW S, FieldsOf(n, S), NEW x \in S, NEW s \in Side
  PROVE  Even(n, h, x, "left", 0) <=> Even(n, h, x, s, 0)
<1>1. n[x].left \in Pointer /\ n[x].right \in Pointer
  BY FieldTypes
<1>2. PICK a \in Nat : a = h[n[x].left]
  BY <1>1 DEF Heights
<1>3. PICK b \in Nat : b = h[n[x].right]
  BY <1>1 DEF Heights
<1>4. a - 0 = a /\ b - 0 = b
  OBVIOUS
<1>5. Even(n, h, x, "left", 0) <=> Fits(h[x], n[x].balance, a, b, "left")
  BY <1>2, <1>3, <1>4 DEF Even, Other
<1>6. Even(n, h, x, "right", 0) <=> Fits(h[x], n[x].balance, b, a, "right")
  BY <1>2, <1>3, <1>4 DEF Even, Other
<1>7. s = "left" \/ s = "right"
  BY DEF Side
<1> QED BY <1>5, <1>6, <1>7, FitsBothWays

(* M, the nodes after the rotation, with the top in the place of e.          *)
Linked(n2, r2, m, n, r, S, e, top) ==
  /\ FieldsOf(n2, S)
  /\ \A y \in Elem \ S : n2[y] = m[y]
  /\ r2 = IF e = r THEN top ELSE r
  /\ \A y \in S, s \in Side : n2[y][s] = IF n[y][s] = e THEN top ELSE m[y][s]
  /\ \A y \in S : n2[y].parent = m[y].parent /\ n2[y].balance = m[y].balance
                  /\ n2[y].key = m[y].key

(* The order depends on the keys only.                                       *)
LEMMA BeyondSame ==
  ASSUME NEW n, NEW m, NEW x, NEW z, m[x].key = n[x].key, m[z].key = n[z].key, NEW s
  PROVE  Beyond(m, s, z, x) = Beyond(n, s, z, x)
  BY DEF Beyond, rank

(* The nodes M change places, top takes that of e: nothing changes for the   *)
(* others.                                                                   *)
Regrafted(n2, n, S, M, e, top, sub2, sub) ==
  /\ M \subseteq S /\ e \in M /\ top \in M
  /\ \A x \in S \ M, s \in Side :
       IF n[x][s] = e THEN n2[x][s] = top ELSE n2[x][s] = n[x][s] /\ n[x][s] \notin M
  /\ \A x \in S : n2[x].key = n[x].key
  /\ sub2[top] = sub[e] /\ \A k \in Pointer \ M : sub2[k] = sub[k]

(* Outside of what is rearranged, a subtree has the nodes it had.            *)
LEMMA OutsideSub ==
  ASSUME NEW n, NEW r, NEW S, NEW sub, SearchTree(n, r, S, sub), NEW n2, NEW M, NEW e, NEW top,
         NEW sub2, Regrafted(n2, n, S, M, e, top, sub2, sub), NEW x \in S \ M
  PROVE  NestedAt(n2, sub2, x) /\ OrderedAt(n2, sub2, x)
<1>1. x \in S /\ x \notin M /\ x \in Pointer /\ FieldsOf(n, S) /\ S \subseteq Elem
  BY DEF SearchTree, Shaped, FieldsOf, Pointer
<1>2. ASSUME NEW s \in Side
      PROVE  sub2[n2[x][s]] = sub[n[x][s]]
  <2>1. n[x][s] \in Pointer
    BY <1>1, FieldTypes
  <2>2. CASE n[x][s] = e
    <3>1. n2[x][s] = top
      BY <1>1, <2>2 DEF Regrafted
    <3> QED BY <2>2, <3>1 DEF Regrafted
  <2>3. CASE n[x][s] # e
    <3>1. n2[x][s] = n[x][s] /\ n[x][s] \notin M
      BY <1>1, <2>3 DEF Regrafted
    <3> QED BY <2>1, <3>1 DEF Regrafted
  <2> QED BY <2>2, <2>3
<1>3. sub2[x] = sub[x]
  BY <1>1 DEF Regrafted
<1>4. NestedAt(n2, sub2, x)
  <2> SUFFICES ASSUME NEW s \in Side
               PROVE  sub2[x] = {x} \union sub2[n2[x][s]] \union sub2[n2[x][Other(s)]]
    BY DEF NestedAt
  <2>1. Other(s) \in Side
    BY SideFacts
  <2>2. sub[x] = {x} \union sub[n[x][s]] \union sub[n[x][Other(s)]]
    BY <1>1 DEF SearchTree, Nested, NestedAt
  <2> QED BY <1>2, <1>3, <2>1, <2>2
<1>5. OrderedAt(n2, sub2, x)
  <2> SUFFICES ASSUME NEW s \in Side, NEW z \in sub2[n2[x][s]]
               PROVE  Beyond(n2, s, z, x)
    BY DEF OrderedAt
  <2>1. PICK k : k = n[x][s]
    OBVIOUS
  <2>2. z \in sub[k]
    BY <1>2, <2>1
  <2>3. z \in S /\ Beyond(n, s, z, x)
    BY <1>1, <2>1, <2>2, KidFacts
  <2>4. n2[x].key = n[x].key /\ n2[z].key = n[z].key
    BY <1>1, <2>3 DEF Regrafted
  <2> QED BY <2>3, <2>4, BeyondSame
<1> QED BY <1>4, <1>5

(* Outside of what is rearranged, heights and balances stay.                 *)
LEMMA OutsideEven ==
  ASSUME NEW n, NEW S, FieldsOf(n, S), NEW n2, NEW M, NEW e, NEW top, M \subseteq S,
         NEW x \in S \ M, NEW s \in Side, n2[x][Other(s)] = n[x][Other(s)], n[x][Other(s)] \notin M,
         n2[x].balance = n[x].balance, 
         NEW h, Heights(h), NEW h2, Heights(h2), \A k \in Pointer \ M : h2[k] = h[k], Even(n, h, x, s, 0)
  PROVE  /\ n2[x][s] = n[x][s] /\ n[x][s] \notin M => Even(n2, h2, x, s, 0)
         /\ n2[x][s] = top /\ n[x][s] = e /\ top \in S /\ e \in S => Even(n2, h2, x, s, h2[top] - h[e])
<1>1. n[x][s] \in Pointer /\ n[x][Other(s)] \in Pointer /\ x \in Pointer /\ S \subseteq Pointer
  BY FieldTypes, SideFacts DEF FieldsOf, Pointer
<1>2. h2[x] = h[x] /\ h2[n2[x][Other(s)]] = h[n[x][Other(s)]]
  BY <1>1
<1>3. n2[x][s] = n[x][s] /\ n[x][s] \notin M => h2[n2[x][s]] = h[n[x][s]]
  BY <1>1
<1>4. n2[x][s] = top /\ n[x][s] = e /\ top \in S /\ e \in S
        => h2[n2[x][s]] - (h2[top] - h[e]) = h[n[x][s]] - 0
  <2> SUFFICES ASSUME n2[x][s] = top, n[x][s] = e, top \in S, e \in S
               PROVE  h2[n2[x][s]] - (h2[top] - h[e]) = h[n[x][s]] - 0
    OBVIOUS
  <2>1. h2[top] \in Nat /\ h[e] \in Nat
    BY <1>1 DEF Heights
  <2> QED BY <2>1
<1> QED BY <1>2, <1>3, <1>4 DEF Even

------------------------------------------------------------------------------
(* The single rotation keeps the search tree.                                *)

(* The nodes around a single rotation are different ones.                    *)
LEMMA AroundOnce ==
  ASSUME NEW n, NEW r, NEW S, NEW sub, SearchTree(n, r, S, sub), NEW heavy \in Side,
         NEW light, light = Other(heavy), NEW e \in S, NEW c \in S, c = n[e][heavy],
         NEW q, q = n[c][light], NEW o, o = n[c][heavy], NEW l, l = n[e][light], NEW P, P = n[e].parent
  PROVE  /\ c # e /\ q # e /\ q # c /\ o # e /\ o # c /\ l # e /\ l # c
         /\ (q = o => q = NULL) /\ (q = l => q = NULL) /\ (o = l => o = NULL)
         /\ {q, o, l} \subseteq S \union {NULL}
         /\ P # e /\ P # c /\ c # r
         /\ (q # NULL => q # r) /\ (o # NULL => o # r) /\ (l # NULL => l # r)
         /\ IF e = r THEN P = NULL ELSE P \in S /\ \E s \in Side : n[P][s] = e
         /\ sub[e] = {e} \union sub[c] \union sub[l] /\ sub[c] = {c} \union sub[o] \union sub[q]
<1>1. light \in Side /\ heavy = Other(light) /\ light # heavy
  BY SideFacts
<1>2. NULL \notin S
  BY NullAssumption DEF SearchTree, Shaped, FieldsOf
<1>3. /\ c # NULL /\ e \notin sub[c] /\ c \in sub[c] /\ c # e /\ c # r /\ n[c].parent = e
      /\ sub[e] = {e} \union sub[c] \union sub[l] /\ sub[c] \intersect sub[l] = {}
      /\ sub[c] \subseteq sub[e] /\ e \in sub[e]
  BY <1>2, KidFacts
<1>3a. c # r
  BY <1>2, KidFacts
<1>4a. q # NULL => q # r
  BY <1>1, KidFacts
<1>5a. o # NULL => o # r
  BY KidFacts
<1>6a. l # NULL => l # r
  BY <1>1, KidFacts
<1>4. /\ q \in S \union {NULL} /\ (q # NULL => n[q].parent = c /\ q \in sub[q] /\ q # r)
      /\ c \notin sub[q] /\ sub[q] \subseteq sub[c]
      /\ sub[q] \intersect sub[o] = {}
  BY <1>1, KidFacts
<1>5. /\ o \in S \union {NULL} /\ (o # NULL => n[o].parent = c /\ o \in sub[o] /\ o # r)
      /\ c \notin sub[o] /\ sub[o] \subseteq sub[c]
      /\ sub[c] = {c} \union sub[o] \union sub[q]
  BY KidFacts
<1>6. /\ l \in S \union {NULL} /\ (l # NULL => n[l].parent = e /\ l \in sub[l] /\ l # r)
      /\ e \notin sub[l] /\ sub[l] \subseteq sub[e]
  BY <1>1, KidFacts
<1>7. e = r => P = NULL
  BY <1>2 DEF SearchTree, Shaped
<1>8. e # r => P \in S /\ \E s \in Side : n[P][s] = e
  BY DEF SearchTree, Shaped
<1>9. e # r => P # e /\ P # c
  <2> SUFFICES ASSUME e # r
               PROVE  P # e /\ P # c
    OBVIOUS
  <2>1. PICK s \in Side : n[P][s] = e
    BY <1>8
  <2>2. P \notin sub[e]
    BY <1>2, <1>8, <2>1, KidFacts
  <2> QED BY <1>3, <2>2
<1>10. c # e /\ q # e /\ q # c /\ o # e /\ o # c /\ l # e /\ l # c
  BY <1>2, <1>3, <1>4, <1>5, <1>6
<1>11. (q = o => q = NULL) /\ (q = l => q = NULL) /\ (o = l => o = NULL)
  BY <1>3, <1>4, <1>5, <1>6
<1>12. P # e /\ P # c
  BY <1>2, <1>7, <1>9
<1>13. IF e = r THEN P = NULL ELSE P \in S /\ \E s \in Side : n[P][s] = e
  BY <1>7, <1>8
<1>14. {q, o, l} \subseteq S \union {NULL}
  BY <1>4, <1>5, <1>6
<1>15. (q # NULL => q # r) /\ (o # NULL => o # r) /\ (l # NULL => l # r) /\ c # r
  BY <1>2, <1>3a, <1>4a, <1>5a, <1>6a
<1>16. sub[e] = {e} \union sub[c] \union sub[l] /\ sub[c] = {c} \union sub[o] \union sub[q]
  BY <1>3, <1>5
<1>17. c # e /\ q # e /\ q # c /\ o # e /\ o # c /\ l # e /\ l # c
  BY <1>10
<1> QED BY <1>11, <1>12, <1>13, <1>14, <1>15, <1>16, <1>17

(* The links after a single rotation.                                        *)
OnceLinks(n2, r2, n, r, S, e, c, q, o, l, P, heavy, light) ==
  /\ FieldsOf(n2, S)
  /\ r2 = IF e = r THEN c ELSE r
  /\ n2[e][heavy] = q /\ n2[e][light] = l /\ n2[c][light] = e /\ n2[c][heavy] = o
  /\ \A y \in S \ {e, c}, s \in Side : n2[y][s] = IF n[y][s] = e THEN c ELSE n[y][s]
  /\ \A y \in S : n2[y].parent =
       IF y = q THEN e ELSE IF y = e THEN c ELSE IF y = c THEN P ELSE n[y].parent
  /\ \A y \in S : n2[y].key = n[y].key

(* The pointers after a single rotation and the relinking of its top.        *)
LEMMA OnceLinked ==
  ASSUME NEW n, NEW r, NEW S, NEW sub, SearchTree(n, r, S, sub), NEW heavy \in Side,
         NEW light, light = Other(heavy), NEW e \in S, NEW c \in S, c = n[e][heavy],
         NEW q, q = n[c][light], NEW o, o = n[c][heavy], NEW l, l = n[e][light], NEW P, P = n[e].parent,
         NEW m, Once(m, n, S, e, c, q, heavy, light),
         NEW n2, NEW r2, Linked(n2, r2, m, n, r, S, e, c)
  PROVE  OnceLinks(n2, r2, n, r, S, e, c, q, o, l, P, heavy, light)
<1>1. light \in Side /\ light # heavy
  BY SideFacts
<1>2. c # e /\ q # e /\ q # c /\ o # e /\ o # c /\ l # e /\ l # c
  BY AroundOnce
<1>3. \A y \in S, s \in Side : n2[y][s] = IF n[y][s] = e THEN c ELSE m[y][s]
  BY DEF Linked
<1>4. \A y \in S, s \in Side : m[y][s] =
       IF y = e /\ s = heavy THEN q ELSE IF y = c /\ s = light THEN e ELSE n[y][s]
  BY DEF Once
<1>5. n2[e][heavy] = q /\ n2[e][light] = l /\ n2[c][light] = e /\ n2[c][heavy] = o
  BY <1>1, <1>2, <1>3, <1>4
<1>6. \A y \in S \ {e, c}, s \in Side : n2[y][s] = IF n[y][s] = e THEN c ELSE n[y][s]
  BY <1>3, <1>4
<1>7. \A y \in S : n2[y].parent =
       IF y = q THEN e ELSE IF y = e THEN c ELSE IF y = c THEN P ELSE n[y].parent
  BY DEF Linked, Once
<1>10. \A y \in S : n2[y].key = n[y].key
  BY DEF Linked, Once
<1>11. FieldsOf(n2, S) /\ r2 = IF e = r THEN c ELSE r
  BY DEF Linked
<1> QED BY <1>5, <1>6, <1>7, <1>10, <1>11 DEF OnceLinks

(* They lead down from the root and back.                                    *)
LEMMA OnceShaped ==
  ASSUME NEW n, NEW r, NEW S, NEW sub, SearchTree(n, r, S, sub), NEW heavy \in Side,
         NEW light, light = Other(heavy), NEW e \in S, NEW c \in S, c = n[e][heavy],
         NEW q, q = n[c][light], NEW o, o = n[c][heavy], NEW l, l = n[e][light], NEW P, P = n[e].parent,
         NEW n2, NEW r2, OnceLinks(n2, r2, n, r, S, e, c, q, o, l, P, heavy, light)
  PROVE  Shaped(n2, r2, S)
<1>1. light \in Side /\ light # heavy /\ \A s \in Side : s = heavy \/ s = light
  BY SideFacts, TwoSides
<1>2. NULL \notin S
  BY NullAssumption DEF SearchTree, Shaped, FieldsOf
<1>3. /\ c # e /\ q # e /\ q # c /\ o # e /\ o # c /\ l # e /\ l # c
      /\ (q = o => q = NULL) /\ (q = l => q = NULL) /\ (o = l => o = NULL)
      /\ {q, o, l} \subseteq S \union {NULL}
      /\ P # e /\ P # c /\ c # r
      /\ (q # NULL => q # r) /\ (o # NULL => o # r) /\ (l # NULL => l # r)
      /\ IF e = r THEN P = NULL ELSE P \in S /\ \E s \in Side : n[P][s] = e
  BY AroundOnce
<1>4. \A y \in S : n2[y].parent =
       IF y = q THEN e ELSE IF y = e THEN c ELSE IF y = c THEN P ELSE n[y].parent
  BY DEF OnceLinks
<1>5. n2[e][heavy] = q /\ n2[e][light] = l /\ n2[c][light] = e /\ n2[c][heavy] = o
  BY DEF OnceLinks
<1>6. \A y \in S \ {e, c}, s \in Side : n2[y][s] = IF n[y][s] = e THEN c ELSE n[y][s]
  BY DEF OnceLinks
<1>7. \A x \in S, s \in Side : n[x][s] # NULL => n[x][s] \in S /\ n[n[x][s]].parent = x
  BY DEF SearchTree, Shaped
<1>8. ASSUME NEW x \in S, NEW s \in Side, n2[x][s] # NULL
      PROVE  n2[x][s] \in S /\ n2[n2[x][s]].parent = x
  <2>1. CASE x = e
    <3>1. CASE s = heavy
      BY <1>3, <1>4, <1>5, <1>8, <2>1, <3>1
    <3>2. CASE s = light
      <4>1. n2[x][s] = l /\ l \in S /\ n[l].parent = e
        BY <1>1, <1>5, <1>7, <1>8, <2>1, <3>2
      <4> QED BY <1>2, <1>3, <1>4, <2>1, <4>1
    <3> QED BY <1>1, <3>1, <3>2
  <2>2. CASE x = c
    <3>1. CASE s = light
      BY <1>3, <1>4, <1>5, <1>8, <2>2, <3>1
    <3>2. CASE s = heavy
      <4>1. n2[x][s] = o /\ o \in S /\ n[o].parent = c
        BY <1>1, <1>5, <1>7, <1>8, <2>2, <3>2
      <4> QED BY <1>2, <1>3, <1>4, <2>2, <4>1
    <3> QED BY <1>1, <3>1, <3>2
  <2>3. CASE x # e /\ x # c
    <3>1. n2[x][s] = IF n[x][s] = e THEN c ELSE n[x][s]
      BY <1>6, <2>3
    <3>2. CASE n[x][s] = e
      <4>1. n[e].parent = x
        BY <1>2, <1>7, <3>2
      <4> QED BY <1>3, <1>4, <3>1, <3>2, <4>1
    <3>3. CASE n[x][s] # e
      <4>1. PICK k : k = n[x][s]
        OBVIOUS
      <4>2. n2[x][s] = k /\ k \in S /\ n[k].parent = x
        BY <1>7, <1>8, <3>1, <3>3, <4>1
      <4>3. n[c].parent = e
        BY <1>2, <1>7
      <4>4. q # NULL => n[q].parent = c
        BY <1>1, <1>7
      <4>5. k # e /\ k # c /\ k # q
        BY <1>2, <2>3, <3>3, <4>1, <4>2, <4>3, <4>4
      <4> QED BY <1>4, <4>2, <4>5
    <3> QED BY <3>2, <3>3
  <2> QED BY <2>1, <2>2, <2>3
<1>9. r2 = IF e = r THEN c ELSE r
  BY DEF OnceLinks
<1>10. r \in S \union {NULL} /\ (r # NULL => n[r].parent = NULL)
  BY DEF SearchTree, Shaped
<1>11. r2 \in S \union {NULL} /\ (r2 # NULL => n2[r2].parent = NULL)
  BY <1>3, <1>4, <1>9, <1>10
<1>12. \A x \in S \ {r} : n[x].parent \in S /\ \E s \in Side : n[n[x].parent][s] = x
  BY DEF SearchTree, Shaped
<1>13. ASSUME NEW x \in S \ {r2}
       PROVE  n2[x].parent \in S /\ \E s \in Side : n2[n2[x].parent][s] = x
  <2>1. CASE x = e
    BY <1>1, <1>3, <1>4, <1>5, <2>1
  <2>2. CASE x = c
    <3>1. e # r /\ n2[x].parent = P
      BY <1>3, <1>4, <1>9, <2>2
    <3>2. PICK s \in Side : n[P][s] = e
      BY <1>3, <3>1
    <3>3. P \in S /\ n2[P][s] = c
      BY <1>3, <1>6, <3>1, <3>2
    <3> QED BY <2>2, <3>1, <3>3
  <2>3. CASE x = q
    BY <1>1, <1>3, <1>4, <1>5, <2>3
  <2>4. CASE x # e /\ x # c /\ x # q
    <3>1. x # r
      BY <1>9, <2>4
    <3>2. PICK p \in S : p = n[x].parent
      BY <1>12, <3>1
    <3>3. PICK s \in Side : n[p][s] = x
      BY <1>12, <3>1, <3>2
    <3>4. n2[x].parent = p
      BY <1>4, <2>4, <3>2
    <3>5. n2[p][s] = x
      <4>1. CASE p = e
        BY <1>1, <1>5, <2>4, <3>3, <4>1
      <4>2. CASE p = c
        BY <1>1, <1>5, <2>4, <3>3, <4>2
      <4>3. CASE p # e /\ p # c
        BY <1>6, <2>4, <3>3, <4>3
      <4> QED BY <4>1, <4>2, <4>3
    <3> QED BY <3>2, <3>4, <3>5
  <2> QED BY <2>1, <2>2, <2>3, <2>4
<1>14. FieldsOf(n2, S)
  BY DEF OnceLinks
<1> QED BY <1>8, <1>11, <1>13, <1>14 DEF Shaped

(* Besides the nodes that rotate only the link to e changes.                 *)
Elsewhere(n2, n, S, M, e, top) ==
  \A x \in S \ M, s \in Side :
    IF n[x][s] = e THEN n2[x][s] = top ELSE n2[x][s] = n[x][s] /\ n[x][s] \notin M

(* The subtrees after a single rotation.                                     *)
LEMMA OnceGrafted ==
  ASSUME NEW n, NEW r, NEW S, NEW sub, SearchTree(n, r, S, sub), NEW heavy \in Side,
         NEW light, light = Other(heavy), NEW e \in S, NEW c \in S, c = n[e][heavy],
         NEW q, q = n[c][light], NEW o, o = n[c][heavy], NEW l, l = n[e][light], NEW P, P = n[e].parent,
         NEW n2, NEW r2, OnceLinks(n2, r2, n, r, S, e, c, q, o, l, P, heavy, light)
  PROVE  Elsewhere(n2, n, S, {e, c}, e, c)
<1> SUFFICES ASSUME NEW x \in S \ {e, c}, NEW s \in Side
             PROVE  IF n[x][s] = e THEN n2[x][s] = c
                    ELSE n2[x][s] = n[x][s] /\ n[x][s] \notin {e, c}
  BY DEF Elsewhere
<1>1. n2[x][s] = IF n[x][s] = e THEN c ELSE n[x][s]
  BY DEF OnceLinks
<1>2. NULL \notin S
  BY NullAssumption DEF SearchTree, Shaped, FieldsOf
<1>3. n[x][s] # c
  BY <1>2, OneLink
<1> QED BY <1>1, <1>3

Searched(n2, r2, S, sub, e, c) ==
  \E sub2 : SearchTree(n2, r2, S, sub2) /\ sub2[c] = sub[e]
            /\ \A k \in Pointer \ {e, c} : sub2[k] = sub[k]

(* They are a search tree.                                                   *)
LEMMA OnceSearch ==
  ASSUME NEW n, NEW r, NEW S, NEW sub, SearchTree(n, r, S, sub), NEW heavy \in Side,
         NEW light, light = Other(heavy), NEW e \in S, NEW c \in S, c = n[e][heavy],
         NEW q, q = n[c][light], NEW o, o = n[c][heavy], NEW l, l = n[e][light], NEW P, P = n[e].parent,
         NEW n2, NEW r2, OnceLinks(n2, r2, n, r, S, e, c, q, o, l, P, heavy, light)
  PROVE  Searched(n2, r2, S, sub, e, c)
<1> DEFINE B == {e} \union sub[q] \union sub[l]
<1>1. PICK sub2 : sub2 = [k \in Pointer |-> IF k = c THEN sub[e] ELSE IF k = e THEN B ELSE sub[k]]
  OBVIOUS
<1>2. light \in Side /\ light # heavy /\ heavy = Other(light) /\ \A s \in Side : s = heavy \/ s = light
  BY SideFacts, TwoSides
<1>3. NULL \notin S /\ S \subseteq Elem /\ FieldsOf(n, S) /\ e # NULL /\ c # NULL
  BY NullAssumption DEF SearchTree, Shaped, FieldsOf
<1>4. S \subseteq Pointer /\ NULL \in Pointer /\ q \in Pointer /\ o \in Pointer /\ l \in Pointer
  BY <1>2, <1>3, FieldTypes DEF Pointer
<1>5. c # e /\ q # e /\ q # c /\ o # e /\ o # c /\ l # e /\ l # c
  BY AroundOnce
<1>6. c # r
  BY AroundOnce
<1>7. sub2[c] = sub[e] /\ sub2[e] = B /\ \A k \in Pointer \ {e, c} : sub2[k] = sub[k]
  BY <1>1, <1>3, <1>4, <1>5
<1>8. sub2[q] = sub[q] /\ sub2[o] = sub[o] /\ sub2[l] = sub[l]
  BY <1>4, <1>5, <1>7
<1>9. \A x \in S : n2[x].key = n[x].key
  BY DEF OnceLinks
<1>10. Regrafted(n2, n, S, {e, c}, e, c, sub2, sub)
  <2>1. Elsewhere(n2, n, S, {e, c}, e, c)
    BY OnceGrafted
  <2> QED BY <1>7, <1>9, <2>1 DEF Regrafted, Elsewhere
<1>11. /\ sub[q] \subseteq sub[c] /\ sub[c] = {c} \union sub[o] \union sub[q]
  BY <1>2, KidFacts
<1>12. sub[e] = {e} \union sub[c] \union sub[l] /\ sub[e] \subseteq S
  BY KidFacts
<1>13. n2[e][heavy] = q /\ n2[e][light] = l /\ n2[c][light] = e /\ n2[c][heavy] = o
  BY DEF OnceLinks
<1>14. sub \in [Pointer -> SUBSET S] /\ sub[NULL] = {} /\ sub[r] = S
  BY DEF SearchTree, Nested
<1>15. sub2 \in [Pointer -> SUBSET S] /\ sub2[NULL] = {}
  BY <1>1, <1>3, <1>4, <1>11, <1>12, <1>14
<1>16. r2 = (IF e = r THEN c ELSE r) /\ r \in Pointer
  BY <1>3, <1>4 DEF OnceLinks, SearchTree, Shaped
<1>17. sub2[r2] = S
  <2>1. CASE e = r
    BY <1>7, <1>14, <1>16, <2>1
  <2>2. CASE e # r
    BY <1>6, <1>7, <1>14, <1>16, <2>2
  <2> QED BY <2>1, <2>2
<1>18. NestedAt(n2, sub2, e)
  <2>1. sub2[e] = {e} \union sub2[n2[e][heavy]] \union sub2[n2[e][light]]
    BY <1>7, <1>8, <1>13
  <2> SUFFICES ASSUME NEW s \in Side
               PROVE  sub2[e] = {e} \union sub2[n2[e][s]] \union sub2[n2[e][Other(s)]]
    BY DEF NestedAt
  <2>2. sub2[e] = {e} \union sub2[n2[e][light]] \union sub2[n2[e][heavy]]
    BY <2>1
  <2> QED BY <1>2, <2>1, <2>2
<1>19. NestedAt(n2, sub2, c)
  <2>1. sub[e] = {c} \union sub[o] \union B
    BY <1>11, <1>12
  <2>2. sub2[c] = {c} \union sub2[n2[c][heavy]] \union sub2[n2[c][light]]
    BY <1>7, <1>8, <1>13, <2>1
  <2>3. sub2[c] = {c} \union sub2[n2[c][light]] \union sub2[n2[c][heavy]]
    BY <2>2
  <2> QED BY <1>2, <2>2, <2>3 DEF NestedAt
<1>20. \A z \in sub[c] : z \in S /\ Beyond(n, heavy, z, e)
  BY KidFacts
<1>21. \A z \in sub[l] : z \in S /\ Beyond(n, light, z, e)
  BY <1>2, KidFacts
<1>22. \A z \in sub[q] : z \in S /\ Beyond(n, light, z, c)
  BY <1>2, KidFacts
<1>23. \A z \in sub[o] : z \in S /\ Beyond(n, heavy, z, c)
  BY KidFacts
<1>24. c \in sub[c]
  BY <1>3, KidFacts
<1>25. OrderedAt(n2, sub2, e)
  <2> SUFFICES ASSUME NEW s \in Side, NEW z \in sub2[n2[e][s]]
               PROVE  Beyond(n2, s, z, e)
    BY DEF OrderedAt
  <2>1. z \in S /\ Beyond(n, s, z, e)
    <3>1. CASE s = heavy
      BY <1>8, <1>11, <1>13, <1>20, <3>1
    <3>2. CASE s = light
      BY <1>8, <1>13, <1>21, <3>2
    <3> QED BY <1>2, <3>1, <3>2
  <2> QED BY <1>9, <2>1, BeyondSame
<1>26. OrderedAt(n2, sub2, c)
  <2> SUFFICES ASSUME NEW s \in Side, NEW z \in sub2[n2[c][s]]
               PROVE  Beyond(n2, s, z, c)
    BY DEF OrderedAt
  <2>1. z \in S /\ Beyond(n, s, z, c)
    <3>1. CASE s = heavy
      BY <1>8, <1>13, <1>23, <3>1
    <3>2. CASE s = light
      <4>1. z \in B
        BY <1>7, <1>13, <3>2
      <4>2. Beyond(n, light, e, c)
        BY <1>2, <1>3, <1>20, <1>24, BeyondFacts
      <4>3. CASE z \in sub[l]
        <5>1. z \in S /\ Beyond(n, light, z, e)
          BY <1>21, <4>3
        <5> QED BY <1>2, <1>3, <3>2, <4>2, <5>1, BeyondFacts
      <4>4. CASE z \in sub[q]
        BY <1>22, <3>2, <4>4
      <4> QED BY <3>2, <4>1, <4>2, <4>3, <4>4
    <3> QED BY <1>2, <3>1, <3>2
  <2> QED BY <1>9, <2>1, BeyondSame
<1>27. Nested(n2, r2, S, sub2)
  <2>1. ASSUME NEW x \in S
        PROVE  NestedAt(n2, sub2, x)
    BY <1>10, <1>18, <1>19, OutsideSub
  <2> QED BY <1>15, <1>17, <2>1 DEF Nested
<1>28. Ordered(n2, S, sub2)
  <2>1. ASSUME NEW x \in S
        PROVE  OrderedAt(n2, sub2, x)
    BY <1>10, <1>25, <1>26, OutsideSub
  <2> QED BY <2>1 DEF Ordered
<1>29. Shaped(n2, r2, S)
  BY OnceShaped
<1> QED BY <1>7, <1>27, <1>28, <1>29 DEF SearchTree, Searched

------------------------------------------------------------------------------
(* The single rotation levels the subtree that it turns.                     *)

(* x is the root, or the child of loc on that side.                          *)
Hangs(n, r, S, x, loc, side) ==
  IF loc = NULL THEN x = r ELSE loc \in S /\ side \in Side /\ n[loc][side] = x

(* A subtree hangs from one place only.                                      *)
LEMMA OnlyLink ==
  ASSUME NEW n, NEW r, NEW S, NEW sub, SearchTree(n, r, S, sub), NEW e \in S,
         NEW loc, NEW side, Hangs(n, r, S, e, loc, side), NEW x \in S, NEW s \in Side, n[x][s] = e
  PROVE  x = loc /\ s = side
<1>1. NULL \notin S
  BY NullAssumption DEF SearchTree, Shaped, FieldsOf
<1>2. CASE loc = NULL
  <2>1. e # r
    BY <1>1, KidFacts
  <2> QED BY <1>2, <2>1 DEF Hangs
<1>3. CASE loc # NULL
  <2>1. loc \in S /\ side \in Side /\ n[loc][side] = e
    BY <1>3 DEF Hangs
  <2> QED BY <1>1, <2>1, OneLink
<1> QED BY <1>2, <1>3

(* The nodes outside of the rotated subtree are level.                       *)
LEMMA OutsideLevel ==
  ASSUME NEW n, NEW r, NEW S, NEW sub, SearchTree(n, r, S, sub), NEW n2, FieldsOf(n2, S),
         NEW M, NEW e \in M, NEW top \in M, M \subseteq S, Elsewhere(n2, n, S, M, e, top),
         \A y \in S \ M : n2[y].balance = n[y].balance,
         NEW h, Heights(h), NEW h2, Heights(h2), \A k \in Pointer \ M : h2[k] = h[k],
         \A x \in S \ M : Even(n, h, x, "left", 0), \A x \in M : Even(n2, h2, x, "left", 0),
         NEW loc, NEW side, Hangs(n, r, S, e, loc, side), loc \notin M
  PROVE  LevelBut(n2, S, h2, loc, side, h2[top] - h[e])
<1>1. FieldsOf(n, S) /\ NULL \notin S /\ e \in S /\ top \in S
  BY NullAssumption DEF SearchTree, Shaped, FieldsOf
<1> SUFFICES ASSUME NEW x \in S
             PROVE  IF x = loc THEN Even(n2, h2, x, side, h2[top] - h[e]) ELSE Even(n2, h2, x, "left", 0)
  BY DEF LevelBut
<1>2. ASSUME NEW s \in Side, x \notin M, n[x][s] # e
      PROVE  n2[x][s] = n[x][s] /\ n[x][s] \notin M
  BY <1>2 DEF Elsewhere
<1>3. CASE x = loc
  <2>1. x # NULL /\ x \notin M
    BY <1>1, <1>3
  <2>2. loc \in S /\ side \in Side /\ n[loc][side] = e
    BY <1>3, <2>1 DEF Hangs
  <2>3. n2[x][side] = top
    BY <1>3, <2>1, <2>2 DEF Elsewhere
  <2>4. Other(side) \in Side /\ Other(side) # side
    BY <2>2, SideFacts
  <2>5. n[x][Other(side)] # e
    BY <2>4, OnlyLink
  <2>6. n2[x][Other(side)] = n[x][Other(side)] /\ n[x][Other(side)] \notin M
    BY <1>2, <2>1, <2>4, <2>5
  <2>7. Even(n, h, x, side, 0)
    BY <1>1, <2>1, <2>2, EvenBothWays
  <2>8. x \in S \ M /\ n2[x].balance = n[x].balance
    BY <2>1
  <2>9. Even(n2, h2, x, side, h2[top] - h[e])
    BY <1>1, <1>3, <2>2, <2>3, <2>6, <2>7, <2>8, OutsideEven
  <2> QED BY <1>3, <2>9
<1>4. CASE x # loc /\ x \notin M
  <2>1. \A s \in Side : n[x][s] # e
    BY <1>1, <1>4, OnlyLink
  <2>2. "left" \in Side /\ Other("left") \in Side
    BY DEF Side, Other
  <2>3. n2[x]["left"] = n[x]["left"] /\ n[x]["left"] \notin M
    BY <1>2, <1>4, <2>1, <2>2
  <2>4. n2[x][Other("left")] = n[x][Other("left")] /\ n[x][Other("left")] \notin M
    BY <1>2, <1>4, <2>1, <2>2
  <2>5. x \in S \ M /\ n2[x].balance = n[x].balance /\ Even(n, h, x, "left", 0)
    BY <1>4
  <2>6. Even(n2, h2, x, "left", 0)
    BY <1>1, <2>2, <2>3, <2>4, <2>5, OutsideEven
  <2> QED BY <1>4, <2>6
<1>5. CASE x \in M
  BY <1>5
<1> QED BY <1>3, <1>4, <1>5

(* The heights and balances of a single rotation.                            *)
LEMMA OnceFits ==
  ASSUME NEW heavy \in Side, NEW k \in Nat, NEW a \in Nat, NEW b \in Nat, NEW bal \in Int, NEW v,
         v = k + 2, Fits(v, bal, a, b, heavy), NEW g, g = Sign(heavy), g * bal >= 0
  PROVE  /\ Fits(1 + b, -(bal - g), b, k, heavy)
         /\ Fits(1 + Higher(a, 1 + b), bal - g, a, 1 + b, heavy)
         /\ \/ bal # 0 /\ 1 + Higher(a, 1 + b) = k + 2 /\ bal - g = 0
            \/ bal = 0 /\ 1 + Higher(a, 1 + b) = k + 3 /\ bal - g = -g
<1>1. CASE heavy = "left"
  BY <1>1 DEF Fits, Higher, Sign
<1>2. CASE heavy = "right"
  BY <1>2 DEF Fits, Higher, Sign
<1> QED BY <1>1, <1>2 DEF Side

(* The height and the balance at the top after a rotation, k the height of   *)
(* the low side.                                                             *)
Topped(v, bal, low, k, g) ==
  \/ low # 0 /\ v = k + 2 /\ bal = 0
  \/ low = 0 /\ v = k + 3 /\ bal = -g

(* What a rotation leaves: low is the balance that the child had.            *)
Rotated(n2, r2, S, e, top, h, sub, k, g, low, loc, side) ==
  \E sub2, h2 : /\ SearchTree(n2, r2, S, sub2) /\ sub2[top] = sub[e]
                /\ LevelBut(n2, S, h2, loc, side, h2[top] - h[e])
                /\ Topped(h2[top], n2[top].balance, low, k, g)

(* A single rotation of a subtree two levels out of balance levels it.       *)
LEMMA OnceSound ==
  ASSUME NEW n, NEW r, NEW S, NEW sub, SearchTree(n, r, S, sub), NEW heavy \in Side,
         NEW light, light = Other(heavy), NEW e \in S, NEW c \in S, c = n[e][heavy],
         NEW q, q = n[c][light], NEW o, o = n[c][heavy], NEW l, l = n[e][light], NEW P, P = n[e].parent,
         NEW m, Once(m, n, S, e, c, q, heavy, light), NEW n2, NEW r2, Linked(n2, r2, m, n, r, S, e, c),
         NEW h, Heights(h), \A x \in S \ {e} : Even(n, h, x, "left", 0),
         NEW k \in Nat, h[l] = k, h[c] = k + 2, NEW g, g = Sign(heavy), n[c].balance \in {0, g},
         NEW loc, NEW side, Hangs(n, r, S, e, loc, side)
  PROVE  Rotated(n2, r2, S, e, c, h, sub, k, g, n[c].balance, loc, side)
<1>1. NULL \notin S /\ S \subseteq Elem /\ FieldsOf(n, S)
  BY NullAssumption DEF SearchTree, Shaped, FieldsOf
<1>2. OnceLinks(n2, r2, n, r, S, e, c, q, o, l, P, heavy, light)
  BY OnceLinked
<1>3a. Searched(n2, r2, S, sub, e, c)
  BY <1>2, OnceSearch
<1>3. PICK sub2 : SearchTree(n2, r2, S, sub2) /\ sub2[c] = sub[e]
  BY <1>3a DEF Searched
<1>4. light \in Side /\ light # heavy /\ heavy = Other(light)
  BY SideFacts
<1>5. q \in Pointer /\ o \in Pointer /\ l \in Pointer /\ e \in Pointer /\ c \in Pointer
  BY <1>1, <1>4, FieldTypes DEF Pointer
<1>6. c # e /\ q # e /\ q # c /\ o # e /\ o # c /\ l # e /\ l # c
  BY AroundOnce
<1>7. PICK bal \in Int : bal = n[c].balance
  BY <1>1, FieldTypes
<1>8. PICK a \in Nat : a = h[o]
  BY <1>5 DEF Heights
<1>9. PICK b \in Nat : b = h[q]
  BY <1>5 DEF Heights
<1>10. Fits(k + 2, bal, a, b, heavy)
  <2>1. Even(n, h, c, heavy, 0)
    BY <1>1, <1>6, EvenBothWays
  <2>2. a - 0 = a
    OBVIOUS
  <2> QED BY <1>7, <1>8, <1>9, <2>1, <2>2 DEF Even
<1>11. g * bal >= 0 /\ g \in Int
  BY <1>7 DEF Sign
<1>12. PICK v : v = 1 + Higher(a, 1 + b)
  OBVIOUS
<1>13. /\ Fits(1 + b, -(bal - g), b, k, heavy)
       /\ Fits(1 + Higher(a, 1 + b), bal - g, a, 1 + b, heavy)
       /\ \/ bal # 0 /\ 1 + Higher(a, 1 + b) = k + 2 /\ bal - g = 0
          \/ bal = 0 /\ 1 + Higher(a, 1 + b) = k + 3 /\ bal - g = -g
  <2>1. PICK w : w = k + 2
    OBVIOUS
  <2> QED BY <1>10, <1>11, <2>1, OnceFits
<1>14. v \in Nat
  BY <1>12, <1>13
<1>15. PICK h2 : h2 = [x \in Pointer |-> IF x = c THEN v ELSE IF x = e THEN 1 + b ELSE h[x]]
  OBVIOUS
<1>16. Heights(h2)
  BY <1>1, <1>14, <1>15 DEF Heights, Pointer
<1>17. h2[c] = v /\ h2[e] = 1 + b /\ \A x \in Pointer \ {e, c} : h2[x] = h[x]
  BY <1>5, <1>6, <1>15
<1>18. h2[q] = b /\ h2[o] = a /\ h2[l] = k
  BY <1>5, <1>6, <1>8, <1>9, <1>17
<1>19. n2[e][heavy] = q /\ n2[e][light] = l /\ n2[c][light] = e /\ n2[c][heavy] = o
  BY <1>2 DEF OnceLinks
<1>20. n2[c].balance = bal - g /\ n2[e].balance = -(bal - g)
  BY <1>6, <1>7 DEF Linked, Once
<1>21. FieldsOf(n2, S)
  BY DEF Linked
<1>22. Even(n2, h2, e, "left", 0)
  <2>1. b - 0 = b
    OBVIOUS
  <2>2. Even(n2, h2, e, heavy, 0)
    BY <1>13, <1>17, <1>18, <1>19, <1>20, <2>1 DEF Even
  <2> QED BY <1>16, <1>21, <2>2, EvenBothWays
<1>23. Even(n2, h2, c, "left", 0)
  <2>1. a - 0 = a
    OBVIOUS
  <2>2. Even(n2, h2, c, heavy, 0)
    BY <1>12, <1>13, <1>17, <1>18, <1>19, <1>20, <2>1 DEF Even
  <2> QED BY <1>16, <1>21, <2>2, EvenBothWays
<1>24. loc \notin {e, c}
  <2>1. CASE loc = NULL
    BY <1>1, <2>1
  <2>2. CASE loc # NULL
    <3>1. loc \in S /\ side \in Side /\ n[loc][side] = e
      BY <2>2 DEF Hangs
    <3>2. e \in sub[e] /\ loc \notin sub[e]
      BY <1>1, <3>1, KidFacts
    <3>3. c \in sub[e]
      BY <1>1, KidFacts
    <3> QED BY <3>2, <3>3
  <2> QED BY <2>1, <2>2
<1>25. \A y \in S \ {e, c} : n2[y].balance = n[y].balance
  BY DEF Linked, Once
<1>26. Elsewhere(n2, n, S, {e, c}, e, c)
  BY <1>2, OnceGrafted
<1>27. LevelBut(n2, S, h2, loc, side, h2[c] - h[e])
  <2>1. PICK M : M = {e, c}
    OBVIOUS
  <2>2. e \in M /\ c \in M /\ M \subseteq S /\ Elsewhere(n2, n, S, M, e, c) /\ loc \notin M
    BY <1>24, <1>26, <2>1
  <2>3. \A y \in S \ M : n2[y].balance = n[y].balance
    BY <1>25, <2>1
  <2>4. \A x \in Pointer \ M : h2[x] = h[x]
    BY <1>17, <2>1
  <2>5. \A x \in S \ M : Even(n, h, x, "left", 0)
    BY <2>1
  <2>6. \A x \in M : Even(n2, h2, x, "left", 0)
    BY <1>22, <1>23, <2>1
  <2> QED BY <1>16, <1>21, <2>2, <2>3, <2>4, <2>5, <2>6, OutsideLevel
<1>28. Topped(h2[c], n2[c].balance, n[c].balance, k, g)
  <2>1. Topped(v, bal - g, bal, k, g)
    BY <1>12, <1>13 DEF Topped
  <2> QED BY <1>7, <1>17, <1>20, <2>1
<1> QED BY <1>3, <1>27, <1>28 DEF Rotated

------------------------------------------------------------------------------
(* The double rotation as two single ones, of which the second has the       *)
(* balances right.                                                           *)

(* Any links can be written.                                                 *)
RewiredTo(m, n, S, lefts, rights, up) ==
  /\ FieldsOf(m, S)
  /\ \A y \in S : /\ m[y].left = lefts[y] /\ m[y].right = rights[y]
                 /\ m[y].parent = up[y] /\ m[y].key = n[y].key

(* Pointers can be written as one wants: the state between the two single    *)
(* rotations exists.                                                         *)
LEMMA Rewired ==
  ASSUME NEW n, NEW S, FieldsOf(n, S), NEW lefts \in [S -> Pointer], NEW rights \in [S -> Pointer],
         NEW up \in [S -> Pointer]
  PROVE  \E m : RewiredTo(m, n, S, lefts, rights, up)
<1>1. n \in Heap /\ S \subseteq Elem /\ \A y \in S : n[y] \in Fields
  BY DEF FieldsOf
<1> DEFINE new(y) == [key |-> n[y].key, value |-> n[y].value, left |-> lefts[y],
                      right |-> rights[y], parent |-> up[y], balance |-> n[y].balance]
<1>3. ASSUME NEW y \in S
      PROVE  new(y) \in Fields
  BY <1>1 DEF Fields
<1>4. PICK m : m = [y \in Elem |-> IF y \in S THEN new(y) ELSE n[y]]
  OBVIOUS
<1>5. \A y \in Elem : n[y] \in Fields \union {Free}
  BY <1>1 DEF Heap
<1>6. m \in Heap
  BY <1>3, <1>4, <1>5 DEF Heap
<1>7. \A y \in S : m[y] = new(y)
  BY <1>1, <1>4
<1>8. FieldsOf(m, S)
  BY <1>1, <1>3, <1>6, <1>7 DEF FieldsOf
<1>9. ASSUME NEW y \in S
      PROVE  /\ m[y].left = lefts[y] /\ m[y].right = rights[y]
             /\ m[y].parent = up[y] /\ m[y].key = n[y].key
  <2>1. PICK k, v, l, r, p, b : k = n[y].key /\ v = n[y].value /\ l = lefts[y] /\ r = rights[y]
                               /\ p = up[y] /\ b = n[y].balance
    OBVIOUS
  <2>2. m[y] = [key |-> k, value |-> v, left |-> l, right |-> r, parent |-> p, balance |-> b]
    BY <1>7, <2>1
  <2> QED BY <2>1, <2>2
<1> QED BY <1>8, <1>9 DEF RewiredTo

(* What the nodes around a double rotation of e, its child c and top have to *)
(* do with each other.                                                       *)
AroundTwiceFacts(r, S, e, c, top, p, q, o, l, P) ==
  /\ e # c /\ top # e /\ top # c /\ c # r /\ top # r
  /\ p # e /\ p # c /\ p # top /\ q # e /\ q # c /\ q # top
  /\ o # e /\ o # c /\ o # top /\ l # e /\ l # c /\ l # top
  /\ (p = q => p = NULL)
  /\ {p, q, o, l} \subseteq S \union {NULL}

(* The nodes around a double rotation are different ones.                    *)
LEMMA AroundTwice ==
  ASSUME NEW n, NEW r, NEW S, NEW sub, SearchTree(n, r, S, sub), NEW heavy \in Side,
         NEW light, light = Other(heavy), NEW e \in S, NEW c \in S, c = n[e][heavy],
         NEW top \in S, top = n[c][light], NEW p, p = n[top][heavy], NEW q, q = n[top][light],
         NEW o, o = n[c][heavy], NEW l, l = n[e][light], NEW P, P = n[e].parent
  PROVE  AroundTwiceFacts(r, S, e, c, top, p, q, o, l, P)
<1>1. NULL \notin S
  BY NullAssumption DEF SearchTree, Shaped, FieldsOf
<1>2. light \in Side /\ heavy = Other(light)
  BY SideFacts
<1>3. c # e /\ top # e /\ top # c /\ o # e /\ o # c /\ l # e /\ l # c
  BY <1>1, AroundOnce
<1>4. (top = o => top = NULL) /\ (top = l => top = NULL) /\ {top, o, l} \subseteq S \union {NULL} /\ c # r
  BY AroundOnce
<1>5. (top # NULL => top # r)
  BY AroundOnce
<1>5a. n[c].parent = e
  BY <1>1, KidFacts
<1>6. p # c /\ p # top /\ q # c /\ q # top
  BY <1>2, <1>5a, AroundOnce
<1>7. (p = q => p = NULL) /\ {p, q} \subseteq S \union {NULL}
  BY <1>2, <1>5a, AroundOnce
<1>8. e \notin sub[c]
  BY KidFacts
<1>9. sub[top] \subseteq sub[c]
  BY <1>2, KidFacts
<1>10. p # NULL => p \in sub[top]
  <2>1. sub[p] \subseteq sub[top] /\ (p # NULL => p \in sub[p])
    BY KidFacts
  <2> QED BY <2>1
<1>11. q # NULL => q \in sub[top]
  <2>1. sub[q] \subseteq sub[top] /\ (q # NULL => q \in sub[q])
    BY <1>2, KidFacts, SMTT(30)
  <2> QED BY <2>1
<1>12. p # e /\ q # e
  BY <1>1, <1>8, <1>9, <1>10, <1>11
<1>13. o # top /\ l # top /\ top # r
  BY <1>1, <1>4, <1>5
<1>14. {p, q, o, l} \subseteq S \union {NULL}
  BY <1>4, <1>7
<1>15. c # r /\ (p = q => p = NULL)
  BY <1>4, <1>7
<1> QED BY <1>3, <1>6, <1>12, <1>13, <1>14, <1>15 DEF AroundTwiceFacts

(* The first of the two single rotations.                                    *)
LEMMA FirstHalf ==
  ASSUME NEW n, NEW r, NEW S, NEW sub, SearchTree(n, r, S, sub), NEW heavy \in Side,
         NEW light, light = Other(heavy), NEW e \in S, NEW c \in S, c = n[e][heavy],
         NEW top \in S, top = n[c][light], NEW p, p = n[top][heavy], NEW q, q = n[top][light],
         NEW o, o = n[c][heavy], NEW l, l = n[e][light], NEW P, P = n[e].parent
  PROVE  \E m1 : OnceLinks(m1, r, n, r, S, c, top, p, q, o, e, light, heavy)
<1>1. NULL \notin S /\ FieldsOf(n, S) /\ S \subseteq Pointer
  BY NullAssumption DEF SearchTree, Shaped, FieldsOf, Pointer
<1>2. light \in Side /\ heavy = Other(light) /\ light # heavy /\ \A s \in Side : s = heavy \/ s = light
  BY SideFacts, TwoSides
<1>3. AroundTwiceFacts(r, S, e, c, top, p, q, o, l, P)
  BY AroundTwice
<1>4. /\ e # c /\ top # e /\ top # c /\ c # r
      /\ p # c /\ p # top /\ q # c /\ q # top /\ o # c /\ o # top /\ p \in S \union {NULL} /\ q \in S \union {NULL}
  BY <1>3 DEF AroundTwiceFacts
<1> DEFINE kid(y, s) == IF y = c /\ s = light THEN p
                        ELSE IF y = top /\ s = heavy THEN c
                        ELSE IF n[y][s] = c THEN top ELSE n[y][s]
           above(y) == IF y = p THEN c ELSE IF y = c THEN top ELSE IF y = top THEN e ELSE n[y].parent
<1>5. \A y \in S, s \in Side : kid(y, s) \in Pointer
  <2>1. \A y \in S, s \in Side : n[y][s] \in Pointer
    BY <1>1, FieldTypes
  <2>2. p \in Pointer /\ c \in Pointer /\ top \in Pointer
    BY <1>1, <1>4 DEF Pointer
  <2> QED BY <2>1, <2>2
<1>6. \A y \in S : above(y) \in Pointer
  <2>1. \A y \in S : n[y].parent \in Pointer
    BY <1>1, FieldTypes
  <2> QED BY <1>1, <2>1
<1>7. PICK m1 : /\ FieldsOf(m1, S)
                /\ \A y \in S : m1[y].left = kid(y, "left") /\ m1[y].right = kid(y, "right")
                /\ \A y \in S : m1[y].parent = above(y) /\ m1[y].key = n[y].key
  <2> HIDE DEF kid, above
  <2>1. PICK L : L = [y \in S |-> kid(y, "left")]
    OBVIOUS
  <2>2. PICK R : R = [y \in S |-> kid(y, "right")]
    OBVIOUS
  <2>3. PICK U : U = [y \in S |-> above(y)]
    OBVIOUS
  <2>4. "left" \in Side /\ "right" \in Side
    BY DEF Side
  <2>5. L \in [S -> Pointer]
    BY <1>5, <2>1, <2>4
  <2>6. R \in [S -> Pointer]
    BY <1>5, <2>2, <2>4
  <2>7. U \in [S -> Pointer]
    BY <1>6, <2>3
  <2>8. \E m : RewiredTo(m, n, S, L, R, U)
    BY <1>1, <2>5, <2>6, <2>7, Rewired
  <2> QED BY <2>1, <2>2, <2>3, <2>8 DEF RewiredTo
<1>8. ASSUME NEW y \in S, NEW s \in Side
      PROVE  m1[y][s] = kid(y, s)
  <2> HIDE DEF kid
  <2>1. m1[y].left = kid(y, "left") /\ m1[y].right = kid(y, "right")
    BY <1>7
  <2>2. s = "left" => m1[y][s] = kid(y, s)
    BY <2>1
  <2>3. s = "right" => m1[y][s] = kid(y, s)
    BY <2>1
  <2> QED BY <2>2, <2>3 DEF Side
<1>9. m1[c][light] = p /\ m1[c][heavy] = o /\ m1[top][heavy] = c /\ m1[top][light] = q
  BY <1>2, <1>4, <1>8
<1>10. \A y \in S \ {c, top}, s \in Side : m1[y][s] = IF n[y][s] = c THEN top ELSE n[y][s]
  BY <1>8
<1>11. \A y \in S : m1[y].parent = IF y = p THEN c ELSE IF y = c THEN top ELSE IF y = top THEN e ELSE n[y].parent
  BY <1>7
<1>12. FieldsOf(m1, S) /\ \A y \in S : m1[y].key = n[y].key
  BY <1>7
<1>13. r = IF c = r THEN top ELSE r
  BY <1>4
<1> QED BY <1>9, <1>10, <1>11, <1>12, <1>13 DEF OnceLinks

(* The nodes around a double rotation of e.                                  *)
TwiceNames(n, heavy, light, e, c, top, p, q, o, l, P) ==
  /\ light = Other(heavy) /\ c = n[e][heavy] /\ top = n[c][light] /\ p = n[top][heavy]
  /\ q = n[top][light] /\ o = n[c][heavy] /\ l = n[e][light] /\ P = n[e].parent

(* AroundTwice, in the names of the double rotation.                         *)
LEMMA AroundTwiceNamed ==
  ASSUME NEW n, NEW r, NEW S, NEW sub, SearchTree(n, r, S, sub), NEW heavy \in Side,
         NEW light, NEW e \in S, NEW c \in S, NEW top \in S, NEW p, NEW q, NEW o, NEW l, NEW P,
         TwiceNames(n, heavy, light, e, c, top, p, q, o, l, P)
  PROVE  AroundTwiceFacts(r, S, e, c, top, p, q, o, l, P)
  BY AroundTwice DEF TwiceNames

(* FirstHalf, in the names of the double rotation.                           *)
LEMMA FirstHalfNamed ==
  ASSUME NEW n, NEW r, NEW S, NEW sub, SearchTree(n, r, S, sub), NEW heavy \in Side,
         NEW light, NEW e \in S, NEW c \in S, NEW top \in S, NEW p, NEW q, NEW o, NEW l, NEW P,
         TwiceNames(n, heavy, light, e, c, top, p, q, o, l, P)
  PROVE  \E m1 : OnceLinks(m1, r, n, r, S, c, top, p, q, o, e, light, heavy)
  BY FirstHalf DEF TwiceNames

(* What the first half leaves for the second.                                *)
LEMMA OnceLinkFacts ==
  ASSUME NEW n2, NEW r2, NEW n, NEW r, NEW S, NEW e, NEW c, NEW q, NEW o, NEW l, NEW P, NEW heavy, NEW light,
         OnceLinks(n2, r2, n, r, S, e, c, q, o, l, P, heavy, light)
  PROVE  n2[e][heavy] = q /\ n2[e][light] = l /\ n2[c][light] = e /\ n2[c][heavy] = o
  BY DEF OnceLinks

(* The second single rotation gives the pointers of the double one.          *)
LEMMA SecondHalf ==
  ASSUME NEW n, NEW r, NEW S, NEW sub, SearchTree(n, r, S, sub), NEW heavy \in Side,
         NEW light, NEW e \in S, NEW c \in S, NEW top \in S, NEW p, NEW q, NEW o, NEW l, NEW P,
         NEW m1, NEW m, NEW n2, NEW r2
  PROVE  /\ TwiceNames(n, heavy, light, e, c, top, p, q, o, l, P)
         /\ OnceLinks(m1, r, n, r, S, c, top, p, q, o, e, light, heavy)
         /\ Twice(m, n, S, e, c, top, p, q, heavy, light)
         /\ Linked(n2, r2, m, n, r, S, e, top)
         => OnceLinks(n2, r2, m1, r, S, e, top, q, c, l, P, heavy, light)
<1>0. SUFFICES ASSUME TwiceNames(n, heavy, light, e, c, top, p, q, o, l, P),
                      OnceLinks(m1, r, n, r, S, c, top, p, q, o, e, light, heavy),
                      Twice(m, n, S, e, c, top, p, q, heavy, light),
                      Linked(n2, r2, m, n, r, S, e, top)
               PROVE  OnceLinks(n2, r2, m1, r, S, e, top, q, c, l, P, heavy, light)
  OBVIOUS
<1>1. NULL \notin S
  BY NullAssumption DEF SearchTree, Shaped, FieldsOf
<1>2. light \in Side /\ heavy = Other(light) /\ light # heavy /\ \A s \in Side : s = heavy \/ s = light
  BY <1>0, SideFacts, TwoSides DEF TwiceNames
<1>3. AroundTwiceFacts(r, S, e, c, top, p, q, o, l, P)
  BY <1>0, AroundTwiceNamed
<1>4. /\ e # c /\ top # e /\ top # c
      /\ p # e /\ p # c /\ p # top /\ q # e /\ q # c /\ q # top
      /\ o # e /\ o # c /\ o # top /\ l # e /\ l # c /\ l # top
      /\ (p = q => p = NULL)
  BY <1>3 DEF AroundTwiceFacts
<1>5. \A y \in S, s \in Side : n2[y][s] = IF n[y][s] = e THEN top ELSE m[y][s]
  BY <1>0 DEF Linked
<1>6. \A y \in S, s \in Side : m[y][s] =
       IF y = c /\ s = light THEN p
       ELSE IF y = e /\ s = heavy THEN q
       ELSE IF y = top THEN (IF s = heavy THEN c ELSE e)
       ELSE n[y][s]
  BY <1>0 DEF Twice
<1>6a. n[c][heavy] = o /\ n[e][light] = l /\ n[e].parent = P /\ n[e][heavy] = c /\ n[c][light] = top
       /\ n[top][light] = q /\ n[top][heavy] = p
  BY <1>0 DEF TwiceNames
<1>7. n2[e][heavy] = q /\ n2[e][light] = l
  BY <1>2, <1>4, <1>5, <1>6, <1>6a
<1>8. n2[top][light] = e /\ n2[top][heavy] = c
  BY <1>2, <1>4, <1>5, <1>6, <1>6a
<1>9. n2[c][light] = p /\ n2[c][heavy] = o
  BY <1>2, <1>4, <1>5, <1>6, <1>6a
<1>10. m1[c][light] = p /\ m1[c][heavy] = o
  BY <1>0 DEF OnceLinks
<1>11. ASSUME NEW y \in S \ {e, top}, NEW s \in Side
       PROVE  n2[y][s] = IF m1[y][s] = e THEN top ELSE m1[y][s]
  <2>1. CASE y = c
    BY <1>2, <1>4, <1>9, <1>10, <2>1
  <2>2. CASE y # c
    <3>1. n[y][s] # c
      BY <1>1, <1>6a, OneLink
    <3>2. m1[y][s] = n[y][s]
      BY <1>0, <2>2, <3>1 DEF OnceLinks
    <3> QED BY <1>5, <1>6, <2>2, <3>2
  <2> QED BY <2>1, <2>2
<1>12. \A y \in S : n2[y].parent =
       IF y = q THEN e ELSE IF y = e THEN top ELSE IF y = top THEN P ELSE m1[y].parent
  <2>1. \A y \in S : m1[y].parent =
       IF y = p THEN c ELSE IF y = c THEN top ELSE IF y = top THEN e ELSE n[y].parent
    BY <1>0 DEF OnceLinks
  <2>2. \A y \in S : n2[y].parent =
       IF y = p THEN c ELSE IF y = q THEN e ELSE IF y = e \/ y = c THEN top
       ELSE IF y = top THEN P ELSE n[y].parent
    BY <1>0, <1>6a DEF Twice, Linked
  <2> QED BY <1>1, <1>4, <2>1, <2>2
<1>13. FieldsOf(n2, S) /\ r2 = IF e = r THEN top ELSE r
  BY <1>0 DEF Linked
<1>14. \A y \in S : n2[y].key = m1[y].key
  BY <1>0 DEF Linked, Twice, OnceLinks
<1> QED BY <1>7, <1>8, <1>11, <1>12, <1>13, <1>14 DEF OnceLinks

(* A double rotation keeps the search tree.                                  *)
LEMMA TwiceSearch ==
  ASSUME NEW n, NEW r, NEW S, NEW sub, SearchTree(n, r, S, sub), NEW heavy \in Side,
         NEW light, NEW e \in S, NEW c \in S, NEW top \in S, NEW p, NEW q, NEW o, NEW l, NEW P,
         NEW m, NEW n2, NEW r2
  PROVE  /\ TwiceNames(n, heavy, light, e, c, top, p, q, o, l, P)
         /\ Twice(m, n, S, e, c, top, p, q, heavy, light)
         /\ Linked(n2, r2, m, n, r, S, e, top)
         => \E sub2 : SearchTree(n2, r2, S, sub2) /\ sub2[top] = sub[e]
<1>0. SUFFICES ASSUME TwiceNames(n, heavy, light, e, c, top, p, q, o, l, P),
                      Twice(m, n, S, e, c, top, p, q, heavy, light),
                      Linked(n2, r2, m, n, r, S, e, top)
               PROVE  \E sub2 : SearchTree(n2, r2, S, sub2) /\ sub2[top] = sub[e]
  OBVIOUS
<1>0a. light = Other(heavy)
  BY <1>0 DEF TwiceNames
<1>0b. n[e][heavy] = c /\ n[c][light] = top /\ n[e][light] = l /\ n[e].parent = P
  BY <1>0 DEF TwiceNames
<1>0c. n[top][heavy] = p /\ n[top][light] = q /\ n[c][heavy] = o
  BY <1>0 DEF TwiceNames
<1>1. AroundTwiceFacts(r, S, e, c, top, p, q, o, l, P)
  BY <1>0, AroundTwiceNamed
<1>2. e # c /\ top # e /\ top # c /\ l # e /\ p # e
  BY <1>1 DEF AroundTwiceFacts
<1>3. PICK m1 : OnceLinks(m1, r, n, r, S, c, top, p, q, o, e, light, heavy)
  BY <1>0, FirstHalfNamed
<1>4. light \in Side /\ heavy = Other(light) /\ light # heavy
  BY <1>0a, SideFacts
<1>5. NULL \notin S /\ S \subseteq Pointer
  BY NullAssumption DEF SearchTree, Shaped, FieldsOf, Pointer
<1>6. n[c].parent = e
  BY <1>0b, <1>5, KidFacts
<1>7a. Searched(m1, r, S, sub, c, top)
  BY <1>0b, <1>0c, <1>3, <1>4, <1>6, OnceSearch
<1>7. PICK sub1 : SearchTree(m1, r, S, sub1) /\ \A k \in Pointer \ {c, top} : sub1[k] = sub[k]
  BY <1>7a DEF Searched
<1>8. sub1[e] = sub[e]
  BY <1>2, <1>5, <1>7
<1>9. OnceLinks(n2, r2, m1, r, S, e, top, q, c, l, P, heavy, light)
  BY <1>0, <1>3, SecondHalf
<1>10. m1[top][light] = q /\ m1[top][heavy] = c
  BY <1>3, OnceLinkFacts
<1>11. n[e][light] = l /\ l # c /\ n[e][heavy] = c
  BY <1>0b, <1>1 DEF AroundTwiceFacts
<1>12. \A s \in Side : m1[e][s] = IF n[e][s] = c THEN top ELSE n[e][s]
  BY <1>2, <1>3 DEF OnceLinks
<1>13. m1[e][heavy] = top /\ m1[e][light] = l
  BY <1>4, <1>11, <1>12
<1>14. m1[e].parent = P
  <2>1. m1[e].parent = IF e = p THEN c ELSE IF e = c THEN top ELSE IF e = top THEN e ELSE n[e].parent
    BY <1>3 DEF OnceLinks
  <2> QED BY <1>0b, <1>2, <2>1
<1>15a. Searched(n2, r2, S, sub1, e, top)
  BY <1>0a, <1>4, <1>7, <1>9, <1>10, <1>13, <1>14, OnceSearch
<1>15. PICK sub2 : SearchTree(n2, r2, S, sub2) /\ sub2[top] = sub1[e]
  BY <1>15a DEF Searched
<1> QED BY <1>8, <1>15

TwiceFit(heavy, light, k, a, b, i, bal, low) ==
  /\ Fits(k + 1, Half(heavy, bal), i, a, heavy)
  /\ Fits(k + 1, Half(light, bal), b, k, heavy)
  /\ Fits(k + 2, 0, k + 1, k + 1, heavy)
  /\ low # 0

(* The heights and balances of a double rotation.                            *)
LEMMA TwiceFits ==
  ASSUME NEW heavy \in Side, NEW light, light = Other(heavy), NEW k \in Nat,
         NEW a \in Nat, NEW b \in Nat, NEW i \in Nat, NEW j \in Nat, NEW bal \in Int, NEW low \in Int, NEW v,
         v = k + 2, Fits(v, low, i, j, heavy), NEW g, g = Sign(heavy), low \notin {0, g},
         Fits(j, bal, a, b, heavy)
  PROVE  TwiceFit(heavy, light, k, a, b, i, bal, low)
<1>1. CASE heavy = "left"
  <2>1. low = 1 /\ i = k /\ j = k + 1
    BY <1>1 DEF Fits, Higher, Sign
  <2>2. Half("left", bal) = -((1 + bal) \div 2) /\ Half("right", bal) = (1 - bal) \div 2
    BY DEF Half
  <2>3. bal \in {-1, 0, 1} /\ bal = b - a /\ k = Higher(a, b)
    BY <1>1, <2>1 DEF Fits, Higher
  <2> QED BY <1>1, <2>1, <2>2, <2>3 DEF Fits, Higher, Other, TwiceFit
<1>2. CASE heavy = "right"
  <2>1. low = -1 /\ i = k /\ j = k + 1
    BY <1>2 DEF Fits, Higher, Sign
  <2>2. Half("left", bal) = -((1 + bal) \div 2) /\ Half("right", bal) = (1 - bal) \div 2
    BY DEF Half
  <2>3. bal \in {-1, 0, 1} /\ bal = a - b /\ k = Higher(a, b)
    <3>1. Fits(k + 1, bal, a, b, "right")
      BY <1>2, <2>1
    <3> QED BY <3>1 DEF Fits, Higher
  <2> QED BY <1>2, <2>1, <2>2, <2>3 DEF Fits, Higher, Other, TwiceFit
<1> QED BY <1>1, <1>2 DEF Side

Grafted(n2, n, S, M, e, top) ==
  Elsewhere(n2, n, S, M, e, top) /\ \A y \in S \ M : n2[y].balance = n[y].balance

(* Outside of the double rotation everything stays.                          *)
LEMMA TwiceGrafted ==
  ASSUME NEW n, NEW r, NEW S, NEW sub, SearchTree(n, r, S, sub), NEW heavy \in Side,
         NEW light \in Side, NEW e \in S, NEW c \in S, NEW top \in S, NEW p, NEW q,
         n[e][heavy] = c, n[c][light] = top, NEW m, NEW n2, NEW r2
  PROVE  Twice(m, n, S, e, c, top, p, q, heavy, light) /\ Linked(n2, r2, m, n, r, S, e, top)
         => Grafted(n2, n, S, {e, c, top}, e, top)
<1>0. SUFFICES ASSUME Twice(m, n, S, e, c, top, p, q, heavy, light), Linked(n2, r2, m, n, r, S, e, top)
               PROVE  Grafted(n2, n, S, {e, c, top}, e, top)
  OBVIOUS
<1>1. NULL \notin S
  BY NullAssumption DEF SearchTree, Shaped, FieldsOf
<1>2. \A y \in S \ {e, c, top} : n2[y].balance = n[y].balance
  BY <1>0 DEF Twice, Linked
<1>3. ASSUME NEW x \in S \ {e, c, top}, NEW s \in Side
      PROVE  IF n[x][s] = e THEN n2[x][s] = top ELSE n2[x][s] = n[x][s] /\ n[x][s] \notin {e, c, top}
  <2>1. n2[x][s] = IF n[x][s] = e THEN top ELSE m[x][s]
    BY <1>0 DEF Linked
  <2>2. m[x][s] = n[x][s]
    BY <1>0 DEF Twice
  <2>3. n[x][s] # c
    BY <1>1, OneLink
  <2>4. n[x][s] # top
    BY <1>1, OneLink
  <2> QED BY <2>1, <2>2, <2>3, <2>4
<1> QED BY <1>2, <1>3 DEF Elsewhere, Grafted

(* A double rotation of a subtree two levels out of balance levels it.       *)
LEMMA TwiceSound ==
  ASSUME NEW n, NEW r, NEW S, NEW sub, SearchTree(n, r, S, sub), NEW heavy \in Side,
         NEW light, NEW e \in S, NEW c \in S, NEW top \in S, NEW p, NEW q, NEW o, NEW l, NEW P,
         NEW m, NEW n2, NEW r2, NEW h, Heights(h), \A x \in S \ {e} : Even(n, h, x, "left", 0),
         NEW k \in Nat, h[l] = k, h[c] = k + 2, NEW g, g = Sign(heavy), n[c].balance \notin {0, g},
         NEW loc, NEW side, Hangs(n, r, S, e, loc, side)
  PROVE  /\ TwiceNames(n, heavy, light, e, c, top, p, q, o, l, P)
         /\ Twice(m, n, S, e, c, top, p, q, heavy, light)
         /\ Linked(n2, r2, m, n, r, S, e, top)
         => Rotated(n2, r2, S, e, top, h, sub, k, g, n[c].balance, loc, side)
<1>0. SUFFICES ASSUME TwiceNames(n, heavy, light, e, c, top, p, q, o, l, P),
                      Twice(m, n, S, e, c, top, p, q, heavy, light),
                      Linked(n2, r2, m, n, r, S, e, top)
               PROVE  Rotated(n2, r2, S, e, top, h, sub, k, g, n[c].balance, loc, side)
  OBVIOUS
<1>1. NULL \notin S /\ S \subseteq Elem /\ FieldsOf(n, S)
  BY NullAssumption DEF SearchTree, Shaped, FieldsOf
<1>2. light = Other(heavy)
  BY <1>0 DEF TwiceNames
<1>3. n[e][heavy] = c /\ n[c][light] = top /\ n[e][light] = l
  BY <1>0 DEF TwiceNames
<1>4. n[top][heavy] = p /\ n[top][light] = q /\ n[c][heavy] = o
  BY <1>0 DEF TwiceNames
<1>5. light \in Side /\ light # heavy /\ heavy = Other(light)
  BY <1>2, SideFacts
<1>6. AroundTwiceFacts(r, S, e, c, top, p, q, o, l, P)
  BY <1>0, AroundTwiceNamed
<1>7. e # c /\ top # e /\ top # c /\ p \notin {e, c, top} /\ q \notin {e, c, top}
      /\ o \notin {e, c, top} /\ l \notin {e, c, top}
  BY <1>6 DEF AroundTwiceFacts
<1>8. PICK sub2 : SearchTree(n2, r2, S, sub2) /\ sub2[top] = sub[e]
  BY <1>0, TwiceSearch
<1>9. p \in Pointer /\ q \in Pointer /\ o \in Pointer /\ l \in Pointer
      /\ e \in Pointer /\ c \in Pointer /\ top \in Pointer
  BY <1>1, <1>3, <1>4, <1>5, FieldTypes DEF Pointer
<1>10. PICK bal \in Int : bal = n[top].balance
  BY <1>1, FieldTypes
<1>11. PICK low \in Int : low = n[c].balance
  BY <1>1, FieldTypes
<1>12. PICK i \in Nat : i = h[o]
  BY <1>9 DEF Heights
<1>13. PICK j \in Nat : j = h[top]
  BY <1>9 DEF Heights
<1>14. PICK a \in Nat : a = h[p]
  BY <1>9 DEF Heights
<1>15. PICK b \in Nat : b = h[q]
  BY <1>9 DEF Heights
<1>16. Fits(k + 2, low, i, j, heavy)
  <2>1. Even(n, h, c, heavy, 0)
    BY <1>1, <1>7, EvenBothWays
  <2>2. i - 0 = i
    OBVIOUS
  <2> QED BY <1>2, <1>3, <1>4, <1>11, <1>12, <1>13, <2>1, <2>2 DEF Even
<1>17. Fits(j, bal, a, b, heavy)
  <2>1. Even(n, h, top, heavy, 0)
    BY <1>1, <1>7, EvenBothWays
  <2>2. a - 0 = a
    OBVIOUS
  <2> QED BY <1>2, <1>4, <1>10, <1>13, <1>14, <1>15, <2>1, <2>2 DEF Even
<1>18a. TwiceFit(heavy, light, k, a, b, i, bal, low)
  <2>1. PICK w : w = k + 2
    OBVIOUS
  <2>2. low \notin {0, g}
    BY <1>11
  <2>3. Fits(w, low, i, j, heavy)
    BY <1>16, <2>1
  <2> QED BY <1>2, <1>17, <2>1, <2>2, <2>3, TwiceFits
<1>18. /\ Fits(k + 1, Half(heavy, bal), i, a, heavy)
       /\ Fits(k + 1, Half(light, bal), b, k, heavy)
       /\ Fits(k + 2, 0, k + 1, k + 1, heavy)
  BY <1>18a DEF TwiceFit
<1>18b. low # 0
  BY <1>18a DEF TwiceFit
<1>19. PICK h2 : h2 = [x \in Pointer |-> IF x = top THEN k + 2 ELSE IF x = c \/ x = e THEN k + 1 ELSE h[x]]
  OBVIOUS
<1>20. Heights(h2)
  BY <1>1, <1>19 DEF Heights, Pointer
<1>21. h2[top] = k + 2 /\ h2[c] = k + 1 /\ h2[e] = k + 1 /\ \A x \in Pointer \ {e, c, top} : h2[x] = h[x]
  BY <1>7, <1>9, <1>19
<1>22. h2[o] = i /\ h2[p] = a /\ h2[q] = b /\ h2[l] = k
  BY <1>7, <1>9, <1>12, <1>14, <1>15, <1>21
<1>23. PICK m1 : OnceLinks(m1, r, n, r, S, c, top, p, q, o, e, light, heavy)
  BY <1>0, FirstHalfNamed
<1>24. OnceLinks(n2, r2, m1, r, S, e, top, q, c, l, P, heavy, light)
  BY <1>0, <1>23, SecondHalf
<1>25. n2[e][heavy] = q /\ n2[e][light] = l /\ n2[top][light] = e /\ n2[top][heavy] = c
  BY <1>24, OnceLinkFacts
<1>26. n2[c][light] = p /\ n2[c][heavy] = o
  <2>1. \A s \in Side : m[c][s] = IF s = light THEN p ELSE n[c][s]
    BY <1>0, <1>7 DEF Twice
  <2>2. \A s \in Side : n2[c][s] = IF n[c][s] = e THEN top ELSE m[c][s]
    BY <1>0 DEF Linked
  <2> QED BY <1>3, <1>4, <1>5, <1>7, <2>1, <2>2
<1>27. n2[c].balance = Half(heavy, bal) /\ n2[e].balance = Half(light, bal) /\ n2[top].balance = 0
  BY <1>0, <1>7, <1>10 DEF Linked, Twice
<1>28. FieldsOf(n2, S)
  BY <1>0 DEF Linked
<1>29. Even(n2, h2, e, "left", 0)
  <2>1. b - 0 = b
    OBVIOUS
  <2>2. Even(n2, h2, e, heavy, 0)
    BY <1>2, <1>18, <1>21, <1>22, <1>25, <1>27, <2>1 DEF Even
  <2> QED BY <1>20, <1>28, <2>2, EvenBothWays
<1>30. Even(n2, h2, c, "left", 0)
  <2>1. i - 0 = i
    OBVIOUS
  <2>2. Even(n2, h2, c, heavy, 0)
    BY <1>2, <1>18, <1>21, <1>22, <1>26, <1>27, <2>1 DEF Even
  <2> QED BY <1>20, <1>28, <2>2, EvenBothWays
<1>31. Even(n2, h2, top, "left", 0)
  <2>1. (k + 1) - 0 = k + 1
    OBVIOUS
  <2>2. Even(n2, h2, top, heavy, 0)
    BY <1>2, <1>18, <1>21, <1>22, <1>25, <1>27, <2>1 DEF Even
  <2> QED BY <1>20, <1>28, <2>2, EvenBothWays
<1>32. PICK M : M = {e, c, top}
  OBVIOUS
<1>33. loc \notin M
  <2>1. CASE loc = NULL
    BY <1>1, <1>32, <2>1
  <2>2. CASE loc # NULL
    <3>1. loc \in S /\ side \in Side /\ n[loc][side] = e
      BY <2>2 DEF Hangs
    <3>2. e \in sub[e] /\ loc \notin sub[e]
      BY <1>1, <3>1, KidFacts
    <3>3. sub[c] \subseteq sub[e] /\ c \in sub[c]
      BY <1>1, <1>3, KidFacts
    <3>4. sub[top] \subseteq sub[c] /\ top \in sub[top]
      <4>1. top # NULL
        BY <1>1
      <4> QED BY <1>3, <1>5, <4>1, KidFacts
    <3> QED BY <1>32, <3>2, <3>3, <3>4
  <2> QED BY <2>1, <2>2
<1>34. Elsewhere(n2, n, S, M, e, top) /\ \A y \in S \ M : n2[y].balance = n[y].balance
  <2>1. Grafted(n2, n, S, {e, c, top}, e, top)
    BY <1>0, <1>3, <1>5, TwiceGrafted
  <2> QED BY <1>32, <2>1 DEF Grafted
<1>35. LevelBut(n2, S, h2, loc, side, h2[top] - h[e])
  <2>1. e \in M /\ top \in M /\ M \subseteq S
    BY <1>32
  <2>2. \A x \in Pointer \ M : h2[x] = h[x]
    BY <1>21, <1>32
  <2>3. \A x \in S \ M : Even(n, h, x, "left", 0)
    BY <1>32
  <2>4. \A x \in M : Even(n2, h2, x, "left", 0)
    BY <1>29, <1>30, <1>31, <1>32
  <2> QED BY <1>20, <1>28, <1>33, <1>34, <2>1, <2>2, <2>3, <2>4, OutsideLevel
<1>36. Topped(h2[top], n2[top].balance, n[c].balance, k, g)
  <2>1. Topped(k + 2, 0, low, k, g)
    BY <1>18b DEF Topped
  <2> QED BY <1>11, <1>21, <1>27, <2>1
<1> QED BY <1>8, <1>35, <1>36 DEF Rotated

(* What any rotation of e leaves to the one who links its top.               *)
RotateBasics(m, n, S, e, top) ==
  /\ top \in S /\ top # e /\ FieldsOf(m, S)
  /\ \A y \in Elem \ S : m[y] = n[y]
  /\ m[top].parent = n[e].parent
  /\ \A y \in S, s \in Side, z \in Side : n[y][s] = e => m[y][z] = n[y][z]

RotateSoundly(m, n, r, S, e, top, h, sub, k, g, low, loc, side) ==
  \A n2, r2 : Linked(n2, r2, m, n, r, S, e, top)
              => Rotated(n2, r2, S, e, top, h, sub, k, g, low, loc, side)

(* Rotate() of a child that leans to the heavy side or neither way.          *)
LEMMA RotateOnceSound ==
  ASSUME NEW n, NEW r, NEW S, NEW sub, SearchTree(n, r, S, sub), NEW heavy \in Side,
         NEW e \in S, NEW c \in S, c = n[e][heavy],
         NEW h, Heights(h), \A x \in S \ {e} : Even(n, h, x, "left", 0),
         NEW k \in Nat, h[n[e][Other(heavy)]] = k, h[c] = k + 2,
         NEW g, g = Sign(heavy), n[c].balance \in {0, g}, NEW loc, NEW side, Hangs(n, r, S, e, loc, side),
         NEW m, m = Rotate(n, e, heavy), NewTop(n, e, heavy) = c
  PROVE  /\ RotateBasics(m, n, S, e, c)
         /\ RotateSoundly(m, n, r, S, e, c, h, sub, k, g, n[c].balance, loc, side)
<1>1. NULL \notin S /\ FieldsOf(n, S)
  BY NullAssumption DEF SearchTree, Shaped, FieldsOf
<1>2. PICK light \in Side : light = Other(heavy)
  BY SideFacts
<1>3. PICK q : q = n[c][light]
  OBVIOUS
<1>4. PICK o : o = n[c][heavy]
  OBVIOUS
<1>5. PICK l : l = n[e][light]
  OBVIOUS
<1>6. PICK P : P = n[e].parent
  OBVIOUS
<1>7. c # e /\ q # e /\ q # c /\ o # e /\ o # c /\ l # e /\ l # c
  BY <1>2, <1>3, <1>4, <1>5, <1>6, AroundOnce
<1>8. q \in S \union {NULL}
  BY <1>2, <1>3, KidFacts
<1>9. Once(m, n, S, e, c, q, heavy, light)
  BY <1>1, <1>2, <1>3, <1>7, <1>8, RotateToOnce
<1>10. RotateBasics(m, n, S, e, c)
  <2>1. FieldsOf(m, S) /\ \A y \in Elem \ S : m[y] = n[y]
    BY <1>9 DEF Once
  <2>2. m[c].parent = n[e].parent
    BY <1>7, <1>9 DEF Once
  <2>3. ASSUME NEW y \in S, NEW s \in Side, NEW z \in Side, n[y][s] = e
        PROVE  m[y][z] = n[y][z]
    <3>1. y # e
      BY <1>1, <2>3, KidFacts
    <3>2. y # c
      <4> SUFFICES ASSUME y = c
                   PROVE  FALSE
        OBVIOUS
      <4>1. n[e].parent = c
        BY <1>1, <2>3, KidFacts
      <4>2. P # e /\ P # c
        BY <1>2, <1>3, <1>4, <1>5, <1>6, AroundOnce
      <4> QED BY <1>6, <4>1, <4>2
    <3> QED BY <1>9, <3>1, <3>2 DEF Once
  <2> QED BY <1>7, <2>1, <2>2, <2>3 DEF RotateBasics
<1>11. ASSUME NEW n2, NEW r2, Linked(n2, r2, m, n, r, S, e, c)
       PROVE  Rotated(n2, r2, S, e, c, h, sub, k, g, n[c].balance, loc, side)
  <2>1. h[l] = k
    BY <1>2, <1>5
  <2> QED BY <1>2, <1>3, <1>4, <1>5, <1>6, <1>9, <1>11, <2>1, OnceSound
<1> QED BY <1>10, <1>11 DEF RotateSoundly

(* Rotate() of a child that leans the other way.                             *)
LEMMA RotateTwiceSound ==
  ASSUME NEW n, NEW r, NEW S, NEW sub, SearchTree(n, r, S, sub), NEW heavy \in Side,
         NEW e \in S, NEW c \in S, c = n[e][heavy],
         NEW top \in S, top = n[c][Other(heavy)],
         NEW h, Heights(h), \A x \in S \ {e} : Even(n, h, x, "left", 0),
         NEW k \in Nat, h[n[e][Other(heavy)]] = k, h[c] = k + 2,
         NEW g, g = Sign(heavy), n[c].balance \notin {0, g}, NEW loc, NEW side, Hangs(n, r, S, e, loc, side),
         NEW m, m = Rotate(n, e, heavy), NewTop(n, e, heavy) = top
  PROVE  /\ RotateBasics(m, n, S, e, top)
         /\ RotateSoundly(m, n, r, S, e, top, h, sub, k, g, n[c].balance, loc, side)
<1>1. NULL \notin S /\ FieldsOf(n, S)
  BY NullAssumption DEF SearchTree, Shaped, FieldsOf
<1>2. PICK light \in Side : light = Other(heavy)
  BY SideFacts
<1>3. PICK p : p = n[top][heavy]
  OBVIOUS
<1>4. PICK q : q = n[top][light]
  OBVIOUS
<1>5. PICK o : o = n[c][heavy]
  OBVIOUS
<1>6. PICK l : l = n[e][light]
  OBVIOUS
<1>7. PICK P : P = n[e].parent
  OBVIOUS
<1>8. TwiceNames(n, heavy, light, e, c, top, p, q, o, l, P)
  BY <1>2, <1>3, <1>4, <1>5, <1>6, <1>7 DEF TwiceNames
<1>9. AroundTwiceFacts(r, S, e, c, top, p, q, o, l, P)
  BY <1>8, AroundTwiceNamed
<1>10. /\ e # c /\ top # e /\ top # c
       /\ p # e /\ p # c /\ p # top /\ q # e /\ q # c /\ q # top
       /\ (p = q => p = NULL)
  BY <1>9 DEF AroundTwiceFacts
<1>11. p \in S \union {NULL} /\ q \in S \union {NULL}
  BY <1>9 DEF AroundTwiceFacts
<1>12. Twice(m, n, S, e, c, top, p, q, heavy, light)
  BY <1>1, <1>2, <1>3, <1>4, <1>10, <1>11, RotateToTwice
<1>13. RotateBasics(m, n, S, e, top)
  <2>1. FieldsOf(m, S) /\ \A y \in Elem \ S : m[y] = n[y]
    BY <1>12 DEF Twice
  <2>2. m[top].parent = n[e].parent
    BY <1>10, <1>12 DEF Twice
  <2>3. ASSUME NEW y \in S, NEW s \in Side, NEW z \in Side, n[y][s] = e
        PROVE  m[y][z] = n[y][z]
    <3>1. y # e
      BY <1>1, <2>3, KidFacts
    <3>2. n[e].parent = y
      BY <1>1, <2>3, KidFacts
    <3>3. n[c].parent = e
      BY <1>1, KidFacts
    <3>4. n[c][light] = top /\ n[c][heavy] = o
      BY <1>2, <1>5
    <3>5. sub[e] \subseteq sub[y] /\ y \notin sub[e]
      BY <2>3, KidFacts
    <3>6. sub[c] \subseteq sub[e] /\ c \in sub[c]
      BY <1>1, KidFacts
    <3>7. sub[top] \subseteq sub[c] /\ top \in sub[top]
      BY <1>1, <1>2, <3>4, KidFacts
    <3>8. y # c /\ y # top
      BY <3>5, <3>6, <3>7
    <3> QED BY <1>12, <3>1, <3>8 DEF Twice
  <2> QED BY <1>10, <2>1, <2>2, <2>3 DEF RotateBasics
<1>14. ASSUME NEW n2, NEW r2, Linked(n2, r2, m, n, r, S, e, top)
       PROVE  Rotated(n2, r2, S, e, top, h, sub, k, g, n[c].balance, loc, side)
  <2>1. h[l] = k
    BY <1>2, <1>6
  <2> QED BY <1>8, <1>12, <1>14, <2>1, TwiceSound
<1> QED BY <1>13, <1>14 DEF RotateSoundly

(* rotate_left() and rotate_right() keep the search tree and level the       *)
(* subtree.                                                                  *)
LEMMA RotateSound ==
  ASSUME NEW n, NEW r, NEW S, NEW sub, SearchTree(n, r, S, sub), NEW heavy \in Side,
         NEW e \in S, NEW c, c = n[e][heavy],
         NEW h, Heights(h), \A x \in S \ {e} : Even(n, h, x, "left", 0),
         NEW k \in Nat, h[n[e][Other(heavy)]] = k, h[c] = k + 2,
         NEW g, g = Sign(heavy), NEW loc, NEW side, Hangs(n, r, S, e, loc, side),
         NEW m, m = Rotate(n, e, heavy), NEW top, top = NewTop(n, e, heavy)
  PROVE  /\ RotateBasics(m, n, S, e, top)
         /\ RotateSoundly(m, n, r, S, e, top, h, sub, k, g, n[c].balance, loc, side)
<1>1. NULL \notin S /\ FieldsOf(n, S)
  BY NullAssumption DEF SearchTree, Shaped, FieldsOf
<1>2. c \in S
  BY KidFacts DEF Heights
<1>3. c # e
  BY <1>1, KidFacts
<1>4. PICK light \in Side : light = Other(heavy)
  BY SideFacts
<1>5. n[c].balance \in Int /\ n[c][light] \in Pointer /\ n[c][heavy] \in Pointer
  BY <1>1, <1>2, <1>4, FieldTypes
<1>6. PICK a \in Nat : a = h[n[c][heavy]]
  BY <1>5 DEF Heights
<1>7. PICK b \in Nat : b = h[n[c][light]]
  BY <1>5 DEF Heights
<1>8. PICK bal \in Int : bal = n[c].balance
  BY <1>5
<1>9. Fits(k + 2, bal, a, b, heavy)
  <2>1. Even(n, h, c, heavy, 0)
    BY <1>1, <1>2, <1>3, EvenBothWays
  <2>2. a - 0 = a
    OBVIOUS
  <2> QED BY <1>4, <1>6, <1>7, <1>8, <2>1, <2>2 DEF Even
<1>10. bal \in {0, g} <=> g * bal >= 0
  <2>1. bal \in -1..1
    BY <1>9 DEF Fits
  <2>2. bal = -1 \/ bal = 0 \/ bal = 1
    BY <2>1
  <2> QED BY <2>2 DEF Sign
<1>11. CASE bal \in {0, g}
  <2>1. top = c
    BY <1>8, <1>10, <1>11 DEF NewTop
  <2> QED BY <1>2, <1>8, <1>11, <2>1, RotateOnceSound
<1>12. CASE bal \notin {0, g}
  <2>1. top = n[c][light]
    BY <1>4, <1>8, <1>10, <1>12 DEF NewTop
  <2>2. b # 0
    <3>1. CASE heavy = "left"
      BY <1>9, <1>12, <3>1 DEF Fits, Higher, Sign
    <3>2. CASE heavy = "right"
      BY <1>9, <1>12, <3>2 DEF Fits, Higher, Sign
    <3> QED BY <3>1, <3>2 DEF Side
  <2>3. top \in S
    <3>1. top # NULL
      BY <1>7, <2>1, <2>2 DEF Heights
    <3> QED BY <1>2, <1>4, <2>1, <3>1, KidFacts
  <2> QED BY <1>2, <1>4, <1>8, <1>12, <2>1, <2>3, RotateTwiceSound
<1> QED BY <1>11, <1>12

------------------------------------------------------------------------------
(* Where a subtree hangs, and how the rotated one is hung there again.       *)

Record(r, sz, n) == [root |-> r, size |-> sz, node |-> n]
SideOf(n, loc, e) == IF n[loc].right = e THEN "right" ELSE "left"

(* The fields of the record that stands for a tree.                          *)
LEMMA RecordFacts ==
  ASSUME NEW r, NEW sz, NEW n
  PROVE  /\ Record(r, sz, n).root = r /\ Record(r, sz, n).size = sz /\ Record(r, sz, n).node = n
         /\ \A m : Update(Record(r, sz, n), m) = Record(r, sz, m)
         /\ \A x : [Record(r, sz, n) EXCEPT !.root = x] = Record(x, sz, n)
  BY DEF Record, Update

(* The parent pointer says where a node hangs.                               *)
LEMMA HangsFromParent ==
  ASSUME NEW n, NEW r, NEW S, NEW sub, SearchTree(n, r, S, sub), NEW e \in S, NEW loc, loc = n[e].parent
  PROVE  /\ Hangs(n, r, S, e, loc, SideOf(n, loc, e))
         /\ e # r => /\ loc \in S /\ SideOf(n, loc, e) \in Side /\ n[loc][SideOf(n, loc, e)] = e
                     /\ SideOf(n, loc, e) = IF n[loc].left = e THEN "left" ELSE "right"
<1>1. NULL \notin S
  BY NullAssumption DEF SearchTree, Shaped, FieldsOf
<1>2. CASE e = r
  <2>1. loc = NULL
    BY <1>1, <1>2 DEF SearchTree, Shaped
  <2> QED BY <1>2, <2>1 DEF Hangs
<1>3. CASE e # r
  <2>1. loc \in S /\ \E s \in Side : n[loc][s] = e
    BY <1>3 DEF SearchTree, Shaped
  <2>2. PICK s \in Side : n[loc][s] = e
    BY <2>1
  <2>3. "left" \in Side /\ "right" \in Side
    BY DEF Side
  <2>4. n[loc]["right"] = e /\ n[loc]["left"] = e => FALSE
    BY <1>1, <2>1, <2>3, OneLink
  <2>5. s = SideOf(n, loc, e) /\ s = IF n[loc].left = e THEN "left" ELSE "right"
    <3>1. CASE s = "left"
      BY <2>2, <2>4, <3>1 DEF SideOf
    <3>2. CASE s = "right"
      BY <2>2, <2>4, <3>2 DEF SideOf
    <3> QED BY <3>1, <3>2 DEF Side
  <2> QED BY <1>1, <2>1, <2>2, <2>5 DEF Hangs
<1> QED BY <1>2, <1>3

(* It hangs from one place only.                                             *)
LEMMA HangsOnce ==
  ASSUME NEW n, NEW r, NEW S, NEW sub, SearchTree(n, r, S, sub), NEW e \in S,
         NEW loc, NEW side, Hangs(n, r, S, e, loc, side),
         NEW loc2, NEW side2, Hangs(n, r, S, e, loc2, side2)
  PROVE  loc = loc2 /\ (loc # NULL => side = side2)
<1>1. NULL \notin S
  BY NullAssumption DEF SearchTree, Shaped, FieldsOf
<1>2. CASE loc2 = NULL
  <2>1. e = r
    BY <1>2 DEF Hangs
  <2>2. loc = NULL
    <3> SUFFICES ASSUME loc # NULL
                 PROVE  FALSE
      OBVIOUS
    <3>1. loc \in S /\ side \in Side /\ n[loc][side] = e
      BY DEF Hangs
    <3> QED BY <1>1, <2>1, <3>1, KidFacts
  <2> QED BY <1>2, <2>2
<1>3. CASE loc2 # NULL
  <2>1. loc2 \in S /\ side2 \in Side /\ n[loc2][side2] = e
    BY <1>3 DEF Hangs
  <2> QED BY <2>1, OnlyLink
<1> QED BY <1>2, <1>3

(* A tree is level at every node where it is level at the one left open.     *)
LEMMA LevelWhole ==
  ASSUME NEW n, NEW S, FieldsOf(n, S), NEW h, NEW side \in Side
  PROVE  /\ \A z, d, z2, d2 : LevelBut(n, S, h, NULL, z, d) => LevelBut(n, S, h, NULL, z2, d2)
         /\ \A loc, z : LevelBut(n, S, h, NULL, z, 0) => LevelBut(n, S, h, loc, side, 0)
         /\ \A loc, z : LevelBut(n, S, h, loc, side, 0) => LevelBut(n, S, h, NULL, z, 0)
<1>1. NULL \notin S
  BY NullAssumption DEF FieldsOf
<1>2. ASSUME NEW z, NEW d, NEW z2, NEW d2, LevelBut(n, S, h, NULL, z, d)
      PROVE  LevelBut(n, S, h, NULL, z2, d2)
  BY <1>1, <1>2 DEF LevelBut
<1>3. ASSUME NEW loc, NEW z, LevelBut(n, S, h, NULL, z, 0)
      PROVE  LevelBut(n, S, h, loc, side, 0)
  <2>1. Heights(h) /\ \A x \in S : Even(n, h, x, "left", 0)
    BY <1>1, <1>3 DEF LevelBut
  <2>2. \A x \in S : Even(n, h, x, side, 0)
    BY <2>1, EvenBothWays
  <2> QED BY <2>1, <2>2 DEF LevelBut
<1>4. ASSUME NEW loc, NEW z, LevelBut(n, S, h, loc, side, 0)
      PROVE  LevelBut(n, S, h, NULL, z, 0)
  <2>1. Heights(h)
    BY <1>4 DEF LevelBut
  <2>2. ASSUME NEW x \in S
        PROVE  Even(n, h, x, "left", 0)
    <3>1. Even(n, h, x, side, 0) \/ Even(n, h, x, "left", 0)
      BY <1>4 DEF LevelBut
    <3> QED BY <2>1, <3>1, EvenBothWays
  <2> QED BY <1>1, <2>1, <2>2 DEF LevelBut
<1> QED BY <1>2, <1>3, <1>4

(* Everything is level but for the link to x, whose height grew by d.        *)
Pending(n, r, S, h, x, d) ==
  \E loc, side : Hangs(n, r, S, x, loc, side) /\ LevelBut(n, S, h, loc, side, d)

(* The same where the change of height is said of the subtree.               *)
LEMMA PendingAt ==
  ASSUME NEW n, NEW r, NEW S, NEW sub, SearchTree(n, r, S, sub), NEW e \in S, NEW h, NEW d,
         Pending(n, r, S, h, e, d), NEW loc, NEW side, Hangs(n, r, S, e, loc, side)
  PROVE  LevelBut(n, S, h, loc, side, d)
<1>1. PICK loc2, side2 : Hangs(n, r, S, e, loc2, side2) /\ LevelBut(n, S, h, loc2, side2, d)
  BY DEF Pending
<1>2. loc = loc2 /\ (loc # NULL => side = side2)
  BY <1>1, HangsOnce
<1>3. FieldsOf(n, S) /\ "left" \in Side
  BY DEF SearchTree, Shaped, Side
<1>4. CASE loc # NULL
  BY <1>1, <1>2, <1>4
<1>5. CASE loc = NULL
  BY <1>1, <1>2, <1>3, <1>5, LevelWhole
<1> QED BY <1>4, <1>5

(* Ploc is the link that hangs e.                                            *)
Points(ploc, loc, side) == ploc = IF loc = NULL THEN <<>> ELSE <<loc, side>>

(* Hanging the new top where the old one was.                                *)
LEMMA Linking ==
  ASSUME NEW n, NEW r, NEW S, NEW sub, SearchTree(n, r, S, sub), NEW e \in S, NEW top, NEW m,
         RotateBasics(m, n, S, e, top), NEW loc, NEW side, Hangs(n, r, S, e, loc, side)
  PROVE  /\ loc = NULL => Linked(m, top, m, n, r, S, e, top)
         /\ loc # NULL => Linked(With(m, loc, side, top), r, m, n, r, S, e, top)
<1>1. NULL \notin S /\ FieldsOf(n, S) /\ S \subseteq Elem
  BY NullAssumption DEF SearchTree, Shaped, FieldsOf
<1>2. FieldsOf(m, S) /\ top \in S
  BY DEF RotateBasics
<1>3. CASE loc = NULL
  <2>1. e = r
    BY <1>3 DEF Hangs
  <2>2. \A y \in S, s \in Side : n[y][s] # e
    BY <1>1, <2>1, KidFacts
  <2> QED BY <1>2, <1>3, <2>1, <2>2 DEF Linked
<1>4. CASE loc # NULL
  <2>1. loc \in S /\ side \in Side /\ n[loc][side] = e
    BY <1>4 DEF Hangs
  <2>2. e # r
    BY <1>1, <2>1, KidFacts
  <2>3. side \in {"left", "right", "parent"} /\ top \in Pointer
    BY <1>1, <1>2, <2>1 DEF Side, Pointer
  <2>4. Writes(With(m, loc, side, top), m, S, loc, side, top)
    BY <1>2, <2>1, <2>3, WithWrites
  <2>5. PICK n2 : n2 = With(m, loc, side, top)
    OBVIOUS
  <2>6. FieldsOf(n2, S) /\ \A y \in Elem \ S : n2[y] = m[y]
    BY <2>4, <2>5 DEF Writes
  <2>7. \A y \in S, g \in Field : n2[y][g] = IF y = loc /\ g = side THEN top ELSE m[y][g]
    BY <2>4, <2>5 DEF Writes
  <2>8. ASSUME NEW y \in S, NEW s \in Side
        PROVE  n2[y][s] = IF n[y][s] = e THEN top ELSE m[y][s]
    <3>1. n[y][s] = e => y = loc /\ s = side
      BY OnlyLink
    <3>2. s \in Field
      BY SideFacts
    <3> QED BY <2>1, <2>7, <3>1, <3>2
  <2>9. ASSUME NEW y \in S
        PROVE  n2[y].parent = m[y].parent /\ n2[y].balance = m[y].balance /\ n2[y].key = m[y].key
    <3>1. side # "parent" /\ side # "balance" /\ side # "key"
      BY <2>1, SideFacts
    <3>2. "parent" \in Field /\ "balance" \in Field /\ "key" \in Field
      BY DEF Field
    <3> QED BY <2>7, <3>1, <3>2
  <2>10. Linked(n2, r, m, n, r, S, e, top)
    BY <2>2, <2>6, <2>8, <2>9 DEF Linked
  <2> QED BY <1>4, <2>5, <2>10
<1> QED BY <1>3, <1>4

(* The two ways of the code to hang the top of a rotated subtree u is m with *)
(* top in the place that e has in n.                                         *)
TopLinked(u, sz, m, n, r, S, e, top) ==
  \E n2, r2 : u = Record(r2, sz, n2) /\ Linked(n2, r2, m, n, r, S, e, top)

(* *ploc = top, as put() relinks.                                            *)
LEMMA PlaceLinked ==
  ASSUME NEW n, NEW r, NEW S, NEW sub, SearchTree(n, r, S, sub), NEW e \in S, NEW top, NEW m, NEW sz,
         RotateBasics(m, n, S, e, top), NEW loc, NEW side, Hangs(n, r, S, e, loc, side),
         NEW ploc, Points(ploc, loc, side)
  PROVE  TopLinked(Place(Record(r, sz, m), ploc, top), sz, m, n, r, S, e, top)
<1>1. CASE loc = NULL
  <2>1. Place(Record(r, sz, m), ploc, top) = Record(top, sz, m)
    BY <1>1, RecordFacts DEF Place, Points
  <2> QED BY <1>1, <2>1, Linking DEF TopLinked
<1>2. CASE loc # NULL
  <2>1. ploc = <<loc, side>> /\ ploc # <<>> /\ ploc[1] = loc /\ ploc[2] = side
    BY <1>2 DEF Points
  <2>2. Place(Record(r, sz, m), ploc, top) = Record(r, sz, With(m, loc, side, top))
    BY <2>1, RecordFacts DEF Place
  <2> QED BY <1>2, <2>2, Linking DEF TopLinked
<1> QED BY <1>1, <1>2

(* Relinking through the parent pointer, as lighten does.                    *)
LEMMA RelinkLinked ==
  ASSUME NEW n, NEW r, NEW S, NEW sub, SearchTree(n, r, S, sub), NEW e \in S, NEW top, NEW m, NEW sz,
         RotateBasics(m, n, S, e, top)
  PROVE  TopLinked(Relink(Record(r, sz, m), e, top), sz, m, n, r, S, e, top)
<1>1. PICK loc : loc = n[e].parent
  OBVIOUS
<1>2. PICK side : side = SideOf(n, loc, e)
  OBVIOUS
<1>3. Hangs(n, r, S, e, loc, side)
  BY <1>1, <1>2, HangsFromParent
<1>4. NULL \notin S
  BY NullAssumption DEF SearchTree, Shaped, FieldsOf
<1>5. CASE e = r
  <2>1. loc = NULL
    BY <1>1, <1>4, <1>5 DEF SearchTree, Shaped
  <2>2. Relink(Record(r, sz, m), e, top) = Record(top, sz, m)
    BY <1>5, RecordFacts DEF Relink
  <2> QED BY <1>3, <2>1, <2>2, Linking DEF TopLinked
<1>6. CASE e # r
  <2>1. loc \in S /\ side \in Side /\ n[loc][side] = e
    BY <1>1, <1>2, <1>6, HangsFromParent
  <2>2. m[loc]["right"] = n[loc]["right"]
    BY <2>1 DEF RotateBasics, Side
  <2>3. side = IF m[loc].right = e THEN "right" ELSE "left"
    BY <1>2, <2>2 DEF SideOf
  <2>4. m[top].parent = loc
    BY <1>1 DEF RotateBasics
  <2>5. Relink(Record(r, sz, m), e, top) = Record(r, sz, With(m, loc, side, top))
    BY <1>6, <2>3, <2>4, RecordFacts DEF Relink
  <2> QED BY <1>3, <1>4, <2>1, <2>5, Linking DEF TopLinked
<1> QED BY <1>5, <1>6

(* n and n2 differ in balances and values only.                              *)
SameLinks(n2, n, S) ==
  /\ FieldsOf(n2, S)
  /\ \A y \in Elem \ S : n2[y] = n[y]
  /\ \A y \in S : /\ \A s \in Side : n2[y][s] = n[y][s]
                  /\ n2[y].parent = n[y].parent /\ n2[y].key = n[y].key

(* A search tree does not depend on the balances.                            *)
LEMMA SearchSame ==
  ASSUME NEW n, NEW r, NEW S, NEW sub, SearchTree(n, r, S, sub), NEW n2, SameLinks(n2, n, S)
  PROVE  SearchTree(n2, r, S, sub)
<1>1. FieldsOf(n2, S) /\ NULL \notin S
  BY NullAssumption DEF SameLinks, FieldsOf
<1>2. \A y \in S, s \in Side : n2[y][s] = n[y][s]
  BY DEF SameLinks
<1>3. \A y \in S : n2[y].parent = n[y].parent /\ n2[y].key = n[y].key
  BY DEF SameLinks
<1>4. Shaped(n2, r, S)
  <2>1. r \in S \union {NULL} /\ (r # NULL => n[r].parent = NULL)
    BY DEF SearchTree, Shaped
  <2>2. \A x \in S, s \in Side : n[x][s] # NULL => n[x][s] \in S /\ n[n[x][s]].parent = x
    BY DEF SearchTree, Shaped
  <2>3. ASSUME NEW x \in S, NEW s \in Side, n2[x][s] # NULL
        PROVE  n2[x][s] \in S /\ n2[n2[x][s]].parent = x
    BY <1>2, <1>3, <2>2, <2>3
  <2>4. ASSUME NEW x \in S \ {r}
        PROVE  n2[x].parent \in S /\ \E s \in Side : n2[n2[x].parent][s] = x
    <3>1. n[x].parent \in S /\ \E s \in Side : n[n[x].parent][s] = x
      BY DEF SearchTree, Shaped
    <3> QED BY <1>2, <1>3, <3>1
  <2> QED BY <1>1, <1>3, <2>1, <2>3, <2>4 DEF Shaped
<1>5. Nested(n2, r, S, sub)
  <2>1. \A x \in S : NestedAt(n2, sub, x)
    <3> SUFFICES ASSUME NEW x \in S, NEW s \in Side
                 PROVE  sub[x] = {x} \union sub[n2[x][s]] \union sub[n2[x][Other(s)]]
      BY DEF NestedAt
    <3>1. Other(s) \in Side
      BY SideFacts
    <3>2. sub[x] = {x} \union sub[n[x][s]] \union sub[n[x][Other(s)]]
      BY DEF SearchTree, Nested, NestedAt
    <3> QED BY <1>2, <3>1, <3>2
  <2> QED BY <2>1 DEF SearchTree, Nested
<1>6. Ordered(n2, S, sub)
  <2> SUFFICES ASSUME NEW x \in S, NEW s \in Side, NEW z \in sub[n2[x][s]]
               PROVE  Beyond(n2, s, z, x)
    BY DEF Ordered, OrderedAt
  <2>1. z \in S /\ Beyond(n, s, z, x)
    BY <1>2, KidFacts
  <2> QED BY <1>3, <2>1, BeyondSame
<1> QED BY <1>4, <1>5, <1>6 DEF SearchTree

(* Tipping a balance leaves the links.                                       *)
LEMMA TipSame ==
  ASSUME NEW n, NEW S, FieldsOf(n, S), NEW loc \in S, NEW by \in Int, NEW n2, n2 = Tip(n, loc, by)
  PROVE  /\ SameLinks(n2, n, S)
         /\ n2[loc].balance = n[loc].balance + by
         /\ \A y \in S \ {loc} : n2[y].balance = n[y].balance
<1>1. n[loc].balance + by \in Int
  BY FieldTypes
<1>2. Writes(n2, n, S, loc, "balance", n[loc].balance + by)
  BY <1>1, WithWritesBalance DEF Tip
<1>3. FieldsOf(n2, S) /\ \A y \in Elem \ S : n2[y] = n[y]
  BY <1>2 DEF Writes
<1>4. \A y \in S, g \in Field : n2[y][g] = IF y = loc /\ g = "balance" THEN n[loc].balance + by ELSE n[y][g]
  BY <1>2 DEF Writes
<1>5. ASSUME NEW y \in S, NEW s \in Side
      PROVE  n2[y][s] = n[y][s]
  BY <1>4, SideFacts
<1>6. "parent" \in Field /\ "balance" \in Field /\ "key" \in Field
  BY DEF Field
<1> QED BY <1>3, <1>4, <1>5, <1>6 DEF SameLinks

TipFit(v, bal, a, b, side, d, sb) ==
  /\ sb = a - b /\ sb \in -2..2
  /\ sb \notin {-2, 2} =>
       /\ Fits(1 + Higher(a, b), bal, a, b, side)
       /\ 1 + Higher(a, b) - v = IF d = 1 THEN (IF sb = 1 THEN 1 ELSE 0) ELSE (IF sb = 0 THEN -1 ELSE 0)
  /\ sb = 2 => d = 1 /\ v = b + 2 /\ a = b + 2
  /\ sb = -2 => d = -1 /\ v = a + 3 /\ b = a + 2
  /\ d = -1 /\ sb \notin {-2, 2} => sb \in {0, -1}

(* What a tipped balance says of the heights.                                *)
LEMMA TipFits ==
  ASSUME NEW side \in Side, NEW d \in {-1, 1}, NEW v, NEW bal \in Int, NEW a \in Nat, NEW b \in Nat,
         NEW by, by = IF d = 1 THEN Sign(side) ELSE -Sign(side), Fits(v, bal, a - d, b, side),
         NEW bal2, bal2 = bal + by, NEW sb, sb = Sign(side) * bal2
  PROVE  TipFit(v, bal2, a, b, side, d, sb)
<1>1. CASE side = "left"
  <2>1. CASE d = 1
    BY <1>1, <2>1 DEF TipFit, Fits, Higher, Sign
  <2>2. CASE d = -1
    BY <1>1, <2>2 DEF TipFit, Fits, Higher, Sign
  <2> QED BY <2>1, <2>2
<1>2. CASE side = "right"
  <2>1. CASE d = 1
    BY <1>2, <2>1 DEF TipFit, Fits, Higher, Sign
  <2>2. CASE d = -1
    BY <1>2, <2>2 DEF TipFit, Fits, Higher, Sign
  <2> QED BY <2>1, <2>2
<1> QED BY <1>1, <1>2 DEF Side

------------------------------------------------------------------------------
(* A node whose subtree on one side has grown or shrunk: its balance is      *)
(* tipped, and where it is out of bounds the node is rotated.                *)

Signed(n, x, side) == Sign(side) * n[x].balance

(* A node whose balance stays is as level as it was.                         *)
LEMMA EvenSame ==
  ASSUME NEW n, NEW S, NEW n2, SameLinks(n2, n, S), NEW x \in S, n2[x].balance = n[x].balance,
         NEW h, NEW s \in Side, NEW d
  PROVE  Even(n2, h, x, s, d) = Even(n, h, x, s, d)
<1>1. n2[x][s] = n[x][s] /\ n2[x][Other(s)] = n[x][Other(s)]
  BY SideFacts DEF SameLinks
<1> QED BY <1>1 DEF Even

(* The tree with the tipped balance: level, but for the node itself where    *)
(* the balance is out of bounds.                                             *)
LEMMA Tipped ==
  ASSUME NEW n, NEW r, NEW S, NEW sub, SearchTree(n, r, S, sub), NEW loc \in S, NEW side \in Side,
         NEW d \in {-1, 1}, NEW h, LevelBut(n, S, h, loc, side, d),
         NEW by, by = IF d = 1 THEN Sign(side) ELSE -Sign(side), NEW n2, n2 = Tip(n, loc, by)
  PROVE  /\ SearchTree(n2, r, S, sub) /\ SameLinks(n2, n, S)
         /\ \A x \in S \ {loc} : n2[x].balance = n[x].balance /\ Even(n2, h, x, "left", 0)
         /\ TipFit(h[loc], n2[loc].balance, h[n[loc][side]], h[n[loc][Other(side)]], side, d,
                   Signed(n2, loc, side))
<1>1. FieldsOf(n, S)
  BY DEF SearchTree, Shaped
<1>2. by \in Int
  BY DEF Sign
<1>3. SameLinks(n2, n, S) /\ n2[loc].balance = n[loc].balance + by
      /\ \A y \in S \ {loc} : n2[y].balance = n[y].balance
  BY <1>1, <1>2, TipSame
<1>4. SearchTree(n2, r, S, sub)
  BY <1>3, SearchSame
<1>5. ASSUME NEW x \in S \ {loc}
      PROVE  Even(n2, h, x, "left", 0)
  <2>1. Even(n, h, x, "left", 0)
    BY DEF LevelBut
  <2>2. "left" \in Side
    BY DEF Side
  <2> QED BY <1>3, <2>1, <2>2, EvenSame
<1>6. n[loc][side] \in Pointer /\ n[loc][Other(side)] \in Pointer /\ n[loc].balance \in Int
  BY <1>1, FieldTypes, SideFacts
<1>7. PICK a \in Nat : a = h[n[loc][side]]
  BY <1>6 DEF LevelBut, Heights
<1>8. PICK b \in Nat : b = h[n[loc][Other(side)]]
  BY <1>6 DEF LevelBut, Heights
<1>9. Fits(h[loc], n[loc].balance, a - d, b, side)
  BY <1>7, <1>8 DEF LevelBut, Even
<1>10. PICK v : v = h[loc]
  OBVIOUS
<1>11. PICK bal \in Int : bal = n[loc].balance
  BY <1>6
<1>12. PICK bal2 : bal2 = n2[loc].balance
  OBVIOUS
<1>13. PICK sb : sb = Sign(side) * bal2
  OBVIOUS
<1>13a. Signed(n2, loc, side) = sb
  BY <1>12, <1>13 DEF Signed
<1>14. TipFit(v, bal2, a, b, side, d, sb)
  <2>1. bal2 = bal + by /\ Fits(v, bal, a - d, b, side)
    BY <1>3, <1>9, <1>10, <1>11, <1>12
  <2> QED BY <1>13, <2>1, TipFits
<1> QED BY <1>3, <1>4, <1>5, <1>7, <1>8, <1>10, <1>12, <1>13a, <1>14

(* A balance within bounds: the height of the subtree follows.               *)
LEMMA TipRest ==
  ASSUME NEW n, NEW r, NEW S, NEW sub, SearchTree(n, r, S, sub), NEW loc \in S, NEW side \in Side,
         NEW d \in {-1, 1}, NEW h, LevelBut(n, S, h, loc, side, d),
         NEW by, by = IF d = 1 THEN Sign(side) ELSE -Sign(side), NEW n2, n2 = Tip(n, loc, by),
         NEW sb, sb = Signed(n2, loc, side), sb \notin {-2, 2},
         NEW d2, d2 = IF d = 1 THEN (IF sb = 1 THEN 1 ELSE 0) ELSE (IF sb = 0 THEN -1 ELSE 0)
  PROVE  /\ \E h2 : Pending(n2, r, S, h2, loc, d2)
         /\ d = -1 => sb \in {0, -1}
<1>1. SearchTree(n2, r, S, sub) /\ SameLinks(n2, n, S)
  BY Tipped
<1>2. \A x \in S \ {loc} : Even(n2, h, x, "left", 0)
  BY Tipped
<1>2a. \A x \in S \ {loc} : n2[x].balance = n[x].balance
  BY Tipped
<1>3. TipFit(h[loc], n2[loc].balance, h[n[loc][side]], h[n[loc][Other(side)]], side, d, sb)
  BY Tipped
<1>4. FieldsOf(n, S) /\ NULL \notin S /\ S \subseteq Pointer /\ FieldsOf(n2, S)
  BY <1>1, NullAssumption DEF SearchTree, Shaped, FieldsOf, Pointer
<1>5. n[loc][side] \in Pointer /\ n[loc][Other(side)] \in Pointer
  BY <1>4, FieldTypes, SideFacts
<1>6. PICK a \in Nat : a = h[n[loc][side]]
  BY <1>5 DEF LevelBut, Heights
<1>7. PICK b \in Nat : b = h[n[loc][Other(side)]]
  BY <1>5 DEF LevelBut, Heights
<1>8. PICK v \in Nat : v = h[loc]
  BY <1>4 DEF LevelBut, Heights
<1>9. PICK bal : bal = n2[loc].balance
  OBVIOUS
<1>10. TipFit(v, bal, a, b, side, d, sb)
  BY <1>3, <1>6, <1>7, <1>8, <1>9
<1>11. PICK w \in Nat : w = 1 + Higher(a, b)
  BY DEF Higher
<1>12. Fits(w, bal, a, b, side) /\ w - v = d2 /\ (d = -1 => sb \in {0, -1})
  <2>1. Fits(1 + Higher(a, b), bal, a, b, side)
    BY <1>10 DEF TipFit
  <2>2. 1 + Higher(a, b) - v = IF d = 1 THEN (IF sb = 1 THEN 1 ELSE 0) ELSE (IF sb = 0 THEN -1 ELSE 0)
    BY <1>10 DEF TipFit
  <2>3. d = -1 => sb \in {0, -1}
    BY <1>10 DEF TipFit
  <2>4. Fits(w, bal, a, b, side)
    BY <1>11, <2>1
  <2>5. w - v = d2
    <3>1. PICK x \in Nat : x = Higher(a, b)
      BY DEF Higher
    <3>2. w = 1 + x /\ (1 + x) - v = d2
      BY <1>11, <2>2, <3>1
    <3> QED BY <3>2
  <2> QED BY <2>3, <2>4, <2>5
<1>13. PICK h2 : h2 = [h EXCEPT ![loc] = w]
  OBVIOUS
<1>14. Heights(h2) /\ h2[loc] = w /\ \A x \in Pointer \ {loc} : h2[x] = h[x]
  BY <1>4, <1>13 DEF LevelBut, Heights
<1>15. n[loc][side] # loc /\ n[loc][Other(side)] # loc
  BY <1>4, KidFacts, SideFacts
<1>16. Even(n2, h2, loc, "left", 0)
  <2>1. n2[loc][side] = n[loc][side] /\ n2[loc][Other(side)] = n[loc][Other(side)]
    <3>1. Other(side) \in Side
      BY SideFacts
    <3> QED BY <1>1, <3>1 DEF SameLinks
  <2>2. h2[n2[loc][side]] = a /\ h2[n2[loc][Other(side)]] = b /\ a - 0 = a
    BY <1>5, <1>6, <1>7, <1>14, <1>15, <2>1
  <2>3. Even(n2, h2, loc, side, 0)
    BY <1>9, <1>12, <1>14, <2>2 DEF Even
  <2> QED BY <1>4, <1>14, <2>3, EvenBothWays
<1>17. PICK loc2, side2 : Hangs(n, r, S, loc, loc2, side2)
  BY HangsFromParent
<1>18. Hangs(n2, r, S, loc, loc2, side2)
  BY <1>1, <1>17 DEF Hangs, SameLinks
<1>19. loc2 # loc
  <2>1. CASE loc2 = NULL
    BY <1>4, <2>1
  <2>2. CASE loc2 # NULL
    <3>1. loc2 \in S /\ side2 \in Side /\ n[loc2][side2] = loc
      BY <1>17, <2>2 DEF Hangs
    <3> QED BY <1>4, <3>1, KidFacts
  <2> QED BY <2>1, <2>2
<1>20. Elsewhere(n2, n, S, {loc}, loc, loc)
  BY <1>1 DEF Elsewhere, SameLinks
<1>21. LevelBut(n2, S, h2, loc2, side2, h2[loc] - h[loc])
  <2>1. PICK M : M = {loc}
    OBVIOUS
  <2>2. loc \in M /\ M \subseteq S /\ Elsewhere(n2, n, S, M, loc, loc) /\ loc2 \notin M
    BY <1>19, <1>20, <2>1
  <2>3. \A y \in S \ M : n2[y].balance = n[y].balance
    BY <1>2a, <2>1
  <2>4. \A x \in Pointer \ M : h2[x] = h[x]
    BY <1>14, <2>1
  <2>5. \A x \in S \ M : Even(n, h, x, "left", 0)
    BY <2>1 DEF LevelBut
  <2>6. \A x \in M : Even(n2, h2, x, "left", 0)
    BY <1>16, <2>1
  <2>7. Heights(h)
    BY DEF LevelBut
  <2> QED BY <1>4, <1>14, <1>17, <2>2, <2>3, <2>4, <2>5, <2>6, <2>7, OutsideLevel
<1>22. h2[loc] - h[loc] = d2
  <2>1. h2[loc] = w /\ h[loc] = v /\ w - v = d2
    BY <1>8, <1>12, <1>14
  <2> QED BY <2>1
<1> QED BY <1>12, <1>18, <1>21, <1>22 DEF Pending

(* After a rotation: low is the balance that the child had.                  *)
Turned(n3, r3, S, top, sub, loc, d, low, heavy) ==
  \E sub3, h3 :
    /\ SearchTree(n3, r3, S, sub3) /\ sub3[top] = sub[loc]
    /\ low # 0 => Pending(n3, r3, S, h3, top, IF d = 1 THEN 0 ELSE -1) /\ n3[top].balance = 0
    /\ low = 0 => Pending(n3, r3, S, h3, top, IF d = 1 THEN 1 ELSE 0) /\ n3[top].balance = -Sign(heavy)

(* A balance out of bounds: the rotation levels the subtree.                 *)
LEMMA TipTurn ==
  ASSUME NEW n, NEW r, NEW S, NEW sub, SearchTree(n, r, S, sub), NEW loc \in S, NEW side \in Side,
         NEW d \in {-1, 1}, NEW h, LevelBut(n, S, h, loc, side, d),
         NEW by, by = IF d = 1 THEN Sign(side) ELSE -Sign(side), NEW n2, n2 = Tip(n, loc, by),
         NEW sb, sb = Signed(n2, loc, side), sb \in {-2, 2},
         NEW heavy, heavy = IF d = 1 THEN side ELSE Other(side),
         NEW m, m = Rotate(n2, loc, heavy), NEW top, top = NewTop(n2, loc, heavy)
  PROVE  /\ SearchTree(n2, r, S, sub) /\ RotateBasics(m, n2, S, loc, top)
         /\ \A n3, r3 : Linked(n3, r3, m, n2, r, S, loc, top)
                        => Turned(n3, r3, S, top, sub, loc, d, n2[n2[loc][heavy]].balance, heavy)
         /\ n2[loc][heavy] # NULL
         /\ d = 1 => h[n[loc][side]] >= 2
<1>1. SearchTree(n2, r, S, sub) /\ SameLinks(n2, n, S)
  BY Tipped
<1>2. \A x \in S \ {loc} : Even(n2, h, x, "left", 0)
  BY Tipped
<1>3a. TipFit(h[loc], n2[loc].balance, h[n[loc][side]], h[n[loc][Other(side)]], side, d,
             Signed(n2, loc, side))
  BY Tipped
<1>3. TipFit(h[loc], n2[loc].balance, h[n[loc][side]], h[n[loc][Other(side)]], side, d, sb)
  BY <1>3a
<1>4. FieldsOf(n, S) /\ NULL \notin S /\ S \subseteq Pointer /\ FieldsOf(n2, S)
  BY <1>1, NullAssumption DEF SearchTree, Shaped, FieldsOf, Pointer
<1>5. n[loc][side] \in Pointer /\ n[loc][Other(side)] \in Pointer
  BY <1>4, FieldTypes, SideFacts
<1>6. PICK a \in Nat : a = h[n[loc][side]]
  BY <1>5 DEF LevelBut, Heights
<1>7. PICK b \in Nat : b = h[n[loc][Other(side)]]
  BY <1>5 DEF LevelBut, Heights
<1>8. PICK v \in Nat : v = h[loc]
  BY <1>4 DEF LevelBut, Heights
<1>9. PICK bal : bal = n2[loc].balance
  OBVIOUS
<1>10. TipFit(v, bal, a, b, side, d, sb)
  BY <1>3, <1>6, <1>7, <1>8, <1>9
<1>11. IF d = 1 THEN v = b + 2 /\ a = b + 2 ELSE v = a + 3 /\ b = a + 2
  BY <1>10 DEF TipFit
<1>12. heavy \in Side /\ Other(heavy) = IF d = 1 THEN Other(side) ELSE side
  BY SideFacts
<1>13. n2[loc][heavy] = n[loc][heavy] /\ n2[loc][Other(heavy)] = n[loc][Other(heavy)]
  BY <1>1, <1>12, SideFacts DEF SameLinks
<1>14. PICK k \in Nat : k = IF d = 1 THEN b ELSE a
  OBVIOUS
<1>15. PICK c : c = n2[loc][heavy]
  OBVIOUS
<1>16. h[n2[loc][Other(heavy)]] = k /\ h[c] = k + 2
  BY <1>6, <1>7, <1>11, <1>12, <1>13, <1>14, <1>15
<1>17. PICK loc2 : loc2 = n2[loc].parent
  OBVIOUS
<1>18. PICK side2 : Hangs(n2, r, S, loc, loc2, side2)
  BY <1>1, <1>17, HangsFromParent
<1>19. PICK g : g = Sign(heavy)
  OBVIOUS
<1>20. Heights(h)
  BY DEF LevelBut
<1>21. /\ RotateBasics(m, n2, S, loc, top)
       /\ RotateSoundly(m, n2, r, S, loc, top, h, sub, k, g, n2[c].balance, loc2, side2)
  BY <1>1, <1>2, <1>12, <1>15, <1>16, <1>18, <1>19, <1>20, RotateSound
<1>22. ASSUME NEW n3, NEW r3, Linked(n3, r3, m, n2, r, S, loc, top)
       PROVE  Turned(n3, r3, S, top, sub, loc, d, n2[c].balance, heavy)
  <2>1. Rotated(n3, r3, S, loc, top, h, sub, k, g, n2[c].balance, loc2, side2)
    BY <1>21, <1>22 DEF RotateSoundly
  <2>2. PICK sub3, h3 : /\ SearchTree(n3, r3, S, sub3) /\ sub3[top] = sub[loc]
                        /\ LevelBut(n3, S, h3, loc2, side2, h3[top] - h[loc])
                        /\ Topped(h3[top], n3[top].balance, n2[c].balance, k, g)
    BY <2>1 DEF Rotated
  <2>3. Hangs(n3, r3, S, top, loc2, side2)
    <3>1. CASE loc2 = NULL
      BY <1>18, <1>22, <3>1 DEF Hangs, Linked
    <3>2. CASE loc2 # NULL
      BY <1>18, <1>22, <3>2 DEF Hangs, Linked
    <3> QED BY <3>1, <3>2
  <2>4. Pending(n3, r3, S, h3, top, h3[top] - h[loc])
    BY <2>2, <2>3 DEF Pending
  <2>5. n2[c].balance # 0 => h3[top] = k + 2 /\ n3[top].balance = 0
    BY <2>2 DEF Topped
  <2>6. n2[c].balance = 0 => h3[top] = k + 3 /\ n3[top].balance = -g
    BY <2>2 DEF Topped
  <2>7. v = IF d = 1 THEN k + 2 ELSE k + 3
    BY <1>11, <1>14
  <2>8. n2[c].balance # 0 => h3[top] - h[loc] = IF d = 1 THEN 0 ELSE -1
    BY <1>8, <2>5, <2>7
  <2>9. n2[c].balance = 0 => h3[top] - h[loc] = IF d = 1 THEN 1 ELSE 0
    BY <1>8, <2>6, <2>7
  <2>10. n2[c].balance # 0 => Pending(n3, r3, S, h3, top, IF d = 1 THEN 0 ELSE -1) /\ n3[top].balance = 0
    BY <2>4, <2>5, <2>8
  <2>11. n2[c].balance = 0
         => Pending(n3, r3, S, h3, top, IF d = 1 THEN 1 ELSE 0) /\ n3[top].balance = -Sign(heavy)
    BY <1>19, <2>4, <2>6, <2>9
  <2> QED BY <2>2, <2>10, <2>11 DEF Turned
<1>23. c # NULL
  BY <1>16, <1>20 DEF Heights
<1>24. d = 1 => h[n[loc][side]] >= 2
  <2>1. d = 1 => a = b + 2
    BY <1>11
  <2>2. d = 1 => a >= 2
    <3>1. a = b + 2 => a >= 2
      OBVIOUS
    <3> QED BY <2>1, <3>1
  <2> QED BY <1>6, <2>2
<1> QED BY <1>1, <1>15, <1>21, <1>22, <1>23, <1>24

------------------------------------------------------------------------------
(* lighten_left() and lighten_right(): what one call leaves.                 *)

(* Where the height did not change the tree is level.                        *)
LEMMA PendingNone ==
  ASSUME NEW n, NEW S, FieldsOf(n, S), NEW r, NEW h, NEW x, Pending(n, r, S, h, x, 0)
  PROVE  LevelBut(n, S, h, NULL, "left", 0)
<1>1. PICK loc, side : Hangs(n, r, S, x, loc, side) /\ LevelBut(n, S, h, loc, side, 0)
  BY DEF Pending
<1>2. "left" \in Side
  BY DEF Side
<1>3. CASE loc = NULL
  BY <1>1, <1>2, <1>3, LevelWhole
<1>4. CASE loc # NULL
  <2>1. side \in Side
    BY <1>1, <1>4 DEF Hangs
  <2> QED BY <1>1, <2>1, LevelWhole
<1> QED BY <1>3, <1>4

(* Above the root there is nothing to be levelled.                           *)
LEMMA PendingRoot ==
  ASSUME NEW n, NEW r, NEW S, NEW sub, SearchTree(n, r, S, sub), r \in S, NEW h, NEW d,
         Pending(n, r, S, h, r, d)
  PROVE  LevelBut(n, S, h, NULL, "left", 0)
<1>1. Hangs(n, r, S, r, NULL, "left")
  BY DEF Hangs
<1>2. LevelBut(n, S, h, NULL, "left", d)
  BY <1>1, PendingAt
<1>3. "left" \in Side /\ FieldsOf(n, S)
  BY DEF Side, SearchTree, Shaped
<1> QED BY <1>2, <1>3, LevelWhole

(* After one call of lighten_left() or lighten_right() at the root of the    *)
(* nodes A.                                                                  *)
Lighter(res, sz, n, S, A) ==
  \E n2, r2, sub2, h2 :
    /\ res.tree = Record(r2, sz, n2) /\ SearchTree(n2, r2, S, sub2) /\ \A y \in Elem \ S : n2[y] = n[y]
    /\ \/ res.up = NULL /\ LevelBut(n2, S, h2, NULL, "left", 0)
       \/ res.up \in S /\ res.up # r2 /\ sub2[res.up] = A /\ Pending(n2, r2, S, h2, res.up, -1)

(* The fields of the record that lighten returns.                            *)
LEMMA SettledFacts ==
  ASSUME NEW t, NEW x
  PROVE  /\ Settled(t).tree = t /\ Settled(t).up = NULL
         /\ [tree |-> t, up |-> x].tree = t /\ [tree |-> t, up |-> x].up = x
  BY DEF Settled

(* One call of lighten without a rotation.                                   *)
LEMMA LightenRest ==
  ASSUME NEW n, NEW r, NEW S, NEW sub, SearchTree(n, r, S, sub), NEW loc \in S, NEW side \in Side,
         NEW h, LevelBut(n, S, h, loc, side, -1), NEW sz, NEW n2, n2 = Tip(n, loc, -Sign(side)),
         NEW b, b = Signed(n2, loc, side), b \notin {-2, 2},
         NEW res, res = Lightened(Record(r, sz, n2), loc, side)
  PROVE  Lighter(res, sz, n, S, sub[loc])
<1>1. PICK h2 : Pending(n2, r, S, h2, loc, IF b = 0 THEN -1 ELSE 0)
  <2>1. PICK d \in {-1, 1} : d = -1
    OBVIOUS
  <2>2. PICK by : by = IF d = 1 THEN Sign(side) ELSE -Sign(side)
    OBVIOUS
  <2>3. n2 = Tip(n, loc, by)
    BY <2>1, <2>2
  <2>4. PICK d2 : d2 = IF d = 1 THEN (IF b = 1 THEN 1 ELSE 0) ELSE (IF b = 0 THEN -1 ELSE 0)
    OBVIOUS
  <2>5. \E h2 : Pending(n2, r, S, h2, loc, d2)
    BY <2>1, <2>2, <2>3, <2>4, TipRest
  <2> QED BY <2>1, <2>4, <2>5
<1>2. SearchTree(n2, r, S, sub) /\ SameLinks(n2, n, S)
  <2>1. PICK d \in {-1, 1} : d = -1
    OBVIOUS
  <2>2. PICK by : by = IF d = 1 THEN Sign(side) ELSE -Sign(side)
    OBVIOUS
  <2>3. n2 = Tip(n, loc, by)
    BY <2>1, <2>2
  <2> QED BY <2>1, <2>2, <2>3, Tipped
<1>3. FieldsOf(n2, S) /\ \A y \in Elem \ S : n2[y] = n[y]
  BY <1>2 DEF SameLinks
<1>4. ~Unbalanced(b)
  BY DEF Unbalanced
<1>5. PICK t : t = Record(r, sz, n2)
  OBVIOUS
<1>6. t.node = n2 /\ t.root = r
  BY <1>5, RecordFacts
<1>7. Sign(side) * n2[loc].balance = b
  BY DEF Signed
<1>8. CASE b = 0 /\ loc = r
  <2>1. res = Settled(t)
    BY <1>5, <1>6, <1>7, <1>8 DEF Lightened
  <2>2. LevelBut(n2, S, h2, NULL, "left", 0)
    BY <1>1, <1>2, <1>8, PendingRoot
  <2> QED BY <1>2, <1>3, <1>5, <2>1, <2>2, SettledFacts DEF Lighter
<1>9. CASE b = 0 /\ loc # r
  <2>1. res = [tree |-> t, up |-> loc]
    BY <1>5, <1>6, <1>7, <1>9 DEF Lightened
  <2> QED BY <1>1, <1>2, <1>3, <1>5, <1>9, <2>1, SettledFacts DEF Lighter
<1>10. CASE b # 0
  <2>1. res = Settled(t)
    BY <1>4, <1>5, <1>6, <1>7, <1>10 DEF Lightened
  <2>2. LevelBut(n2, S, h2, NULL, "left", 0)
    BY <1>1, <1>3, <1>10, PendingNone
  <2> QED BY <1>2, <1>3, <1>5, <2>1, <2>2, SettledFacts DEF Lighter
<1> QED BY <1>8, <1>9, <1>10

(* One call of lighten with a rotation.                                      *)
LEMMA LightenTurn ==
  ASSUME NEW n, NEW r, NEW S, NEW sub, SearchTree(n, r, S, sub), NEW loc \in S, NEW side \in Side,
         NEW h, LevelBut(n, S, h, loc, side, -1), NEW sz, NEW n2, n2 = Tip(n, loc, -Sign(side)),
         NEW b, b = Signed(n2, loc, side), b \in {-2, 2},
         NEW res, res = Lightened(Record(r, sz, n2), loc, side)
  PROVE  Lighter(res, sz, n, S, sub[loc])
<1>1. PICK d \in {-1, 1} : d = -1
  OBVIOUS
<1>2. PICK by : by = IF d = 1 THEN Sign(side) ELSE -Sign(side)
  OBVIOUS
<1>3. n2 = Tip(n, loc, by)
  BY <1>1, <1>2
<1>4. PICK heavy : heavy = IF d = 1 THEN side ELSE Other(side)
  OBVIOUS
<1>5. heavy = Other(side) /\ Sign(heavy) = -Sign(side) /\ Sign(side) \in {-1, 1}
  BY <1>1, <1>4, SideFacts
<1>6. PICK m : m = Rotate(n2, loc, heavy)
  OBVIOUS
<1>7. PICK top : top = NewTop(n2, loc, heavy)
  OBVIOUS
<1>8. PICK low : low = n2[n2[loc][heavy]].balance
  OBVIOUS
<1>9. LevelBut(n, S, h, loc, side, d)
  BY <1>1
<1>10. /\ SearchTree(n2, r, S, sub) /\ RotateBasics(m, n2, S, loc, top)
       /\ \A n3, r3 : Linked(n3, r3, m, n2, r, S, loc, top)
                      => Turned(n3, r3, S, top, sub, loc, d, n2[n2[loc][heavy]].balance, heavy)
  BY <1>2, <1>3, <1>4, <1>6, <1>7, <1>9, TipTurn
<1>11. SameLinks(n2, n, S)
  BY <1>2, <1>3, <1>9, Tipped
<1>12. PICK n3, r3 : /\ Relink(Record(r, sz, m), loc, top) = Record(r3, sz, n3)
                     /\ Linked(n3, r3, m, n2, r, S, loc, top)
  <2>1. TopLinked(Relink(Record(r, sz, m), loc, top), sz, m, n2, r, S, loc, top)
    BY <1>10, RelinkLinked
  <2> QED BY <2>1 DEF TopLinked
<1>13. Turned(n3, r3, S, top, sub, loc, d, low, heavy)
  BY <1>8, <1>10, <1>12
<1>14. PICK sub3, h3 :
         /\ SearchTree(n3, r3, S, sub3) /\ sub3[top] = sub[loc]
         /\ low # 0 => Pending(n3, r3, S, h3, top, -1) /\ n3[top].balance = 0
         /\ low = 0 => Pending(n3, r3, S, h3, top, 0) /\ n3[top].balance = -Sign(heavy)
  BY <1>1, <1>13 DEF Turned
<1>15. \A y \in Elem \ S : n3[y] = n[y]
  BY <1>10, <1>11, <1>12 DEF Linked, RotateBasics, SameLinks
<1>16. FieldsOf(n3, S) /\ top \in S
  BY <1>10, <1>12 DEF Linked, RotateBasics
<1>17. PICK t : t = Record(r3, sz, n3)
  OBVIOUS
<1>18. t.node = n3 /\ t.root = r3
  BY <1>17, RecordFacts
<1>19. res = Relinked(t, top, side)
  <2>1. Sign(side) * n2[loc].balance = b /\ Unbalanced(b) /\ b # 0
    BY DEF Signed, Unbalanced
  <2>2. PICK t2 : t2 = Record(r, sz, n2)
    OBVIOUS
  <2>3. t2.node = n2 /\ t2.root = r /\ Update(t2, m) = Record(r, sz, m)
    BY <2>2, RecordFacts
  <2>4. res = Relinked(Relink(Update(t2, Rotate(n2, loc, Other(side))), loc, NewTop(n2, loc, Other(side))),
                       NewTop(n2, loc, Other(side)), side)
    BY <2>1, <2>2, <2>3 DEF Lightened
  <2> QED BY <1>5, <1>6, <1>7, <1>12, <1>17, <2>3, <2>4
<1>20. CASE low = 0
  <2>1. t.node[top].balance = Sign(side)
    BY <1>5, <1>14, <1>18, <1>20
  <2>2. res = Settled(t)
    BY <1>19, <2>1 DEF Relinked
  <2>3. LevelBut(n3, S, h3, NULL, "left", 0)
    BY <1>14, <1>16, <1>20, PendingNone
  <2> QED BY <1>14, <1>15, <1>17, <2>2, <2>3, SettledFacts DEF Lighter
<1>21. CASE low # 0 /\ top = r3
  <2>1. res = Settled(t)
    BY <1>18, <1>19, <1>21 DEF Relinked
  <2>2. LevelBut(n3, S, h3, NULL, "left", 0)
    BY <1>14, <1>16, <1>21, PendingRoot
  <2> QED BY <1>14, <1>15, <1>17, <2>1, <2>2, SettledFacts DEF Lighter
<1>22. CASE low # 0 /\ top # r3
  <2>1. t.node[top].balance # Sign(side) /\ t.root # top
    BY <1>5, <1>14, <1>18, <1>22
  <2>2. res = [tree |-> t, up |-> top]
    BY <1>19, <2>1 DEF Relinked
  <2> QED BY <1>14, <1>15, <1>16, <1>17, <1>22, <2>2, SettledFacts DEF Lighter
<1> QED BY <1>20, <1>21, <1>22

(* One call of lighten: the tree is level, or the subtree that became lower  *)
(* is reported.                                                              *)
LEMMA LightenAtSound ==
  ASSUME NEW n, NEW r, NEW S, NEW sub, SearchTree(n, r, S, sub), NEW loc \in S, NEW side \in Side,
         NEW h, LevelBut(n, S, h, loc, side, -1), NEW sz
  PROVE  Lighter(LightenAt(Record(r, sz, n), loc, side), sz, n, S, sub[loc])
<1>1. PICK n2 : n2 = Tip(n, loc, -Sign(side))
  OBVIOUS
<1>2. LightenAt(Record(r, sz, n), loc, side) = Lightened(Record(r, sz, n2), loc, side)
  BY <1>1, RecordFacts DEF LightenAt
<1>3. PICK b : b = Signed(n2, loc, side)
  OBVIOUS
<1> QED BY <1>1, <1>2, <1>3, LightenRest, LightenTurn

------------------------------------------------------------------------------
(* Keys and values: no operation writes those of a node that is there, so    *)
(* whatever rearranges the nodes keeps the entries.                          *)

(* m has every node of n, with the key and the value that it has there.      *)
Kept(m, n) ==
  /\ DOMAIN m = DOMAIN n
  /\ \A y \in DOMAIN n : {"key", "value"} \subseteq DOMAIN n[y] =>
       {"key", "value"} \subseteq DOMAIN m[y] /\ m[y].key = n[y].key /\ m[y].value = n[y].value

(* It is an order.                                                           *)
LEMMA KeptSame == \A n : Kept(n, n)
  BY DEF Kept

(* What is kept twice is kept.                                               *)
LEMMA KeptTwice ==
  ASSUME NEW n, NEW m, Kept(m, n), NEW q, Kept(q, m)
  PROVE  Kept(q, n)
  BY DEF Kept

(* An assignment to any other field keeps keys and values.                   *)
LEMMA KeptWith ==
  ASSUME NEW n, NEW e, NEW f, f \notin {"key", "value"}, NEW v
  PROVE  Kept(With(n, e, f, v), n)
<1>1. PICK m : m = [n EXCEPT ![e][f] = v]
  OBVIOUS
<1>2. DOMAIN m = DOMAIN n
  BY <1>1
<1>3. ASSUME NEW y \in DOMAIN n, {"key", "value"} \subseteq DOMAIN n[y]
      PROVE  {"key", "value"} \subseteq DOMAIN m[y] /\ m[y].key = n[y].key /\ m[y].value = n[y].value
  <2>1. CASE y # e
    <3>1. m[y] = n[y]
      BY <1>1, <2>1
    <3> QED BY <1>3, <3>1
  <2>2. CASE y = e
    <3>1. PICK a : a = n[e]
      OBVIOUS
    <3>2. m[e] = [a EXCEPT ![f] = v]
      BY <1>1, <2>2, <3>1
    <3>3. "key" \in DOMAIN a /\ "value" \in DOMAIN a
      BY <1>3, <2>2, <3>1
    <3>4. /\ DOMAIN [a EXCEPT ![f] = v] = DOMAIN a
          /\ [a EXCEPT ![f] = v]["key"] = a["key"] /\ [a EXCEPT ![f] = v]["value"] = a["value"]
      BY <3>3
    <3> QED BY <2>2, <3>1, <3>2, <3>3, <3>4
  <2> QED BY <2>1, <2>2
<1>4. Kept(m, n)
  BY <1>2, <1>3 DEF Kept
<1> QED BY <1>1, <1>4 DEF With

(* The same, of one more assignment.                                         *)
LEMMA KeptOn ==
  ASSUME NEW n, NEW m, Kept(m, n), NEW e, NEW f, f \notin {"key", "value"}, NEW v
  PROVE  Kept(With(m, e, f, v), n)
  BY KeptWith, KeptTwice

(* The links and balances are neither keys nor values.                       *)
LEMMA SideNames ==
  /\ \A s \in Side : s \notin {"key", "value"} /\ Other(s) \in Side
  /\ "parent" \notin {"key", "value"} /\ "balance" \notin {"key", "value"}
  /\ "left" \in Side /\ "right" \in Side
  BY DEF Side, Other

(* The parent pointer of a child is not.                                     *)
LEMMA KeptAdopt ==
  ASSUME NEW n, NEW m, Kept(m, n), NEW e, NEW s
  PROVE  Kept(Adopt(m, e, s), n)
<1>1. CASE m[e][s] = NULL
  BY <1>1 DEF Adopt
<1>2. CASE m[e][s] # NULL
  <2>1. PICK c : c = m[e][s]
    OBVIOUS
  <2>2. Kept(With(m, c, "parent", e), n)
    BY SideNames, KeptOn
  <2> QED BY <1>2, <2>1, <2>2 DEF Adopt
<1> QED BY <1>1, <1>2

(* Nor are those of both children.                                           *)
LEMMA KeptAdoptBoth ==
  ASSUME NEW n, NEW m, Kept(m, n), NEW e
  PROVE  Kept(AdoptBoth(m, e), n)
<1>1. PICK q : q = Adopt(m, e, "left")
  OBVIOUS
<1>2. Kept(q, n)
  BY <1>1, KeptAdopt
<1>3. Kept(Adopt(q, e, "right"), n)
  BY <1>2, KeptAdopt
<1> QED BY <1>1, <1>3 DEF AdoptBoth

(* The assignments of a single rotation keep keys and values.                *)
LEMMA KeptRotateOnce ==
  ASSUME NEW n, NEW e, NEW heavy \in Side
  PROVE  Kept(RotateOnce(n, e, heavy), n)
<1>1. PICK light, top, b : light = Other(heavy) /\ top = n[e][heavy] /\ b = n[top].balance - Sign(heavy)
  OBVIOUS
<1>2. PICK n1 : n1 = With(n, e, heavy, n[top][light])
  OBVIOUS
<1>3. PICK n2 : n2 = With(n1, top, light, e)
  OBVIOUS
<1>4. PICK n3 : n3 = With(n2, top, "balance", b)
  OBVIOUS
<1>5. Kept(n1, n)
  BY <1>2, SideNames, KeptWith
<1>6. Kept(n2, n)
  BY <1>1, <1>3, <1>5, SideNames, KeptOn
<1>7. Kept(n3, n)
  BY <1>4, <1>6, SideNames, KeptOn
<1>8. Kept(With(n3, e, "balance", -b), n)
  BY <1>7, SideNames, KeptOn
<1> QED BY <1>1, <1>2, <1>3, <1>4, <1>8, Zenon DEF RotateOnce

(* So do those of a double one.                                              *)
LEMMA KeptRegroup ==
  ASSUME NEW n, NEW e, NEW child, NEW top, NEW heavy \in Side
  PROVE  Kept(Regroup(n, e, child, top, heavy), n)
<1>1. PICK light : light = Other(heavy)
  OBVIOUS
<1>2. PICK n1 : n1 = With(n, child, light, n[top][heavy])
  OBVIOUS
<1>3. PICK n2 : n2 = With(n1, top, heavy, child)
  OBVIOUS
<1>4. PICK n3 : n3 = With(n2, e, heavy, n[top][light])
  OBVIOUS
<1>5. PICK n4 : n4 = With(n3, top, light, e)
  OBVIOUS
<1>6. Kept(n1, n)
  BY <1>1, <1>2, SideNames, KeptWith
<1>7. Kept(n2, n)
  BY <1>3, <1>6, SideNames, KeptOn
<1>8. Kept(n3, n)
  BY <1>4, <1>7, SideNames, KeptOn
<1>9. Kept(n4, n)
  BY <1>1, <1>5, <1>8, SideNames, KeptOn
<1>10. Kept(With(n4, child, "parent", top), n)
  BY <1>9, SideNames, KeptOn
<1> QED BY <1>1, <1>2, <1>3, <1>4, <1>5, <1>10, Zenon DEF Regroup

(* And those of its balances.                                                *)
LEMMA KeptLevel ==
  ASSUME NEW n, NEW m, Kept(m, n), NEW top, NEW b
  PROVE  Kept(Level(m, top, b), n)
<1>1. PICK n1 : n1 = With(m, m[top].left, "balance", -((1 + b) \div 2))
  OBVIOUS
<1>2. PICK n2 : n2 = With(n1, m[top].right, "balance", (1 - b) \div 2)
  OBVIOUS
<1>3. Kept(n1, n)
  BY <1>1, SideNames, KeptOn
<1>4. Kept(n2, n)
  BY <1>2, <1>3, SideNames, KeptOn
<1>5. Kept(With(n2, top, "balance", 0), n)
  BY <1>4, SideNames, KeptOn
<1> QED BY <1>1, <1>2, <1>5, Zenon DEF Level

(* So every rotation does.                                                   *)
LEMMA KeptRotate ==
  ASSUME NEW n, NEW e, NEW heavy \in Side
  PROVE  Kept(Rotate(n, e, heavy), n)
<1>1. PICK top : top = NewTop(n, e, heavy)
  OBVIOUS
<1>2. Kept(RotateOnce(n, e, heavy), n)
  BY KeptRotateOnce
<1>3. Kept(RotateTwice(n, e, heavy), n)
  <2>1. PICK child, x, light : child = n[e][heavy] /\ x = n[child][light] /\ light = Other(heavy)
    OBVIOUS
  <2>2. PICK m : m = Adopt(Regroup(n, e, child, x, heavy), child, light)
    OBVIOUS
  <2>3. Kept(m, n)
    BY <2>2, KeptRegroup, KeptAdopt
  <2>4. Kept(Level(m, x, n[x].balance), n)
    BY <2>3, KeptLevel
  <2> QED BY <2>1, <2>2, <2>4, Zenon DEF RotateTwice
<1>4. PICK m : m = IF top = n[e][heavy] THEN RotateOnce(n, e, heavy) ELSE RotateTwice(n, e, heavy)
  OBVIOUS
<1>5. Kept(m, n)
  BY <1>2, <1>3, <1>4
<1>6. PICK m1 : m1 = With(m, top, "parent", m[e].parent)
  OBVIOUS
<1>7. Kept(m1, n)
  BY <1>5, <1>6, SideNames, KeptOn
<1>8. Kept(With(m1, e, "parent", top), n)
  BY <1>7, SideNames, KeptOn
<1>9. Kept(Crown(m, top, e), n)
  BY <1>6, <1>8, Zenon DEF Crown
<1>10. Kept(Adopt(Crown(m, top, e), e, heavy), n)
  BY <1>9, KeptAdopt
<1> QED BY <1>1, <1>4, <1>10, Zenon DEF Rotate

------------------------------------------------------------------------------
(* The records of trees that carry the keys and values of a memory.          *)

(* u is the record of a tree, in whose memory every node has its key and its *)
(* value of n.                                                               *)
Carries(u, n) == \E r, sz, m : u = Record(r, sz, m) /\ Kept(m, n)

(* Other records of the same memory carry the same.                          *)
LEMMA CarriesFacts ==
  ASSUME NEW n, NEW u, Carries(u, n)
  PROVE  /\ Kept(u.node, n)
         /\ \A m : Kept(m, n) => Carries(Update(u, m), n)
         /\ \A x : Carries([u EXCEPT !.root = x], n) /\ Carries([u EXCEPT !.size = x], n)
<1>1. PICK r, sz, m : u = Record(r, sz, m) /\ Kept(m, n)
  BY DEF Carries
<1>2. u.node = m
  BY <1>1, RecordFacts
<1>3. ASSUME NEW q, Kept(q, n)
      PROVE  Carries(Update(u, q), n)
  <2>1. Update(u, q) = Record(r, sz, q)
    BY <1>1, RecordFacts
  <2> QED BY <1>3, <2>1 DEF Carries
<1>4. ASSUME NEW x
      PROVE  Carries([u EXCEPT !.root = x], n) /\ Carries([u EXCEPT !.size = x], n)
  <2>1. [u EXCEPT !.root = x] = Record(x, sz, m)
    BY <1>1, RecordFacts
  <2>2. [u EXCEPT !.size = x] = Record(r, x, m)
    BY <1>1 DEF Record
  <2> QED BY <1>1, <2>1, <2>2 DEF Carries
<1> QED BY <1>1, <1>2, <1>3, <1>4

(* Any record of a memory that kept them carries them.                       *)
LEMMA CarriesSame ==
  ASSUME NEW r, NEW sz, NEW m, NEW n, Kept(m, n)
  PROVE  Carries(Record(r, sz, m), n)
  BY DEF Carries

(* What is carried from a memory that kept them is carried.                  *)
LEMMA CarriesFrom ==
  ASSUME NEW u, NEW m, Carries(u, m), NEW n, Kept(m, n)
  PROVE  Carries(u, n)
  BY KeptTwice DEF Carries

(* An assignment to a link or to a balance of the tree.                      *)
LEMMA CarriesWith ==
  ASSUME NEW n, NEW u, Carries(u, n), NEW e, NEW f, f \notin {"key", "value"}, NEW v
  PROVE  Carries(Update(u, With(u.node, e, f, v)), n)
<1>1. PICK m : m = u.node
  OBVIOUS
<1>2. Kept(With(m, e, f, v), n)
  BY <1>1, CarriesFacts, KeptOn
<1> QED BY <1>1, <1>2, CarriesFacts

(* The link that led to one node leads to another.                           *)
LEMMA CarriesSubstitute ==
  ASSUME NEW n, NEW u, Carries(u, n), NEW new, NEW old
  PROVE  Carries(substitute(u, new, old), n)
<1>1. CASE old = u.root
  BY <1>1, CarriesFacts DEF substitute
<1>2. CASE old # u.root
  <2>1. PICK parent, side : /\ parent = u.node[old].parent
                            /\ side = IF u.node[parent].left = old THEN "left" ELSE "right"
    OBVIOUS
  <2>2. side \in Side
    BY <2>1 DEF Side
  <2>3. Carries(Update(u, With(u.node, parent, side, new)), n)
    BY <2>2, SideNames, CarriesWith
  <2> QED BY <1>2, <2>1, <2>3, Zenon DEF substitute
<1> QED BY <1>1, <1>2

(* A node that takes the place of another has its links, not its key.        *)
LEMMA KeptTakeOver ==
  ASSUME NEW n, NEW m, Kept(m, n), NEW e, NEW old
  PROVE  Kept(TakeOver(m, e, old), n)
<1>1. PICK m1 : m1 = With(m, e, "parent", m[old].parent)
  OBVIOUS
<1>2. PICK m2 : m2 = With(m1, e, "left", m[old].left)
  OBVIOUS
<1>3. PICK m3 : m3 = With(m2, e, "right", m[old].right)
  OBVIOUS
<1>4. PICK m4 : m4 = With(m3, e, "balance", m[old].balance)
  OBVIOUS
<1>5. TakeOver(m, e, old) = m4
  BY <1>1, <1>2, <1>3, <1>4 DEF TakeOver, With
<1>6. Kept(m1, n)
  BY <1>1, SideNames, KeptOn
<1>7. Kept(m2, n)
  BY <1>2, <1>6, SideNames, KeptOn
<1>8. Kept(m3, n)
  BY <1>3, <1>7, SideNames, KeptOn
<1>9. Kept(m4, n)
  BY <1>4, <1>8, SideNames, KeptOn
<1> QED BY <1>5, <1>9

(* The replacement of a node.                                                *)
LEMMA CarriesReplace ==
  ASSUME NEW n, NEW t, Carries(t, n), NEW loc, NEW e
  PROVE  Carries(Replace(t, loc, e), n)
<1>1. PICK m : m = TakeOver(t.node, e, loc)
  OBVIOUS
<1>2. Kept(m, n)
  BY <1>1, CarriesFacts, KeptTakeOver
<1>3. Carries(Update(t, m), n)
  BY <1>2, CarriesFacts
<1>4. PICK u : u = substitute(Update(t, m), e, loc)
  OBVIOUS
<1>5. Carries(u, n)
  BY <1>3, <1>4, CarriesSubstitute
<1>6. Kept(AdoptBoth(u.node, e), n)
  BY <1>5, CarriesFacts, KeptAdoptBoth
<1>7. Carries(Update(u, AdoptBoth(u.node, e)), n)
  BY <1>5, <1>6, CarriesFacts
<1> QED BY <1>1, <1>4, <1>7, Zenon DEF Replace

(* The new leaf.                                                             *)
LEMMA CarriesAddLeaf ==
  ASSUME NEW n, NEW t, Carries(t, n), NEW loc, NEW e, NEW side \in Side
  PROVE  Carries(AddLeaf(t, loc, e, side), n)
<1>1. PICK n1 : n1 = With(t.node, e, "parent", loc)
  OBVIOUS
<1>2. PICK n2 : n2 = With(n1, loc, side, e)
  OBVIOUS
<1>3. PICK n3 : n3 = With(n2, loc, "balance", t.node[loc].balance + Sign(side))
  OBVIOUS
<1>4. Kept(n1, n)
  BY <1>1, CarriesFacts, SideNames, KeptOn
<1>5. Kept(n2, n)
  BY <1>2, <1>4, SideNames, KeptOn
<1>6. Kept(n3, n)
  BY <1>3, <1>5, SideNames, KeptOn
<1>7. PICK x : x = t.size + 1
  OBVIOUS
<1>8. [t EXCEPT !.node = n3, !.size = x] = [Update(t, n3) EXCEPT !.size = x]
  <2>1. PICK u : u = [t EXCEPT !.node = n3]
    OBVIOUS
  <2>2. [t EXCEPT !.node = n3, !.size = x] = [u EXCEPT !.size = x]
    BY <2>1
  <2>3. Update(t, n3) = u
    BY <2>1 DEF Update
  <2> QED BY <2>2, <2>3
<1>9. Carries([Update(t, n3) EXCEPT !.size = x], n)
  BY <1>6, CarriesFacts
<1>10. AddLeaf(t, loc, e, side) = [t EXCEPT !.node = n3, !.size = x]
  BY <1>1, <1>2, <1>3, <1>7, Zenon DEF AddLeaf
<1> QED BY <1>8, <1>9, <1>10

------------------------------------------------------------------------------
(* The steps of put(), of lighten and of exchange() carry them.              *)

(* The results of the steps of put().                                        *)
LEMMA ResultFacts ==
  ASSUME NEW t, NEW x, NEW b
  PROVE  [tree |-> t, removed |-> x, taller |-> b].tree = t
  OBVIOUS

(* The step at the end of the path.                                          *)
LEMMA CarriesBottom ==
  ASSUME NEW n, NEW t, Carries(t, n), NEW e, NEW loc
  PROVE  Carries(Bottom(t, e, loc).tree, n)
<1>1. PICK side : side = Toward(t, e, loc)
  OBVIOUS
<1>2. side \in Side
  BY <1>1 DEF Toward, Side
<1>3. Carries(Replace(t, loc, e), n) /\ Carries(AddLeaf(t, loc, e, side), n)
  BY <1>2, CarriesReplace, CarriesAddLeaf
<1>4. \/ Bottom(t, e, loc).tree = Replace(t, loc, e)
      \/ Bottom(t, e, loc).tree = AddLeaf(t, loc, e, side)
  BY <1>1 DEF Bottom
<1> QED BY <1>3, <1>4

(* Placing a subtree at a link.                                              *)
LEMMA CarriesPlace ==
  ASSUME NEW n, NEW t, Carries(t, n), NEW ploc, ploc = <<>> \/ ploc[2] \in Side, NEW e
  PROVE  Carries(Place(t, ploc, e), n)
<1>1. CASE ploc = <<>>
  BY <1>1, CarriesFacts DEF Place
<1>2. CASE ploc # <<>>
  <2>1. Carries(Update(t, With(t.node, ploc[1], ploc[2], e)), n)
    BY <1>2, SideNames, CarriesWith
  <2> QED BY <1>2, <2>1 DEF Place
<1> QED BY <1>1, <1>2

(* The rotation of a tree.                                                   *)
LEMMA CarriesRotate ==
  ASSUME NEW n, NEW t, Carries(t, n), NEW e, NEW heavy \in Side
  PROVE  Carries(Update(t, Rotate(t.node, e, heavy)), n)
<1>1. PICK m : m = t.node
  OBVIOUS
<1>2. Kept(m, n)
  BY <1>1, CarriesFacts
<1>3. Kept(Rotate(m, e, heavy), n)
  BY <1>2, KeptRotate, KeptTwice
<1> QED BY <1>1, <1>3, CarriesFacts

(* A subtree that has grown.                                                 *)
LEMMA CarriesTaller ==
  ASSUME NEW n, NEW t, Carries(t, n), NEW ploc, ploc = <<>> \/ ploc[2] \in Side, NEW loc, NEW side \in Side
  PROVE  Carries(Taller(t, ploc, loc, side).tree, n)
<1>1. PICK b, u, top : /\ b = Sign(side) * t.node[loc].balance /\ top = NewTop(t.node, loc, side)
                       /\ u = Update(t, Rotate(t.node, loc, side))
  OBVIOUS
<1>2. Carries(u, n)
  BY <1>1, CarriesRotate
<1>3. Carries(Place(u, ploc, top), n)
  BY <1>2, CarriesPlace
<1>4. Taller(t, ploc, loc, side) =
        IF Unbalanced(b) THEN [tree |-> Place(u, ploc, top), removed |-> NULL, taller |-> FALSE]
        ELSE [tree |-> t, removed |-> NULL, taller |-> b = 1]
  BY <1>1, Zenon DEF Taller
<1>5. CASE Unbalanced(b)
  <2>1. Taller(t, ploc, loc, side).tree = Place(u, ploc, top)
    BY <1>4, <1>5, ResultFacts
  <2> QED BY <1>3, <2>1
<1>6. CASE ~Unbalanced(b)
  <2>1. Taller(t, ploc, loc, side) = [tree |-> t, removed |-> NULL, taller |-> b = 1]
    BY <1>4, <1>6
  <2>2. Taller(t, ploc, loc, side).tree = t
    BY <2>1, ResultFacts
  <2> QED BY <2>2
<1> QED BY <1>5, <1>6

(* A tipped balance.                                                         *)
LEMMA CarriesTip ==
  ASSUME NEW n, NEW t, Carries(t, n), NEW loc, NEW by
  PROVE  Carries(Update(t, Tip(t.node, loc, by)), n)
<1>1. PICK v : v = t.node[loc].balance + by
  OBVIOUS
<1>2. Carries(Update(t, With(t.node, loc, "balance", v)), n)
  BY SideNames, CarriesWith
<1> QED BY <1>1, <1>2, Zenon DEF Tip

(* One step of the way back of put().                                        *)
LEMMA CarriesReturned ==
  ASSUME NEW n, NEW t, NEW e, NEW s, Carries(s.tree, n), NEW k
  PROVE  Carries(Returned(t, e, s, k).tree, n)
<1>1. PICK loc, ploc, side : loc = Path(t, e)[k] /\ ploc = Link(t, e, k) /\ side = Toward(t, e, loc)
  OBVIOUS
<1>2. side \in Side
  BY <1>1 DEF Toward, Side
<1>3. ploc = <<>> \/ ploc[2] \in Side
  <2>1. PICK x : x = Path(t, e)[k - 1]
    OBVIOUS
  <2>2. PICK z \in Side : z = Toward(t, e, x)
    BY DEF Toward, Side
  <2>3. ploc = <<>> \/ ploc = <<x, z>>
    BY <1>1, <2>1, <2>2 DEF Link
  <2>4. <<x, z>>[2] = z
    OBVIOUS
  <2> QED BY <2>2, <2>3, <2>4
<1>4. PICK u : u = Update(s.tree, Tip(s.tree.node, loc, Sign(side)))
  OBVIOUS
<1>5. Carries(u, n)
  BY <1>4, CarriesTip
<1>6. Carries(Taller(u, ploc, loc, side).tree, n)
  BY <1>2, <1>3, <1>5, CarriesTaller
<1>7. \/ Returned(t, e, s, k) = s
      \/ Returned(t, e, s, k) = Taller(u, ploc, loc, side)
  BY <1>1, <1>4, Zenon DEF Returned, Grown
<1> QED BY <1>6, <1>7

(* Relinking the top of a subtree.                                           *)
LEMMA CarriesRelink ==
  ASSUME NEW n, NEW t, Carries(t, n), NEW e, NEW top
  PROVE  Carries(Relink(t, e, top), n)
<1>1. CASE e = t.root
  BY <1>1, CarriesFacts DEF Relink
<1>2. CASE e # t.root
  <2>1. PICK parent, side : /\ parent = t.node[top].parent
                            /\ side = IF t.node[parent].right = e THEN "right" ELSE "left"
    OBVIOUS
  <2>2. side \in Side
    BY <2>1 DEF Side
  <2>3. Carries(Update(t, With(t.node, parent, side, top)), n)
    BY <2>2, SideNames, CarriesWith
  <2> QED BY <1>2, <2>1, <2>3, Zenon DEF Relink
<1> QED BY <1>1, <1>2

(* One call of lighten.                                                      *)
LEMMA CarriesLightenAt ==
  ASSUME NEW n, NEW t, Carries(t, n), NEW e, NEW side \in Side
  PROVE  Carries(LightenAt(t, e, side).tree, n)
<1>1. \A u, x : Settled(u).tree = u /\ [tree |-> u, up |-> x].tree = u
  BY DEF Settled
<1>2. PICK u : u = Update(t, Tip(t.node, e, -Sign(side)))
  OBVIOUS
<1>3. Carries(u, n)
  BY <1>2, CarriesTip
<1>4. PICK b, top, heavy : /\ b = Sign(side) * u.node[e].balance /\ heavy = Other(side)
                           /\ top = NewTop(u.node, e, heavy)
  OBVIOUS
<1>5. PICK w : w = Relink(Update(u, Rotate(u.node, e, heavy)), e, top)
  OBVIOUS
<1>6. Carries(w, n)
  BY <1>3, <1>4, <1>5, SideNames, CarriesRotate, CarriesRelink
<1>7. Lightened(u, e, side) = IF b = 0 THEN IF e = u.root THEN Settled(u) ELSE [tree |-> u, up |-> e]
                              ELSE IF Unbalanced(b) THEN Relinked(w, top, side)
                              ELSE Settled(u)
  BY <1>4, <1>5, Zenon DEF Lightened
<1>8. Relinked(w, top, side).tree = w
  BY <1>1 DEF Relinked
<1>9. Lightened(u, e, side).tree \in {u, w}
  BY <1>1, <1>7, <1>8
<1> QED BY <1>2, <1>3, <1>6, <1>9 DEF LightenAt

(* The calls that follow it.                                                 *)
LEMMA CarriesLightenNext ==
  ASSUME NEW n, NEW s, Carries(s.tree, n)
  PROVE  Carries(LightenNext(s).tree, n)
<1>1. PICK t, e, parent : t = s.tree /\ e = s.up /\ parent = t.node[e].parent
  OBVIOUS
<1>2. PICK side \in Side : side = IF t.node[parent].right = e THEN "right" ELSE "left"
  BY DEF Side
<1>3. Carries(LightenAt(t, parent, side).tree, n)
  BY <1>1, CarriesLightenAt
<1>4. lighten_parent(t, e) = LightenAt(t, parent, side)
  BY <1>1, <1>2, Zenon DEF lighten_parent
<1> QED BY <1>1, <1>3, <1>4 DEF LightenNext

(* The node at y has a key and a value.                                      *)
Keyed(n, y) == y \in DOMAIN n /\ {"key", "value"} \subseteq DOMAIN n[y]

(* Exchanging the links of two nodes.                                        *)
LEMMA KeptSwap ==
  ASSUME NEW n, NEW m, Kept(m, n), NEW e1, NEW e2, Keyed(n, e1), Keyed(n, e2)
  PROVE  Kept(Swap(m, e1, e2), n)
<1>1. /\ DOMAIN m = DOMAIN n
      /\ \A y \in DOMAIN n : {"key", "value"} \subseteq DOMAIN n[y] =>
           {"key", "value"} \subseteq DOMAIN m[y] /\ m[y].key = n[y].key /\ m[y].value = n[y].value
  BY DEF Kept
<1>2. \A y \in {e1, e2} : /\ y \in DOMAIN m /\ y \in DOMAIN n /\ {"key", "value"} \subseteq DOMAIN m[y]
                         /\ m[y].key = n[y].key /\ m[y].value = n[y].value
  BY <1>1 DEF Keyed
<1>3. PICK a, b : /\ a = [m[e2] EXCEPT !.key = m[e1].key, !.value = m[e1].value]
                  /\ b = [m[e1] EXCEPT !.key = m[e2].key, !.value = m[e2].value]
  OBVIOUS
<1>4. /\ {"key", "value"} \subseteq DOMAIN a /\ a.key = n[e1].key /\ a.value = n[e1].value
      /\ {"key", "value"} \subseteq DOMAIN b /\ b.key = n[e2].key /\ b.value = n[e2].value
  BY <1>2, <1>3
<1>5. PICK q : q = [m EXCEPT ![e1] = a, ![e2] = b]
  OBVIOUS
<1>6. DOMAIN q = DOMAIN m /\ \A y \in DOMAIN m : q[y] = IF y = e2 THEN b ELSE IF y = e1 THEN a ELSE m[y]
  BY <1>5
<1>7. Kept(q, n)
  <2>1. ASSUME NEW y \in DOMAIN n, {"key", "value"} \subseteq DOMAIN n[y]
        PROVE  {"key", "value"} \subseteq DOMAIN q[y] /\ q[y].key = n[y].key /\ q[y].value = n[y].value
    BY <1>1, <1>4, <1>6, <2>1
  <2> QED BY <1>1, <1>6, <2>1 DEF Kept
<1>8. Swap(m, e1, e2) = q
  BY <1>3, <1>5 DEF Swap
<1> QED BY <1>7, <1>8

(* The exchange of two elements.                                             *)
LEMMA CarriesExchange ==
  ASSUME NEW n, NEW t, Carries(t, n), NEW e1, NEW e2, Keyed(n, e1), Keyed(n, e2)
  PROVE  Carries(exchange(t, e1, e2), n)
<1>1. PICK v : v = substitute(t, e1, e2)
  OBVIOUS
<1>2. PICK u : u = substitute(v, e2, e1)
  OBVIOUS
<1>3. Carries(v, n)
  BY <1>1, CarriesSubstitute
<1>4. Carries(u, n)
  BY <1>2, <1>3, CarriesSubstitute
<1>5. PICK m1 : m1 = Swap(u.node, e1, e2)
  OBVIOUS
<1>6. PICK m2 : m2 = AdoptBoth(m1, e1)
  OBVIOUS
<1>7. PICK m3 : m3 = AdoptBoth(m2, e2)
  OBVIOUS
<1>8. Kept(u.node, n) /\ \A m : Kept(m, n) => Carries(Update(u, m), n)
  BY <1>4, CarriesFacts
<1>9. Kept(m1, n)
  BY <1>5, <1>8, KeptSwap
<1>10. Kept(m2, n)
  BY <1>6, <1>9, KeptAdoptBoth
<1>11. Kept(m3, n)
  BY <1>7, <1>10, KeptAdoptBoth
<1>12. exchange(t, e1, e2) = Update(u, m3)
  BY <1>1, <1>2, <1>5, <1>6, <1>7 DEF exchange
<1> QED BY <1>8, <1>11, <1>12

(* Every node of a tree has a key and a value.                               *)
LEMMA FieldsKeyed ==
  ASSUME NEW n, NEW S, FieldsOf(n, S), NEW y \in S
  PROVE  Keyed(n, y)
<1>1. y \in DOMAIN n /\ n[y] \in Fields
  BY DEF FieldsOf, Heap
<1>2. {"key", "value"} \subseteq DOMAIN n[y]
  BY <1>1 DEF Fields
<1> QED BY <1>1, <1>2 DEF Keyed

(* What is kept is the same there.                                           *)
LEMMA KeptFields ==
  ASSUME NEW n, NEW S, FieldsOf(n, S), NEW m, Kept(m, n)
  PROVE  \A y \in S : m[y].key = n[y].key /\ m[y].value = n[y].value
<1> SUFFICES ASSUME NEW y \in S
             PROVE  m[y].key = n[y].key /\ m[y].value = n[y].value
  OBVIOUS
<1>1. Keyed(n, y)
  BY FieldsKeyed
<1> QED BY <1>1 DEF Kept, Keyed

(* The memory of a record that carries them.                                 *)
LEMMA CarriesNode ==
  ASSUME NEW r, NEW sz, NEW m, NEW n, Carries(Record(r, sz, m), n)
  PROVE  Kept(m, n)
<1>1. PICK r2, sz2, m2 : Record(r, sz, m) = Record(r2, sz2, m2) /\ Kept(m2, n)
  BY DEF Carries
<1>2. m = m2
  BY <1>1, RecordFacts
<1> QED BY <1>1, <1>2

------------------------------------------------------------------------------
(* lighten again: how the calls that follow each other end.                  *)

(* The number of elements of a proper subset.                                *)
LEMMA SmallerSet ==
  ASSUME NEW S, IsFiniteSet(S), NEW A \in SUBSET S, NEW B \in SUBSET S, A \subseteq B,
         NEW x \in B, x \notin A
  PROVE  /\ Cardinality(A) \in Nat /\ Cardinality(B) \in Nat
         /\ Cardinality(A) < Cardinality(B) /\ Cardinality(B) <= Cardinality(S)
<1>1. IsFiniteSet(A) /\ IsFiniteSet(B) /\ Cardinality(B) <= Cardinality(S)
  BY FS_Subset
<1>2. Cardinality(A) \in Nat /\ Cardinality(B) \in Nat
  BY <1>1, FS_CardinalityType
<1>3. A \in SUBSET B /\ A # B
  OBVIOUS
<1>4. Cardinality(A) <= Cardinality(B) /\ Cardinality(A) # Cardinality(B)
  BY <1>1, <1>3, FS_Subset
<1> QED BY <1>1, <1>2, <1>4

LightenState(sz) == [tree : [root : Pointer, size : {sz}, node : Heap], up : Pointer]

(* The states that the calls of lighten pass through form a set.             *)
LEMMA LighterTyped ==
  ASSUME NEW s, NEW sz, NEW n, NEW S, NEW A, Lighter(s, sz, n, S, A), s = [tree |-> s.tree, up |-> s.up]
  PROVE  s \in LightenState(sz)
<1>1. PICK n2, r2, sub2 : s.tree = Record(r2, sz, n2) /\ SearchTree(n2, r2, S, sub2)
                          /\ (s.up = NULL \/ s.up \in S)
  BY DEF Lighter
<1>2. S \subseteq Elem /\ n2 \in Heap /\ r2 \in S \union {NULL}
  BY <1>1 DEF SearchTree, Shaped, FieldsOf
<1>3. r2 \in Pointer /\ s.up \in Pointer
  BY <1>1, <1>2 DEF Pointer
<1> QED BY <1>1, <1>2, <1>3 DEF LightenState, Record

(* The loop, one call on.                                                    *)
More(s, sz, n, S, A) ==
  \/ s.up = NULL /\ LightenNext(s) = s
  \/ s.up # NULL /\ \E A2 : /\ A \subseteq A2 /\ A2 \subseteq S /\ \E x \in A2 : x \notin A
                            /\ Lighter(LightenNext(s), sz, n, S, A2)

(* The next call, one node further up.                                       *)
LEMMA LightenMore ==
  ASSUME NEW s, NEW sz, NEW n, NEW S, NEW A, Lighter(s, sz, n, S, A)
  PROVE  More(s, sz, n, S, A)
<1>1. CASE s.up = NULL
  BY <1>1 DEF More, LightenNext
<1>2. CASE s.up # NULL
  <2>1. PICK n2, r2, sub2, h2 :
          /\ s.tree = Record(r2, sz, n2) /\ SearchTree(n2, r2, S, sub2) /\ \A y \in Elem \ S : n2[y] = n[y]
          /\ s.up \in S /\ s.up # r2 /\ sub2[s.up] = A /\ Pending(n2, r2, S, h2, s.up, -1)
    BY <1>2 DEF Lighter
  <2>2. PICK e \in S : e = s.up
    BY <2>1
  <2>3. PICK loc : loc = n2[e].parent
    OBVIOUS
  <2>4. PICK side : side = SideOf(n2, loc, e)
    OBVIOUS
  <2>5. Hangs(n2, r2, S, e, loc, side) /\ loc \in S /\ side \in Side /\ n2[loc][side] = e
    BY <2>1, <2>2, <2>3, <2>4, HangsFromParent
  <2>6. LevelBut(n2, S, h2, loc, side, -1)
    BY <2>1, <2>2, <2>5, PendingAt
  <2>7. Lighter(LightenAt(Record(r2, sz, n2), loc, side), sz, n2, S, sub2[loc])
    BY <2>1, <2>5, <2>6, LightenAtSound
  <2>8. LightenNext(s) = LightenAt(Record(r2, sz, n2), loc, side)
    BY <1>2, <2>1, <2>2, <2>3, <2>4, RecordFacts DEF LightenNext, lighten_parent, SideOf
  <2>9. PICK res : res = LightenNext(s)
    OBVIOUS
  <2>10. Lighter(res, sz, n2, S, sub2[loc])
    BY <2>7, <2>8, <2>9
  <2>11. Lighter(res, sz, n, S, sub2[loc])
    <3>1. PICK n3, r3, sub3, h3 :
            /\ res.tree = Record(r3, sz, n3) /\ SearchTree(n3, r3, S, sub3) /\ \A y \in Elem \ S : n3[y] = n2[y]
            /\ \/ res.up = NULL /\ LevelBut(n3, S, h3, NULL, "left", 0)
               \/ /\ res.up \in S /\ res.up # r3 /\ sub3[res.up] = sub2[loc]
                  /\ Pending(n3, r3, S, h3, res.up, -1)
      BY <2>10 DEF Lighter
    <3>2. \A y \in Elem \ S : n3[y] = n[y]
      BY <2>1, <3>1
    <3> QED BY <3>1, <3>2 DEF Lighter
  <2>12. /\ sub2[e] \subseteq sub2[loc] /\ loc \in sub2[loc] /\ loc \notin sub2[e]
         /\ sub2[loc] \subseteq S
    BY <2>1, <2>2, <2>5, KidFacts
  <2> QED BY <1>2, <2>1, <2>2, <2>9, <2>11, <2>12 DEF More
<1> QED BY <1>1, <1>2

(* lighten returns a record.                                                 *)
LEMMA LightenShape ==
  ASSUME NEW t, NEW e, NEW side, NEW s, s = LightenAt(t, e, side)
  PROVE  s = [tree |-> s.tree, up |-> s.up]
<1>1. \A u, x : [tree |-> u, up |-> x].tree = u /\ [tree |-> u, up |-> x].up = x
  OBVIOUS
<1>2. PICK u, v, b, top :
        s = IF b = 0 THEN IF e = v.root THEN Settled(v) ELSE [tree |-> v, up |-> e]
            ELSE IF Unbalanced(b) THEN Relinked(u, top, side) ELSE Settled(v)
  BY DEF LightenAt, Lightened
<1>3. \E w, x : s = [tree |-> w, up |-> x]
  BY <1>2 DEF Relinked, Settled
<1> QED BY <1>1, <1>3

(* The tree t after lighten(), of the nodes S: sound, and level again.       *)
Whole(t, sz, n, S) ==
  \E n2, r2, sub2, h2 : /\ t = Record(r2, sz, n2) /\ SearchTree(n2, r2, S, sub2)
                        /\ LevelBut(n2, S, h2, NULL, "left", 0) /\ \A y \in Elem \ S : n2[y] = n[y]

(* The calls of lighten end with a level search tree: each is for a larger   *)
(* subtree than the one before.                                              *)
LEMMA LightenSound ==
  ASSUME NEW n, NEW r, NEW S, NEW sub, SearchTree(n, r, S, sub), NEW loc \in S, NEW side \in Side,
         NEW h, LevelBut(n, S, h, loc, side, -1), NEW sz \in Nat, IsFiniteSet(S), Cardinality(S) <= sz
  PROVE  /\ Whole(lighten(Record(r, sz, n), loc, side), sz, n, S)
         /\ Carries(lighten(Record(r, sz, n), loc, side), n)
<1>1. PICK c : c = LightenAt(Record(r, sz, n), loc, side)
  OBVIOUS
<1>2. Lighter(c, sz, n, S, sub[loc]) /\ c = [tree |-> c.tree, up |-> c.up]
  BY <1>1, LightenAtSound, LightenShape
<1>3. sub[loc] \subseteq S /\ loc \in sub[loc]
  <2>1. PICK k : k = n[loc][side]
    OBVIOUS
  <2> QED BY <2>1, KidFacts
<1> DEFINE V == {s \in LightenState(sz) : \E A \in SUBSET S : Lighter(s, sz, n, S, A)}
           G == [k \in Nat |-> [s \in V |-> LightenNext(s)]]
           Loop(f) == f = [k \in Nat |-> IF k = 0 THEN c ELSE LightenNext(f[k - 1])]
<1>4. c \in V
  BY <1>2, <1>3, LighterTyped
<1>5. ASSUME NEW s \in V
      PROVE  LightenNext(s) \in V
  <2>1. PICK A \in SUBSET S : Lighter(s, sz, n, S, A)
    OBVIOUS
  <2>2. More(s, sz, n, S, A)
    BY <2>1, LightenMore
  <2>3. CASE s.up = NULL
    BY <2>2, <2>3 DEF More
  <2>4. CASE s.up # NULL
    <3>1. PICK A2 \in SUBSET S : Lighter(LightenNext(s), sz, n, S, A2)
      BY <2>2, <2>4 DEF More
    <3>2. PICK res : res = LightenNext(s)
      OBVIOUS
    <3>3. res = [tree |-> res.tree, up |-> res.up]
      <4>1. PICK t, e, z : res = LightenAt(t, e, z)
        BY <2>4, <3>2 DEF LightenNext, lighten_parent
      <4> QED BY <4>1, LightenShape
    <3> QED BY <3>1, <3>2, <3>3, LighterTyped
  <2> QED BY <2>3, <2>4
<1> HIDE DEF V
<1>6. G \in [Nat -> [V -> V]]
  BY <1>5
<1>7. PICK g : Recursive(g, c, G)
  BY <1>4, <1>6, RecursionExists
<1> HIDE DEF G
<1>8. Loop(g)
  <2>1. g = [k \in Nat |-> IF k = 0 THEN c ELSE G[k][g[k - 1]]]
    BY <1>7 DEF Recursive
  <2>2. g \in [Nat -> V]
    <3>1. Computes(g, V, c, G)
      BY <1>4, <1>6, <1>7, RecursionTyped
    <3> QED BY <3>1 DEF Computes
  <2>3. ASSUME NEW k \in Nat, k # 0
        PROVE  G[k][g[k - 1]] = LightenNext(g[k - 1])
    <3>1. k - 1 \in Nat
      BY <2>3
    <3>2. g[k - 1] \in V
      BY <2>2, <3>1
    <3> QED BY <3>2 DEF G
  <2> QED BY <2>1, <2>3
<1>8a. \E a : Loop(a)
  BY <1>8
<1> HIDE DEF Loop
<1>9. lighten(Record(r, sz, n), loc, side) = (CHOOSE f : Loop(f))[sz].tree
  BY <1>1, RecordFacts DEF lighten, Loop
<1>10. PICK f : f = CHOOSE a : Loop(a)
  OBVIOUS
<1>11. Loop(f)
  BY <1>8a, <1>10, Zenon
<1>12. f[0] = c /\ \A k \in Nat : f[k + 1] = LightenNext(f[k])
  BY <1>11 DEF Loop
<1> DEFINE Reached(k) == \E A \in SUBSET S : /\ Lighter(f[k], sz, n, S, A)
                                             /\ f[k].up # NULL => Cardinality(A) > k
           K == {k \in Nat : Reached(k)}
<1>13. 0 \in K
  <2>1. {} \in SUBSET S /\ {} \subseteq sub[loc] /\ sub[loc] \in SUBSET S
    BY <1>3
  <2>2. Cardinality({}) < Cardinality(sub[loc]) /\ Cardinality({}) = 0
    BY <1>3, <2>1, SmallerSet, FS_EmptySet
  <2> QED BY <1>2, <1>12, <2>1, <2>2
<1>14. ASSUME NEW k \in K
       PROVE  k + 1 \in K
  <2>1. k \in Nat /\ k + 1 \in Nat /\ Reached(k)
    OBVIOUS
  <2>2. PICK A \in SUBSET S : Lighter(f[k], sz, n, S, A) /\ (f[k].up # NULL => Cardinality(A) > k)
    BY <2>1
  <2>3. More(f[k], sz, n, S, A) /\ f[k + 1] = LightenNext(f[k])
    BY <1>12, <2>1, <2>2, LightenMore
  <2>4. CASE f[k].up = NULL
    BY <2>1, <2>2, <2>3, <2>4 DEF More
  <2>5. CASE f[k].up # NULL
    <3>1. PICK A2 \in SUBSET S : A \subseteq A2 /\ (\E x \in A2 : x \notin A) /\ Lighter(f[k + 1], sz, n, S, A2)
      BY <2>3, <2>5 DEF More
    <3>2. PICK x \in A2 : x \notin A
      BY <3>1
    <3>3. Cardinality(A) \in Nat /\ Cardinality(A2) \in Nat /\ Cardinality(A) < Cardinality(A2)
      BY <3>1, <3>2, SmallerSet
    <3>4. Cardinality(A2) > k + 1
      BY <2>1, <2>2, <2>5, <3>3
    <3> QED BY <2>1, <3>1, <3>4
  <2> QED BY <2>4, <2>5
<1>15. Reached(sz)
  <2>1. K = Nat
    <3> HIDE DEF Reached
    <3>1. K \in SUBSET Nat
      OBVIOUS
    <3> HIDE DEF K
    <3> QED BY <1>13, <1>14, <3>1, EveryNumber
  <2> QED BY <2>1
<1>16. PICK A \in SUBSET S : Lighter(f[sz], sz, n, S, A) /\ (f[sz].up # NULL => Cardinality(A) > sz)
  BY <1>15
<1>17. f[sz].up = NULL
  <2>1. Cardinality(A) \in Nat /\ Cardinality(A) <= Cardinality(S) /\ Cardinality(S) \in Nat
    BY FS_Subset, FS_CardinalityType
  <2> QED BY <1>16, <2>1
<1>18. Whole(f[sz].tree, sz, n, S)
  <2>1. \A y \in S : y # NULL
    BY NullAssumption DEF SearchTree, Shaped, FieldsOf
  <2> QED BY <1>16, <1>17, <2>1 DEF Whole, Lighter
<1>19. Carries(f[sz].tree, n)
  <2> DEFINE M == {k \in Nat : Carries(f[k].tree, n)}
  <2>1. 0 \in M
    <3>1. Carries(Record(r, sz, n), n)
      BY KeptSame, CarriesSame
    <3>2. Carries(c.tree, n)
      BY <1>1, <3>1, CarriesLightenAt
    <3> QED BY <1>12, <3>2
  <2>2. ASSUME NEW k \in M
        PROVE  k + 1 \in M
    <3>1. PICK s : s = f[k]
      OBVIOUS
    <3>2. Carries(LightenNext(s).tree, n)
      BY <3>1, CarriesLightenNext
    <3> QED BY <1>12, <3>1, <3>2
  <2>3. M = Nat
    <3>1. M \in SUBSET Nat
      OBVIOUS
    <3> HIDE DEF M
    <3> QED BY <2>1, <2>2, <3>1, EveryNumber
  <2> QED BY <2>3
<1> QED BY <1>9, <1>10, <1>18, <1>19

------------------------------------------------------------------------------
(* The shape of a tree apart from its order, and the new leaf.               *)

(* A binary tree, whatever the keys in it.                                   *)
Forked(n, r, S, sub) ==
  /\ Shaped(n, r, S) /\ Nested(n, r, S, sub)
  /\ \A x \in S, s \in Side : /\ x \notin sub[n[x][s]]
                              /\ sub[n[x][s]] \intersect sub[n[x][Other(s)]] = {}

(* A search tree has the shape of a tree.                                    *)
LEMMA SearchForked ==
  ASSUME NEW n, NEW r, NEW S, NEW sub, SearchTree(n, r, S, sub)
  PROVE  Forked(n, r, S, sub)
<1> SUFFICES ASSUME NEW x \in S, NEW s \in Side
             PROVE  x \notin sub[n[x][s]] /\ sub[n[x][s]] \intersect sub[n[x][Other(s)]] = {}
  BY DEF Forked, SearchTree
<1>1. PICK k : k = n[x][s]
  OBVIOUS
<1> QED BY <1>1, KidFacts

(* A child, and what its subtree has to do with that of its parent, by shape *)
(* alone.                                                                    *)
LEMMA ForkFacts ==
  ASSUME NEW n, NEW r, NEW S, NEW sub, Forked(n, r, S, sub),
         NEW x \in S, NEW s \in Side, NEW k, k = n[x][s]
  PROVE  /\ k \in S \union {NULL}
         /\ k # NULL => n[k].parent = x /\ k \in S /\ k # r
         /\ x \in sub[x] /\ sub[x] \subseteq S
         /\ sub[k] \subseteq sub[x] /\ x \notin sub[k]
         /\ k # NULL => k \in sub[k] /\ k # x
         /\ sub[x] = {x} \union sub[k] \union sub[n[x][Other(s)]]
         /\ sub[k] \intersect sub[n[x][Other(s)]] = {}
<1>1. FieldsOf(n, S) /\ S \subseteq Elem /\ NULL \notin S
  BY NullAssumption DEF Forked, Shaped, FieldsOf
<1>2. sub \in [Pointer -> SUBSET S] /\ sub[NULL] = {}
  BY DEF Forked, Nested
<1>3. k \in S \union {NULL} /\ (k # NULL => n[k].parent = x /\ k \in S)
  BY DEF Forked, Shaped
<1>4. Other(s) \in Side /\ Other(Other(s)) = s
  BY SideFacts
<1>5. sub[x] = {x} \union sub[k] \union sub[n[x][Other(s)]]
  BY DEF Forked, Nested, NestedAt
<1>6. sub[x] \subseteq S /\ sub[k] \subseteq S
  BY <1>1, <1>2, <1>3 DEF Pointer
<1>9. x \notin sub[k] /\ sub[k] \intersect sub[n[x][Other(s)]] = {}
  BY DEF Forked
<1>11. k # NULL => k \in sub[k]
  BY <1>3, SideFacts DEF Forked, Nested, NestedAt
<1>12. k # NULL => k # r
  <2> SUFFICES ASSUME k # NULL, k = r
               PROVE  FALSE
    OBVIOUS
  <2>1. n[k].parent = NULL
    BY DEF Forked, Shaped
  <2> QED BY <1>1, <1>3, <2>1
<1> QED BY <1>3, <1>5, <1>6, <1>9, <1>11, <1>12

(* The subtrees of a finite tree are finite.                                 *)
LEMMA NodeFacts ==
  ASSUME NEW n, NEW r, NEW S, NEW sub, Forked(n, r, S, sub), IsFiniteSet(S), NEW x \in S
  PROVE  /\ sub[x] \in SUBSET S /\ x \in sub[x]
         /\ Cardinality(sub[x]) \in Nat /\ Cardinality(sub[x]) # 0
         /\ Cardinality(sub[x]) <= Cardinality(S) /\ Cardinality(S) \in Nat
<1>1. PICK a : a = n[x]["left"]
  OBVIOUS
<1>2. sub[x] \in SUBSET S /\ x \in sub[x]
  BY <1>1, ForkFacts DEF Side
<1>3. IsFiniteSet(sub[x]) /\ Cardinality(sub[x]) <= Cardinality(S)
  BY <1>2, FS_Subset
<1>4. Cardinality(sub[x]) \in Nat /\ Cardinality(S) \in Nat /\ (Cardinality(sub[x]) = 0 <=> sub[x] = {})
  BY <1>3, FS_CardinalityType, FS_EmptySet
<1> QED BY <1>2, <1>3, <1>4

(* The parent of a node of a subtree, unless it is the top, is in it too.    *)
UpTo(n, S, sub, m) ==
  \A k \in S : Cardinality(sub[k]) <= m => \A c \in sub[k] : c # k => n[c].parent \in sub[k]

(* Upwards, by induction on the size of the subtree.                         *)
LEMMA UpStep ==
  ASSUME NEW n, NEW r, NEW S, NEW sub, Forked(n, r, S, sub), IsFiniteSet(S),
         NEW m \in Nat, UpTo(n, S, sub, m)
  PROVE  UpTo(n, S, sub, m + 1)
<1> SUFFICES ASSUME NEW k \in S, Cardinality(sub[k]) <= m + 1, NEW c \in sub[k], c # k
             PROVE  n[c].parent \in sub[k]
  BY DEF UpTo
<1>1. sub[k] = {k} \union sub[n[k]["left"]] \union sub[n[k][Other("left")]]
  BY DEF Forked, Nested, NestedAt, Side
<1>2. PICK s \in Side : c \in sub[n[k][s]]
  BY <1>1, SideFacts DEF Side
<1>3. PICK a : a = n[k][s]
  OBVIOUS
<1>4. c \in sub[a] /\ sub[NULL] = {}
  BY <1>2, <1>3 DEF Forked, Nested
<1>5. a \in S /\ n[a].parent = k /\ sub[a] \subseteq sub[k] /\ k \notin sub[a] /\ k \in sub[k]
      /\ sub[k] \subseteq S
  BY <1>3, <1>4, ForkFacts
<1>6. CASE c = a
  BY <1>5, <1>6
<1>7. CASE c # a
  <2>1. /\ Cardinality(sub[a]) < Cardinality(sub[k])
        /\ Cardinality(sub[a]) \in Nat /\ Cardinality(sub[k]) \in Nat
    BY <1>5, SmallerSet
  <2>2. Cardinality(sub[a]) <= m
    BY <2>1
  <2> QED BY <1>4, <1>5, <1>7, <2>2 DEF UpTo
<1> QED BY <1>6, <1>7

(* The parent of a node of a subtree is in the subtree, but for its top.     *)
LEMMA Upwards ==
  ASSUME NEW n, NEW r, NEW S, NEW sub, Forked(n, r, S, sub), IsFiniteSet(S),
         NEW k \in S, NEW c \in sub[k], c # k
  PROVE  n[c].parent \in sub[k]
<1> DEFINE M == {m \in Nat : UpTo(n, S, sub, m)}
<1>1. \A x \in S : sub[x] \in SUBSET S /\ x \in sub[x] /\ Cardinality(sub[x]) \in Nat
                   /\ Cardinality(sub[x]) # 0
  <2> SUFFICES ASSUME NEW x \in S
               PROVE  sub[x] \in SUBSET S /\ x \in sub[x] /\ Cardinality(sub[x]) \in Nat
                      /\ Cardinality(sub[x]) # 0
    OBVIOUS
  <2>1. PICK a : a = n[x]["left"]
    OBVIOUS
  <2>2. sub[x] \in SUBSET S /\ x \in sub[x]
    BY <2>1, ForkFacts DEF Side
  <2> QED BY <2>2, FS_Subset, FS_CardinalityType, FS_EmptySet
<1>2. 0 \in M
  BY <1>1 DEF UpTo
<1>3. \A m \in M : m + 1 \in M
  BY UpStep
<1>4. M = Nat
  <2>1. M \in SUBSET Nat
    OBVIOUS
  <2> HIDE DEF M
  <2> QED BY <1>2, <1>3, <2>1, EveryNumber
<1>5. UpTo(n, S, sub, Cardinality(sub[k]))
  BY <1>1, <1>4
<1> QED BY <1>1, <1>5 DEF UpTo

(* e is a new leaf below loc.                                                *)
Leafing(m, n, S, e, loc, side) ==
  /\ FieldsOf(m, S \union {e})
  /\ \A y \in Elem \ (S \union {e}) : m[y] = n[y]
  /\ \A y \in S, s \in Side : m[y][s] = IF y = loc /\ s = side THEN e ELSE n[y][s]
  /\ \A s \in Side : m[e][s] = n[e][s]
  /\ \A y \in S \union {e} : m[y].key = n[y].key /\ m[y].balance = n[y].balance
  /\ m[e].parent = loc /\ \A y \in S : m[y].parent = n[y].parent

(* The assignments that add a leaf.                                          *)
LEMMA LeafFacts ==
  ASSUME NEW n, NEW S, NEW e, e \notin S, FieldsOf(n, S \union {e}), NEW loc \in S, NEW side \in Side,
         NEW m, m = With(With(n, e, "parent", loc), loc, side, e)
  PROVE  Leafing(m, n, S, e, loc, side)
<1> DEFINE A == S \union {e}
<1>1. PICK n1 : n1 = With(n, e, "parent", loc)
  OBVIOUS
<1>2. loc \in Pointer /\ e \in Pointer /\ e \in A /\ loc \in A /\ side \in {"left", "right", "parent"}
  BY DEF FieldsOf, Pointer, Side
<1>3. Writes(n1, n, A, e, "parent", loc)
  BY <1>1, <1>2, WithWrites
<1>4. FieldsOf(n1, A)
  BY <1>3 DEF Writes
<1>5. Writes(m, n1, A, loc, side, e)
  BY <1>1, <1>2, <1>4, WithWrites
<1>6. side # "parent" /\ side # "key" /\ side # "balance" /\ e # loc
  BY SideFacts
<1>7. \A y \in A, g \in Field : m[y][g] = IF y = e /\ g = "parent" THEN loc
                                         ELSE IF y = loc /\ g = side THEN e ELSE n[y][g]
  <2> HIDE DEF A
  <2> QED BY <1>3, <1>5, <1>6 DEF Writes
<1>8. "parent" \in Field /\ "key" \in Field /\ "balance" \in Field
      /\ \A s \in Side : s \in Field /\ s # "parent"
  BY DEF Field, Side
<1>9. FieldsOf(m, A) /\ \A y \in Elem \ A : m[y] = n[y]
  <2> HIDE DEF A
  <2> QED BY <1>3, <1>5 DEF Writes
<1>10. \A y \in S, s \in Side : m[y][s] = IF y = loc /\ s = side THEN e ELSE n[y][s]
  BY <1>7, <1>8
<1>11. \A s \in Side : m[e][s] = n[e][s]
  BY <1>6, <1>7, <1>8
<1>12. \A y \in A : m[y].key = n[y].key /\ m[y].balance = n[y].balance
  <2> HIDE DEF A
  <2> QED BY <1>6, <1>7, <1>8
<1>13. m[e].parent = loc /\ \A y \in S : m[y].parent = n[y].parent
  BY <1>6, <1>7, <1>8
<1> QED BY <1>9, <1>10, <1>11, <1>12, <1>13 DEF Leafing

(* The tree with the leaf has the shape of a tree.                           *)
LEMMA LeafShaped ==
  ASSUME NEW n, NEW r, NEW S, Shaped(n, r, S), r # NULL, NEW e, e \notin S,
         NEW loc \in S, NEW side \in Side, n[loc][side] = NULL, \A s \in Side : n[e][s] = NULL,
         NEW m, Leafing(m, n, S, e, loc, side)
  PROVE  Shaped(m, r, S \union {e})
<1>1. FieldsOf(m, S \union {e}) /\ NULL \notin S \union {e} /\ r \in S
  <2>1. FieldsOf(m, S \union {e})
    BY DEF Leafing
  <2>2. NULL \notin S \union {e}
    BY <2>1, NullAssumption DEF FieldsOf
  <2> QED BY <2>1, <2>2 DEF Shaped
<1>2. ASSUME NEW x \in S \union {e}, NEW s \in Side, m[x][s] # NULL
      PROVE  m[x][s] \in S \union {e} /\ m[m[x][s]].parent = x
  <2>1. CASE x = e
    BY <1>2, <2>1 DEF Leafing
  <2>2. CASE x = loc /\ s = side
    BY <2>2 DEF Leafing
  <2>3. CASE x \in S /\ ~(x = loc /\ s = side)
    <3>1. m[x][s] = n[x][s]
      BY <2>3 DEF Leafing
    <3>2. n[x][s] \in S /\ n[n[x][s]].parent = x
      BY <1>2, <2>3, <3>1 DEF Shaped
    <3> QED BY <3>1, <3>2 DEF Leafing
  <2> QED BY <2>1, <2>2, <2>3
<1>3. m[r].parent = NULL
  BY <1>1 DEF Shaped, Leafing
<1>4. ASSUME NEW x \in (S \union {e}) \ {r}
      PROVE  m[x].parent \in S \union {e} /\ \E s \in Side : m[m[x].parent][s] = x
  <2>1. CASE x = e
    BY <2>1 DEF Leafing
  <2>2. CASE x # e
    <3>1. PICK p \in S, s \in Side : n[x].parent = p /\ n[p][s] = x
      BY <2>2 DEF Shaped
    <3>2. m[x].parent = p
      BY <2>2, <3>1 DEF Leafing
    <3>3. ~(p = loc /\ s = side)
      BY <1>1, <3>1
    <3>4. m[p][s] = x
      BY <3>1, <3>3 DEF Leafing
    <3> QED BY <3>1, <3>2, <3>4
  <2> QED BY <2>1, <2>2
<1> QED BY <1>1, <1>2, <1>3, <1>4 DEF Shaped

(* e belongs on that side of loc, and loc is where a search for it ends.     *)
Descends(n, S, sub, e, loc) ==
  \A y \in S, s \in Side : loc \in sub[n[y][s]] => Beyond(n, s, e, y)

SubLeaf(sub, e, loc) ==
  [k \in Pointer |-> IF k = e THEN {e} ELSE IF loc \in sub[k] THEN sub[k] \union {e} ELSE sub[k]]

(* It is a search tree if the leaf is where its key belongs.                 *)
LEMMA LeafSearch ==
  ASSUME NEW n, NEW r, NEW S, NEW sub, SearchTree(n, r, S, sub), NEW e \in Elem, e \notin S,
         NEW loc \in S, NEW side \in Side, n[loc][side] = NULL, \A s \in Side : n[e][s] = NULL,
         Descends(n, S, sub, e, loc), Beyond(n, side, e, loc),
         NEW m, Leafing(m, n, S, e, loc, side)
  PROVE  SearchTree(m, r, S \union {e}, SubLeaf(sub, e, loc))
<1> DEFINE A == S \union {e}
<1>1. PICK sub1 : sub1 = SubLeaf(sub, e, loc)
  OBVIOUS
<1>2. S \subseteq Elem /\ NULL \notin A /\ FieldsOf(n, S) /\ A \subseteq Pointer /\ loc \in Pointer
  BY NullAssumption DEF SearchTree, Shaped, FieldsOf, Pointer
<1>3. sub \in [Pointer -> SUBSET S] /\ sub[NULL] = {} /\ sub[r] = S /\ r # NULL /\ r \in S
  BY DEF SearchTree, Nested, Shaped
<1>4. \A k \in Pointer \ {e} : sub1[k] = IF loc \in sub[k] THEN sub[k] \union {e} ELSE sub[k]
  BY <1>1 DEF SubLeaf
<1>5. sub1[e] = {e} /\ sub1 \in [Pointer -> SUBSET A] /\ NULL \in Pointer /\ NULL # e
  BY <1>1, <1>2, <1>3 DEF SubLeaf, Pointer
<1>6. sub1[NULL] = {} /\ sub1[r] = A
  <2>1. r \in Pointer /\ r # e
    BY <1>2, <1>3
  <2> QED BY <1>3, <1>4, <1>5, <2>1
<1>7. ASSUME NEW x \in S, NEW s \in Side
      PROVE  /\ n[x][s] \in Pointer /\ n[x][s] # e /\ sub[n[x][s]] \subseteq S
             /\ m[x][s] = IF x = loc /\ s = side THEN e ELSE n[x][s]
  <2>1. PICK a : a = n[x][s]
    OBVIOUS
  <2>2. a \in S \union {NULL}
    BY <2>1, KidFacts
  <2>3. a \in Pointer /\ a # e
    BY <1>2, <1>5, <2>2
  <2>4. sub[a] \subseteq S
    BY <1>3, <2>3
  <2>5. m[x][s] = IF x = loc /\ s = side THEN e ELSE n[x][s]
    BY DEF Leafing
  <2> QED BY <2>1, <2>3, <2>4, <2>5
<1>8. \A x \in S : x # e /\ x \in Pointer
  BY <1>2
<1>9. ASSUME NEW x \in A
      PROVE  NestedAt(m, sub1, x)
  <2> SUFFICES ASSUME NEW s \in Side
               PROVE  sub1[x] = {x} \union sub1[m[x][s]] \union sub1[m[x][Other(s)]]
    BY DEF NestedAt
  <2>1. Other(s) \in Side /\ Other(s) # s
    BY SideFacts
  <2>2. CASE x = e
    <3>1. m[e][s] = NULL /\ m[e][Other(s)] = NULL
      BY <2>1 DEF Leafing
    <3> QED BY <1>5, <1>6, <2>2, <3>1
  <2>3. CASE x = loc
    <3>1. PICK z \in Side : z = side
      OBVIOUS
    <3>2. PICK a : a = n[loc][Other(z)]
      OBVIOUS
    <3>3. sub[loc] = {loc} \union sub[NULL] \union sub[a] /\ loc \notin sub[a]
      BY <3>1, <3>2, KidFacts, SideFacts
    <3>4. m[loc][z] = e /\ m[loc][Other(z)] = a /\ a \in Pointer \ {e} /\ sub1[a] = sub[a]
      BY <1>4, <1>7, <3>1, <3>2, <3>3, SideFacts
    <3>5. sub1[loc] = sub[loc] \union {e}
      BY <1>4, <1>8, <3>3
    <3>6. sub1[loc] = {loc} \union sub1[m[loc][z]] \union sub1[m[loc][Other(z)]]
      BY <1>3, <1>5, <3>3, <3>4, <3>5
    <3>7. s = z \/ z = Other(s)
      BY <2>1, TwoSides
    <3>8. CASE s = z
      BY <2>3, <3>6, <3>8
    <3>9. CASE z = Other(s)
      <4>1. Other(z) = s
        BY <3>9, SideFacts
      <4> QED BY <2>3, <3>6, <3>9, <4>1
    <3> QED BY <3>7, <3>8, <3>9
  <2>4. CASE x \in S /\ x # loc
    <3>1. PICK a, b : a = n[x][s] /\ b = n[x][Other(s)]
      OBVIOUS
    <3>2. sub[x] = {x} \union sub[a] \union sub[b]
      BY <2>4, <3>1 DEF SearchTree, Nested, NestedAt
    <3>3. m[x][s] = a /\ m[x][Other(s)] = b /\ a \in Pointer \ {e} /\ b \in Pointer \ {e}
      BY <1>7, <2>1, <2>4, <3>1
    <3>4. sub1[x] = IF loc \in sub[x] THEN sub[x] \union {e} ELSE sub[x]
      BY <1>4, <1>8, <2>4
    <3>5. sub1[a] = IF loc \in sub[a] THEN sub[a] \union {e} ELSE sub[a]
      BY <1>4, <3>3
    <3>6. sub1[b] = IF loc \in sub[b] THEN sub[b] \union {e} ELSE sub[b]
      BY <1>4, <3>3
    <3>7. sub1[x] = {x} \union sub1[a] \union sub1[b]
      BY <2>4, <3>2, <3>4, <3>5, <3>6
    <3> QED BY <3>3, <3>7
  <2> QED BY <2>2, <2>3, <2>4
<1>10. ASSUME NEW x \in A
       PROVE  OrderedAt(m, sub1, x)
  <2> SUFFICES ASSUME NEW s \in Side, NEW z \in sub1[m[x][s]]
               PROVE  Beyond(m, s, z, x)
    BY DEF OrderedAt
  <2>1. CASE x = e
    <3>1. m[e][s] = NULL
      BY DEF Leafing
    <3> QED BY <1>6, <2>1, <3>1
  <2>2. CASE x \in S
    <3>1. z \in A /\ (m[x].key = n[x].key) /\ \A y \in A : m[y].key = n[y].key
      <4>1. m[x][s] \in Pointer
        BY <1>2, <1>7, <2>2
      <4>2. sub1[m[x][s]] \subseteq A
        BY <1>5, <4>1
      <4> QED BY <2>2, <4>2 DEF Leafing
    <3>2. Beyond(m, s, z, x) = Beyond(n, s, z, x)
      BY <3>1, BeyondSame
    <3>3. CASE x = loc /\ s = side
      <4>1. z = e
        BY <1>5, <1>7, <2>2, <3>3
      <4> QED BY <3>2, <3>3, <4>1
    <3>4. CASE ~(x = loc /\ s = side)
      <4>1. PICK a : a = n[x][s]
        OBVIOUS
      <4>2. a \in Pointer \ {e} /\ m[x][s] = a
        BY <1>7, <2>2, <3>4, <4>1
      <4>3. z \in sub[a] \/ (z = e /\ loc \in sub[a])
        <5>1. sub1[a] = IF loc \in sub[a] THEN sub[a] \union {e} ELSE sub[a]
          BY <1>4, <4>2
        <5>2. z \in sub1[a]
          BY <4>2
        <5> QED BY <5>1, <5>2
      <4>4. z \in sub[a] => Beyond(n, s, z, x)
        BY <2>2, <4>1, KidFacts
      <4>5. loc \in sub[a] => Beyond(n, s, e, x)
        BY <2>2, <4>1 DEF Descends
      <4> QED BY <3>2, <4>3, <4>4, <4>5
    <3> QED BY <3>3, <3>4
  <2> QED BY <2>1, <2>2
<1>11. Shaped(m, r, A)
  BY <1>3, LeafShaped DEF SearchTree
<1> QED BY <1>1, <1>5, <1>6, <1>9, <1>10, <1>11 DEF SearchTree, Nested, Ordered

------------------------------------------------------------------------------
(* put() on the way back: a subtree grows, stays or is rotated.              *)

(* Heights decrease downwards and are 0 below the leaves only.               *)
LEMMA HeightFacts ==
  ASSUME NEW n, NEW r, NEW S, NEW sub, SearchTree(n, r, S, sub), NEW h, LevelBut(n, S, h, NULL, "left", 0),
         NEW x \in S, NEW s \in Side, NEW c, c = n[x][s]
  PROVE  /\ h[x] \in Nat /\ h[x] > h[c] /\ h[c] \in Nat
         /\ h[c] = 0 <=> c = NULL
         /\ h[c] - h[n[x][Other(s)]] \in -1..1
<1>1. \A y \in S : y # NULL /\ y \in Pointer
  BY NullAssumption DEF SearchTree, Shaped, FieldsOf, Pointer
<1>2. Heights(h) /\ \A y \in S : Even(n, h, y, "left", 0)
  BY <1>1 DEF LevelBut
<1>3. \A y \in S : h[y] \in Nat /\ h[y] # 0
  <2> SUFFICES ASSUME NEW y \in S
               PROVE  h[y] \in Nat /\ h[y] # 0
    OBVIOUS
  <2>1. PICK a, b : Fits(h[y], n[y].balance, a, b, "left") /\ a = h[n[y]["left"]] - 0
                    /\ b = h[n[y][Other("left")]]
    BY <1>2 DEF Even
  <2>2. n[y]["left"] \in Pointer /\ n[y][Other("left")] \in Pointer
    BY FieldTypes DEF SearchTree, Shaped, Side, Other
  <2>3. a \in Nat /\ b \in Nat
    BY <1>2, <2>1, <2>2 DEF Heights
  <2>4. h[y] = 1 + Higher(a, b)
    BY <2>1 DEF Fits
  <2> QED BY <2>3, <2>4 DEF Higher
<1>4. c \in S \union {NULL} /\ n[x][Other(s)] \in S \union {NULL}
  BY KidFacts, SideFacts
<1>5. FieldsOf(n, S)
  BY DEF SearchTree, Shaped
<1>6. Even(n, h, x, s, 0)
  BY <1>2, <1>5, EvenBothWays
<1>7. PICK a \in Nat, b \in Nat : a = h[c] /\ b = h[n[x][Other(s)]]
  BY <1>1, <1>2, <1>4 DEF Heights
<1>8. Fits(h[x], n[x].balance, a - 0, b, s)
  BY <1>6, <1>7 DEF Even
<1>9. h[x] > a /\ a - b \in -1..1
  BY <1>7, <1>8 DEF Fits, Higher
<1>10. a = 0 <=> c = NULL
  BY <1>2, <1>3, <1>4, <1>7 DEF Heights
<1> QED BY <1>3, <1>7, <1>9, <1>10

(* The tree with the leaf is level, but for the height of its parent where   *)
(* that was a leaf.                                                          *)
LEMMA LeafLevel ==
  ASSUME NEW n, NEW r, NEW S, NEW sub, SearchTree(n, r, S, sub), NEW h, LevelBut(n, S, h, NULL, "left", 0),
         NEW e \in Elem, e \notin S, NEW loc \in S, NEW side \in Side, n[loc][side] = NULL,
         \A s \in Side : n[e][s] = NULL, n[e].balance = 0, NEW m, Leafing(m, n, S, e, loc, side),
         NEW h1, h1 = [h EXCEPT ![e] = 1]
  PROVE  LevelBut(m, S \union {e}, h1, loc, side, 1)
<1>1. \A y \in S : y # NULL /\ y \in Pointer /\ y # e
  BY NullAssumption DEF SearchTree, Shaped, FieldsOf, Pointer
<1>2. e \in Pointer /\ NULL \in Pointer /\ e # NULL
  BY NullAssumption DEF Pointer
<1>3. Heights(h) /\ \A y \in S : Even(n, h, y, "left", 0)
  BY <1>1 DEF LevelBut
<1>4. h1[e] = 1 /\ h1[NULL] = 0 /\ \A k \in Pointer \ {e} : h1[k] = h[k]
  BY <1>2, <1>3 DEF Heights
<1>5. Heights(h1)
  BY <1>2, <1>3 DEF Heights
<1>6. FieldsOf(n, S)
  BY DEF SearchTree, Shaped
<1>7. Even(m, h1, e, "left", 0)
  <2>1. m[e]["left"] = NULL /\ m[e][Other("left")] = NULL /\ m[e].balance = 0
    BY DEF Leafing, Side, Other
  <2> QED BY <1>4, <2>1 DEF Even, Fits, Higher
<1>8. ASSUME NEW x \in S, x # loc
      PROVE  Even(m, h1, x, "left", 0)
  <2>1. PICK a, b : a = n[x]["left"] /\ b = n[x][Other("left")]
    OBVIOUS
  <2>2. a \in Pointer \ {e} /\ b \in Pointer \ {e}
    <3>1. a \in S \union {NULL} /\ b \in S \union {NULL}
      BY <2>1, KidFacts, SideFacts DEF Side
    <3> QED BY <1>1, <1>2, <3>1
  <2>3. m[x]["left"] = a /\ m[x][Other("left")] = b /\ m[x].balance = n[x].balance
    BY <1>8, <2>1, SideFacts DEF Leafing, Side
  <2>4. h1[x] = h[x] /\ h1[a] = h[a] /\ h1[b] = h[b]
    BY <1>1, <1>4, <2>2
  <2>5. Fits(h[x], n[x].balance, h[a] - 0, h[b], "left")
    BY <1>3, <2>1 DEF Even
  <2> QED BY <2>3, <2>4, <2>5 DEF Even
<1>9. Even(m, h1, loc, side, 1)
  <2>1. PICK b : b = n[loc][Other(side)]
    OBVIOUS
  <2>2. b \in Pointer \ {e}
    <3>1. b \in S \union {NULL}
      BY <2>1, KidFacts, SideFacts
    <3> QED BY <1>1, <1>2, <3>1
  <2>3. m[loc][side] = e /\ m[loc][Other(side)] = b /\ m[loc].balance = n[loc].balance
    BY <2>1, SideFacts DEF Leafing
  <2>4. h1[loc] = h[loc] /\ h1[b] = h[b] /\ h1[e] - 1 = h[NULL] - 0
    BY <1>1, <1>3, <1>4, <2>2 DEF Heights
  <2>5. Even(n, h, loc, side, 0)
    BY <1>3, <1>6, EvenBothWays
  <2>6. Fits(h[loc], n[loc].balance, h[NULL] - 0, h[b], side)
    BY <2>1, <2>5 DEF Even
  <2> QED BY <2>3, <2>4, <2>6 DEF Even
<1> QED BY <1>5, <1>7, <1>8, <1>9 DEF LevelBut

(* The tree that a search for e leads to loc in, once e is there; its        *)
(* balances are not right.                                                   *)
Growing(u, sz, n, r, A, x) ==
  \E n2, h2 : /\ u = Record(r, sz, n2) /\ SameLinks(n2, n, A)
              /\ Pending(n2, r, A, h2, x, 1) /\ n2[x].balance # 0
Grows(below, sz, n, r, A, x) ==
  /\ below.removed = NULL
  /\ IF below.taller THEN Growing(below.tree, sz, n, r, A, x) ELSE Whole(below.tree, sz, n, A)

(* One step back of put() without a rotation.                                *)
LEMMA TallerRest ==
  ASSUME NEW n, NEW r, NEW A, NEW sub, SearchTree(n, r, A, sub), NEW loc \in A, NEW side \in Side,
         NEW h, LevelBut(n, A, h, loc, side, 1), NEW sz, NEW n2, n2 = Tip(n, loc, Sign(side)),
         NEW b, b = Signed(n2, loc, side), b \notin {-2, 2}, NEW ploc
  PROVE  Grows(Taller(Record(r, sz, n2), ploc, loc, side), sz, n, r, A, loc)
<1>1. PICK d \in {-1, 1} : d = 1
  OBVIOUS
<1>2. PICK by : by = IF d = 1 THEN Sign(side) ELSE -Sign(side)
  OBVIOUS
<1>3. n2 = Tip(n, loc, by) /\ LevelBut(n, A, h, loc, side, d)
  BY <1>1, <1>2
<1>4. PICK d2 : d2 = IF d = 1 THEN (IF b = 1 THEN 1 ELSE 0) ELSE (IF b = 0 THEN -1 ELSE 0)
  OBVIOUS
<1>5. PICK h2 : Pending(n2, r, A, h2, loc, d2)
  BY <1>1, <1>2, <1>3, <1>4, TipRest
<1>6. SearchTree(n2, r, A, sub) /\ SameLinks(n2, n, A)
  BY <1>2, <1>3, Tipped
<1>7. PICK res : res = Taller(Record(r, sz, n2), ploc, loc, side)
  OBVIOUS
<1>8. PICK t : t = Record(r, sz, n2)
  OBVIOUS
<1>9. res = [tree |-> t, removed |-> NULL, taller |-> b = 1]
  <2>1. Sign(side) * t.node[loc].balance = b /\ ~Unbalanced(b)
    BY <1>8, RecordFacts DEF Signed, Unbalanced
  <2> QED BY <1>7, <1>8, <2>1 DEF Taller
<1>10. res.tree = t /\ res.removed = NULL /\ res.taller = (b = 1)
  BY <1>9
<1>11. CASE b = 1
  <2>1. n2[loc].balance # 0
    <3>1. Sign(side) \in {-1, 1}
      BY SideFacts
    <3> QED BY <1>11, <3>1 DEF Signed
  <2>2. Pending(n2, r, A, h2, loc, 1)
    BY <1>1, <1>4, <1>5, <1>11
  <2> QED BY <1>6, <1>7, <1>8, <1>10, <1>11, <2>1, <2>2 DEF Grows, Growing
<1>12. CASE b # 1
  <2>1. Pending(n2, r, A, h2, loc, 0) /\ FieldsOf(n2, A) /\ \A y \in Elem \ A : n2[y] = n[y]
    BY <1>1, <1>4, <1>5, <1>6, <1>12 DEF SameLinks
  <2>2. LevelBut(n2, A, h2, NULL, "left", 0)
    BY <2>1, PendingNone
  <2>3. Whole(t, sz, n, A)
    BY <1>6, <1>8, <2>1, <2>2 DEF Whole
  <2> QED BY <1>7, <1>10, <1>12, <2>3 DEF Grows
<1> QED BY <1>11, <1>12

(* One step back of put() with a rotation.                                   *)
LEMMA TallerTurn ==
  ASSUME NEW n, NEW r, NEW A, NEW sub, SearchTree(n, r, A, sub), NEW loc \in A, NEW side \in Side,
         NEW h, LevelBut(n, A, h, loc, side, 1), n[n[loc][side]].balance # 0,
         NEW sz, NEW n2, n2 = Tip(n, loc, Sign(side)),
         NEW b, b = Signed(n2, loc, side), b \in {-2, 2},
         NEW up, NEW upside, Hangs(n, r, A, loc, up, upside), NEW ploc, Points(ploc, up, upside)
  PROVE  Grows(Taller(Record(r, sz, n2), ploc, loc, side), sz, n, r, A, loc)
<1>1. PICK d \in {-1, 1} : d = 1
  OBVIOUS
<1>2. PICK by : by = IF d = 1 THEN Sign(side) ELSE -Sign(side)
  OBVIOUS
<1>3. n2 = Tip(n, loc, by) /\ LevelBut(n, A, h, loc, side, d)
  BY <1>1, <1>2
<1>4. PICK heavy : heavy = IF d = 1 THEN side ELSE Other(side)
  OBVIOUS
<1>5. heavy = side
  BY <1>1, <1>4
<1>6. PICK m : m = Rotate(n2, loc, heavy)
  OBVIOUS
<1>7. PICK top : top = NewTop(n2, loc, heavy)
  OBVIOUS
<1>8. PICK low : low = n2[n2[loc][heavy]].balance
  OBVIOUS
<1>9. /\ SearchTree(n2, r, A, sub) /\ RotateBasics(m, n2, A, loc, top)
      /\ \A n3, r3 : Linked(n3, r3, m, n2, r, A, loc, top)
                     => Turned(n3, r3, A, top, sub, loc, d, n2[n2[loc][heavy]].balance, heavy)
      /\ n2[loc][heavy] # NULL
  BY <1>2, <1>3, <1>4, <1>6, <1>7, TipTurn
<1>10. SameLinks(n2, n, A) /\ \A x \in A \ {loc} : n2[x].balance = n[x].balance
  BY <1>2, <1>3, Tipped
<1>11. low # 0
  <2>1. PICK x : x = n[loc][side]
    OBVIOUS
  <2>2. n2[loc][heavy] = x
    BY <1>5, <1>10, <2>1 DEF SameLinks
  <2>3. x \in A /\ x # loc
    BY <1>9, <2>1, <2>2, KidFacts
  <2> QED BY <1>8, <1>10, <2>1, <2>2, <2>3
<1>12. Hangs(n2, r, A, loc, up, upside)
  BY <1>10 DEF Hangs, SameLinks
<1>13. PICK n3, r3 : /\ Place(Record(r, sz, m), ploc, top) = Record(r3, sz, n3)
                     /\ Linked(n3, r3, m, n2, r, A, loc, top)
  <2>1. TopLinked(Place(Record(r, sz, m), ploc, top), sz, m, n2, r, A, loc, top)
    BY <1>9, <1>12, PlaceLinked
  <2> QED BY <2>1 DEF TopLinked
<1>14. Turned(n3, r3, A, top, sub, loc, d, low, heavy)
  BY <1>8, <1>9, <1>13
<1>15. PICK sub3, h3 :
         /\ SearchTree(n3, r3, A, sub3) /\ sub3[top] = sub[loc]
         /\ low # 0 => Pending(n3, r3, A, h3, top, 0)
  BY <1>1, <1>14 DEF Turned
<1>16. \A y \in Elem \ A : n3[y] = n[y]
  BY <1>9, <1>10, <1>13 DEF Linked, RotateBasics, SameLinks
<1>17. FieldsOf(n3, A)
  BY <1>13 DEF Linked
<1>18. LevelBut(n3, A, h3, NULL, "left", 0)
  BY <1>11, <1>15, <1>17, PendingNone
<1>19. PICK res : res = Taller(Record(r, sz, n2), ploc, loc, side)
  OBVIOUS
<1>20. res = [tree |-> Record(r3, sz, n3), removed |-> NULL, taller |-> FALSE]
  <2>1. PICK t : t = Record(r, sz, n2)
    OBVIOUS
  <2>2. Sign(side) * t.node[loc].balance = b /\ Unbalanced(b) /\ t.node = n2
        /\ Update(t, m) = Record(r, sz, m)
    BY <2>1, RecordFacts DEF Signed, Unbalanced
  <2>3. res = [tree |-> Place(Update(t, Rotate(n2, loc, side)), ploc, NewTop(n2, loc, side)),
               removed |-> NULL, taller |-> FALSE]
    BY <1>19, <2>1, <2>2 DEF Taller
  <2> QED BY <1>5, <1>6, <1>7, <1>13, <2>2, <2>3
<1>21. Whole(Record(r3, sz, n3), sz, n, A)
  BY <1>15, <1>16, <1>18 DEF Whole
<1>22. res.tree = Record(r3, sz, n3) /\ res.removed = NULL /\ res.taller = FALSE
  BY <1>20
<1> QED BY <1>19, <1>21, <1>22 DEF Grows

(* Whether a subtree has grown does not depend on the balances.              *)
LEMMA GrowsFrom ==
  ASSUME NEW n, NEW n2, NEW A, SameLinks(n2, n, A), NEW res, NEW sz, NEW r, NEW x,
         Grows(res, sz, n2, r, A, x)
  PROVE  Grows(res, sz, n, r, A, x)
<1>1. CASE res.taller
  <2>1. PICK n3, h3 : /\ res.tree = Record(r, sz, n3) /\ SameLinks(n3, n2, A)
                      /\ Pending(n3, r, A, h3, x, 1) /\ n3[x].balance # 0
    BY <1>1 DEF Grows, Growing
  <2>2. SameLinks(n3, n, A)
    BY <2>1 DEF SameLinks
  <2> QED BY <1>1, <2>1, <2>2 DEF Grows, Growing
<1>2. CASE ~res.taller
  <2>1. PICK n3, r3, sub3, h3 :
          /\ res.tree = Record(r3, sz, n3) /\ SearchTree(n3, r3, A, sub3)
          /\ LevelBut(n3, A, h3, NULL, "left", 0) /\ \A y \in Elem \ A : n3[y] = n2[y]
    BY <1>2 DEF Grows, Whole
  <2>2. \A y \in Elem \ A : n3[y] = n[y]
    BY <2>1 DEF SameLinks
  <2>3. Whole(res.tree, sz, n, A)
    BY <2>1, <2>2 DEF Whole
  <2> QED BY <1>2, <2>3 DEF Grows
<1> QED BY <1>1, <1>2

(* One step back of put(): the tree is level, or the subtree that became     *)
(* higher is reported.                                                       *)
LEMMA GrownSound ==
  ASSUME NEW n, NEW r, NEW A, NEW sub, SearchTree(n, r, A, sub), NEW loc \in A, NEW side \in Side,
         NEW x \in A, x = n[loc][side], NEW sz, NEW below, Grows(below, sz, n, r, A, x),
         NEW up, NEW upside, Hangs(n, r, A, loc, up, upside), NEW ploc, Points(ploc, up, upside)
  PROVE  Grows(Grown(below, ploc, loc, side), sz, n, r, A, loc)
<1>1. CASE ~below.taller
  BY <1>1 DEF Grown, Grows
<1>2. CASE below.taller
  <2>1. PICK n2, h2 : /\ below.tree = Record(r, sz, n2) /\ SameLinks(n2, n, A)
                      /\ Pending(n2, r, A, h2, x, 1) /\ n2[x].balance # 0
    BY <1>2 DEF Grows, Growing
  <2>2. SearchTree(n2, r, A, sub)
    BY <2>1, SearchSame
  <2>3. n2[loc][side] = x /\ loc # NULL
    <3>1. loc # NULL
      BY NullAssumption DEF SearchTree, Shaped, FieldsOf
    <3> QED BY <2>1, <3>1 DEF SameLinks
  <2>4. Hangs(n2, r, A, x, loc, side)
    BY <2>3 DEF Hangs
  <2>5. LevelBut(n2, A, h2, loc, side, 1)
    BY <2>1, <2>2, <2>4, PendingAt
  <2>6. Hangs(n2, r, A, loc, up, upside)
    BY <2>1 DEF Hangs, SameLinks
  <2>7. PICK n3 : n3 = Tip(n2, loc, Sign(side))
    OBVIOUS
  <2>8. PICK b : b = Signed(n3, loc, side)
    OBVIOUS
  <2>9. Grown(below, ploc, loc, side) = Taller(Record(r, sz, n3), ploc, loc, side)
    BY <1>2, <2>1, <2>7, RecordFacts DEF Grown
  <2>10. CASE b \notin {-2, 2}
    <3>1. Grows(Taller(Record(r, sz, n3), ploc, loc, side), sz, n2, r, A, loc)
      BY <2>2, <2>5, <2>7, <2>8, <2>10, TallerRest
    <3> QED BY <2>1, <2>9, <3>1, GrowsFrom
  <2>11. CASE b \in {-2, 2}
    <3>1. n2[n2[loc][side]].balance # 0
      BY <2>1, <2>3
    <3>2. Grows(Taller(Record(r, sz, n3), ploc, loc, side), sz, n2, r, A, loc)
      BY <2>2, <2>5, <2>6, <2>7, <2>8, <2>11, <3>1, TallerTurn
    <3> QED BY <2>1, <2>9, <3>2, GrowsFrom
  <2> QED BY <2>10, <2>11
<1> QED BY <1>1, <1>2

(* A new node e, not in the tree yet.                                        *)
Made(n, S, e) ==
  /\ e \in Elem /\ e \notin S /\ FieldsOf(n, S \union {e})
  /\ (\A s \in Side : n[e][s] = NULL) /\ n[e].parent = NULL /\ n[e].balance = 0

(* A tree without a root has no nodes.                                       *)
LEMMA SearchRoot ==
  ASSUME NEW n, NEW r, NEW S, NEW sub, SearchTree(n, r, S, sub)
  PROVE  /\ r = NULL <=> S = {}
         /\ sub[r] = S /\ r \in S \union {NULL} /\ NULL \notin S
BY NullAssumption DEF SearchTree, Shaped, Nested, FieldsOf

(* What put() leaves at the end of its path where there is no element of     *)
(* that key.                                                                 *)
LEMMA AddLeafSound ==
  ASSUME NEW n, NEW r, NEW S, NEW sub, SearchTree(n, r, S, sub), NEW h, LevelBut(n, S, h, NULL, "left", 0),
         NEW e, Made(n, S, e), NEW loc \in S, NEW side \in Side, n[loc][side] = NULL,
         Descends(n, S, sub, e, loc), Beyond(n, side, e, loc), NEW sz \in Nat,
         NEW below, below = [tree |-> AddLeaf(Record(r, sz, n), loc, e, side), removed |-> NULL,
                             taller |-> n[loc][Other(side)] = NULL]
  PROVE  \E m : /\ Leafing(m, n, S, e, loc, side)
                /\ SearchTree(m, r, S \union {e}, SubLeaf(sub, e, loc))
                /\ Grows(below, sz + 1, m, r, S \union {e}, loc)
<1> DEFINE A == S \union {e}
<1>1. PICK m : m = With(With(n, e, "parent", loc), loc, side, e)
  OBVIOUS
<1>2. e \in Elem /\ e \notin S /\ FieldsOf(n, A) /\ (\A s \in Side : n[e][s] = NULL) /\ n[e].balance = 0
  BY DEF Made
<1>3. Leafing(m, n, S, e, loc, side)
  BY <1>1, <1>2, LeafFacts
<1>4. SearchTree(m, r, A, SubLeaf(sub, e, loc))
  BY <1>2, <1>3, LeafSearch
<1>5. PICK h1 : h1 = [h EXCEPT ![e] = 1]
  OBVIOUS
<1>6. PICK d \in {-1, 1} : d = 1
  OBVIOUS
<1>7. LevelBut(m, A, h1, loc, side, d)
  <2>1. LevelBut(m, A, h1, loc, side, 1)
    BY <1>2, <1>3, <1>5, LeafLevel
  <2> QED BY <1>6, <2>1
<1>8. PICK by : by = IF d = 1 THEN Sign(side) ELSE -Sign(side)
  OBVIOUS
<1>9. PICK n2 : n2 = Tip(m, loc, by)
  OBVIOUS
<1>10. PICK t : t = AddLeaf(Record(r, sz, n), loc, e, side)
  OBVIOUS
<1>11. t = Record(r, sz + 1, n2)
  <2>1. n[loc].balance = m[loc].balance
    BY <1>3 DEF Leafing
  <2>2. n2 = With(m, loc, "balance", n[loc].balance + Sign(side))
    BY <1>6, <1>8, <1>9, <2>1 DEF Tip
  <2>3. PICK w : w = Record(r, sz, n)
    OBVIOUS
  <2>4. t = [w EXCEPT !.node = n2, !.size = @ + 1]
    <3>1. t = [w EXCEPT !.node = With(With(With(w.node, e, "parent", loc), loc, side, e), loc, "balance",
                                      w.node[loc].balance + Sign(side)), !.size = @ + 1]
      BY <1>10, <2>3 DEF AddLeaf
    <3>2. w.node = n
      BY <2>3, RecordFacts
    <3> QED BY <1>1, <2>2, <3>1, <3>2
  <2> QED BY <2>3, <2>4 DEF Record
<1>12. loc \in A /\ m[loc][side] = e /\ m[loc][Other(side)] = n[loc][Other(side)]
  BY <1>3, SideFacts DEF Leafing
<1>13. PICK a \in Nat, b \in Nat : a = h1[e] /\ b = h1[n[loc][Other(side)]]
                              /\ a = 1 /\ b \in {0, 1} /\ (b = 0 <=> n[loc][Other(side)] = NULL)
  <2>1. PICK c : c = n[loc][Other(side)]
    OBVIOUS
  <2>2. Other(side) \in Side /\ Other(Other(side)) = side
    BY SideFacts
  <2>3. h[c] \in Nat /\ (h[c] = 0 <=> c = NULL) /\ h[c] - h[NULL] \in -1..1
    BY <2>1, <2>2, HeightFacts
  <2>4. Heights(h) /\ e \in Pointer
    BY <1>2 DEF LevelBut, Pointer
  <2>5. h[NULL] = 0 /\ h1[e] = 1
    BY <1>5, <2>4 DEF Heights
  <2>6. c \in S \union {NULL} /\ c # e
    <3>1. c \in S \union {NULL}
      BY <2>1, <2>2, KidFacts
    <3> QED BY <1>2, <3>1, NullAssumption
  <2>7. h1[c] = h[c]
    BY <1>5, <2>4, <2>6 DEF Heights
  <2> QED BY <2>1, <2>3, <2>5, <2>7
<1>14. PICK sb : sb = Signed(n2, loc, side)
  OBVIOUS
<1>15. SearchTree(n2, r, A, SubLeaf(sub, e, loc)) /\ SameLinks(n2, m, A)
       /\ TipFit(h1[loc], n2[loc].balance, a, b, side, d, sb)
  <2>1. /\ SearchTree(n2, r, A, SubLeaf(sub, e, loc)) /\ SameLinks(n2, m, A)
        /\ TipFit(h1[loc], n2[loc].balance, h1[m[loc][side]], h1[m[loc][Other(side)]], side, d,
                  Signed(n2, loc, side))
    BY <1>4, <1>7, <1>8, <1>9, <1>12, Tipped
  <2> QED BY <1>12, <1>13, <1>14, <2>1
<1>16. sb = 1 - b /\ sb \notin {-2, 2}
  BY <1>13, <1>15 DEF TipFit
<1>17. PICK d2 : d2 = IF d = 1 THEN (IF sb = 1 THEN 1 ELSE 0) ELSE (IF sb = 0 THEN -1 ELSE 0)
  OBVIOUS
<1>18. PICK h2 : Pending(n2, r, A, h2, loc, d2)
  BY <1>4, <1>7, <1>8, <1>9, <1>12, <1>14, <1>16, <1>17, TipRest
<1>19. below.tree = t /\ below.removed = NULL /\ below.taller = (n[loc][Other(side)] = NULL)
  BY <1>10
<1>20. Grows(below, sz + 1, m, r, A, loc)
  <2>1. CASE b = 0
    <3>1. Pending(n2, r, A, h2, loc, 1)
      BY <1>6, <1>16, <1>17, <1>18, <2>1
    <3>2. n2[loc].balance # 0
      <4>1. Sign(side) \in {-1, 1} /\ sb = 1
        BY <1>16, <2>1, SideFacts
      <4> QED BY <1>14, <4>1 DEF Signed
    <3> QED BY <1>11, <1>13, <1>15, <1>19, <2>1, <3>1, <3>2 DEF Grows, Growing
  <2>2. CASE b # 0
    <3>1. Pending(n2, r, A, h2, loc, 0) /\ FieldsOf(n2, A) /\ \A y \in Elem \ A : n2[y] = m[y]
      BY <1>6, <1>13, <1>15, <1>16, <1>17, <1>18, <2>2 DEF SameLinks
    <3>2. LevelBut(n2, A, h2, NULL, "left", 0)
      BY <3>1, PendingNone
    <3>3. Whole(t, sz + 1, m, A)
      BY <1>11, <1>15, <3>1, <3>2 DEF Whole
    <3> QED BY <1>13, <1>19, <2>2, <3>3 DEF Grows
  <2> QED BY <2>1, <2>2
<1> QED BY <1>3, <1>4, <1>20

------------------------------------------------------------------------------
(* put() on the way down: the path leads to where the key belongs.           *)

(* The comparisons of put().                                                 *)
LEMMA TowardFacts ==
  ASSUME NEW n, NEW S, NEW e, FieldsOf(n, S \union {e}), NEW x \in S, NEW r, NEW sz,
         NEW t, t = Record(r, sz, n), NEW z, z = Toward(t, e, x)
  PROVE  /\ z \in Side
         /\ Ends(t, e, x) <=> rank(n, e) = rank(n, x) \/ n[x][z] = NULL
         /\ rank(n, e) # rank(n, x) => Beyond(n, z, e, x)
         /\ Onward(t, e, x) = IF Ends(t, e, x) THEN x ELSE n[x][z]
         /\ (cmp(t.node[e].key, t.node[x].key) = 0) <=> rank(n, e) = rank(n, x)
<1>1. rank(n, e) \in Int /\ rank(n, x) \in Int
  <2>1. x \in S \union {e} /\ e \in S \union {e}
    OBVIOUS
  <2> QED BY <2>1, RankFacts
<1>2. t.node = n
  BY RecordFacts
<1>3. PICK a \in Int, b \in Int : a = rank(n, e) /\ b = rank(n, x)
  BY <1>1
<1>4. cmp(t.node[e].key, t.node[x].key) = a - b
  BY <1>2, <1>3 DEF cmp, rank
<1>5. z = IF a - b < 0 THEN "left" ELSE "right"
  BY <1>4 DEF Toward
<1>6. z \in Side /\ (a # b => Beyond(n, z, e, x))
  BY <1>3, <1>5 DEF Side, Beyond
<1>7. Ends(t, e, x) <=> a = b \/ n[x][z] = NULL
  BY <1>2, <1>3, <1>4 DEF Ends
<1>8. Onward(t, e, x) = IF Ends(t, e, x) THEN x ELSE n[x][z]
  BY <1>2 DEF Onward
<1> QED BY <1>3, <1>4, <1>6, <1>7, <1>8

(* The path of put() starts at the root.                                     *)
LEMMA RootDescends ==
  ASSUME NEW n, NEW r, NEW S, NEW sub, SearchTree(n, r, S, sub), IsFiniteSet(S), r \in S, NEW e
  PROVE  Descends(n, S, sub, e, r)
<1> SUFFICES ASSUME NEW y \in S, NEW s \in Side, r \in sub[n[y][s]]
             PROVE  FALSE
  BY DEF Descends
<1>1. PICK k : k = n[y][s]
  OBVIOUS
<1>2. sub[NULL] = {} /\ NULL \notin S /\ n[r].parent = NULL
  BY NullAssumption DEF SearchTree, Shaped, Nested, FieldsOf
<1>3. k \in S /\ k # r /\ sub[k] \subseteq S
  <2>1. k # NULL
    BY <1>1, <1>2
  <2>2. k \in S /\ k # r /\ sub[k] \subseteq sub[y] /\ sub[y] \subseteq S
    BY <1>1, <2>1, KidFacts
  <2> QED BY <2>2
<1>4. Forked(n, r, S, sub)
  BY SearchForked
<1>5. n[r].parent \in sub[k]
  BY <1>1, <1>3, <1>4, Upwards
<1> QED BY <1>2, <1>3, <1>5

(* It goes on to the side where the key belongs.                             *)
LEMMA StepDescends ==
  ASSUME NEW n, NEW r, NEW S, NEW sub, SearchTree(n, r, S, sub), IsFiniteSet(S), NEW e,
         NEW x \in S, NEW z \in Side, NEW c, c = n[x][z], c # NULL, Descends(n, S, sub, e, x),
         Beyond(n, z, e, x)
  PROVE  Descends(n, S, sub, e, c)
<1> SUFFICES ASSUME NEW y \in S, NEW s \in Side, c \in sub[n[y][s]]
             PROVE  Beyond(n, s, e, y)
  BY DEF Descends
<1>1. PICK k : k = n[y][s]
  OBVIOUS
<1>2. CASE k = c
  <2>1. n[x][z] = n[y][s] /\ n[x][z] # NULL
    BY <1>1, <1>2
  <2>2. x = y /\ z = s
    BY <2>1, OneLink
  <2> QED BY <2>2
<1>3. CASE k # c
  <2>1. sub[NULL] = {}
    BY DEF SearchTree, Nested
  <2>2. k \in S /\ n[c].parent = x
    BY <1>1, <2>1, KidFacts
  <2>3. n[c].parent \in sub[k]
    BY <1>1, <1>3, <2>2, SearchForked, Upwards
  <2> QED BY <1>1, <2>2, <2>3 DEF Descends
<1> QED BY <1>2, <1>3

(* The path that a search for e takes.                                       *)
Leads(P, t, n, r, S, sub, e) ==
  /\ P \in [Nat -> S] /\ P[0] = r /\ \A k \in Nat : P[k + 1] = Onward(t, e, P[k])
  /\ \A k \in Nat : Descends(n, S, sub, e, P[k])

(* Every node of the path has the key in its range.                          *)
LEMMA PathLeads ==
  ASSUME NEW n, NEW r, NEW S, NEW sub, SearchTree(n, r, S, sub), IsFiniteSet(S), r \in S,
         NEW e, FieldsOf(n, S \union {e}), NEW sz \in Nat, NEW t, t = Record(r, sz, n),
         NEW P, P = Path(t, e)
  PROVE  Leads(P, t, n, r, S, sub, e)
<1>1. t.root = r /\ t.node = n /\ t.size = sz
  BY RecordFacts
<1> DEFINE G == [k \in Nat |-> [x \in S |-> Onward(t, e, x)]]
           Loop(f) == f = [k \in Nat |-> IF k = 0 THEN r ELSE Onward(t, e, f[k - 1])]
<1>2. ASSUME NEW x \in S
      PROVE  Onward(t, e, x) \in S
  <2>1. PICK z : z = Toward(t, e, x)
    OBVIOUS
  <2>2. z \in Side /\ (Ends(t, e, x) <=> rank(n, e) = rank(n, x) \/ n[x][z] = NULL)
        /\ Onward(t, e, x) = IF Ends(t, e, x) THEN x ELSE n[x][z]
    BY <2>1, TowardFacts
  <2> QED BY <2>2 DEF SearchTree, Shaped
<1>3. G \in [Nat -> [S -> S]]
  BY <1>2
<1>4. PICK g : Recursive(g, r, G)
  BY <1>3, RecursionExists
<1>5. Loop(g)
  <2>1. g = [k \in Nat |-> IF k = 0 THEN r ELSE G[k][g[k - 1]]]
    BY <1>4 DEF Recursive
  <2>2. g \in [Nat -> S]
    <3>1. Computes(g, S, r, G)
      BY <1>3, <1>4, RecursionTyped
    <3> QED BY <3>1 DEF Computes
  <2>3. ASSUME NEW k \in Nat, k # 0
        PROVE  G[k][g[k - 1]] = Onward(t, e, g[k - 1])
    <3>1. k - 1 \in Nat
      BY <2>3
    <3>2. g[k - 1] \in S
      BY <2>2, <3>1
    <3> QED BY <3>2
  <2> QED BY <2>1, <2>3
<1>6. \E a : Loop(a)
  BY <1>5
<1>7. P = CHOOSE f : Loop(f)
  BY <1>1 DEF Path
<1> HIDE DEF Loop, G
<1>8. Loop(P)
  BY <1>6, <1>7, Zenon
<1>9. P[0] = r /\ (\A k \in Nat : P[k + 1] = Onward(t, e, P[k])) /\ P = [k \in Nat |-> P[k]]
  BY <1>8 DEF Loop
<1> DEFINE K == {k \in Nat : P[k] \in S /\ Descends(n, S, sub, e, P[k])}
<1>10. 0 \in K
  BY <1>9, RootDescends
<1>11. ASSUME NEW k \in K
       PROVE  k + 1 \in K
  <2>1. PICK x \in S : x = P[k] /\ Descends(n, S, sub, e, x)
    OBVIOUS
  <2>2. k \in Nat /\ k + 1 \in Nat /\ P[k + 1] = Onward(t, e, x)
    BY <1>9, <2>1
  <2>3. P[k + 1] \in S
    BY <1>2, <2>2
  <2>4. PICK z : z = Toward(t, e, x)
    OBVIOUS
  <2>5. /\ z \in Side /\ (Ends(t, e, x) <=> rank(n, e) = rank(n, x) \/ n[x][z] = NULL)
        /\ rank(n, e) # rank(n, x) => Beyond(n, z, e, x)
        /\ Onward(t, e, x) = IF Ends(t, e, x) THEN x ELSE n[x][z]
    BY <2>4, TowardFacts
  <2>6. Descends(n, S, sub, e, P[k + 1])
    <3>1. CASE Ends(t, e, x)
      BY <2>1, <2>2, <2>5, <3>1
    <3>2. CASE ~Ends(t, e, x)
      <4>1. PICK c : c = n[x][z]
        OBVIOUS
      <4>2. c # NULL /\ Beyond(n, z, e, x) /\ P[k + 1] = c
        BY <2>2, <2>5, <3>2, <4>1
      <4>3. Descends(n, S, sub, e, c)
        BY <2>1, <2>5, <4>1, <4>2, StepDescends
      <4> QED BY <4>2, <4>3
    <3> QED BY <3>1, <3>2
  <2> QED BY <2>2, <2>3, <2>6
<1>12. K = Nat
  <2>1. K \in SUBSET Nat
    OBVIOUS
  <2> HIDE DEF K
  <2> QED BY <1>10, <1>11, <2>1, EveryNumber
<1>13. \A k \in Nat : P[k] \in S /\ Descends(n, S, sub, e, P[k])
  BY <1>12
<1>14. P \in [Nat -> S]
  BY <1>9, <1>13
<1> QED BY <1>9, <1>13, <1>14 DEF Leads

(* The path ends within as many steps as the tree has nodes.                 *)
LEMMA PathEnds ==
  ASSUME NEW n, NEW r, NEW S, NEW sub, SearchTree(n, r, S, sub), IsFiniteSet(S), r \in S,
         NEW e, FieldsOf(n, S \union {e}), NEW sz \in Nat, Cardinality(S) <= sz,
         NEW t, t = Record(r, sz, n), NEW P, Leads(P, t, n, r, S, sub, e)
  PROVE  Ends(t, e, P[sz])
<1>1. P \in [Nat -> S] /\ P[0] = r /\ \A k \in Nat : P[k + 1] = Onward(t, e, P[k])
  BY DEF Leads
<1>2. \A x \in S : sub[x] \in SUBSET S /\ x \in sub[x] /\ Cardinality(sub[x]) \in Nat
                   /\ Cardinality(sub[x]) # 0 /\ Cardinality(sub[x]) <= sz
  <2> SUFFICES ASSUME NEW x \in S
               PROVE  sub[x] \in SUBSET S /\ x \in sub[x] /\ Cardinality(sub[x]) \in Nat
                      /\ Cardinality(sub[x]) # 0 /\ Cardinality(sub[x]) <= sz
    OBVIOUS
  <2>1. PICK a : a = n[x]["left"]
    OBVIOUS
  <2>2. sub[x] \in SUBSET S /\ x \in sub[x]
    BY <2>1, KidFacts DEF Side
  <2>3. IsFiniteSet(sub[x]) /\ Cardinality(sub[x]) <= Cardinality(S)
    BY <2>2, FS_Subset
  <2>4. Cardinality(sub[x]) \in Nat /\ Cardinality(S) \in Nat /\ (Cardinality(sub[x]) = 0 <=> sub[x] = {})
    BY <2>3, FS_CardinalityType, FS_EmptySet
  <2> QED BY <2>2, <2>3, <2>4
<1> DEFINE K == {k \in Nat : Ends(t, e, P[k]) \/ Cardinality(sub[P[k]]) + k <= sz}
<1>3. 0 \in K
  BY <1>1, <1>2
<1>4. ASSUME NEW k \in K
      PROVE  k + 1 \in K
  <2>1. PICK x \in S : x = P[k]
    BY <1>1
  <2>2. k \in Nat /\ k + 1 \in Nat /\ P[k + 1] = Onward(t, e, x)
    BY <1>1, <2>1
  <2>3. PICK z : z = Toward(t, e, x)
    OBVIOUS
  <2>4. /\ z \in Side /\ (Ends(t, e, x) <=> rank(n, e) = rank(n, x) \/ n[x][z] = NULL)
        /\ Onward(t, e, x) = IF Ends(t, e, x) THEN x ELSE n[x][z]
    BY <2>3, TowardFacts
  <2>5. CASE Ends(t, e, x)
    BY <2>1, <2>2, <2>4, <2>5
  <2>6. CASE ~Ends(t, e, x)
    <3>1. PICK c : c = n[x][z]
      OBVIOUS
    <3>2. P[k + 1] = c /\ c # NULL
      BY <2>2, <2>4, <2>6, <3>1
    <3>3. c \in S /\ sub[c] \subseteq sub[x] /\ x \notin sub[c] /\ x \in sub[x]
      BY <2>4, <3>1, <3>2, KidFacts
    <3>4. PICK i \in Nat, j \in Nat : i = Cardinality(sub[c]) /\ j = Cardinality(sub[x])
      BY <1>2, <3>3
    <3>5. i < j
      BY <1>2, <3>3, <3>4, SmallerSet
    <3>6. j + k <= sz
      BY <2>1, <2>6, <3>4
    <3>7. i + (k + 1) <= sz
      BY <2>2, <3>5, <3>6
    <3> QED BY <2>2, <3>2, <3>4, <3>7
  <2> QED BY <2>5, <2>6
<1>5. K = Nat
  <2>1. K \in SUBSET Nat
    OBVIOUS
  <2> HIDE DEF K
  <2> QED BY <1>3, <1>4, <2>1, EveryNumber
<1>6. Ends(t, e, P[sz]) \/ Cardinality(sub[P[sz]]) + sz <= sz
  BY <1>5
<1> QED BY <1>1, <1>2, <1>6

------------------------------------------------------------------------------
(* The same tree with other nodes in the places of its nodes: replaced       *)
(* elements, exchanged elements and copies are instances of it.              *)

(* The subtree of a node of a subtree is part of it.                         *)
WithinTo(S, sub, m) ==
  \A k \in S : Cardinality(sub[k]) <= m => \A c \in sub[k] : sub[c] \subseteq sub[k]

(* Within, by induction on the size of the subtree.                          *)
LEMMA WithinStep ==
  ASSUME NEW n, NEW r, NEW S, NEW sub, Forked(n, r, S, sub), IsFiniteSet(S),
         NEW m \in Nat, WithinTo(S, sub, m)
  PROVE  WithinTo(S, sub, m + 1)
<1> SUFFICES ASSUME NEW k \in S, Cardinality(sub[k]) <= m + 1, NEW c \in sub[k], c # k
             PROVE  sub[c] \subseteq sub[k]
  BY DEF WithinTo
<1>1. sub[k] = {k} \union sub[n[k]["left"]] \union sub[n[k][Other("left")]]
  BY DEF Forked, Nested, NestedAt, Side
<1>2. PICK s \in Side : c \in sub[n[k][s]]
  BY <1>1, SideFacts DEF Side
<1>3. PICK a : a = n[k][s]
  OBVIOUS
<1>4. c \in sub[a] /\ sub[NULL] = {}
  BY <1>2, <1>3 DEF Forked, Nested
<1>5. a \in S /\ sub[a] \subseteq sub[k] /\ k \notin sub[a] /\ k \in sub[k] /\ sub[k] \subseteq S
  BY <1>3, <1>4, ForkFacts
<1>6. /\ Cardinality(sub[a]) < Cardinality(sub[k])
      /\ Cardinality(sub[a]) \in Nat /\ Cardinality(sub[k]) \in Nat
  BY <1>5, SmallerSet
<1>7. Cardinality(sub[a]) <= m
  BY <1>6
<1>8. sub[c] \subseteq sub[a]
  BY <1>4, <1>5, <1>7 DEF WithinTo
<1> QED BY <1>5, <1>8

(* The subtree of a node of a subtree is part of it.                         *)
LEMMA Within ==
  ASSUME NEW n, NEW r, NEW S, NEW sub, Forked(n, r, S, sub), IsFiniteSet(S),
         NEW k \in S, NEW c \in sub[k]
  PROVE  sub[c] \subseteq sub[k]
<1> DEFINE M == {m \in Nat : WithinTo(S, sub, m)}
<1>1. \A x \in S : Cardinality(sub[x]) \in Nat /\ Cardinality(sub[x]) # 0
  BY NodeFacts
<1>2. 0 \in M
  BY <1>1 DEF WithinTo
<1>3. \A m \in M : m + 1 \in M
  BY WithinStep
<1>4. M = Nat
  <2>1. M \in SUBSET Nat
    OBVIOUS
  <2> HIDE DEF M
  <2> QED BY <1>2, <1>3, <2>1, EveryNumber
<1>5. WithinTo(S, sub, Cardinality(sub[k]))
  BY <1>1, <1>4
<1> QED BY <1>1, <1>5 DEF WithinTo

(* The tree of the nodes T is that of S with every node y in the place of    *)
(* q[y].                                                                     *)
Renaming(q, T, S) ==
  /\ q[NULL] = NULL /\ T \subseteq Elem
  /\ \A y \in T : q[y] \in S
  /\ \A y \in T, z \in T : q[y] = q[z] => y = z
  /\ \A x \in S : \E y \in T : q[y] = x
Renamed(n2, r2, T, n, r, S, q) ==
  /\ FieldsOf(n2, T) /\ Renaming(q, T, S)
  /\ r2 \in T \union {NULL} /\ q[r2] = r
  /\ \A y \in T, s \in Side : n2[y][s] \in T \union {NULL} /\ q[n2[y][s]] = n[q[y]][s]
  /\ \A y \in T : /\ n2[y].parent \in T \union {NULL} /\ q[n2[y].parent] = n[q[y]].parent
                  /\ n2[y].balance = n[q[y]].balance
SubRenamed(sub, q, T) == [k \in Pointer |-> IF k \in T THEN {z \in T : q[z] \in sub[q[k]]} ELSE {}]
HeightsRenamed(h, q, T) == [k \in Pointer |-> IF k \in T THEN h[q[k]] ELSE 0]

(* The tree with other nodes has the shape of a tree.                        *)
LEMMA RenamedShaped ==
  ASSUME NEW n, NEW r, NEW S, Shaped(n, r, S), NEW n2, NEW r2, NEW T, NEW q,
         Renamed(n2, r2, T, n, r, S, q)
  PROVE  Shaped(n2, r2, T)
<1>1. NULL \notin S /\ NULL \notin T
  BY NullAssumption DEF Shaped, FieldsOf, Renamed, Renaming
<1>2. \A y \in T \union {NULL} : (q[y] = NULL <=> y = NULL) /\ (y # NULL => y \in T /\ q[y] \in S)
  BY <1>1 DEF Renamed, Renaming
<1>3. \A y \in T \union {NULL}, z \in T \union {NULL} : q[y] = q[z] => y = z
  BY <1>1, <1>2 DEF Renamed, Renaming
<1>4. ASSUME NEW y \in T, NEW s \in Side, n2[y][s] # NULL
      PROVE  n2[y][s] \in T /\ n2[n2[y][s]].parent = y
  <2>1. PICK k \in T : k = n2[y][s]
    BY <1>4 DEF Renamed
  <2>2. q[k] = n[q[y]][s] /\ q[y] \in S /\ q[k] # NULL
    BY <1>1, <1>2, <2>1 DEF Renamed
  <2>3. n[q[k]].parent = q[y]
    BY <2>2 DEF Shaped
  <2>4. n2[k].parent \in T \union {NULL} /\ q[n2[k].parent] = q[y]
    BY <2>3 DEF Renamed
  <2> QED BY <1>3, <2>1, <2>4
<1>5. ASSUME r2 # NULL
      PROVE  n2[r2].parent = NULL
  <2>1. r2 \in T /\ q[r2] = r /\ r # NULL
    BY <1>2, <1>5 DEF Renamed
  <2>2. n2[r2].parent \in T \union {NULL} /\ q[n2[r2].parent] = NULL
    BY <2>1 DEF Renamed, Shaped
  <2> QED BY <1>2, <2>2
<1>6. ASSUME NEW y \in T \ {r2}
      PROVE  n2[y].parent \in T /\ \E s \in Side : n2[n2[y].parent][s] = y
  <2>1. q[y] \in S /\ q[y] # r
    <3>1. y \in T \union {NULL} /\ r2 \in T \union {NULL} /\ q[r2] = r
      BY DEF Renamed
    <3>2. q[y] = q[r2] => y = r2
      BY <1>3, <3>1
    <3>3. y # r2 /\ y # NULL
      BY <1>1
    <3> QED BY <1>2, <3>1, <3>2, <3>3
  <2>2. n[q[y]].parent \in S /\ \E s \in Side : n[n[q[y]].parent][s] = q[y]
    BY <2>1 DEF Shaped
  <2>3. PICK p : p = n2[y].parent
    OBVIOUS
  <2>4. p \in T \union {NULL} /\ q[p] = n[q[y]].parent
    BY <2>3 DEF Renamed
  <2>5. p \in T /\ q[p] \in S
    BY <1>1, <1>2, <2>2, <2>4
  <2>6. PICK s \in Side : n[q[p]][s] = q[y]
    BY <2>2, <2>4
  <2>7. n2[p][s] \in T \union {NULL} /\ q[n2[p][s]] = q[y]
    BY <2>5, <2>6 DEF Renamed
  <2>8. n2[p][s] = y
    BY <1>3, <2>7
  <2> QED BY <2>3, <2>5, <2>8
<1> QED BY <1>4, <1>5, <1>6 DEF Shaped, Renamed

(* Its subtrees are those of the original, renamed.                          *)
LEMMA RenamedForked ==
  ASSUME NEW n, NEW r, NEW S, NEW sub, Forked(n, r, S, sub), NEW n2, NEW r2, NEW T, NEW q,
         Renamed(n2, r2, T, n, r, S, q)
  PROVE  Forked(n2, r2, T, SubRenamed(sub, q, T))
<1>1. NULL \notin S /\ NULL \notin T /\ T \subseteq Pointer /\ NULL \in Pointer
  BY NullAssumption DEF Forked, Shaped, FieldsOf, Renamed, Renaming, Pointer
<1>2. PICK sub2 : sub2 = SubRenamed(sub, q, T)
  OBVIOUS
<1>3. sub[NULL] = {} /\ sub[r] = S
  BY DEF Forked, Nested
<1>4. ASSUME NEW k \in T \union {NULL}
      PROVE  \A z : z \in sub2[k] <=> z \in T /\ q[z] \in sub[q[k]]
  <2>1. CASE k \in T
    BY <1>1, <1>2, <2>1 DEF SubRenamed
  <2>2. CASE k = NULL
    <3>1. sub2[k] = {}
      BY <1>1, <1>2, <2>2 DEF SubRenamed
    <3>2. sub[q[k]] = {}
      BY <1>3, <2>2 DEF Renamed, Renaming
    <3> QED BY <3>1, <3>2
  <2> QED BY <2>1, <2>2
<1>5. sub2 \in [Pointer -> SUBSET T]
  BY <1>2 DEF SubRenamed
<1>6. sub2[NULL] = {}
  BY <1>1, <1>2 DEF SubRenamed
<1>7. sub2[r2] = T
  <2>1. r2 \in T \union {NULL} /\ q[r2] = r /\ \A y \in T : q[y] \in S
    BY DEF Renamed, Renaming
  <2>2. \A z : z \in sub2[r2] <=> z \in T /\ q[z] \in sub[q[r2]]
    BY <1>4, <2>1
  <2> QED BY <1>3, <2>1, <2>2
<1>8. ASSUME NEW x \in T, NEW s \in Side
      PROVE  /\ sub2[x] = {x} \union sub2[n2[x][s]] \union sub2[n2[x][Other(s)]]
             /\ x \notin sub2[n2[x][s]] /\ sub2[n2[x][s]] \intersect sub2[n2[x][Other(s)]] = {}
  <2>1. Other(s) \in Side
    BY SideFacts
  <2>2. PICK a, b : a = n2[x][s] /\ b = n2[x][Other(s)]
    OBVIOUS
  <2>3. a \in T \union {NULL} /\ b \in T \union {NULL} /\ q[a] = n[q[x]][s] /\ q[b] = n[q[x]][Other(s)]
        /\ q[x] \in S
    BY <2>1, <2>2 DEF Renamed, Renaming
  <2>4. PICK k : k = n[q[x]][s]
    OBVIOUS
  <2>5. sub[q[x]] = {q[x]} \union sub[q[a]] \union sub[q[b]] /\ q[x] \notin sub[q[a]]
        /\ sub[q[a]] \intersect sub[q[b]] = {}
    BY <2>3, <2>4, ForkFacts
  <2>6. /\ \A z : z \in sub2[x] <=> z \in T /\ q[z] \in sub[q[x]]
        /\ \A z : z \in sub2[a] <=> z \in T /\ q[z] \in sub[q[a]]
        /\ \A z : z \in sub2[b] <=> z \in T /\ q[z] \in sub[q[b]]
    BY <1>4, <2>3
  <2>7. \A z \in T : q[z] = q[x] => z = x
    BY DEF Renamed, Renaming
  <2>8. sub2[x] = {x} \union sub2[a] \union sub2[b]
    BY <2>5, <2>6, <2>7
  <2>9. x \notin sub2[a] /\ sub2[a] \intersect sub2[b] = {}
    BY <2>5, <2>6
  <2> QED BY <2>2, <2>8, <2>9
<1>9. Shaped(n2, r2, T)
  BY RenamedShaped DEF Forked
<1> QED BY <1>2, <1>5, <1>6, <1>7, <1>8, <1>9 DEF Forked, Nested, NestedAt

(* It is as level as the original.                                           *)
LEMMA RenamedLevel ==
  ASSUME NEW n, NEW r, NEW S, NEW n2, NEW r2, NEW T, NEW q, FieldsOf(n, S),
         Renamed(n2, r2, T, n, r, S, q), NEW h, LevelBut(n, S, h, NULL, "left", 0)
  PROVE  LevelBut(n2, T, HeightsRenamed(h, q, T), NULL, "left", 0)
<1>1. NULL \notin T /\ T \subseteq Pointer /\ NULL \in Pointer
  BY NullAssumption DEF Renamed, Renaming, Pointer
<1>2. PICK h2 : h2 = HeightsRenamed(h, q, T)
  OBVIOUS
<1>3. Heights(h) /\ (\A x \in S : Even(n, h, x, "left", 0)) /\ S \subseteq Pointer
  BY NullAssumption DEF LevelBut, FieldsOf, Pointer
<1>4. \A k \in T \union {NULL} : h2[k] = h[q[k]]
  <2>1. q[NULL] = NULL /\ h[NULL] = 0
    BY <1>3 DEF Renamed, Renaming, Heights
  <2> QED BY <1>1, <1>2, <2>1 DEF HeightsRenamed
<1>5. Heights(h2)
  <2>1. \A y \in T : q[y] \in S
    BY DEF Renamed, Renaming
  <2> QED BY <1>1, <1>2, <1>3, <2>1 DEF Heights, HeightsRenamed
<1>6. ASSUME NEW y \in T
      PROVE  Even(n2, h2, y, "left", 0)
  <2>1. PICK a, b : a = n2[y]["left"] /\ b = n2[y][Other("left")]
    OBVIOUS
  <2>2. a \in T \union {NULL} /\ b \in T \union {NULL} /\ q[y] \in S /\ n2[y].balance = n[q[y]].balance
        /\ q[a] = n[q[y]]["left"] /\ q[b] = n[q[y]][Other("left")]
    BY <2>1, SideFacts DEF Renamed, Renaming, Side
  <2>3. Fits(h[q[y]], n[q[y]].balance, h[q[a]] - 0, h[q[b]], "left")
    BY <1>3, <2>2 DEF Even
  <2>4. h2[y] = h[q[y]] /\ h2[a] = h[q[a]] /\ h2[b] = h[q[b]]
    BY <1>4, <2>2
  <2> QED BY <2>1, <2>2, <2>3, <2>4 DEF Even
<1> QED BY <1>1, <1>2, <1>5, <1>6 DEF LevelBut

(* The new element takes over the fields of the old one.                     *)
LEMMA TakeOverFacts ==
  ASSUME NEW n \in Heap, NEW e \in Elem, n[e] \in Fields, NEW x \in Elem, n[x] \in Fields,
         NEW m, m = TakeOver(n, e, x)
  PROVE  /\ m \in Heap /\ m[e] \in Fields /\ \A y \in Elem : y # e => m[y] = n[y]
         /\ m[e].parent = n[x].parent /\ m[e].left = n[x].left /\ m[e].right = n[x].right
         /\ m[e].balance = n[x].balance /\ m[e].key = n[e].key
<1>1. PICK w : w = [n[e] EXCEPT !.parent = n[x].parent, !.left = n[x].left, !.right = n[x].right,
                                !.balance = n[x].balance]
  OBVIOUS
<1>2. w \in Fields
  BY <1>1 DEF Fields
<1>3. /\ w.parent = n[x].parent /\ w.left = n[x].left /\ w.right = n[x].right
      /\ w.balance = n[x].balance /\ w.key = n[e].key
  BY <1>1 DEF Fields
<1>4. m = [n EXCEPT ![e] = w]
  BY <1>1 DEF TakeOver, Heap
<1> QED BY <1>2, <1>3, <1>4 DEF Heap

(* substitute() of e for a node x of which e took over the fields.           *)
Substituted(n2, r2, m, r, T, x, e) ==
  /\ FieldsOf(n2, T) /\ \A y \in Elem \ T : n2[y] = m[y]
  /\ r2 = IF x = r THEN e ELSE r
  /\ \A y \in T, s \in Side : n2[y][s] = IF m[y][s] = x THEN e ELSE m[y][s]
  /\ \A y \in T : n2[y].parent = m[y].parent /\ n2[y].balance = m[y].balance /\ n2[y].key = m[y].key

(* substitute(): the place where the old element hung gets the new one.      *)
LEMMA SubstituteFacts ==
  ASSUME NEW m, NEW T, FieldsOf(m, T), NEW r, NEW sz, NEW x, NEW e \in T,
         x = r => \A y \in T, s \in Side : m[y][s] # x,
         NEW p, p = m[x].parent,
         x # r => /\ p \in T /\ \E s \in Side : m[p][s] = x
                  /\ \A y \in T, s \in Side, z \in Side : m[y][s] = x /\ m[p][z] = x => y = p /\ s = z
  PROVE  \E n2, r2 : /\ substitute(Record(r, sz, m), e, x) = Record(r2, sz, n2)
                     /\ Substituted(n2, r2, m, r, T, x, e)
<1>1. PICK t : t = Record(r, sz, m)
  OBVIOUS
<1>2. t.node = m /\ t.root = r /\ (\A w : Update(t, w) = Record(r, sz, w))
      /\ [t EXCEPT !.root = e] = Record(e, sz, m)
  BY <1>1, RecordFacts
<1>3. CASE x = r
  <2>1. substitute(t, e, x) = Record(e, sz, m)
    BY <1>2, <1>3 DEF substitute
  <2>2. Substituted(m, e, m, r, T, x, e)
    BY <1>3 DEF Substituted
  <2> QED BY <1>1, <2>1, <2>2
<1>4. CASE x # r
  <2>1. PICK z : z = IF m[p].left = x THEN "left" ELSE "right"
    OBVIOUS
  <2>2. p \in T /\ z \in Side /\ m[p][z] = x
    BY <1>4, <2>1 DEF Side
  <2>3. PICK n2 : n2 = With(m, p, z, e)
    OBVIOUS
  <2>4. substitute(t, e, x) = Record(r, sz, n2)
    BY <1>2, <1>4, <2>1, <2>3 DEF substitute
  <2>5. e \in Pointer /\ z \in {"left", "right", "parent"}
    BY <2>2 DEF FieldsOf, Pointer, Side
  <2>6. Writes(n2, m, T, p, z, e)
    BY <2>2, <2>3, <2>5, WithWrites
  <2>7. FieldsOf(n2, T) /\ (\A y \in Elem \ T : n2[y] = m[y])
        /\ \A y \in T, g \in Field : n2[y][g] = IF y = p /\ g = z THEN e ELSE m[y][g]
    BY <2>6 DEF Writes
  <2>8. ASSUME NEW y \in T, NEW s \in Side
        PROVE  n2[y][s] = IF m[y][s] = x THEN e ELSE m[y][s]
    <3>1. m[y][s] = x => y = p /\ s = z
      BY <1>4, <2>2
    <3>2. s \in Field
      BY SideFacts
    <3> QED BY <2>2, <2>7, <3>1, <3>2
  <2>9. ASSUME NEW y \in T
        PROVE  n2[y].parent = m[y].parent /\ n2[y].balance = m[y].balance /\ n2[y].key = m[y].key
    <3>1. z # "parent" /\ z # "balance" /\ z # "key"
      BY <2>2, SideFacts
    <3>2. "parent" \in Field /\ "balance" \in Field /\ "key" \in Field
      BY DEF Field
    <3> QED BY <2>7, <3>1, <3>2
  <2>10. Substituted(n2, r, m, r, T, x, e)
    BY <1>4, <2>7, <2>8, <2>9 DEF Substituted
  <2> QED BY <1>1, <2>4, <2>10
<1> QED BY <1>3, <1>4

Adopted(m, n, T, e) ==
  /\ FieldsOf(m, T) /\ \A y \in Elem \ T : m[y] = n[y]
  /\ \A y \in T, s \in Side : m[y][s] = n[y][s]
  /\ \A y \in T : /\ m[y].balance = n[y].balance /\ m[y].key = n[y].key
                  /\ m[y].parent = IF \E s \in Side : n[e][s] = y THEN e ELSE n[y].parent

(* Both children, if there are any, get their parent pointer.                *)
LEMMA AdoptBothFacts ==
  ASSUME NEW n, NEW T, FieldsOf(n, T), NEW e \in T, \A s \in Side : n[e][s] \in T \union {NULL},
         NEW m, m = AdoptBoth(n, e)
  PROVE  Adopted(m, n, T, e)
<1>1. PICK a, b : a = n[e]["left"] /\ b = n[e]["right"]
  OBVIOUS
<1>2. PICK l, z : l = "left" /\ z = "right"
  OBVIOUS
<1>3. l \in Side /\ z \in Side /\ a \in T \union {NULL} /\ b \in T \union {NULL}
      /\ a = n[e][l] /\ b = n[e][z]
  BY <1>1, <1>2 DEF Side
<1>4. PICK m1 : m1 = Adopt(n, e, l)
  OBVIOUS
<1>5. /\ FieldsOf(m1, T)
      /\ \A y \in Elem \ T : m1[y] = n[y]
      /\ \A y \in T, g \in Field : m1[y][g] = IF y = a /\ g = "parent" THEN e ELSE n[y][g]
  BY <1>3, <1>4, AdoptFacts
<1>6. z \in Field /\ z # "parent"
  BY <1>3, SideFacts
<1>7. m1[e][z] = b /\ m = Adopt(m1, e, z)
  BY <1>2, <1>3, <1>4, <1>5, <1>6 DEF AdoptBoth
<1>8. /\ FieldsOf(m, T)
      /\ \A y \in Elem \ T : m[y] = m1[y]
      /\ \A y \in T, g \in Field : m[y][g] = IF y = b /\ g = "parent" THEN e ELSE m1[y][g]
  BY <1>3, <1>5, <1>7, AdoptFacts
<1>9. \A y \in T, g \in Field : m[y][g] = IF (y = a \/ y = b) /\ g = "parent" THEN e ELSE n[y][g]
  BY <1>5, <1>8
<1>10. "parent" \in Field /\ "balance" \in Field /\ "key" \in Field
       /\ \A s \in Side : s \in Field /\ s # "parent"
  BY DEF Field, Side
<1>11. \A y \in T : (\E s \in Side : n[e][s] = y) <=> y = a \/ y = b
  BY <1>1 DEF Side
<1>12. ASSUME NEW y \in T
       PROVE  /\ m[y].balance = n[y].balance /\ m[y].key = n[y].key
              /\ m[y].parent = IF \E s \in Side : n[e][s] = y THEN e ELSE n[y].parent
  BY <1>9, <1>10, <1>11
<1>13. \A y \in T, s \in Side : m[y][s] = n[y][s]
  BY <1>9, <1>10
<1> QED BY <1>5, <1>8, <1>12, <1>13 DEF Adopted

(* e in the place of x, with the keys that the nodes have.                   *)
Replaced(n2, r2, T, n, r, S, q) ==
  /\ Renamed(n2, r2, T, n, r, S, q) /\ \A y \in Elem \ T : n2[y] = n[y]
  /\ \A y \in T : n2[y].key = n[y].key
InPlaceOf(e, x) == [k \in Pointer |-> IF k = e THEN x ELSE k]

(* Replacing an element is renaming it.                                      *)
LEMMA ReplaceFacts ==
  ASSUME NEW n, NEW r, NEW S, NEW sub, Forked(n, r, S, sub), NEW e \in Elem, e \notin S,
         FieldsOf(n, S \union {e}), NEW x \in S, NEW sz
  PROVE  \E n2, r2 : /\ Replace(Record(r, sz, n), x, e) = Record(r2, sz, n2)
                     /\ Replaced(n2, r2, (S \ {x}) \union {e}, n, r, S, InPlaceOf(e, x))
<1>1. PICK T : T = (S \ {x}) \union {e}
  OBVIOUS
<1>2. PICK q : q = InPlaceOf(e, x)
  OBVIOUS
<1>3. /\ S \subseteq Elem /\ NULL \notin S /\ NULL \notin T /\ T \subseteq Elem /\ T \subseteq Pointer
      /\ NULL \in Pointer /\ e # x /\ n \in Heap /\ n[e] \in Fields /\ n[x] \in Fields /\ FieldsOf(n, S)
      /\ \A y \in T : n[y] \in Fields
  BY <1>1, NullAssumption DEF FieldsOf, Pointer
<1>4. q[e] = x /\ q[NULL] = NULL /\ \A y \in S \ {x} : q[y] = y
  <2>1. e \in Pointer /\ NULL # e /\ \A y \in S \ {x} : y \in Pointer /\ y # e
    BY <1>1, <1>3
  <2>2. \A y \in Pointer : q[y] = IF y = e THEN x ELSE y
    BY <1>2 DEF InPlaceOf
  <2> QED BY <1>3, <2>1, <2>2
<1>5. PICK m1 : m1 = TakeOver(n, e, x)
  OBVIOUS
<1>6. /\ m1 \in Heap /\ m1[e] \in Fields /\ \A y \in Elem : y # e => m1[y] = n[y]
      /\ m1[e].parent = n[x].parent /\ m1[e].left = n[x].left /\ m1[e].right = n[x].right
      /\ m1[e].balance = n[x].balance /\ m1[e].key = n[e].key
  BY <1>3, <1>5, TakeOverFacts
<1>7. FieldsOf(m1, T) /\ m1[x] = n[x] /\ \A y \in S \ {x} : m1[y] = n[y]
  BY <1>1, <1>3, <1>6 DEF FieldsOf
<1>8. \A s \in Side : m1[e][s] = n[x][s]
  BY <1>6 DEF Side
<1>9. \A y \in S, s \in Side : n[y][s] \in S \union {NULL} /\ (n[y][s] # NULL => n[n[y][s]].parent = y)
  BY DEF Forked, Shaped
<1>10. \A s \in Side : n[x][s] # x
  <2> SUFFICES ASSUME NEW s \in Side
               PROVE  n[x][s] # x
    OBVIOUS
  <2>1. PICK k : k = n[x][s]
    OBVIOUS
  <2>2. k # NULL => k # x
    BY <2>1, ForkFacts
  <2> QED BY <1>3, <2>1, <2>2
<1>11. PICK p : p = n[x].parent
  OBVIOUS
<1>12. x = r => p = NULL /\ \A y \in S, s \in Side : n[y][s] # x
  <2>1. x = r => p = NULL
    BY <1>3, <1>11 DEF Forked, Shaped
  <2> QED BY <1>3, <1>9, <1>11, <2>1
<1>13. x # r => p \in S /\ p # x /\ \E s \in Side : n[p][s] = x
  BY <1>10, <1>11 DEF Forked, Shaped
<1>14. ASSUME NEW y \in S, NEW s \in Side, NEW z \in Side, n[y][s] = x, n[p][z] = x, p \in S
       PROVE  y = p /\ s = z
  <2>1. y = p
    BY <1>3, <1>9, <1>11, <1>14
  <2>2. z # s => z = Other(s)
    BY TwoSides
  <2>3. x \in sub[x] /\ sub[n[p][s]] \intersect sub[n[p][Other(s)]] = {}
    <3>1. PICK k : k = n[p][s]
      OBVIOUS
    <3>2. (k # NULL => k \in sub[k] /\ k # p) /\ sub[k] \intersect sub[n[p][Other(s)]] = {}
      <4>1. p \in S
        BY <1>14
      <4>2. k # NULL => k \in sub[k] /\ k # p
        BY <3>1, <4>1, ForkFacts
      <4>3. sub[k] \intersect sub[n[p][Other(s)]] = {}
        BY <3>1, <4>1, ForkFacts
      <4> QED BY <4>2, <4>3
    <3>3. k = x
      BY <1>14, <2>1, <3>1
    <3> QED BY <1>3, <3>1, <3>2, <3>3
  <2> QED BY <1>14, <2>1, <2>2, <2>3
<1>15. \A y \in T, s \in Side : /\ m1[y][s] = IF y = e THEN n[x][s] ELSE n[y][s]
                                /\ m1[y][s] = x => y # e /\ y \in S /\ n[y][s] = x
  BY <1>1, <1>7, <1>8, <1>10
<1>16. PICK n2, r2 : /\ substitute(Record(r, sz, m1), e, x) = Record(r2, sz, n2)
                     /\ Substituted(n2, r2, m1, r, T, x, e)
  <2>1. e \in T /\ p = m1[x].parent
    BY <1>1, <1>7, <1>11
  <2>2. x = r => \A y \in T, s \in Side : m1[y][s] # x
    BY <1>12, <1>15
  <2>3. x # r => /\ p \in T /\ \E s \in Side : m1[p][s] = x
                 /\ \A y \in T, s \in Side, z \in Side : m1[y][s] = x /\ m1[p][z] = x => y = p /\ s = z
    <3> SUFFICES ASSUME x # r
                 PROVE  /\ p \in T /\ \E s \in Side : m1[p][s] = x
                        /\ \A y \in T, s \in Side, z \in Side :
                             m1[y][s] = x /\ m1[p][z] = x => y = p /\ s = z
      OBVIOUS
    <3>1. p \in S \ {x} /\ p \in T /\ m1[p] = n[p]
      BY <1>1, <1>7, <1>13
    <3>2. \E s \in Side : m1[p][s] = x
      BY <1>13, <3>1
    <3> QED BY <1>14, <1>15, <3>1, <3>2
  <2> QED BY <1>7, <2>1, <2>2, <2>3, SubstituteFacts
<1>17. /\ FieldsOf(n2, T) /\ \A y \in Elem \ T : n2[y] = m1[y]
       /\ r2 = IF x = r THEN e ELSE r
       /\ \A y \in T, s \in Side : n2[y][s] = IF m1[y][s] = x THEN e ELSE m1[y][s]
       /\ \A y \in T : n2[y].parent = m1[y].parent /\ n2[y].balance = m1[y].balance /\ n2[y].key = m1[y].key
  BY <1>16 DEF Substituted
<1>18. \A s \in Side : n2[e][s] = n[x][s] /\ n[x][s] \in (S \ {x}) \union {NULL}
  <2>1. e \in T
    BY <1>1
  <2> QED BY <1>8, <1>9, <1>10, <1>17, <2>1
<1>19. PICK n3 : n3 = AdoptBoth(n2, e)
  OBVIOUS
<1>20. Adopted(n3, n2, T, e)
  <2>1. e \in T /\ \A s \in Side : n2[e][s] \in T \union {NULL}
    BY <1>1, <1>18
  <2> QED BY <1>17, <1>19, <2>1, AdoptBothFacts
<1>21. Replace(Record(r, sz, n), x, e) = Record(r2, sz, n3)
  <2>1. PICK t : t = Record(r, sz, n)
    OBVIOUS
  <2>2. t.node = n /\ Update(t, m1) = Record(r, sz, m1)
    BY <2>1, RecordFacts
  <2>3. PICK u : u = Record(r2, sz, n2)
    OBVIOUS
  <2>4. u.node = n2 /\ Update(u, n3) = Record(r2, sz, n3)
    BY <2>3, RecordFacts
  <2>6. substitute(Update(t, TakeOver(t.node, e, x)), e, x) = u
    BY <1>5, <1>16, <2>2, <2>3
  <2>7. Replace(t, x, e) = Update(u, AdoptBoth(u.node, e))
    BY <2>6 DEF Replace
  <2> QED BY <1>19, <2>1, <2>4, <2>7
<1>22. \A y \in T, s \in Side : n3[y][s] = IF m1[y][s] = x THEN e ELSE m1[y][s]
  BY <1>17, <1>20 DEF Adopted
<1>23. ASSUME NEW y \in T, NEW s \in Side
       PROVE  n3[y][s] \in T \union {NULL} /\ q[n3[y][s]] = n[q[y]][s]
  <2>1. CASE y = e
    <3>1. n3[e][s] = n[x][s] /\ n[x][s] \in (S \ {x}) \union {NULL}
      BY <1>8, <1>10, <1>18, <1>22, <2>1
    <3> QED BY <1>1, <1>4, <2>1, <3>1
  <2>2. CASE y # e
    <3>1. y \in S \ {x} /\ q[y] = y /\ m1[y][s] = n[y][s] /\ n[y][s] \in S \union {NULL}
      BY <1>1, <1>4, <1>7, <1>9, <2>2
    <3> QED BY <1>1, <1>3, <1>4, <1>22, <3>1
  <2> QED BY <2>1, <2>2
<1>24. ASSUME NEW y \in T
       PROVE  /\ n3[y].parent \in T \union {NULL} /\ q[n3[y].parent] = n[q[y]].parent
              /\ n3[y].balance = n[q[y]].balance /\ n3[y].key = n[y].key
  <2>1. /\ n3[y].balance = m1[y].balance /\ n3[y].key = m1[y].key
        /\ n3[y].parent = IF \E s \in Side : n2[e][s] = y THEN e ELSE m1[y].parent
    BY <1>17, <1>20 DEF Adopted
  <2>2. CASE y = e
    <3>1. ~\E s \in Side : n2[e][s] = y
      BY <1>3, <1>18, <2>2
    <3>2. n3[e].parent = p /\ p \in (S \ {x}) \union {NULL}
      BY <1>6, <1>11, <1>12, <1>13, <2>1, <2>2, <3>1
    <3> QED BY <1>1, <1>4, <1>6, <1>11, <2>1, <2>2, <3>2
  <2>3. CASE y # e
    <3>1. y \in S \ {x} /\ q[y] = y /\ m1[y] = n[y]
      BY <1>1, <1>4, <1>7, <2>3
    <3>2. CASE n[y].parent = x
      <4>1. \E s \in Side : n[x][s] = y
        <5>1. y # r
          BY <1>3, <3>1, <3>2 DEF Forked, Shaped
        <5>2. \E s \in Side : n[n[y].parent][s] = y
          BY <3>1, <5>1 DEF Forked, Shaped
        <5> QED BY <3>2, <5>2
      <4>2. n3[y].parent = e
        BY <1>18, <2>1, <4>1
      <4> QED BY <1>1, <1>4, <2>1, <3>1, <3>2, <4>2
    <3>3. CASE n[y].parent # x
      <4>1. ~\E s \in Side : n2[e][s] = y
        BY <1>3, <1>9, <1>18, <3>1, <3>3
      <4>2. n3[y].parent = n[y].parent /\ n[y].parent \in (S \ {x}) \union {NULL}
        <5>1. n[y].parent \in S \union {NULL}
          <6>1. y = r => n[y].parent = NULL
            BY <1>3, <3>1 DEF Forked, Shaped
          <6>2. y # r => n[y].parent \in S
            BY <3>1 DEF Forked, Shaped
          <6> QED BY <6>1, <6>2
        <5> QED BY <2>1, <3>1, <3>3, <4>1, <5>1
      <4> QED BY <1>1, <1>4, <2>1, <3>1, <4>2
    <3> QED BY <3>2, <3>3
  <2> QED BY <2>2, <2>3
<1>25. Renaming(q, T, S)
  <2>1. \A y \in T : q[y] \in S
    BY <1>1, <1>4
  <2>2. \A y \in T, z \in T : q[y] = q[z] => y = z
    BY <1>1, <1>4
  <2>3. \A y \in S : \E z \in T : q[z] = y
    BY <1>1, <1>4
  <2> QED BY <1>3, <1>4, <2>1, <2>2, <2>3 DEF Renaming
<1>26. r2 \in T \union {NULL} /\ q[r2] = r
  <2>1. r \in S \union {NULL}
    BY DEF Forked, Shaped
  <2> QED BY <1>1, <1>4, <1>17, <2>1
<1>27. \A y \in Elem \ T : n3[y] = n[y]
  BY <1>1, <1>3, <1>6, <1>17, <1>20 DEF Adopted
<1>28. Renamed(n3, r2, T, n, r, S, q)
  BY <1>20, <1>23, <1>24, <1>25, <1>26 DEF Renamed, Adopted
<1>29. Replaced(n3, r2, T, n, r, S, q)
  BY <1>24, <1>27, <1>28 DEF Replaced
<1> QED BY <1>1, <1>2, <1>21, <1>29

------------------------------------------------------------------------------
(* put() as a whole.                                                         *)

RecursiveTo(m, f, c, G) == f = [j \in 0..m |-> IF j = 0 THEN c ELSE G[j][f[j - 1]]]

(* A function on the numbers up to m that is defined by recursion exists,    *)
(* and takes its values in the set of its step.                              *)
LEMMA BoundedRecursion ==
  ASSUME NEW m \in Nat, NEW V, NEW c \in V[0], NEW G, \A j \in 1..m : G[j] \in [V[j - 1] -> V[j]]
  PROVE  \E f : RecursiveTo(m, f, c, G)
<1> DEFINE U == UNION {V[j] : j \in 0..m}
           H == [k \in Nat |-> [v \in U |-> IF k \in 1..m /\ v \in V[k - 1] THEN G[k][v] ELSE c]]
<1>1. c \in U
  OBVIOUS
<1>2. ASSUME NEW k \in Nat, NEW v \in U
      PROVE  (IF k \in 1..m /\ v \in V[k - 1] THEN G[k][v] ELSE c) \in U
  <2>1. CASE k \in 1..m /\ v \in V[k - 1]
    <3>1. G[k][v] \in V[k] /\ k \in 0..m
      BY <2>1
    <3>2. G[k][v] \in U
      BY <3>1
    <3> QED BY <2>1, <3>2
  <2>2. CASE ~(k \in 1..m /\ v \in V[k - 1])
    BY <1>1, <2>2
  <2> QED BY <2>1, <2>2
<1> HIDE DEF U
<1>3. H \in [Nat -> [U -> U]]
  BY <1>2
<1> HIDE DEF H
<1>4. PICK g : Recursive(g, c, H)
  BY <1>1, <1>3, RecursionExists
<1>5. Computes(g, U, c, H)
  BY <1>1, <1>3, <1>4, RecursionTyped
<1>6. g[0] = c /\ (\A k \in Nat : g[k + 1] = H[k + 1][g[k]]) /\ g \in [Nat -> U]
  BY <1>5 DEF Computes
<1> DEFINE K == {k \in Nat : k <= m => g[k] \in V[k]}
           f == [j \in 0..m |-> g[j]]
<1>7. ASSUME NEW k \in K, k < m
      PROVE  g[k + 1] = G[k + 1][g[k]] /\ g[k + 1] \in V[k + 1]
  <2>1. PICK j \in 1..m : j = k + 1 /\ j - 1 = k
    BY <1>7
  <2>2. g[k] \in V[k] /\ g[k] \in U /\ j \in Nat
    BY <1>6, <1>7
  <2>3. H[j][g[k]] = G[j][g[k]]
    <3>1. H[j] = [v \in U |-> IF j \in 1..m /\ v \in V[j - 1] THEN G[j][v] ELSE c]
      BY <2>2 DEF H
    <3> QED BY <2>1, <2>2, <3>1
  <2>4. g[j] = G[j][g[k]]
    BY <1>6, <1>7, <2>1, <2>3
  <2>5. G[j] \in [V[k] -> V[j]]
    BY <2>1
  <2> QED BY <2>1, <2>2, <2>4, <2>5
<1>8. 0 \in K
  BY <1>6
<1>9. ASSUME NEW k \in K
      PROVE  k + 1 \in K
  BY <1>7
<1>10. K = Nat
  <2>1. K \in SUBSET Nat
    OBVIOUS
  <2> HIDE DEF K
  <2> QED BY <1>8, <1>9, <2>1, EveryNumber
<1>11. ASSUME NEW j \in 0..m
       PROVE  f[j] = IF j = 0 THEN c ELSE G[j][f[j - 1]]
  <2>1. CASE j = 0
    BY <1>6, <2>1
  <2>2. CASE j # 0
    <3>1. PICK k \in Nat : j = k + 1 /\ k = j - 1 /\ k < m /\ k \in 0..m
      BY <2>2
    <3>2. k \in K
      BY <1>10
    <3>3. g[k + 1] = G[k + 1][g[k]]
      BY <1>7, <3>1, <3>2
    <3>4. f[j] = g[k + 1] /\ f[j - 1] = g[k]
      BY <3>1
    <3> QED BY <2>2, <3>1, <3>3, <3>4
  <2> QED BY <2>1, <2>2
<1>12. f = [j \in 0..m |-> IF j = 0 THEN c ELSE G[j][f[j - 1]]]
  <2>1. f = [j \in 0..m |-> f[j]]
    OBVIOUS
  <2> HIDE DEF f
  <2> QED BY <1>11, <2>1
<1> QED BY <1>12 DEF RecursiveTo

(* The tree with the replaced element is a level search tree.                *)
LEMMA ReplaceSound ==
  ASSUME NEW n, NEW r, NEW S, NEW sub, SearchTree(n, r, S, sub), NEW h, LevelBut(n, S, h, NULL, "left", 0),
         NEW e \in Elem, e \notin S, FieldsOf(n, S \union {e}), NEW x \in S, rank(n, e) = rank(n, x), NEW sz
  PROVE  Whole(Replace(Record(r, sz, n), x, e), sz, n, (S \ {x}) \union {e})
<1>1. Forked(n, r, S, sub)
  BY SearchForked
<1>2. PICK T : T = (S \ {x}) \union {e}
  OBVIOUS
<1>3. PICK q : q = InPlaceOf(e, x)
  OBVIOUS
<1>4. PICK n2, r2 : /\ Replace(Record(r, sz, n), x, e) = Record(r2, sz, n2)
                    /\ Replaced(n2, r2, T, n, r, S, q)
  BY <1>1, <1>2, <1>3, ReplaceFacts
<1>5. Renamed(n2, r2, T, n, r, S, q) /\ (\A y \in Elem \ T : n2[y] = n[y])
      /\ \A y \in T : n2[y].key = n[y].key
  BY <1>4 DEF Replaced
<1>6. PICK sub2 : sub2 = SubRenamed(sub, q, T)
  OBVIOUS
<1>7. Forked(n2, r2, T, sub2)
  BY <1>1, <1>5, <1>6, RenamedForked
<1>8. FieldsOf(n, S) /\ S \subseteq Elem /\ T \subseteq Elem /\ NULL \notin T
  BY <1>2, NullAssumption DEF FieldsOf
<1>9. LevelBut(n2, T, HeightsRenamed(h, q, T), NULL, "left", 0)
  BY <1>5, <1>8, RenamedLevel
<1>10. q[e] = x /\ \A y \in S \ {x} : q[y] = y
  <2>1. e \in Pointer /\ \A y \in S : y \in Pointer /\ y # e
    BY <1>8 DEF Pointer
  <2> QED BY <1>3, <2>1 DEF InPlaceOf
<1>11. \A y \in T : rank(n2, y) = rank(n, q[y]) /\ q[y] \in S
  <2> SUFFICES ASSUME NEW y \in T
               PROVE  rank(n2, y) = rank(n, q[y]) /\ q[y] \in S
    OBVIOUS
  <2>1. rank(n2, y) = rank(n, y)
    BY <1>5 DEF rank
  <2>2. y = e \/ y \in S \ {x}
    BY <1>2
  <2> QED BY <1>10, <2>1, <2>2
<1>12. Ordered(n2, T, sub2)
  <2> SUFFICES ASSUME NEW y \in T, NEW s \in Side, NEW z \in sub2[n2[y][s]]
               PROVE  Beyond(n2, s, z, y)
    BY DEF Ordered, OrderedAt
  <2>1. PICK k : k = n2[y][s]
    OBVIOUS
  <2>2. k \in T \union {NULL} /\ q[k] = n[q[y]][s] /\ q[y] \in S
    BY <1>5, <1>11, <2>1 DEF Renamed
  <2>3. k \in T /\ z \in T /\ q[z] \in sub[q[k]]
    <3>1. sub2[NULL] = {}
      BY <1>7 DEF Forked, Nested
    <3>2. k \in T /\ k \in Pointer
      BY <1>8, <2>1, <2>2, <3>1 DEF Pointer
    <3> QED BY <1>6, <2>1, <3>2 DEF SubRenamed
  <2>4. Beyond(n, s, q[z], q[y])
    <3>1. PICK a : a = n[q[y]][s]
      OBVIOUS
    <3> QED BY <2>2, <2>3, <3>1, KidFacts
  <2>5. rank(n2, z) = rank(n, q[z]) /\ rank(n2, y) = rank(n, q[y])
    BY <1>11, <2>3
  <2> QED BY <2>4, <2>5 DEF Beyond
<1>13. SearchTree(n2, r2, T, sub2)
  BY <1>7, <1>12 DEF SearchTree, Forked
<1>14. Whole(Record(r2, sz, n2), sz, n, T)
  BY <1>5, <1>9, <1>13 DEF Whole
<1> QED BY <1>2, <1>4, <1>14

BackState == [tree : [root : Pointer, size : Nat, node : Heap], removed : Pointer, taller : BOOLEAN]
IsBack(s) == s = [tree |-> s.tree, removed |-> s.removed, taller |-> s.taller] /\ s.taller \in BOOLEAN

(* A step back of put() returns a record.                                    *)
LEMMA GrownShape ==
  ASSUME NEW below, IsBack(below), NEW ploc, NEW loc, NEW side, NEW s, s = Grown(below, ploc, loc, side)
  PROVE  IsBack(s)
<1>1. \A u, a, b : /\ [tree |-> u, removed |-> a, taller |-> b].tree = u
                   /\ [tree |-> u, removed |-> a, taller |-> b].removed = a
                   /\ [tree |-> u, removed |-> a, taller |-> b].taller = b
  OBVIOUS
<1>2. CASE ~below.taller
  BY <1>2 DEF Grown
<1>3. CASE below.taller
  <2>1. PICK t : s = Taller(t, ploc, loc, side)
    BY <1>3 DEF Grown
  <2>2. PICK b : s = IF Unbalanced(b)
                     THEN [tree |-> Place(Update(t, Rotate(t.node, loc, side)), ploc,
                                          NewTop(t.node, loc, side)),
                           removed |-> NULL, taller |-> FALSE]
                     ELSE [tree |-> t, removed |-> NULL, taller |-> b = 1]
    BY <2>1 DEF Taller
  <2>3. \E u, a : \E z \in BOOLEAN : s = [tree |-> u, removed |-> a, taller |-> z]
    <3>1. CASE Unbalanced(b)
      BY <2>2, <3>1
    <3>2. CASE ~Unbalanced(b)
      <4>1. (b = 1) \in BOOLEAN
        OBVIOUS
      <4> QED BY <2>2, <3>2, <4>1
    <3> QED BY <3>1, <3>2
  <2> QED BY <1>1, <2>3 DEF IsBack
<1> QED BY <1>2, <1>3

(* The states that the steps pass through form a set.                        *)
LEMMA GrowsTyped ==
  ASSUME NEW s, IsBack(s), NEW sz \in Nat, NEW n, NEW r, NEW A, NEW sub, SearchTree(n, r, A, sub), NEW x,
         Grows(s, sz, n, r, A, x)
  PROVE  s \in BackState
<1>1. \E n2, r2 : s.tree = Record(r2, sz, n2) /\ n2 \in Heap /\ r2 \in Pointer
  <2>1. CASE s.taller
    <3>1. PICK n2 : s.tree = Record(r, sz, n2) /\ SameLinks(n2, n, A)
      BY <2>1 DEF Grows, Growing
    <3>2. n2 \in Heap
      BY <3>1 DEF SameLinks, FieldsOf
    <3>3. r \in Pointer
      BY DEF SearchTree, Shaped, FieldsOf, Pointer
    <3> QED BY <3>1, <3>2, <3>3
  <2>2. CASE ~s.taller
    <3>1. PICK n2, r2, sub2 : s.tree = Record(r2, sz, n2) /\ SearchTree(n2, r2, A, sub2)
      BY <2>2 DEF Grows, Whole
    <3>2. n2 \in Heap /\ r2 \in Pointer
      BY <3>1 DEF SearchTree, Shaped, FieldsOf, Pointer
    <3> QED BY <3>1, <3>2
  <2> QED BY <2>1, <2>2
<1>2. s.removed \in Pointer
  BY DEF Grows, Pointer
<1> QED BY <1>1, <1>2 DEF IsBack, BackState, Record

(* Each node of the path hangs from the one before.                          *)
LEMMA PathHangs ==
  ASSUME NEW n, NEW r, NEW S, NEW sub, SearchTree(n, r, S, sub), NEW e, Made(n, S, e), NEW sz \in Nat,
         NEW t, t = Record(r, sz, n), NEW P, P = Path(t, e), Leads(P, t, n, r, S, sub, e),
         NEW loc \in S, NEW side \in Side, n[loc][side] = NULL, NEW m, Leafing(m, n, S, e, loc, side),
         NEW k \in Nat, ~Ends(t, e, P[k])
  PROVE  \E up, upside : Hangs(m, r, S \union {e}, P[k], up, upside) /\ Points(Link(t, e, k), up, upside)
<1>1. FieldsOf(n, S \union {e}) /\ e \notin S /\ NULL \notin S
  BY NullAssumption DEF Made, FieldsOf
<1>2. P \in [Nat -> S] /\ P[0] = r /\ \A j \in Nat : P[j + 1] = Onward(t, e, P[j])
  BY DEF Leads
<1>3. CASE k = 0
  <2>1. Hangs(m, r, S \union {e}, P[k], NULL, "left") /\ Points(Link(t, e, k), NULL, "left")
    BY <1>2, <1>3 DEF Hangs, Points, Link
  <2> QED BY <2>1
<1>4. CASE k # 0
  <2>1. PICK j \in Nat : k = j + 1 /\ k - 1 = j
    <3>1. k - 1 \in Nat /\ k = k - 1 + 1
      BY <1>4
    <3> QED BY <3>1
  <2>2. PICK up \in S : up = P[j]
    BY <1>2
  <2>3. PICK z : z = Toward(t, e, up)
    OBVIOUS
  <2>4. z \in Side /\ (Ends(t, e, up) <=> rank(n, e) = rank(n, up) \/ n[up][z] = NULL)
        /\ Onward(t, e, up) = IF Ends(t, e, up) THEN up ELSE n[up][z]
    BY <1>1, <2>3, TowardFacts
  <2>5. P[k] = Onward(t, e, up)
    BY <1>2, <2>1, <2>2
  <2>6. ~Ends(t, e, up)
    BY <2>4, <2>5
  <2>7. P[k] = n[up][z] /\ n[up][z] # NULL
    BY <2>4, <2>5, <2>6
  <2>8. m[up][z] = P[k]
    BY <2>4, <2>7 DEF Leafing
  <2>9. Hangs(m, r, S \union {e}, P[k], up, z)
    BY <1>1, <2>2, <2>4, <2>8 DEF Hangs
  <2>10. Link(t, e, k) = <<up, z>>
    BY <1>4, <2>1, <2>2, <2>3 DEF Link
  <2> QED BY <1>1, <2>2, <2>9, <2>10 DEF Points
<1> QED BY <1>3, <1>4

(* One step back of put() after a leaf was added, wherever on the path.      *)
LEMMA PutBackStep ==
  ASSUME NEW n, NEW r, NEW S, NEW sub, SearchTree(n, r, S, sub), NEW e, Made(n, S, e), NEW sz \in Nat,
         NEW t, t = Record(r, sz, n), NEW P, P = Path(t, e), Leads(P, t, n, r, S, sub, e),
         NEW loc \in S, NEW side \in Side, n[loc][side] = NULL, NEW m, Leafing(m, n, S, e, loc, side),
         SearchTree(m, r, S \union {e}, SubLeaf(sub, e, loc)),
         NEW k \in Nat, NEW s, IsBack(s), Grows(s, sz + 1, m, r, S \union {e}, P[k + 1])
  PROVE  /\ IsBack(Returned(t, e, s, k))
         /\ Grows(Returned(t, e, s, k), sz + 1, m, r, S \union {e}, P[k])
<1>1. FieldsOf(n, S \union {e}) /\ e \notin S /\ NULL \notin S
  BY NullAssumption DEF Made, FieldsOf
<1>2. P \in [Nat -> S] /\ P[0] = r /\ \A j \in Nat : P[j + 1] = Onward(t, e, P[j])
  BY DEF Leads
<1>3. PICK x \in S : x = P[k]
  BY <1>2
<1>4. PICK z : z = Toward(t, e, x)
  OBVIOUS
<1>5. z \in Side /\ (Ends(t, e, x) <=> rank(n, e) = rank(n, x) \/ n[x][z] = NULL)
      /\ Onward(t, e, x) = IF Ends(t, e, x) THEN x ELSE n[x][z]
  BY <1>1, <1>4, TowardFacts
<1>6. P[k + 1] = Onward(t, e, x)
  BY <1>2, <1>3
<1>7. CASE Ends(t, e, x)
  <2>1. Returned(t, e, s, k) = s /\ P[k + 1] = P[k]
    BY <1>3, <1>5, <1>6, <1>7 DEF Returned
  <2> QED BY <2>1
<1>8. CASE ~Ends(t, e, x)
  <2>1. PICK ploc : ploc = Link(t, e, k)
    OBVIOUS
  <2>2. PICK up, upside : Hangs(m, r, S \union {e}, x, up, upside) /\ Points(ploc, up, upside)
    BY <1>3, <1>8, <2>1, PathHangs
  <2>3. PICK c : c = P[k + 1]
    OBVIOUS
  <2>4. c = n[x][z] /\ c \in S
    <3>1. c = n[x][z]
      BY <1>5, <1>6, <1>8, <2>3
    <3>2. k + 1 \in Nat
      OBVIOUS
    <3> QED BY <1>2, <2>3, <3>1, <3>2
  <2>5. m[x][z] = c
    BY <1>1, <1>5, <2>4 DEF Leafing
  <2>6. Returned(t, e, s, k) = Grown(s, ploc, x, z)
    BY <1>3, <1>4, <1>8, <2>1 DEF Returned
  <2>7. x \in S \union {e} /\ c \in S \union {e}
    BY <2>4
  <2>8. Grows(Grown(s, ploc, x, z), sz + 1, m, r, S \union {e}, x)
    BY <1>5, <2>2, <2>3, <2>5, <2>7, GrownSound
  <2>9. IsBack(Grown(s, ploc, x, z))
    BY GrownShape
  <2> QED BY <1>3, <2>6, <2>8, <2>9
<1> QED BY <1>7, <1>8

(* After an element was replaced the steps back change nothing.              *)
LEMMA ReplaceBackStep ==
  ASSUME NEW t, NEW e, NEW s, ~s.taller, NEW k
  PROVE  Returned(t, e, s, k) = s
  BY DEF Returned, Grown

(* put() by induction over its steps back.                                   *)
LEMMA PutLoop ==
  ASSUME NEW t, NEW e, NEW sz \in Nat, t.size = sz, NEW V, NEW b, b = Bottom(t, e, Path(t, e)[sz]),
         b \in V[0], \A j \in 1..sz : \A s \in V[j - 1] : Returned(t, e, s, sz - j) \in V[j]
  PROVE  put(t, e) \in V[sz]
<1> DEFINE G == [j \in 1..sz |-> [s \in V[j - 1] |-> Returned(t, e, s, sz - j)]]
           Loop(f) == f = [j \in 0..sz |-> IF j = 0 THEN b ELSE Returned(t, e, f[j - 1], sz - j)]
<1>1. \A j \in 1..sz : G[j] \in [V[j - 1] -> V[j]]
  OBVIOUS
<1>2. \A j \in 1..sz : \A s \in V[j - 1] : G[j][s] = Returned(t, e, s, sz - j)
  OBVIOUS
<1> HIDE DEF G
<1>3a. PICK g : RecursiveTo(sz, g, b, G)
  BY <1>1, BoundedRecursion
<1>3. g = [j \in 0..sz |-> IF j = 0 THEN b ELSE G[j][g[j - 1]]]
  BY <1>3a DEF RecursiveTo
<1> DEFINE In(f) == {k \in Nat : k <= sz => f[k] \in V[k]}
<1>4. In(g) = Nat
  <2>1. 0 \in In(g)
    BY <1>3
  <2>2. ASSUME NEW k \in In(g)
        PROVE  k + 1 \in In(g)
    <3>1. CASE k + 1 <= sz
      <4>1. PICK j \in 1..sz : j = k + 1 /\ j - 1 = k
        BY <3>1
      <4>2. j \in 0..sz /\ j # 0 /\ g[k] \in V[k]
        BY <4>1
      <4>3. g[j] = G[j][g[k]]
        BY <1>3, <4>1, <4>2
      <4>4. g[j] \in V[j]
        BY <1>1, <4>1, <4>2, <4>3
      <4> QED BY <4>1, <4>4
    <3>2. CASE ~(k + 1 <= sz)
      BY <3>2
    <3> QED BY <3>1, <3>2
  <2>3. In(g) \in SUBSET Nat
    OBVIOUS
  <2> HIDE DEF In
  <2> QED BY <2>1, <2>2, <2>3, EveryNumber
<1>5. Loop(g)
  <2>1. ASSUME NEW j \in 0..sz, j # 0
        PROVE  G[j][g[j - 1]] = Returned(t, e, g[j - 1], sz - j)
    <3>1. j \in 1..sz /\ j - 1 \in Nat /\ j - 1 <= sz
      BY <2>1
    <3>2. g[j - 1] \in V[j - 1]
      BY <1>4, <3>1
    <3> QED BY <1>2, <3>1, <3>2
  <2> QED BY <1>3, <2>1
<1>6. \E f : Loop(f)
  BY <1>5
<1>7. put(t, e) = (CHOOSE f : Loop(f))[sz]
  BY DEF put
<1> HIDE DEF Loop
<1>8. PICK f : f = CHOOSE a : Loop(a)
  OBVIOUS
<1>9. Loop(f)
  BY <1>6, <1>8, Zenon
<1>10. f = [j \in 0..sz |-> IF j = 0 THEN b ELSE Returned(t, e, f[j - 1], sz - j)]
  BY <1>9 DEF Loop
<1>11. In(f) = Nat
  <2>1. 0 \in In(f)
    BY <1>10
  <2>2. ASSUME NEW k \in In(f)
        PROVE  k + 1 \in In(f)
    <3>1. CASE k + 1 <= sz
      <4>1. PICK j \in 1..sz : j = k + 1 /\ j - 1 = k
        BY <3>1
      <4>2. j \in 0..sz /\ j # 0 /\ f[k] \in V[k]
        BY <4>1
      <4>3. f[j] = Returned(t, e, f[k], sz - j)
        BY <1>10, <4>1, <4>2
      <4>4. f[j] \in V[j]
        BY <4>1, <4>2, <4>3
      <4> QED BY <4>1, <4>4
    <3>2. CASE ~(k + 1 <= sz)
      BY <3>2
    <3> QED BY <3>1, <3>2
  <2>3. In(f) \in SUBSET Nat
    OBVIOUS
  <2> HIDE DEF In
  <2> QED BY <2>1, <2>2, <2>3, EveryNumber
<1>12. f[sz] \in V[sz]
  BY <1>11
<1> QED BY <1>7, <1>8, <1>12

(* What put() does with the tree of the nodes S.                             *)
PutResult(s, sz, n, S, e) ==
  /\ Carries(s.tree, n)
  /\ \/ s.removed = NULL /\ Whole(s.tree, sz + 1, n, S \union {e})
     \/ /\ s.removed \in S /\ rank(n, s.removed) = rank(n, e)
        /\ Whole(s.tree, sz, n, (S \ {s.removed}) \union {e})

(* What is left alone between two states is left alone on the way.           *)
LEMMA WholeFrom ==
  ASSUME NEW t, NEW sz, NEW n, NEW m, NEW A, Whole(t, sz, m, A), \A y \in Elem \ A : m[y] = n[y]
  PROVE  Whole(t, sz, n, A)
<1>1. PICK n2, r2, sub2, h2 : /\ t = Record(r2, sz, n2) /\ SearchTree(n2, r2, A, sub2)
                              /\ LevelBut(n2, A, h2, NULL, "left", 0) /\ \A y \in Elem \ A : n2[y] = m[y]
  BY DEF Whole
<1>2. \A y \in Elem \ A : n2[y] = n[y]
  BY <1>1
<1> QED BY <1>1, <1>2 DEF Whole

(* put() of a key that the tree does not have.                               *)
LEMMA PutLeaf ==
  ASSUME NEW n, NEW r, NEW S, NEW sub, SearchTree(n, r, S, sub), IsFiniteSet(S), r \in S,
         NEW h, LevelBut(n, S, h, NULL, "left", 0), NEW e, Made(n, S, e), NEW sz \in Nat,
         NEW t, t = Record(r, sz, n), NEW P, P = Path(t, e), Leads(P, t, n, r, S, sub, e),
         NEW loc \in S, loc = P[sz], Ends(t, e, loc), rank(n, e) # rank(n, loc)
  PROVE  PutResult(put(t, e), sz, n, S, e)
<1>1. FieldsOf(n, S \union {e}) /\ e \notin S /\ NULL \notin S
  BY NullAssumption DEF Made, FieldsOf
<1>2. PICK side : side = Toward(t, e, loc)
  OBVIOUS
<1>3. /\ side \in Side /\ n[loc][side] = NULL /\ Beyond(n, side, e, loc)
      /\ ~(cmp(t.node[e].key, t.node[loc].key) = 0)
  BY <1>1, <1>2, TowardFacts
<1>4. t.node = n /\ t.size = sz /\ t.root = r
  BY RecordFacts
<1>5. PICK b : b = [tree |-> AddLeaf(t, loc, e, side), removed |-> NULL, taller |-> n[loc][Other(side)] = NULL]
  OBVIOUS
<1>6. Bottom(t, e, loc) = b
  BY <1>2, <1>3, <1>4, <1>5 DEF Bottom
<1>7. Descends(n, S, sub, e, loc)
  BY DEF Leads
<1>8. PICK m : /\ Leafing(m, n, S, e, loc, side)
               /\ SearchTree(m, r, S \union {e}, SubLeaf(sub, e, loc))
               /\ Grows(b, sz + 1, m, r, S \union {e}, loc)
  BY <1>3, <1>5, <1>7, AddLeafSound
<1>9. IsBack(b)
  BY <1>5 DEF IsBack
<1>10. PICK A : A = S \union {e}
  OBVIOUS
<1>11. sz + 1 \in Nat
  OBVIOUS
<1> DEFINE V == [j \in 0..sz |-> {s \in BackState : IsBack(s) /\ Grows(s, sz + 1, m, r, A, P[sz - j]) /\ Carries(s.tree, n)}]
<1>12. ASSUME NEW j \in 0..sz, NEW s, IsBack(s), Grows(s, sz + 1, m, r, A, P[sz - j]), Carries(s.tree, n)
       PROVE  s \in V[j]
  <2>1. s \in BackState
    BY <1>8, <1>10, <1>11, <1>12, GrowsTyped
  <2> QED BY <1>12, <2>1
<1>13. \A j \in 0..sz : \A s \in V[j] : IsBack(s) /\ Grows(s, sz + 1, m, r, A, P[sz - j]) /\ Carries(s.tree, n)
  OBVIOUS
<1> HIDE DEF V
<1>14. b \in V[0]
  <2>1. Carries(t, n)
    BY KeptSame, CarriesSame
  <2>2. Carries(b.tree, n)
    BY <1>6, <2>1, CarriesBottom
  <2>3. PICK j \in 0..sz : j = 0 /\ sz - j = sz
    OBVIOUS
  <2>4. Grows(b, sz + 1, m, r, A, P[sz - j])
    BY <1>8, <1>10, <2>3
  <2> QED BY <1>9, <1>12, <2>2, <2>3, <2>4
<1>15. ASSUME NEW j \in 1..sz, NEW s \in V[j - 1]
       PROVE  Returned(t, e, s, sz - j) \in V[j]
  <2>1. PICK k \in Nat : k = sz - j /\ k + 1 = sz - (j - 1)
    OBVIOUS
  <2>2. IsBack(s) /\ Grows(s, sz + 1, m, r, A, P[k + 1]) /\ Carries(s.tree, n)
    BY <1>13, <2>1
  <2>3. IsBack(Returned(t, e, s, k)) /\ Grows(Returned(t, e, s, k), sz + 1, m, r, A, P[k])
    BY <1>3, <1>8, <1>10, <2>2, PutBackStep
  <2>4. Carries(Returned(t, e, s, k).tree, n)
    BY <2>2, CarriesReturned
  <2> QED BY <1>12, <2>1, <2>3, <2>4
<1>16. PICK s : s = put(t, e)
  OBVIOUS
<1>17. s \in V[sz]
  BY <1>4, <1>6, <1>14, <1>15, <1>16, PutLoop
<1>18. Grows(s, sz + 1, m, r, A, r) /\ Carries(s.tree, n)
  <2>1. P[0] = r /\ sz \in 0..sz /\ sz - sz = 0
    BY DEF Leads
  <2> QED BY <1>13, <1>17, <2>1
<1>19. Whole(s.tree, sz + 1, m, A)
  <2>1. CASE s.taller
    <3>1. PICK n2, h2 : /\ s.tree = Record(r, sz + 1, n2) /\ SameLinks(n2, m, A)
                        /\ Pending(n2, r, A, h2, r, 1)
      BY <1>18, <2>1 DEF Grows, Growing
    <3>2. SearchTree(n2, r, A, SubLeaf(sub, e, loc)) /\ r \in A /\ \A y \in Elem \ A : n2[y] = m[y]
      BY <1>8, <1>10, <3>1, SearchSame DEF SameLinks
    <3>3. LevelBut(n2, A, h2, NULL, "left", 0)
      BY <3>1, <3>2, PendingRoot
    <3> QED BY <3>1, <3>2, <3>3 DEF Whole
  <2>2. CASE ~s.taller
    BY <1>18, <2>2 DEF Grows
  <2> QED BY <2>1, <2>2
<1>20. Whole(s.tree, sz + 1, n, A) /\ s.removed = NULL
  <2>1. \A y \in Elem \ A : m[y] = n[y]
    BY <1>8, <1>10 DEF Leafing
  <2>2. s.removed = NULL
    BY <1>18 DEF Grows
  <2> QED BY <1>19, <2>1, <2>2, WholeFrom
<1> QED BY <1>10, <1>16, <1>18, <1>20 DEF PutResult

(* put() of a key that it has.                                               *)
LEMMA PutReplaces ==
  ASSUME NEW n, NEW r, NEW S, NEW sub, SearchTree(n, r, S, sub),
         NEW h, LevelBut(n, S, h, NULL, "left", 0), NEW e, Made(n, S, e), NEW sz \in Nat,
         NEW t, t = Record(r, sz, n), NEW loc \in S, loc = Path(t, e)[sz], rank(n, e) = rank(n, loc)
  PROVE  PutResult(put(t, e), sz, n, S, e)
<1>1. FieldsOf(n, S \union {e}) /\ e \notin S /\ e \in Elem
  BY DEF Made
<1>2. PICK b : b = [tree |-> Replace(t, loc, e), removed |-> loc, taller |-> FALSE]
  OBVIOUS
<1>3. b.tree = Replace(t, loc, e) /\ b.removed = loc /\ b.taller = FALSE
  BY <1>2
<1>4. Bottom(t, e, loc) = b
  <2>1. PICK z : z = Toward(t, e, loc)
    OBVIOUS
  <2>2. cmp(t.node[e].key, t.node[loc].key) = 0
    BY <1>1, <2>1, TowardFacts
  <2> QED BY <1>2, <2>2 DEF Bottom
<1>5. PICK V : V = [j \in 0..sz |-> {b}]
  OBVIOUS
<1>6. b \in V[0] /\ V[sz] = {b}
  BY <1>5
<1>7. ASSUME NEW j \in 1..sz, NEW s \in V[j - 1]
      PROVE  Returned(t, e, s, sz - j) \in V[j]
  <2>1. s = b /\ V[j] = {b}
    BY <1>5
  <2>2. Returned(t, e, s, sz - j) = s
    BY <1>3, <2>1, ReplaceBackStep
  <2> QED BY <2>1, <2>2
<1>8. t.size = sz
  BY RecordFacts
<1>9. put(t, e) \in V[sz]
  BY <1>4, <1>6, <1>7, <1>8, PutLoop
<1>10. put(t, e) = b
  BY <1>6, <1>9
<1>11. Whole(Replace(t, loc, e), sz, n, (S \ {loc}) \union {e})
  BY <1>1, ReplaceSound
<1>12. Carries(b.tree, n)
  <2>1. Carries(t, n)
    BY KeptSame, CarriesSame
  <2> QED BY <1>3, <2>1, CarriesReplace
<1> QED BY <1>3, <1>10, <1>11, <1>12 DEF PutResult

(* put() in a tree that has a root.                                          *)
LEMMA PutSound ==
  ASSUME NEW n, NEW r, NEW S, NEW sub, SearchTree(n, r, S, sub), IsFiniteSet(S), r \in S,
         NEW h, LevelBut(n, S, h, NULL, "left", 0), NEW e, Made(n, S, e), NEW sz \in Nat, Cardinality(S) <= sz
  PROVE  PutResult(put(Record(r, sz, n), e), sz, n, S, e)
<1>1. PICK t : t = Record(r, sz, n)
  OBVIOUS
<1>2. PICK P : P = Path(t, e)
  OBVIOUS
<1>3. FieldsOf(n, S \union {e})
  BY DEF Made
<1>4. Leads(P, t, n, r, S, sub, e)
  BY <1>1, <1>2, <1>3, PathLeads
<1>5. Ends(t, e, P[sz])
  BY <1>1, <1>3, <1>4, PathEnds
<1>6. PICK loc \in S : loc = P[sz]
  BY <1>4 DEF Leads
<1>7. CASE rank(n, e) = rank(n, loc)
  BY <1>1, <1>2, <1>6, <1>7, PutReplaces
<1>8. CASE rank(n, e) # rank(n, loc)
  BY <1>1, <1>2, <1>4, <1>5, <1>6, <1>8, PutLeaf
<1> QED BY <1>7, <1>8

(* The empty tree.                                                           *)
LEMMA EmptyWhole ==
  ASSUME NEW n \in Heap, NEW sz
  PROVE  Whole(Record(NULL, sz, n), sz, n, {})
<1>1. PICK sub : sub = [k \in Pointer |-> {}]
  OBVIOUS
<1>2. PICK h : h = [k \in Pointer |-> 0]
  OBVIOUS
<1>3. NULL \in Pointer
  BY DEF Pointer
<1>4. SearchTree(n, NULL, {}, sub)
  BY <1>1, <1>3 DEF SearchTree, Shaped, Nested, Ordered, FieldsOf
<1>5. LevelBut(n, {}, h, NULL, "left", 0)
  BY <1>2, <1>3 DEF LevelBut, Heights
<1> QED BY <1>4, <1>5 DEF Whole

(* The tree of one node.                                                     *)
LEMMA OneNode ==
  ASSUME NEW n, NEW e, Made(n, {}, e), NEW sz
  PROVE  Whole(Record(e, sz, n), sz, n, {e})
<1>1. /\ e \in Elem /\ FieldsOf(n, {e}) /\ (\A s \in Side : n[e][s] = NULL) /\ n[e].parent = NULL
      /\ n[e].balance = 0
  BY DEF Made
<1>2. e \in Pointer /\ NULL \in Pointer /\ e # NULL
  BY <1>1, NullAssumption DEF Pointer
<1>3. PICK sub : sub = [k \in Pointer |-> IF k = e THEN {e} ELSE {}]
  OBVIOUS
<1>4. PICK h : h = [k \in Pointer |-> IF k = e THEN 1 ELSE 0]
  OBVIOUS
<1>5. sub[e] = {e} /\ sub[NULL] = {} /\ sub \in [Pointer -> SUBSET {e}]
  BY <1>2, <1>3
<1>6. h[e] = 1 /\ h[NULL] = 0 /\ h \in [Pointer -> Nat]
  BY <1>2, <1>4
<1>7. \A s \in Side : n[e][s] = NULL /\ n[e][Other(s)] = NULL
  BY <1>1, SideFacts
<1>8. Shaped(n, e, {e})
  BY <1>1, <1>7 DEF Shaped
<1>9. Nested(n, e, {e}, sub) /\ Ordered(n, {e}, sub)
  BY <1>5, <1>7 DEF Nested, NestedAt, Ordered, OrderedAt
<1>10. Even(n, h, e, "left", 0)
  BY <1>1, <1>6, <1>7 DEF Even, Fits, Higher, Side
<1>11. LevelBut(n, {e}, h, NULL, "left", 0)
  BY <1>2, <1>6, <1>10 DEF LevelBut, Heights
<1> QED BY <1>8, <1>9, <1>11 DEF Whole, SearchTree

(* size is assigned.                                                         *)
LEMMA RecordSize ==
  ASSUME NEW r, NEW sz, NEW n, NEW x
  PROVE  [Record(r, sz, n) EXCEPT !.size = x] = Record(r, x, n)
  BY DEF Record

(* avl_tree_put() leaves a level search tree with the new element and        *)
(* without the one that it replaces.                                         *)
LEMMA TreePutSound ==
  ASSUME NEW n, NEW r, NEW S, NEW sub, SearchTree(n, r, S, sub), IsFiniteSet(S),
         NEW h, LevelBut(n, S, h, NULL, "left", 0), NEW e, Made(n, S, e), NEW sz, sz = Cardinality(S)
  PROVE  PutResult(avl_tree_put(Record(r, sz, n), e), sz, n, S, e)
<1>1. PICK t : t = Record(r, sz, n)
  OBVIOUS
<1>2. t.root = r /\ t.size = sz /\ t.node = n
  BY <1>1, RecordFacts
<1>3. sz \in Nat
  BY FS_CardinalityType
<1>4. CASE r = NULL
  <2>1. S = {} /\ sz = 0
    BY <1>4, SearchRoot, FS_EmptySet
  <2>2. PICK res : res = [tree |-> Record(e, 1, n), removed |-> NULL, taller |-> TRUE]
    OBVIOUS
  <2>3. res.tree = Record(e, 1, n) /\ res.removed = NULL
    BY <2>2
  <2>4. [t EXCEPT !.root = e, !.size = 1] = Record(e, 1, n)
    <3>1. PICK u : u = [t EXCEPT !.root = e]
      OBVIOUS
    <3>2. u = Record(e, sz, n)
      BY <1>1, <3>1, RecordFacts
    <3>3. [u EXCEPT !.size = 1] = Record(e, 1, n)
      BY <3>2, RecordSize
    <3> QED BY <3>1, <3>3
  <2>5. avl_tree_put(t, e) = res
    BY <1>2, <1>4, <2>2, <2>4 DEF avl_tree_put
  <2>6. Whole(Record(e, 1, n), 1, n, {e})
    BY <2>1, OneNode
  <2>7. sz + 1 = 1 /\ S \union {e} = {e}
    BY <2>1
  <2>8. Carries(Record(e, 1, n), n)
    BY KeptSame, CarriesSame
  <2> QED BY <1>1, <2>3, <2>5, <2>6, <2>7, <2>8 DEF PutResult
<1>5. CASE r # NULL
  <2>1. r \in S
    BY <1>5, SearchRoot
  <2>2. PutResult(put(t, e), sz, n, S, e)
    BY <1>1, <1>3, <2>1, PutSound
  <2>3. avl_tree_put(t, e) = put(t, e)
    BY <1>2, <1>5 DEF avl_tree_put
  <2> QED BY <1>1, <2>2, <2>3
<1> QED BY <1>4, <1>5

------------------------------------------------------------------------------
(* exchange() of two elements of a tree.                                     *)

(* Child and parent pointers lead to and fro.                                *)
LEMMA ForkLinks ==
  ASSUME NEW n, NEW r, NEW S, NEW sub, Forked(n, r, S, sub), NEW x \in S
  PROVE  /\ \A e \in S : (\E s \in Side : n[e][s] = x) <=> n[x].parent = e
         /\ \A y \in S, s \in Side, p \in S, z \in Side : n[y][s] = x /\ n[p][z] = x => y = p /\ s = z
         /\ x = r <=> n[x].parent = NULL
         /\ x # r => n[x].parent \in S /\ n[x].parent # x
<1>1. NULL \notin S
  BY NullAssumption DEF Forked, Shaped, FieldsOf
<1>2. \A y \in S, s \in Side : n[y][s] # NULL => n[n[y][s]].parent = y
  BY DEF Forked, Shaped
<1>3. x = r => n[x].parent = NULL
  BY <1>1 DEF Forked, Shaped
<1>4. x # r => n[x].parent \in S /\ \E s \in Side : n[n[x].parent][s] = x
  BY DEF Forked, Shaped
<1>5. \A e \in S : (\E s \in Side : n[e][s] = x) <=> n[x].parent = e
  BY <1>1, <1>2, <1>3, <1>4
<1>6. ASSUME NEW y \in S, NEW s \in Side, NEW p \in S, NEW z \in Side, n[y][s] = x, n[p][z] = x
      PROVE  y = p /\ s = z
  <2>1. y = p
    BY <1>1, <1>2, <1>6
  <2>2. PICK k : k = n[y][s]
    OBVIOUS
  <2>5. k = x /\ k # NULL
    BY <1>1, <1>6, <2>2
  <2>6. sub[k] \intersect sub[n[y][Other(s)]] = {}
    BY <2>2, ForkFacts
  <2>7. k # NULL => k \in sub[k] /\ k # y
    BY <2>2, ForkFacts
  <2>3. k \in sub[k] /\ sub[k] \intersect sub[n[y][Other(s)]] = {}
    BY <2>5, <2>6, <2>7
  <2>4. z # s => z = Other(s)
    BY TwoSides
  <2> QED BY <1>6, <2>1, <2>2, <2>3, <2>4, <2>5
<1>7. x # r => n[x].parent # x
  <2> SUFFICES ASSUME x # r, n[x].parent = x
               PROVE  FALSE
    OBVIOUS
  <2>1. PICK s \in Side : n[x][s] = x
    BY <1>4
  <2>2. PICK k : k = n[x][s]
    OBVIOUS
  <2> QED BY <1>1, <2>1, <2>2, ForkFacts
<1> QED BY <1>1, <1>3, <1>4, <1>5, <1>6, <1>7

Rehung(u, r, sz, m, T, p, x, e) ==
  \E z, n2 : z \in Side /\ m[p][z] = x /\ Writes(n2, m, T, p, z, e) /\ u = Record(r, sz, n2)

(* substitute() writes one pointer.                                          *)
LEMMA SubstituteWrites ==
  ASSUME NEW m, NEW T, FieldsOf(m, T), NEW r, NEW sz, NEW x, NEW e \in T,
         NEW p, p = m[x].parent, x # r => p \in T /\ \E s \in Side : m[p][s] = x
  PROVE  /\ x = r => substitute(Record(r, sz, m), e, x) = Record(e, sz, m)
         /\ x # r => Rehung(substitute(Record(r, sz, m), e, x), r, sz, m, T, p, x, e)
<1>1. PICK t : t = Record(r, sz, m)
  OBVIOUS
<1>2. t.node = m /\ t.root = r /\ (\A w : Update(t, w) = Record(r, sz, w))
      /\ [t EXCEPT !.root = e] = Record(e, sz, m)
  BY <1>1, RecordFacts
<1>3. ASSUME x = r
      PROVE  substitute(t, e, x) = Record(e, sz, m)
  BY <1>2, <1>3 DEF substitute
<1>4. ASSUME x # r
      PROVE  Rehung(substitute(t, e, x), r, sz, m, T, p, x, e)
  <2>1. PICK z : z = IF m[p].left = x THEN "left" ELSE "right"
    OBVIOUS
  <2>2. p \in T /\ z \in Side /\ m[p][z] = x
    BY <1>4, <2>1 DEF Side
  <2>3. PICK n2 : n2 = With(m, p, z, e)
    OBVIOUS
  <2>4. substitute(t, e, x) = Record(r, sz, n2)
    BY <1>2, <1>4, <2>1, <2>3 DEF substitute
  <2>5. e \in Pointer /\ z \in {"left", "right", "parent"}
    BY <2>2 DEF FieldsOf, Pointer, Side
  <2>6. Writes(n2, m, T, p, z, e)
    BY <2>2, <2>3, <2>5, WithWrites
  <2> QED BY <2>2, <2>4, <2>6 DEF Rehung
<1> QED BY <1>1, <1>3, <1>4

Swapped(e1, e2) == [k \in Pointer |-> IF k = e1 THEN e2 ELSE IF k = e2 THEN e1 ELSE k]

IsSwap(q, S, e1, e2) ==
  /\ q[e1] = e2 /\ q[e2] = e1 /\ q[NULL] = NULL
  /\ \A y \in S : q[y] \in S /\ q[q[y]] = y
  /\ \A y \in S \union {NULL} : /\ q[y] \in S \union {NULL} /\ q[q[y]] = y
                                /\ q[y] = IF y = e1 THEN e2 ELSE IF y = e2 THEN e1 ELSE y
  /\ Renaming(q, S, S)

(* Two elements that change places.                                          *)
LEMMA SwappedFacts ==
  ASSUME NEW S, S \subseteq Elem, NEW e1 \in S, NEW e2 \in S
  PROVE  IsSwap(Swapped(e1, e2), S, e1, e2)
<1>0. PICK q : q = Swapped(e1, e2)
  OBVIOUS
<1>1. S \subseteq Pointer /\ NULL \in Pointer /\ NULL \notin S
  BY NullAssumption DEF Pointer
<1>2. \A y \in S \union {NULL} : q[y] = IF y = e1 THEN e2 ELSE IF y = e2 THEN e1 ELSE y
  BY <1>0, <1>1 DEF Swapped
<1>3. q[e1] = e2 /\ q[e2] = e1 /\ q[NULL] = NULL
  BY <1>1, <1>2
<1>4. \A y \in S : q[y] \in S /\ q[q[y]] = y
  BY <1>2, <1>3
<1>5. \A y \in S \union {NULL} : q[y] \in S \union {NULL} /\ q[q[y]] = y
  BY <1>3, <1>4
<1>6. Renaming(q, S, S)
  BY <1>3, <1>4 DEF Renaming
<1> QED BY <1>0, <1>2, <1>3, <1>4, <1>5, <1>6 DEF IsSwap

(* The two calls of substitute() in exchange().                              *)
Crossed(n2, r2, n, r, S, q) ==
  /\ FieldsOf(n2, S) /\ (\A y \in Elem \ S : n2[y] = n[y]) /\ r2 = q[r]
  /\ \A y \in S, s \in Side : n2[y][s] = q[n[y][s]]
  /\ \A y \in S : n2[y].parent = n[y].parent /\ n2[y].balance = n[y].balance /\ n2[y].key = n[y].key

(* The two substitutions of exchange(), also where one element is the parent *)
(* of the other.                                                             *)
LEMMA CrossFacts ==
  ASSUME NEW n, NEW r, NEW S, NEW sub, Forked(n, r, S, sub), IsFiniteSet(S),
         NEW e1 \in S, NEW e2 \in S, e2 # e1, e2 \in sub[e1], NEW q, q = Swapped(e1, e2), NEW sz
  PROVE  \E n2, r2 : /\ substitute(substitute(Record(r, sz, n), e1, e2), e2, e1) = Record(r2, sz, n2)
                     /\ Crossed(n2, r2, n, r, S, q)
<1>1. FieldsOf(n, S) /\ S \subseteq Elem /\ NULL \notin S /\ r \in S \union {NULL}
  BY NullAssumption DEF Forked, Shaped, FieldsOf
<1>2. \A y \in S \union {NULL} : q[y] = IF y = e1 THEN e2 ELSE IF y = e2 THEN e1 ELSE y
  <2>1. IsSwap(Swapped(e1, e2), S, e1, e2)
    BY <1>1, SwappedFacts
  <2> QED BY <2>1 DEF IsSwap
<1>3. PICK p2 : p2 = n[e2].parent
  OBVIOUS
<1>4. PICK p1 : p1 = n[e1].parent
  OBVIOUS
<1>5. p2 \in sub[e1] /\ sub[e1] \in SUBSET S /\ e1 \in sub[e1]
  BY <1>1, <1>3, Upwards, NodeFacts
<1>6. e2 # r /\ p2 \in S
  BY <1>1, <1>3, <1>5, ForkLinks
<1>7. p1 # p2
  <2> SUFFICES ASSUME p1 = p2
               PROVE  FALSE
    OBVIOUS
  <2>1. e1 # r /\ p1 \in S /\ p1 # e1
    BY <1>1, <1>4, <1>6, ForkLinks
  <2>2. \E s \in Side : n[p1][s] = e1
    BY <1>4, <2>1, ForkLinks
  <2>3. PICK s \in Side : n[p1][s] = e1
    BY <2>2
  <2>4. PICK k : k = n[p1][s]
    OBVIOUS
  <2>5. p1 \notin sub[k]
    BY <2>1, <2>4, ForkFacts
  <2> QED BY <1>5, <2>3, <2>4, <2>5
<1>8. \A y \in S, s \in Side : n[y][s] \in S \union {NULL}
  BY DEF Forked, Shaped
<1>9. \E s \in Side : n[p2][s] = e2
  BY <1>3, <1>6, ForkLinks
<1>10. PICK z2, n1 : /\ z2 \in Side /\ n[p2][z2] = e2 /\ Writes(n1, n, S, p2, z2, e1)
                     /\ substitute(Record(r, sz, n), e1, e2) = Record(r, sz, n1)
  <2>1. Rehung(substitute(Record(r, sz, n), e1, e2), r, sz, n, S, p2, e2, e1)
    BY <1>1, <1>3, <1>6, <1>9, SubstituteWrites
  <2> QED BY <2>1 DEF Rehung
<1>11. z2 \in Side /\ FieldsOf(n1, S) /\ (\A y \in Elem \ S : n1[y] = n[y])
       /\ \A y \in S, g \in Field : n1[y][g] = IF y = p2 /\ g = z2 THEN e1 ELSE n[y][g]
  BY <1>10 DEF Writes
<1>12. /\ "parent" \in Field /\ "balance" \in Field /\ "key" \in Field
       /\ \A s \in Side : s \in Field /\ s # "parent" /\ s # "balance" /\ s # "key"
  BY DEF Field, Side
<1>13. ASSUME NEW y \in S
       PROVE  n1[y].parent = n[y].parent /\ n1[y].balance = n[y].balance /\ n1[y].key = n[y].key
  BY <1>11, <1>12
<1>14. ASSUME NEW y \in S, NEW s \in Side
       PROVE  n1[y][s] = IF n[y][s] = e2 THEN e1 ELSE n[y][s]
  <2>1. n[y][s] = e2 <=> y = p2 /\ s = z2
    BY <1>6, <1>10, ForkLinks
  <2> QED BY <1>11, <1>12, <2>1
<1>15. CASE e1 = r
  <2>1. substitute(Record(r, sz, n1), e2, e1) = Record(e2, sz, n1)
    <3>1. PICK p : p = n1[e1].parent
      OBVIOUS
    <3> QED BY <1>11, <1>15, <3>1, SubstituteWrites
  <2>2. ASSUME NEW y \in S, NEW s \in Side
        PROVE  n1[y][s] = q[n[y][s]]
    <3>1. PICK k : k = n[y][s]
      OBVIOUS
    <3>2. k # e1
      <4>1. k # NULL => k # r
        BY <3>1, ForkFacts
      <4> QED BY <1>1, <1>15, <4>1
    <3> QED BY <1>2, <1>8, <1>14, <3>1, <3>2
  <2>3. Crossed(n1, e2, n, r, S, q)
    <3>1. q[r] = e2
      BY <1>2, <1>15
    <3> QED BY <1>11, <1>13, <2>2, <3>1 DEF Crossed
  <2> QED BY <1>10, <2>1, <2>3
<1>16. CASE e1 # r
  <2>1. p1 \in S /\ \E s \in Side : n[p1][s] = e1
    BY <1>4, <1>16, ForkLinks
  <2>2. p1 = n1[e1].parent
    BY <1>4, <1>13
  <2>3. \A s \in Side : n1[p1][s] = n[p1][s]
    BY <1>7, <1>11, <1>12, <2>1
  <2>4. PICK z1, n2 : /\ z1 \in Side /\ n1[p1][z1] = e1 /\ Writes(n2, n1, S, p1, z1, e2)
                      /\ substitute(Record(r, sz, n1), e2, e1) = Record(r, sz, n2)
    <3>1. Rehung(substitute(Record(r, sz, n1), e2, e1), r, sz, n1, S, p1, e1, e2)
      BY <1>11, <1>16, <2>1, <2>2, <2>3, SubstituteWrites
    <3> QED BY <3>1 DEF Rehung
  <2>5. z1 \in Side /\ FieldsOf(n2, S) /\ (\A y \in Elem \ S : n2[y] = n1[y])
        /\ \A y \in S, g \in Field : n2[y][g] = IF y = p1 /\ g = z1 THEN e2 ELSE n1[y][g]
    BY <2>4 DEF Writes
  <2>6. ASSUME NEW y \in S, NEW s \in Side
        PROVE  n2[y][s] = q[n[y][s]]
    <3>1. n[y][s] = e1 <=> y = p1 /\ s = z1
      BY <2>1, <2>3, <2>4, ForkLinks
    <3>2. n2[y][s] = IF n[y][s] = e1 THEN e2 ELSE n1[y][s]
      BY <1>12, <2>5, <3>1
    <3> QED BY <1>2, <1>8, <1>14, <3>2
  <2>7. ASSUME NEW y \in S
        PROVE  n2[y].parent = n[y].parent /\ n2[y].balance = n[y].balance /\ n2[y].key = n[y].key
    BY <1>12, <1>13, <2>5
  <2>8. q[r] = r
    BY <1>1, <1>2, <1>6, <1>16
  <2>9. \A y \in Elem \ S : n2[y] = n[y]
    BY <1>11, <2>5
  <2>10. Crossed(n2, r, n, r, S, q)
    BY <2>5, <2>6, <2>7, <2>8, <2>9 DEF Crossed
  <2> QED BY <1>10, <2>4, <2>10
<1> QED BY <1>15, <1>16

SwappedFields(m, n, S, q) ==
  /\ FieldsOf(m, S) /\ \A y \in Elem \ S : m[y] = n[y]
  /\ \A y \in S, s \in Side : m[y][s] = n[q[y]][s]
  /\ \A y \in S : m[y].parent = n[q[y]].parent /\ m[y].balance = n[q[y]].balance /\ m[y].key = n[y].key

MovedTo(w, a, b) ==
  /\ w \in Fields /\ w.key = b.key /\ w.left = a.left /\ w.right = a.right
  /\ w.parent = a.parent /\ w.balance = a.balance

Rekeyed(a, b) == [a EXCEPT !.key = b.key, !.value = b.value]

(* An element gets the links and the balance of the other one.               *)
LEMMA MovedFacts ==
  ASSUME NEW a, a \in Fields, NEW b, b \in Fields
  PROVE  MovedTo(Rekeyed(a, b), a, b)
<1>0. PICK w : w = Rekeyed(a, b)
  OBVIOUS
<1>1. PICK u : u = [a EXCEPT !.key = b.key]
  OBVIOUS
<1>2. /\ u \in Fields /\ u.key = b.key /\ u.left = a.left /\ u.right = a.right
      /\ u.parent = a.parent /\ u.balance = a.balance
  BY <1>1 DEF Fields
<1>3. w = [u EXCEPT !.value = b.value]
  BY <1>0, <1>1 DEF Rekeyed
<1>4. MovedTo(w, a, b)
  BY <1>2, <1>3 DEF Fields, MovedTo
<1> QED BY <1>0, <1>4

(* Both do.                                                                  *)
LEMMA SwapFacts ==
  ASSUME NEW n, NEW S, FieldsOf(n, S), NEW e1 \in S, NEW e2 \in S, e1 # e2,
         NEW q, IsSwap(q, S, e1, e2), NEW m, m = Swap(n, e1, e2)
  PROVE  SwappedFields(m, n, S, q)
<1>1. n \in Heap /\ S \in SUBSET Elem /\ \A y \in S : n[y] \in Fields
  BY DEF FieldsOf
<1>2. PICK v : v = [n[e2] EXCEPT !.key = n[e1].key, !.value = n[e1].value]
  OBVIOUS
<1>3. PICK w : w = [n[e1] EXCEPT !.key = n[e2].key, !.value = n[e2].value]
  OBVIOUS
<1>4. m = [n EXCEPT ![e1] = v, ![e2] = w]
  BY <1>2, <1>3 DEF Swap
<1>5. /\ v \in Fields /\ v.key = n[e1].key /\ v.left = n[e2].left /\ v.right = n[e2].right
      /\ v.parent = n[e2].parent /\ v.balance = n[e2].balance
  <2>1. PICK a, b : a = n[e2] /\ b = n[e1]
    OBVIOUS
  <2>2. a \in Fields /\ b \in Fields
    BY <1>1, <2>1
  <2>3. MovedTo(Rekeyed(a, b), a, b)
    BY <2>2, MovedFacts
  <2>4. MovedTo(v, a, b)
    BY <1>2, <2>1, <2>3 DEF Rekeyed
  <2> QED BY <2>1, <2>4 DEF MovedTo
<1>6. /\ w \in Fields /\ w.key = n[e2].key /\ w.left = n[e1].left /\ w.right = n[e1].right
      /\ w.parent = n[e1].parent /\ w.balance = n[e1].balance
  <2>1. PICK a, b : a = n[e1] /\ b = n[e2]
    OBVIOUS
  <2>2. a \in Fields /\ b \in Fields
    BY <1>1, <2>1
  <2>3. MovedTo(Rekeyed(a, b), a, b)
    BY <2>2, MovedFacts
  <2>4. MovedTo(w, a, b)
    BY <1>3, <2>1, <2>3 DEF Rekeyed
  <2> QED BY <2>1, <2>4 DEF MovedTo
<1>7. m \in Heap /\ m[e1] = v /\ m[e2] = w /\ \A y \in Elem \ {e1, e2} : m[y] = n[y]
  <2>1. m = [y \in Elem |-> IF y = e2 THEN w ELSE IF y = e1 THEN v ELSE n[y]]
    BY <1>1, <1>4 DEF Heap
  <2> QED BY <1>1, <1>5, <1>6, <2>1 DEF Heap
<1>8. FieldsOf(m, S)
  BY <1>1, <1>5, <1>6, <1>7 DEF FieldsOf
<1>9. q[e1] = e2 /\ q[e2] = e1 /\ \A y \in S \ {e1, e2} : q[y] = y
  BY DEF IsSwap
<1>10. ASSUME NEW y \in S, NEW s \in Side
       PROVE  m[y][s] = n[q[y]][s]
  <2>1. v[s] = n[e2][s] /\ w[s] = n[e1][s]
    BY <1>5, <1>6 DEF Side
  <2> QED BY <1>1, <1>7, <1>9, <2>1
<1>11. ASSUME NEW y \in S
       PROVE  m[y].parent = n[q[y]].parent /\ m[y].balance = n[q[y]].balance /\ m[y].key = n[y].key
  BY <1>1, <1>5, <1>6, <1>7, <1>9
<1> QED BY <1>1, <1>7, <1>8, <1>10, <1>11 DEF SwappedFields

(* exchange() renames the two elements.                                      *)
LEMMA ExchangeFacts ==
  ASSUME NEW n, NEW r, NEW S, NEW sub, Forked(n, r, S, sub), IsFiniteSet(S),
         NEW e1 \in S, NEW e2 \in S, e2 # e1, e2 \in sub[e1], NEW sz
  PROVE  \E n2, r2 : /\ exchange(Record(r, sz, n), e1, e2) = Record(r2, sz, n2)
                     /\ Replaced(n2, r2, S, n, r, S, Swapped(e1, e2))
<1>1. PICK q : q = Swapped(e1, e2)
  OBVIOUS
<1>2. S \subseteq Elem /\ NULL \notin S /\ r \in S \union {NULL}
  BY NullAssumption DEF Forked, Shaped, FieldsOf
<1>3. IsSwap(q, S, e1, e2)
  BY <1>1, <1>2, SwappedFacts
<1>4. PICK n2, r2 : /\ substitute(substitute(Record(r, sz, n), e1, e2), e2, e1) = Record(r2, sz, n2)
                    /\ Crossed(n2, r2, n, r, S, q)
  BY <1>1, CrossFacts
<1>5. /\ FieldsOf(n2, S) /\ (\A y \in Elem \ S : n2[y] = n[y]) /\ r2 = q[r]
      /\ \A y \in S, s \in Side : n2[y][s] = q[n[y][s]]
      /\ \A y \in S : n2[y].parent = n[y].parent /\ n2[y].balance = n[y].balance /\ n2[y].key = n[y].key
  BY <1>4 DEF Crossed
<1>6. PICK n3 : n3 = Swap(n2, e1, e2)
  OBVIOUS
<1>7. SwappedFields(n3, n2, S, q)
  BY <1>3, <1>5, <1>6, SwapFacts
<1>8. /\ \A y \in S : q[y] \in S /\ q[q[y]] = y
      /\ \A y \in S \union {NULL} : q[y] \in S \union {NULL} /\ q[q[y]] = y
      /\ q[e1] = e2 /\ q[e2] = e1
      /\ \A y \in (S \union {NULL}) \ {e1, e2} : q[y] = y
      /\ Renaming(q, S, S)
  BY <1>3 DEF IsSwap
<1>9. \A y \in S, s \in Side : n[y][s] \in S \union {NULL}
  BY DEF Forked, Shaped
<1>10. /\ FieldsOf(n3, S) /\ (\A y \in Elem \ S : n3[y] = n[y])
       /\ \A y \in S, s \in Side : n3[y][s] = q[n[q[y]][s]] /\ n3[y][s] \in S \union {NULL}
       /\ \A y \in S : n3[y].parent = n[q[y]].parent /\ n3[y].balance = n[q[y]].balance /\ n3[y].key = n[y].key
  <2>1. /\ FieldsOf(n3, S) /\ (\A y \in Elem \ S : n3[y] = n2[y])
        /\ \A y \in S, s \in Side : n3[y][s] = n2[q[y]][s]
        /\ \A y \in S : n3[y].parent = n2[q[y]].parent /\ n3[y].balance = n2[q[y]].balance /\ n3[y].key = n2[y].key
    BY <1>7 DEF SwappedFields
  <2> QED BY <1>5, <1>8, <1>9, <2>1
<1>11. PICK n4 : n4 = AdoptBoth(n3, e1)
  OBVIOUS
<1>12. Adopted(n4, n3, S, e1)
  <2>1. \A s \in Side : n3[e1][s] \in S \union {NULL}
    BY <1>10
  <2> QED BY <1>10, <1>11, <2>1, AdoptBothFacts
<1>13. /\ FieldsOf(n4, S) /\ (\A y \in Elem \ S : n4[y] = n3[y])
       /\ \A y \in S, s \in Side : n4[y][s] = n3[y][s]
       /\ \A y \in S : /\ n4[y].balance = n3[y].balance /\ n4[y].key = n3[y].key
                       /\ n4[y].parent = IF \E s \in Side : n3[e1][s] = y THEN e1 ELSE n3[y].parent
  BY <1>12 DEF Adopted
<1>14. PICK n5 : n5 = AdoptBoth(n4, e2)
  OBVIOUS
<1>15. Adopted(n5, n4, S, e2)
  <2>1. \A s \in Side : n4[e2][s] \in S \union {NULL}
    BY <1>10, <1>13
  <2> QED BY <1>13, <1>14, <2>1, AdoptBothFacts
<1>16. /\ FieldsOf(n5, S) /\ (\A y \in Elem \ S : n5[y] = n4[y])
       /\ \A y \in S, s \in Side : n5[y][s] = n4[y][s]
       /\ \A y \in S : /\ n5[y].balance = n4[y].balance /\ n5[y].key = n4[y].key
                       /\ n5[y].parent = IF \E s \in Side : n4[e2][s] = y THEN e2 ELSE n4[y].parent
  BY <1>15 DEF Adopted
<1>17. exchange(Record(r, sz, n), e1, e2) = Record(r2, sz, n5)
  <2>1. PICK u : u = Record(r2, sz, n2)
    OBVIOUS
  <2>2. u.node = n2 /\ Update(u, n5) = Record(r2, sz, n5)
    BY <2>1, RecordFacts
  <2>3. exchange(Record(r, sz, n), e1, e2) = Update(u, AdoptBoth(AdoptBoth(Swap(u.node, e1, e2), e1), e2))
    BY <1>4, <2>1 DEF exchange
  <2> QED BY <1>6, <1>11, <1>14, <2>2, <2>3
<1>18. ASSUME NEW y \in S, NEW e \in S
       PROVE  (\E s \in Side : n3[q[e]][s] = y) <=> n[q[y]].parent = e
  <2>1. q[e] \in S /\ q[q[e]] = e /\ q[y] \in S /\ q[q[y]] = y
    BY <1>8
  <2>2. \A s \in Side : n3[q[e]][s] = y <=> n[e][s] = q[y]
    BY <1>8, <1>9, <1>10, <2>1
  <2>3. (\E s \in Side : n[e][s] = q[y]) <=> n[q[y]].parent = e
    BY <2>1, ForkLinks
  <2> QED BY <2>2, <2>3
<1>19. ASSUME NEW y \in S
       PROVE  n5[y].parent = q[n[q[y]].parent] /\ n[q[y]].parent \in S \union {NULL}
  <2>1. (\E s \in Side : n3[e2][s] = y) <=> n[q[y]].parent = e1
    BY <1>8, <1>18
  <2>2. (\E s \in Side : n3[e1][s] = y) <=> n[q[y]].parent = e2
    BY <1>8, <1>18
  <2>3. (\E s \in Side : n4[e2][s] = y) <=> n[q[y]].parent = e1
    BY <1>13, <2>1
  <2>4. n5[y].parent = IF n[q[y]].parent = e1 THEN e2 ELSE IF n[q[y]].parent = e2 THEN e1 ELSE n[q[y]].parent
    BY <1>10, <1>13, <1>16, <2>2, <2>3
  <2>5. n[q[y]].parent \in S \union {NULL}
    <3>1. PICK x \in S : x = q[y]
      BY <1>8
    <3>2. x = r <=> n[x].parent = NULL
      BY ForkLinks
    <3>3. x # r => n[x].parent \in S /\ n[x].parent # x
      BY ForkLinks
    <3> QED BY <3>1, <3>2, <3>3
  <2> QED BY <1>8, <2>4, <2>5
<1>20. \A y \in S, s \in Side : n5[y][s] \in S \union {NULL} /\ q[n5[y][s]] = n[q[y]][s]
  BY <1>8, <1>9, <1>10, <1>13, <1>16
<1>21. \A y \in S : /\ n5[y].parent \in S \union {NULL} /\ q[n5[y].parent] = n[q[y]].parent
                    /\ n5[y].balance = n[q[y]].balance
  BY <1>8, <1>10, <1>13, <1>16, <1>19
<1>22. r2 \in S \union {NULL} /\ q[r2] = r
  BY <1>2, <1>5, <1>8
<1>23. Renamed(n5, r2, S, n, r, S, q)
  BY <1>8, <1>16, <1>20, <1>21, <1>22 DEF Renamed
<1>24. (\A y \in Elem \ S : n5[y] = n[y]) /\ \A y \in S : n5[y].key = n[y].key
  BY <1>10, <1>13, <1>16
<1>25. Replaced(n5, r2, S, n, r, S, q)
  BY <1>23, <1>24 DEF Replaced
<1> QED BY <1>1, <1>17, <1>25

------------------------------------------------------------------------------
(* The outermost node of a subtree, and the neighbour with which an element  *)
(* to be detached changes places.                                            *)

(* What the loop of Outermost has left behind on its way from c.             *)
Outward(n, sub, c, o, y) == y \in sub[c] /\ \A z \in sub[c] : z \in sub[y] \/ Beyond(n, Other(o), z, y)

(* One step of the loop that follows one side.                               *)
LEMMA FurtherFacts ==
  ASSUME NEW n, NEW r, NEW S, NEW sub, Forked(n, r, S, sub), IsFiniteSet(S),
         NEW c \in S, \A x \in sub[c] : OrderedAt(n, sub, x), NEW o \in Side,
         NEW y, Outward(n, sub, c, o, y), NEW k, k = n[y][o], k # NULL
  PROVE  /\ Outward(n, sub, c, o, k) /\ y \in S /\ k \in S
         /\ sub[k] \subseteq sub[y] /\ y \in sub[y] /\ y \notin sub[k]
<1>1. FieldsOf(n, S) /\ Other(o) \in Side /\ Other(Other(o)) = o
  BY SideFacts DEF Forked, Shaped
<1>2. y \in sub[c] /\ sub[c] \in SUBSET S /\ y \in S
  BY NodeFacts DEF Outward
<1>3. sub[y] \subseteq sub[c]
  BY <1>2, Within
<1>4. k # NULL => n[k].parent = y /\ k \in S /\ k # r
  BY <1>2, ForkFacts
<1>5. k # NULL => k \in sub[k] /\ k # y
  BY <1>2, ForkFacts
<1>6. sub[k] \subseteq sub[y] /\ y \notin sub[k]
  BY <1>2, ForkFacts
<1>7. sub[y] = {y} \union sub[k] \union sub[n[y][Other(o)]]
  BY <1>2, ForkFacts
<1>8. y \in sub[y] /\ sub[y] \subseteq S
  BY <1>2, ForkFacts
<1>9. OrderedAt(n, sub, y)
  BY <1>2
<1>10. Beyond(n, o, k, y)
  BY <1>5, <1>9 DEF OrderedAt
<1>11. Beyond(n, Other(o), y, k)
  BY <1>1, <1>2, <1>4, <1>10, BeyondFacts
<1>12. ASSUME NEW z \in sub[c], z \notin sub[k]
       PROVE  Beyond(n, Other(o), z, k)
  <2>1. z \in S
    BY <1>2
  <2>2. z = y \/ Beyond(n, Other(o), z, y)
    <3>1. CASE z \in sub[y]
      <4>1. z = y \/ z \in sub[n[y][Other(o)]]
        BY <1>7, <1>12, <3>1
      <4> QED BY <1>1, <1>9, <4>1 DEF OrderedAt
    <3>2. CASE z \notin sub[y]
      BY <3>2 DEF Outward
    <3> QED BY <3>1, <3>2
  <2> QED BY <1>1, <1>2, <1>4, <1>11, <2>1, <2>2, BeyondFacts
<1>13. k \in sub[c]
  BY <1>3, <1>5, <1>6
<1>14. Outward(n, sub, c, o, k)
  BY <1>12, <1>13 DEF Outward
<1> QED BY <1>2, <1>4, <1>6, <1>8, <1>14

(* The loop ends at the outermost node of the subtree.                       *)
LEMMA OutermostSound ==
  ASSUME NEW n, NEW r, NEW S, NEW sub, Forked(n, r, S, sub), IsFiniteSet(S),
         NEW sz \in Nat, Cardinality(S) <= sz,
         NEW c \in S, \A x \in sub[c] : OrderedAt(n, sub, x), NEW o \in Side,
         NEW y, y = Outermost(Record(r, sz, n), c, o)
  PROVE  Outward(n, sub, c, o, y) /\ n[y][o] = NULL
<1>1. PICK t : t = Record(r, sz, n)
  OBVIOUS
<1>2. t.node = n /\ t.size = sz
  BY <1>1, RecordFacts
<1> DEFINE V == {x \in S : Outward(n, sub, c, o, x)}
           G == [k \in Nat |-> [x \in V |-> Further(n, x, o)]]
           Loop(f) == f = [k \in Nat |-> IF k = 0 THEN c ELSE Further(t.node, f[k - 1], o)]
<1>3. c \in V
  <2>1. c \in sub[c]
    BY NodeFacts
  <2> QED BY <2>1 DEF Outward
<1>4. ASSUME NEW x \in V
      PROVE  Further(n, x, o) \in V
  <2>1. PICK k : k = n[x][o]
    OBVIOUS
  <2>2. CASE k = NULL
    BY <2>1, <2>2 DEF Further
  <2>3. CASE k # NULL
    <3>1. Outward(n, sub, c, o, k) /\ k \in S
      BY <2>1, <2>3, FurtherFacts
    <3> QED BY <2>1, <2>3, <3>1 DEF Further
  <2> QED BY <2>2, <2>3
<1>5. G \in [Nat -> [V -> V]]
  BY <1>4
<1>6. PICK g : Recursive(g, c, G)
  BY <1>3, <1>5, RecursionExists
<1>7. Loop(g)
  <2>1. g = [k \in Nat |-> IF k = 0 THEN c ELSE G[k][g[k - 1]]]
    BY <1>6 DEF Recursive
  <2>2. g \in [Nat -> V]
    <3>1. Computes(g, V, c, G)
      BY <1>3, <1>5, <1>6, RecursionTyped
    <3> QED BY <3>1 DEF Computes
  <2>3. ASSUME NEW k \in Nat, k # 0
        PROVE  G[k][g[k - 1]] = Further(t.node, g[k - 1], o)
    <3>1. k - 1 \in Nat
      BY <2>3
    <3>2. g[k - 1] \in V
      BY <2>2, <3>1
    <3> QED BY <1>2, <3>2
  <2> QED BY <2>1, <2>3
<1>8. \E a : Loop(a)
  BY <1>7
<1>9. PICK f : f = CHOOSE a : Loop(a)
  OBVIOUS
<1>10. y = f[sz]
  BY <1>1, <1>2, <1>9 DEF Outermost
<1> HIDE DEF Loop, G, V
<1>11. Loop(f)
  BY <1>8, <1>9, Zenon
<1>12. f[0] = c /\ \A k \in Nat : f[k + 1] = Further(n, f[k], o)
  BY <1>2, <1>11 DEF Loop
<1> DEFINE K == {k \in Nat : /\ f[k] \in V
                             /\ n[f[k]][o] = NULL \/ Cardinality(sub[f[k]]) + k <= sz}
<1>13. \A x \in S : sub[x] \in SUBSET S /\ Cardinality(sub[x]) \in Nat /\ Cardinality(sub[x]) # 0
                    /\ Cardinality(sub[x]) <= sz
  <2> SUFFICES ASSUME NEW x \in S
               PROVE  sub[x] \in SUBSET S /\ Cardinality(sub[x]) \in Nat /\ Cardinality(sub[x]) # 0
                      /\ Cardinality(sub[x]) <= sz
    OBVIOUS
  <2>1. /\ sub[x] \in SUBSET S /\ x \in sub[x]
        /\ Cardinality(sub[x]) \in Nat /\ Cardinality(sub[x]) # 0
        /\ Cardinality(sub[x]) <= Cardinality(S) /\ Cardinality(S) \in Nat
    BY NodeFacts
  <2> QED BY <2>1
<1>14. 0 \in K
  BY <1>3, <1>12, <1>13
<1>15. ASSUME NEW j \in K
       PROVE  j + 1 \in K
  <2>1. PICK x : x = f[j]
    OBVIOUS
  <2>2. j \in Nat /\ j + 1 \in Nat /\ f[j + 1] = Further(n, x, o) /\ x \in V
    BY <1>12, <2>1
  <2>3. f[j + 1] \in V
    BY <1>4, <2>2
  <2>4. PICK k : k = n[x][o]
    OBVIOUS
  <2>5. CASE k = NULL
    BY <2>1, <2>2, <2>3, <2>4, <2>5 DEF Further
  <2>6. CASE k # NULL
    <3>1. /\ Outward(n, sub, c, o, k) /\ x \in S /\ k \in S
          /\ sub[k] \subseteq sub[x] /\ x \in sub[x] /\ x \notin sub[k]
      BY <2>2, <2>4, <2>6, FurtherFacts DEF V
    <3>2. PICK a \in Nat, b \in Nat : a = Cardinality(sub[k]) /\ b = Cardinality(sub[x])
      BY <1>13, <3>1
    <3>3. a < b
      BY <1>13, <3>1, <3>2, SmallerSet
    <3>4. b + j <= sz
      BY <2>1, <2>4, <2>6, <3>2
    <3>5. a + (j + 1) <= sz
      BY <2>2, <3>3, <3>4
    <3>6. f[j + 1] = k
      BY <2>2, <2>4, <2>6 DEF Further
    <3> QED BY <2>2, <2>3, <3>2, <3>5, <3>6
  <2> QED BY <2>5, <2>6
<1>16. K = Nat
  <2>1. K \in SUBSET Nat
    OBVIOUS
  <2> HIDE DEF K
  <2> QED BY <1>14, <1>15, <2>1, EveryNumber
<1>17. f[sz] \in V /\ (n[f[sz]][o] = NULL \/ Cardinality(sub[f[sz]]) + sz <= sz)
  BY <1>16
<1>18. f[sz] \in S /\ Outward(n, sub, c, o, f[sz])
  BY <1>17 DEF V
<1> QED BY <1>10, <1>13, <1>17, <1>18

(* The tree once e is out of order: everything else is in order around it.   *)
OrderedBut(n, S, sub, e) ==
  \A x \in S \ {e}, s \in Side : \A z \in sub[n[x][s]] \ {e} : Beyond(n, s, z, x)
Across(n, sub, e) ==
  \A z \in sub[n[e]["left"]], w \in sub[n[e]["right"]] : rank(n, z) < rank(n, w)

(* The element next to e below it, on the side d.                            *)
Adjacent(n, sub, e, d, x) ==
  /\ x \in sub[n[e][d]] /\ n[x][Other(d)] = NULL
  /\ \A z \in sub[n[e][d]] \ {x} : Beyond(n, d, z, x)

(* adjacent_descendant() is next to the element in key order.                *)
LEMMA AdjacentSound ==
  ASSUME NEW n, NEW r, NEW S, NEW sub, Forked(n, r, S, sub), IsFiniteSet(S),
         NEW sz \in Nat, Cardinality(S) <= sz,
         NEW e \in S, OrderedBut(n, S, sub, e), ~leaf_element(n, e)
  PROVE  \E d \in Side : Adjacent(n, sub, e, d, adjacent_descendant(Record(r, sz, n), e))
<1>1. PICK t : t = Record(r, sz, n)
  OBVIOUS
<1>2. t.node = n
  BY <1>1, RecordFacts
<1>3. PICK d \in Side : n[e][d] # NULL /\ adjacent_descendant(t, e) = Outermost(t, n[e][d], Other(d))
  <2>1. CASE n[e].left # NULL
    <3>1. adjacent_descendant(t, e) = Outermost(t, n[e]["left"], Other("left"))
      BY <1>2, <2>1 DEF adjacent_descendant, descendant
    <3> QED BY <2>1, <3>1 DEF Side
  <2>2. CASE n[e].left = NULL
    <3>1. n[e].right # NULL
      BY <2>2 DEF leaf_element
    <3>2. adjacent_descendant(t, e) = Outermost(t, n[e]["right"], Other("right"))
      BY <1>2, <2>2, <3>1 DEF adjacent_descendant, descendant
    <3> QED BY <3>1, <3>2 DEF Side
  <2> QED BY <2>1, <2>2
<1>4. PICK c : c = n[e][d]
  OBVIOUS
<1>5. c # NULL => n[c].parent = e /\ c \in S /\ c # r
  BY <1>4, ForkFacts
<1>6. sub[c] \subseteq sub[e] /\ e \notin sub[c]
  BY <1>4, ForkFacts
<1>7. c \in S /\ sub[c] \in SUBSET S
  BY <1>3, <1>4, <1>5, NodeFacts
<1>8. PICK o \in Side : o = Other(d) /\ Other(o) = d
  BY SideFacts
<1>9. ASSUME NEW x \in sub[c]
      PROVE  OrderedAt(n, sub, x)
  <2>1. x \in S \ {e}
    BY <1>6, <1>7
  <2>2. ASSUME NEW s \in Side, NEW z \in sub[n[x][s]]
        PROVE  Beyond(n, s, z, x)
    <3>1. PICK k : k = n[x][s]
      OBVIOUS
    <3>2. sub[k] \subseteq sub[x] /\ x \notin sub[k]
      BY <2>1, <3>1, ForkFacts
    <3>3. sub[x] \subseteq sub[c]
      BY <1>7, Within
    <3>4. z # e
      BY <1>6, <2>2, <3>1, <3>2, <3>3
    <3> QED BY <2>1, <2>2, <3>4 DEF OrderedBut
  <2> QED BY <2>2 DEF OrderedAt
<1>10. PICK y : y = Outermost(Record(r, sz, n), c, o)
  OBVIOUS
<1>11. Outward(n, sub, c, o, y) /\ n[y][o] = NULL
  BY <1>7, <1>9, <1>10, OutermostSound
<1>12. y \in sub[c] /\ y \in S
  BY <1>7, <1>11 DEF Outward
<1>13. ASSUME NEW z \in sub[c] \ {y}
       PROVE  Beyond(n, d, z, y)
  <2>1. CASE z \in sub[y]
    <3>1. PICK k : k = n[y][d]
      OBVIOUS
    <3>2. sub[y] = {y} \union sub[k] \union sub[n[y][Other(d)]]
      BY <1>12, <3>1, ForkFacts
    <3>3. sub[NULL] = {}
      BY DEF Forked, Nested
    <3>4. z \in sub[k]
      BY <1>8, <1>11, <1>13, <2>1, <3>2, <3>3
    <3> QED BY <1>9, <1>12, <3>1, <3>4 DEF OrderedAt
  <2>2. CASE z \notin sub[y]
    BY <1>8, <1>11, <2>2 DEF Outward
  <2> QED BY <2>1, <2>2
<1>14. Adjacent(n, sub, e, d, y)
  BY <1>4, <1>8, <1>11, <1>12, <1>13 DEF Adjacent
<1> QED BY <1>1, <1>3, <1>4, <1>8, <1>10, <1>14

------------------------------------------------------------------------------
(* The element to be detached sinks to a leaf, and everything but itself     *)
(* stays in order.                                                           *)

(* The tree while e sinks to a leaf.                                         *)
Sinking(n, r, S, sub, h, e) ==
  /\ Forked(n, r, S, sub) /\ OrderedBut(n, S, sub, e) /\ Across(n, sub, e)
  /\ LevelBut(n, S, h, NULL, "left", 0)

(* At first everything is in order.                                          *)
LEMMA SearchSinking ==
  ASSUME NEW n, NEW r, NEW S, NEW sub, SearchTree(n, r, S, sub), NEW e \in S,
         NEW h, LevelBut(n, S, h, NULL, "left", 0)
  PROVE  Sinking(n, r, S, sub, h, e)
<1>1. FieldsOf(n, S) /\ Forked(n, r, S, sub) /\ Ordered(n, S, sub)
  BY SearchForked DEF SearchTree, Shaped
<1>2. OrderedBut(n, S, sub, e)
  BY <1>1 DEF OrderedBut, Ordered, OrderedAt
<1>3. ASSUME NEW z \in sub[n[e]["left"]], NEW w \in sub[n[e]["right"]]
      PROVE  rank(n, z) < rank(n, w)
  <2>1. Beyond(n, "left", z, e) /\ Beyond(n, "right", w, e)
    BY <1>1, <1>3 DEF Ordered, OrderedAt, Side
  <2>2. z \in S /\ w \in S
    <3>1. \A s \in Side : n[e][s] \in Pointer
      BY <1>1, FieldTypes
    <3> QED BY <1>1, <3>1 DEF Forked, Nested, Side
  <2>3. rank(n, z) \in Int /\ rank(n, w) \in Int /\ rank(n, e) \in Int
    BY <1>1, <2>2, RankFacts
  <2>4. rank(n, z) < rank(n, e) /\ rank(n, w) > rank(n, e)
    BY <2>1 DEF Beyond
  <2> QED BY <2>3, <2>4
<1> QED BY <1>1, <1>2, <1>3 DEF Sinking, Across

(* After the exchange everything but the sinking element is in order.        *)
LEMMA SwappedOrder ==
  ASSUME NEW n, NEW r, NEW S, NEW sub, Forked(n, r, S, sub), IsFiniteSet(S), NEW e \in S,
         OrderedBut(n, S, sub, e), Across(n, sub, e),
         NEW d \in Side, NEW x \in S, x # e, Adjacent(n, sub, e, d, x),
         NEW q, IsSwap(q, S, e, x), NEW y \in S \ {e}, NEW s \in Side,
         NEW z \in S \ {e}, q[z] \in sub[n[q[y]][s]]
  PROVE  Beyond(n, s, z, y)
<1>1. q[e] = x /\ q[x] = e /\ \A w \in S \ {e, x} : q[w] = w
  BY DEF IsSwap
<1>2. FieldsOf(n, S) /\ x \in sub[n[e][d]]
  BY DEF Forked, Shaped, Adjacent
<1>3. CASE y # x /\ z # x
  <2>1. q[y] = y /\ q[z] = z
    BY <1>1, <1>3
  <2> QED BY <2>1 DEF OrderedBut
<1>4. CASE y = x
  <2>1. q[y] = e
    BY <1>1, <1>4
  <2>2. z # x
    <3> SUFFICES ASSUME z = x
                 PROVE  FALSE
      OBVIOUS
    <3>1. PICK k : k = n[e][s]
      OBVIOUS
    <3>2. e \notin sub[k]
      BY <3>1, ForkFacts
    <3> QED BY <1>1, <2>1, <3>1, <3>2
  <2>3. z \in sub[n[e][s]]
    BY <1>1, <2>1, <2>2
  <2>4. CASE s = d
    BY <1>4, <2>2, <2>3, <2>4 DEF Adjacent
  <2>5. CASE s # d
    <3>1. s = "left" => d = "right"
      BY <2>5 DEF Side
    <3>2. s = "right" => d = "left"
      BY <2>5 DEF Side
    <3>3. s = "left" \/ s = "right"
      BY DEF Side
    <3>4. rank(n, x) \in Int /\ rank(n, z) \in Int
      BY <1>2, RankFacts
    <3>5. CASE s = "left"
      <4>1. rank(n, z) < rank(n, x)
        BY <1>2, <2>3, <3>1, <3>5 DEF Across
      <4> QED BY <1>4, <3>5, <4>1 DEF Beyond
    <3>6. CASE s = "right"
      <4>1. rank(n, x) < rank(n, z)
        BY <1>2, <2>3, <3>2, <3>6 DEF Across
      <4>2. rank(n, z) > rank(n, x)
        BY <3>4, <4>1
      <4> QED BY <1>4, <3>6, <4>2 DEF Beyond
    <3> QED BY <3>3, <3>5, <3>6
  <2> QED BY <2>4, <2>5
<1>5. CASE y # x /\ z = x
  <2>1. q[y] = y /\ q[z] = e
    BY <1>1, <1>5
  <2>2. PICK k : k = n[y][s]
    OBVIOUS
  <2>3. e \in sub[k]
    BY <2>1, <2>2
  <2>4. k # NULL
    BY <2>3 DEF Forked, Nested
  <2>5. k # NULL => n[k].parent = y /\ k \in S /\ k # r
    BY <2>2, ForkFacts
  <2>6. sub[e] \subseteq sub[k]
    BY <2>3, <2>4, <2>5, Within
  <2>7. x \in sub[e]
    <3>1. PICK c : c = n[e][d]
      OBVIOUS
    <3>2. sub[c] \subseteq sub[e] /\ e \notin sub[c]
      BY <3>1, ForkFacts
    <3> QED BY <1>2, <3>1, <3>2
  <2>8. x \in sub[n[y][s]] \ {e}
    BY <2>2, <2>6, <2>7
  <2>9. Beyond(n, s, x, y)
    BY <2>8 DEF OrderedBut
  <2> QED BY <1>5, <2>9
<1> QED BY <1>3, <1>4, <1>5

(* One step further down.                                                    *)
Deeper(t, sz, n, S, sub, e) ==
  \E n2, r2, sub2, h2 : /\ t = Record(r2, sz, n2) /\ Sinking(n2, r2, S, sub2, h2, e)
                        /\ \A y \in Elem \ S : n2[y] = n[y]
                        /\ Cardinality(sub2[e]) < Cardinality(sub[e])
                        /\ Kept(n2, n)

(* One exchange: the element is in a smaller subtree.                        *)
LEMMA SinkStep ==
  ASSUME NEW n, NEW r, NEW S, NEW sub, NEW h, NEW e \in S, Sinking(n, r, S, sub, h, e), IsFiniteSet(S),
         NEW sz \in Nat, Cardinality(S) <= sz, ~leaf_element(n, e)
  PROVE  Deeper(Sunk(Record(r, sz, n), e), sz, n, S, sub, e)
<1>1. /\ Forked(n, r, S, sub) /\ OrderedBut(n, S, sub, e) /\ Across(n, sub, e)
      /\ LevelBut(n, S, h, NULL, "left", 0)
  BY DEF Sinking
<1>2. PICK x : x = adjacent_descendant(Record(r, sz, n), e)
  OBVIOUS
<1>3. PICK d \in Side : Adjacent(n, sub, e, d, x)
  BY <1>1, <1>2, AdjacentSound
<1>4. PICK c : c = n[e][d]
  OBVIOUS
<1>5. x \in sub[c] /\ n[x][Other(d)] = NULL
  BY <1>3, <1>4 DEF Adjacent
<1>6. sub[c] \subseteq sub[e] /\ e \notin sub[c]
  BY <1>1, <1>4, ForkFacts
<1>7. sub[e] \in SUBSET S /\ e \in sub[e]
  BY <1>1, NodeFacts
<1>8. x \in S /\ x # e /\ x \in sub[e]
  BY <1>5, <1>6, <1>7
<1>9. PICK q : q = Swapped(e, x)
  OBVIOUS
<1>10. FieldsOf(n, S) /\ S \subseteq Elem /\ NULL \notin S /\ NULL \in Pointer /\ S \subseteq Pointer
  BY <1>1, NullAssumption DEF Forked, Shaped, FieldsOf, Pointer
<1>11. IsSwap(q, S, e, x)
  BY <1>8, <1>9, <1>10, SwappedFacts
<1>12. PICK n2, r2 : /\ exchange(Record(r, sz, n), e, x) = Record(r2, sz, n2)
                     /\ Replaced(n2, r2, S, n, r, S, q)
  BY <1>1, <1>8, <1>9, ExchangeFacts
<1>13. Sunk(Record(r, sz, n), e) = Record(r2, sz, n2)
  BY <1>2, <1>12, RecordFacts DEF Sunk
<1>14. Renamed(n2, r2, S, n, r, S, q) /\ (\A y \in Elem \ S : n2[y] = n[y]) /\ \A y \in S : n2[y].key = n[y].key
  BY <1>12 DEF Replaced
<1>15. PICK sub2 : sub2 = SubRenamed(sub, q, S)
  OBVIOUS
<1>16. Forked(n2, r2, S, sub2)
  BY <1>1, <1>14, <1>15, RenamedForked
<1>17. PICK h2 : h2 = HeightsRenamed(h, q, S)
  OBVIOUS
<1>18. LevelBut(n2, S, h2, NULL, "left", 0)
  BY <1>1, <1>10, <1>14, <1>17, RenamedLevel
<1>19. /\ q[e] = x /\ q[x] = e /\ q[NULL] = NULL /\ (\A w \in S \ {e, x} : q[w] = w)
       /\ \A w \in S \union {NULL} : q[w] \in S \union {NULL} /\ q[q[w]] = w
  BY <1>11 DEF IsSwap
<1>20. /\ \A k \in S : sub2[k] = {z \in S : q[z] \in sub[q[k]]}
       /\ sub2[NULL] = {} /\ sub[NULL] = {}
  <2>1. sub[NULL] = {}
    BY <1>1 DEF Forked, Nested
  <2> QED BY <1>10, <1>15, <2>1 DEF SubRenamed
<1>21. \A y \in S, s \in Side : n2[y][s] \in S \union {NULL} /\ q[n2[y][s]] = n[q[y]][s]
  BY <1>14 DEF Renamed
<1>22. ASSUME NEW y \in S, NEW z \in S
       PROVE  \A s \in Side : Beyond(n2, s, z, y) <=> Beyond(n, s, z, y)
  BY <1>14 DEF Beyond, rank
<1>23. ASSUME NEW y \in S \ {e}, NEW s \in Side, NEW z \in sub2[n2[y][s]] \ {e}
       PROVE  Beyond(n2, s, z, y)
  <2>1. PICK k : k = n2[y][s]
    OBVIOUS
  <2>2. k \in S /\ q[k] = n[q[y]][s]
    BY <1>20, <1>21, <1>23, <2>1
  <2>3. z \in S \ {e} /\ q[z] \in sub[n[q[y]][s]]
    BY <1>20, <1>23, <2>1, <2>2
  <2>4. Beyond(n, s, z, y)
    BY <1>1, <1>3, <1>8, <1>11, <2>3, SwappedOrder
  <2> QED BY <1>22, <2>3, <2>4
<1>24. OrderedBut(n2, S, sub2, e)
  BY <1>23 DEF OrderedBut
<1>25. Across(n2, sub2, e)
  <2>1. Other(d) \in Side
    BY SideFacts
  <2>2. n2[e][Other(d)] \in S \union {NULL} /\ q[n2[e][Other(d)]] = NULL
    BY <1>5, <1>19, <1>21, <2>1
  <2>3. n2[e][Other(d)] = NULL
    BY <1>19, <2>2
  <2>4. Other(d) = "left" \/ Other(d) = "right"
    BY <2>1 DEF Side
  <2> QED BY <1>20, <2>3, <2>4 DEF Across
<1>26. Cardinality(sub2[e]) < Cardinality(sub[e])
  <2>1. sub[x] \subseteq sub[c]
    <3>1. c # NULL
      BY <1>5, <1>20
    <3>2. c # NULL => n[c].parent = e /\ c \in S /\ c # r
      BY <1>1, <1>4, ForkFacts
    <3> QED BY <1>1, <1>5, <3>1, <3>2, Within
  <2>2. sub2[e] = {z \in S : q[z] \in sub[x]}
    BY <1>19, <1>20
  <2>3. x \notin sub2[e]
    BY <1>6, <1>19, <2>1, <2>2
  <2>4. sub2[e] \subseteq sub[e]
    <3> SUFFICES ASSUME NEW z \in sub2[e]
                 PROVE  z \in sub[e]
      OBVIOUS
    <3>1. z \in S /\ q[z] \in sub[e]
      BY <1>6, <2>1, <2>2
    <3> QED BY <1>7, <1>8, <1>19, <3>1
  <2>5. sub2[e] \in SUBSET S
    BY <2>2
  <2> QED BY <1>7, <1>8, <2>3, <2>4, <2>5, SmallerSet
<1>27. Sinking(n2, r2, S, sub2, h2, e)
  BY <1>16, <1>18, <1>24, <1>25 DEF Sinking
<1>28. Kept(n2, n)
  <2>1. PICK t : t = Record(r, sz, n)
    OBVIOUS
  <2>2. Carries(t, n)
    BY <2>1, KeptSame, CarriesSame
  <2>3. Keyed(n, e) /\ Keyed(n, x)
    BY <1>8, <1>10, FieldsKeyed
  <2>4. Carries(exchange(t, e, x), n)
    BY <2>2, <2>3, CarriesExchange
  <2>5. Carries(Record(r2, sz, n2), n)
    BY <1>12, <2>1, <2>4
  <2> QED BY <2>5, CarriesNode
<1> QED BY <1>13, <1>14, <1>26, <1>27, <1>28 DEF Deeper

(* The tree after k rounds of the loop of Sink.                              *)
SunkTo(t, sz, n, S, e, k) ==
  \E n2, r2, sub2, h2 : /\ t = Record(r2, sz, n2) /\ Sinking(n2, r2, S, sub2, h2, e)
                        /\ \A y \in Elem \ S : n2[y] = n[y]
                        /\ leaf_element(n2, e) \/ Cardinality(sub2[e]) + k <= sz
                        /\ Kept(n2, n)

(* The next exchange, if it is not a leaf yet.                               *)
LEMMA SunkOn ==
  ASSUME NEW n, NEW S, IsFiniteSet(S), NEW e \in S, NEW sz \in Nat, Cardinality(S) <= sz,
         NEW k \in Nat, NEW t, SunkTo(t, sz, n, S, e, k)
  PROVE  SunkTo(Sunk(t, e), sz, n, S, e, k + 1)
<1>1. PICK n2, r2, sub2, h2 : /\ t = Record(r2, sz, n2) /\ Sinking(n2, r2, S, sub2, h2, e)
                              /\ \A y \in Elem \ S : n2[y] = n[y]
                              /\ leaf_element(n2, e) \/ Cardinality(sub2[e]) + k <= sz
                              /\ Kept(n2, n)
  BY DEF SunkTo
<1>2. CASE leaf_element(n2, e)
  <2>1. Sunk(t, e) = t
    BY <1>1, <1>2, RecordFacts DEF Sunk
  <2> QED BY <1>1, <1>2, <2>1 DEF SunkTo
<1>3. CASE ~leaf_element(n2, e)
  <2>1. Deeper(Sunk(t, e), sz, n2, S, sub2, e)
    BY <1>1, <1>3, SinkStep
  <2>2. PICK n3, r3, sub3, h3 : /\ Sunk(t, e) = Record(r3, sz, n3) /\ Sinking(n3, r3, S, sub3, h3, e)
                                /\ \A y \in Elem \ S : n3[y] = n2[y]
                                /\ Cardinality(sub3[e]) < Cardinality(sub2[e])
                                /\ Kept(n3, n2)
    BY <2>1 DEF Deeper
  <2>3. Forked(n2, r2, S, sub2) /\ Forked(n3, r3, S, sub3)
    BY <1>1, <2>2 DEF Sinking
  <2>4. /\ sub2[e] \in SUBSET S /\ e \in sub2[e]
        /\ Cardinality(sub2[e]) \in Nat /\ Cardinality(sub2[e]) # 0
        /\ Cardinality(sub2[e]) <= Cardinality(S) /\ Cardinality(S) \in Nat
    BY <2>3, NodeFacts
  <2>5. /\ sub3[e] \in SUBSET S /\ e \in sub3[e]
        /\ Cardinality(sub3[e]) \in Nat /\ Cardinality(sub3[e]) # 0
        /\ Cardinality(sub3[e]) <= Cardinality(S) /\ Cardinality(S) \in Nat
    BY <2>3, NodeFacts
  <2>6. PICK a \in Nat, b \in Nat : a = Cardinality(sub3[e]) /\ b = Cardinality(sub2[e])
    BY <2>4, <2>5
  <2>7. a + (k + 1) <= sz
    BY <1>1, <1>3, <2>2, <2>6
  <2>8. \A y \in Elem \ S : n3[y] = n[y]
    BY <1>1, <2>2
  <2>9. Kept(n3, n)
    BY <1>1, <2>2, KeptTwice
  <2> QED BY <2>2, <2>6, <2>7, <2>8, <2>9 DEF SunkTo
<1> QED BY <1>2, <1>3

(* Before the first exchange.                                                *)
LEMMA SunkStart ==
  ASSUME NEW n, NEW r, NEW S, NEW sub, SearchTree(n, r, S, sub), IsFiniteSet(S), NEW e \in S,
         NEW h, LevelBut(n, S, h, NULL, "left", 0), NEW sz \in Nat, Cardinality(S) <= sz
  PROVE  SunkTo(Record(r, sz, n), sz, n, S, e, 0)
<1>1. Sinking(n, r, S, sub, h, e)
  BY SearchSinking
<1>2. Forked(n, r, S, sub)
  BY <1>1 DEF Sinking
<1>3. /\ sub[e] \in SUBSET S /\ e \in sub[e]
      /\ Cardinality(sub[e]) \in Nat /\ Cardinality(sub[e]) # 0
      /\ Cardinality(sub[e]) <= Cardinality(S) /\ Cardinality(S) \in Nat
  BY <1>2, NodeFacts
<1>4. Cardinality(sub[e]) + 0 <= sz
  BY <1>3
<1> QED BY <1>1, <1>4, KeptSame DEF SunkTo

TreeRecord(sz) == [root : Pointer, size : {sz}, node : Heap]

(* The trees that the exchanges pass through form a set.                     *)
LEMMA SunkTyped ==
  ASSUME NEW n, NEW S, NEW e, NEW sz, NEW t, NEW k, SunkTo(t, sz, n, S, e, k)
  PROVE  t \in TreeRecord(sz)
<1>1. PICK n2, r2, sub2, h2 : t = Record(r2, sz, n2) /\ Sinking(n2, r2, S, sub2, h2, e)
  BY DEF SunkTo
<1>2. S \subseteq Elem /\ n2 \in Heap /\ r2 \in S \union {NULL}
  BY <1>1 DEF Sinking, Forked, Shaped, FieldsOf
<1>3. r2 \in Pointer
  BY <1>2 DEF Pointer
<1> QED BY <1>1, <1>2, <1>3 DEF TreeRecord, Record

(* e has sunk to a leaf.                                                     *)
Sunken(t, sz, n, S, e) ==
  \E n2, r2, sub2, h2 : /\ t = Record(r2, sz, n2) /\ Sinking(n2, r2, S, sub2, h2, e)
                        /\ (\A y \in Elem \ S : n2[y] = n[y]) /\ leaf_element(n2, e)
                        /\ Kept(n2, n)

(* The element ends as a leaf.                                               *)
LEMMA SinkSound ==
  ASSUME NEW n, NEW r, NEW S, NEW sub, SearchTree(n, r, S, sub), IsFiniteSet(S), NEW e \in S,
         NEW h, LevelBut(n, S, h, NULL, "left", 0), NEW sz \in Nat, Cardinality(S) <= sz
  PROVE  Sunken(Sink(Record(r, sz, n), e), sz, n, S, e)
<1>1. PICK t : t = Record(r, sz, n)
  OBVIOUS
<1>2. SunkTo(t, sz, n, S, e, 0)
  BY <1>1, SunkStart
<1>3. t.size = sz
  BY <1>1, RecordFacts
<1> DEFINE V == {u \in TreeRecord(sz) : \E k \in Nat : SunkTo(u, sz, n, S, e, k)}
           G == [k \in Nat |-> [u \in V |-> Sunk(u, e)]]
           Loop(f) == f = [k \in Nat |-> IF k = 0 THEN t ELSE Sunk(f[k - 1], e)]
<1>4. t \in V
  BY <1>2, SunkTyped
<1>5. ASSUME NEW u \in V
      PROVE  Sunk(u, e) \in V
  <2>1. PICK k \in Nat : SunkTo(u, sz, n, S, e, k)
    OBVIOUS
  <2>2. PICK v : v = Sunk(u, e)
    OBVIOUS
  <2>3. SunkTo(v, sz, n, S, e, k + 1) /\ k + 1 \in Nat
    BY <2>1, <2>2, SunkOn
  <2> QED BY <2>2, <2>3, SunkTyped
<1> HIDE DEF V
<1>6. G \in [Nat -> [V -> V]]
  BY <1>5
<1>7. PICK g : Recursive(g, t, G)
  BY <1>4, <1>6, RecursionExists
<1> HIDE DEF G
<1>8. Loop(g)
  <2>1. g = [k \in Nat |-> IF k = 0 THEN t ELSE G[k][g[k - 1]]]
    BY <1>7 DEF Recursive
  <2>2. g \in [Nat -> V]
    <3>1. Computes(g, V, t, G)
      BY <1>4, <1>6, <1>7, RecursionTyped
    <3> QED BY <3>1 DEF Computes
  <2>3. ASSUME NEW k \in Nat, k # 0
        PROVE  G[k][g[k - 1]] = Sunk(g[k - 1], e)
    <3>1. k - 1 \in Nat
      BY <2>3
    <3>2. g[k - 1] \in V
      BY <2>2, <3>1
    <3> QED BY <3>2 DEF G
  <2> QED BY <2>1, <2>3
<1>9. \E a : Loop(a)
  BY <1>8
<1>10. PICK f : f = CHOOSE a : Loop(a)
  OBVIOUS
<1>11. Sink(t, e) = f[sz]
  BY <1>3, <1>10 DEF Sink
<1> HIDE DEF Loop
<1>12. Loop(f)
  BY <1>9, <1>10, Zenon
<1>13. f[0] = t /\ \A k \in Nat : f[k + 1] = Sunk(f[k], e)
  BY <1>12 DEF Loop
<1> DEFINE K == {k \in Nat : SunkTo(f[k], sz, n, S, e, k)}
<1>14. 0 \in K
  BY <1>2, <1>13
<1>15. ASSUME NEW k \in K
       PROVE  k + 1 \in K
  <2>1. k \in Nat /\ k + 1 \in Nat /\ f[k + 1] = Sunk(f[k], e) /\ SunkTo(f[k], sz, n, S, e, k)
    BY <1>13
  <2>2. PICK u : u = f[k]
    OBVIOUS
  <2>3. SunkTo(Sunk(u, e), sz, n, S, e, k + 1)
    BY <2>1, <2>2, SunkOn
  <2> QED BY <2>1, <2>2, <2>3
<1>16. SunkTo(f[sz], sz, n, S, e, sz)
  <2>1. K = Nat
    <3>1. K \in SUBSET Nat
      OBVIOUS
    <3> HIDE DEF K
    <3> QED BY <1>14, <1>15, <3>1, EveryNumber
  <2> QED BY <2>1
<1>17. PICK n2, r2, sub2, h2 : /\ f[sz] = Record(r2, sz, n2) /\ Sinking(n2, r2, S, sub2, h2, e)
                               /\ \A y \in Elem \ S : n2[y] = n[y]
                               /\ leaf_element(n2, e) \/ Cardinality(sub2[e]) + sz <= sz
                               /\ Kept(n2, n)
  BY <1>16 DEF SunkTo
<1>18. /\ sub2[e] \in SUBSET S /\ e \in sub2[e]
       /\ Cardinality(sub2[e]) \in Nat /\ Cardinality(sub2[e]) # 0
       /\ Cardinality(sub2[e]) <= Cardinality(S) /\ Cardinality(S) \in Nat
  BY <1>17, NodeFacts DEF Sinking
<1>19. leaf_element(n2, e)
  BY <1>17, <1>18
<1> QED BY <1>1, <1>11, <1>17, <1>19 DEF Sunken

------------------------------------------------------------------------------
(* The leaf is cut off.                                                      *)

(* A leaf has no subtrees.                                                   *)
LEMMA LeafAlone ==
  ASSUME NEW n, NEW r, NEW S, NEW sub, NEW h, NEW e \in S, Sinking(n, r, S, sub, h, e), leaf_element(n, e)
  PROVE  /\ sub[e] = {e} /\ h[e] = 1 /\ h[NULL] = 0 /\ n[e].balance \in -1..1
         /\ \A s \in Side : n[e][s] = NULL
<1>1. Forked(n, r, S, sub) /\ LevelBut(n, S, h, NULL, "left", 0)
  BY DEF Sinking
<1>2. \A s \in Side : n[e][s] = NULL
  BY DEF leaf_element, Side
<1>3. sub[NULL] = {}
  BY <1>1 DEF Forked, Nested
<1>4. sub[e] = {e}
  <2>1. PICK s \in Side : TRUE
    BY DEF Side
  <2>2. sub[e] = {e} \union sub[n[e][s]] \union sub[n[e][Other(s)]]
    BY <1>1, <2>1 DEF Forked, Nested, NestedAt
  <2>3. n[e][s] = NULL /\ n[e][Other(s)] = NULL
    BY <1>2, SideFacts
  <2> QED BY <1>3, <2>2, <2>3
<1>5. Even(n, h, e, "left", 0) /\ h[NULL] = 0
  <2>1. e # NULL
    BY <1>1, NullAssumption DEF Forked, Shaped, FieldsOf
  <2> QED BY <1>1, <2>1 DEF LevelBut, Heights
<1>6. n[e]["left"] = NULL /\ n[e][Other("left")] = NULL
  BY <1>2 DEF Side, Other
<1>7. h[e] = 1 /\ n[e].balance = 0
  BY <1>5, <1>6 DEF Even, Fits, Higher
<1> QED BY <1>2, <1>4, <1>5, <1>7

(* The last element is cut off.                                              *)
LEMMA CutRoot ==
  ASSUME NEW n, NEW r, NEW S, NEW sub, NEW h, NEW e \in S, Sinking(n, r, S, sub, h, e),
         leaf_element(n, e), e = r, NEW sz
  PROVE  Whole(Cut(Record(r, sz, n), e), sz, n, S \ {e}) /\ Carries(Cut(Record(r, sz, n), e), n)
<1>1. Forked(n, r, S, sub)
  BY DEF Sinking
<1>2. n \in Heap /\ sub[r] = S
  BY <1>1 DEF Forked, Shaped, Nested, FieldsOf
<1>3. S = {e}
  BY <1>2, LeafAlone
<1>4. Cut(Record(r, sz, n), e) = Record(NULL, sz, n)
  BY RecordFacts DEF Cut
<1>5. S \ {e} = {}
  BY <1>3
<1>6. Carries(Record(NULL, sz, n), n)
  BY KeptSame, CarriesSame
<1> QED BY <1>2, <1>4, <1>5, <1>6, EmptyWhole

(* The tree once the leaf e is cut off at p.                                 *)
CutOff(m, n, S, e, p, s) ==
  /\ FieldsOf(m, S) /\ \A y \in Elem \ {p} : m[y] = n[y]
  /\ \A y \in S, z \in Side : m[y][z] = IF n[y][z] = e THEN NULL ELSE n[y][z]
  /\ \A y \in S : m[y].parent = n[y].parent /\ m[y].balance = n[y].balance /\ m[y].key = n[y].key
  /\ m[p][s] = NULL /\ n[p][s] = e

(* The parent of the leaf loses its pointer.                                 *)
LEMMA CutShape ==
  ASSUME NEW n, NEW r, NEW S, NEW sub, NEW h, NEW e \in S, Sinking(n, r, S, sub, h, e),
         leaf_element(n, e), e # r, NEW p, p = n[e].parent,
         NEW s, s = (IF n[p].left = e THEN "left" ELSE "right"), NEW m, m = With(n, p, s, NULL)
  PROVE  p \in S \ {e} /\ s \in Side /\ CutOff(m, n, S, e, p, s)
<1>1. Forked(n, r, S, sub)
  BY DEF Sinking
<1>2. FieldsOf(n, S) /\ e # NULL
  BY <1>1, NullAssumption DEF Forked, Shaped, FieldsOf
<1>3. e # r => n[e].parent \in S /\ n[e].parent # e
  BY <1>1, ForkLinks
<1>4. p \in S \ {e}
  BY <1>3
<1>5. (\E z \in Side : n[p][z] = e) <=> n[e].parent = p
  BY <1>1, <1>4, ForkLinks
<1>6. s \in Side /\ n[p][s] = e
  BY <1>5 DEF Side
<1>7. Writes(m, n, S, p, s, NULL)
  <2>1. NULL \in Pointer /\ s \in {"left", "right", "parent"}
    BY <1>6 DEF Pointer, Side
  <2> QED BY <1>2, <1>4, <2>1, WithWrites
<1>8. FieldsOf(m, S) /\ (\A y \in Elem \ S : m[y] = n[y])
      /\ \A y \in S, g \in Field : m[y][g] = IF y = p /\ g = s THEN NULL ELSE n[y][g]
  BY <1>7 DEF Writes
<1>9. ASSUME NEW y \in S, NEW z \in Side
      PROVE  m[y][z] = IF n[y][z] = e THEN NULL ELSE n[y][z]
  <2>1. n[y][z] = e /\ n[p][s] = e => y = p /\ z = s
    BY <1>1, <1>4, <1>6, ForkLinks
  <2>2. z \in Field
    BY SideFacts
  <2> QED BY <1>6, <1>8, <2>1, <2>2
<1>10. ASSUME NEW y \in S
       PROVE  m[y].parent = n[y].parent /\ m[y].balance = n[y].balance /\ m[y].key = n[y].key
  <2>1. s # "parent" /\ s # "balance" /\ s # "key"
    BY <1>6, SideFacts
  <2>2. "parent" \in Field /\ "balance" \in Field /\ "key" \in Field
    BY DEF Field
  <2> QED BY <1>8, <2>1, <2>2
<1>11. \A y \in Elem \ {p} : m[y] = n[y]
  <2>1. n \in Heap /\ p \in Elem /\ n[p] \in Fields
    BY <1>2, <1>4 DEF FieldsOf
  <2>2. s \in {"left", "right", "parent"} /\ NULL \in Pointer
    BY <1>6 DEF Side, Pointer
  <2>3. /\ m \in Heap
        /\ m[p] \in Fields
        /\ \A g \in Field : m[p][g] = IF g = s THEN NULL ELSE n[p][g]
        /\ \A y \in Elem : y # p => m[y] = n[y]
    BY <2>1, <2>2, WithPointer
  <2> QED BY <2>3
<1>12. m[p][s] = NULL
  BY <1>4, <1>6, <1>9
<1>13. FieldsOf(m, S)
  BY <1>8
<1>14. CutOff(m, n, S, e, p, s)
  <2>1. \A y \in S, z \in Side : m[y][z] = IF n[y][z] = e THEN NULL ELSE n[y][z]
    BY <1>9
  <2>2. \A y \in S : m[y].parent = n[y].parent /\ m[y].balance = n[y].balance /\ m[y].key = n[y].key
    BY <1>10
  <2>3. n[p][s] = e
    BY <1>6
  <2> QED BY <1>11, <1>12, <1>13, <2>1, <2>2, <2>3, Zenon DEF CutOff
<1> QED BY <1>4, <1>6, <1>14

SubCut(sub, e) == [k \in Pointer |-> sub[k] \ {e}]

(* The rest is a search tree, the order of which the leaf does not disturb   *)
(* any more.                                                                 *)
LEMMA CutSearch ==
  ASSUME NEW n, NEW r, NEW S, NEW sub, NEW h, NEW e \in S, Sinking(n, r, S, sub, h, e),
         leaf_element(n, e), e # r, NEW p \in S \ {e}, NEW s \in Side, NEW m, CutOff(m, n, S, e, p, s)
  PROVE  SearchTree(m, r, S \ {e}, SubCut(sub, e))
<1>1. Forked(n, r, S, sub) /\ OrderedBut(n, S, sub, e)
  BY DEF Sinking
<1>2. PICK T : T = S \ {e}
  OBVIOUS
<1>3. PICK sub2 : sub2 = SubCut(sub, e)
  OBVIOUS
<1>4. sub[e] = {e} /\ \A z \in Side : n[e][z] = NULL
  BY LeafAlone
<1>5. S \subseteq Elem /\ NULL \notin S /\ NULL \in Pointer /\ S \subseteq Pointer
      /\ sub \in [Pointer -> SUBSET S] /\ sub[NULL] = {} /\ sub[r] = S
  BY <1>1, NullAssumption DEF Forked, Shaped, FieldsOf, Nested, Pointer
<1>6. /\ FieldsOf(m, S)
      /\ \A y \in S, z \in Side : m[y][z] = IF n[y][z] = e THEN NULL ELSE n[y][z]
      /\ \A y \in S : m[y].parent = n[y].parent /\ m[y].balance = n[y].balance /\ m[y].key = n[y].key
  BY DEF CutOff
<1>7. FieldsOf(m, T) /\ r \in T \union {NULL}
  BY <1>1, <1>2, <1>6 DEF FieldsOf, Forked, Shaped
<1>8. ASSUME NEW x \in T, NEW z \in Side, m[x][z] # NULL
      PROVE  m[x][z] \in T /\ m[m[x][z]].parent = x
  <2>1. m[x][z] = n[x][z] /\ n[x][z] # e
    BY <1>2, <1>6, <1>8
  <2>2. n[x][z] \in S /\ n[n[x][z]].parent = x
    BY <1>1, <1>2, <1>8, <2>1 DEF Forked, Shaped
  <2> QED BY <1>2, <1>6, <2>1, <2>2
<1>9. r # NULL => m[r].parent = NULL
  BY <1>1, <1>2, <1>6, <1>7 DEF Forked, Shaped
<1>10. ASSUME NEW x \in T \ {r}
       PROVE  m[x].parent \in T /\ \E z \in Side : m[m[x].parent][z] = x
  <2>1. n[x].parent \in S /\ \E z \in Side : n[n[x].parent][z] = x
    BY <1>1, <1>2 DEF Forked, Shaped
  <2>2. PICK y \in S : y = n[x].parent
    BY <2>1
  <2>3. PICK z \in Side : n[y][z] = x
    BY <2>1, <2>2
  <2>4. y # e /\ x # e /\ x # NULL
    BY <1>2, <1>4, <1>5, <2>3
  <2>5. m[y][z] = x /\ m[x].parent = y
    BY <1>2, <1>6, <2>2, <2>3, <2>4
  <2> QED BY <1>2, <2>4, <2>5
<1>11. Shaped(m, r, T)
  BY <1>7, <1>8, <1>9, <1>10 DEF Shaped
<1>12. sub2 \in [Pointer -> SUBSET T] /\ \A k \in Pointer : sub2[k] = sub[k] \ {e}
  BY <1>2, <1>3, <1>5 DEF SubCut
<1>13. ASSUME NEW x \in T, NEW z \in Side
       PROVE  sub2[m[x][z]] = sub[n[x][z]] \ {e}
  <2>1. n[x][z] \in Pointer
    <3>1. n[x][z] \in S \union {NULL}
      BY <1>1, <1>2 DEF Forked, Shaped
    <3> QED BY <1>5, <3>1
  <2>2. m[x][z] = IF n[x][z] = e THEN NULL ELSE n[x][z]
    BY <1>2, <1>6
  <2> QED BY <1>4, <1>5, <1>12, <2>1, <2>2
<1>14. ASSUME NEW x \in T
       PROVE  NestedAt(m, sub2, x)
  <2> SUFFICES ASSUME NEW z \in Side
               PROVE  sub2[x] = {x} \union sub2[m[x][z]] \union sub2[m[x][Other(z)]]
    BY DEF NestedAt
  <2>1. sub[x] = {x} \union sub[n[x][z]] \union sub[n[x][Other(z)]]
    BY <1>1, <1>2 DEF Forked, Nested, NestedAt
  <2>2. Other(z) \in Side
    BY SideFacts
  <2>3. sub2[m[x][z]] = sub[n[x][z]] \ {e} /\ sub2[m[x][Other(z)]] = sub[n[x][Other(z)]] \ {e}
    BY <1>13, <2>2
  <2>4. sub2[x] = sub[x] \ {e} /\ x # e
    BY <1>2, <1>5, <1>12
  <2> QED BY <2>1, <2>3, <2>4
<1>15. sub2[NULL] = {} /\ sub2[r] = T
  <2>1. r \in Pointer
    BY <1>2, <1>5, <1>7
  <2> QED BY <1>2, <1>5, <1>12, <2>1
<1>16. Nested(m, r, T, sub2)
  BY <1>12, <1>14, <1>15 DEF Nested
<1>17. ASSUME NEW x \in T, NEW z \in Side, NEW w \in sub2[m[x][z]]
       PROVE  Beyond(m, z, w, x)
  <2>1. w \in sub[n[x][z]] \ {e} /\ x \in S \ {e}
    BY <1>2, <1>13, <1>17
  <2>2. Beyond(n, z, w, x)
    BY <1>1, <2>1 DEF OrderedBut
  <2>3. w \in S
    <3>1. n[x][z] \in S \union {NULL}
      BY <1>1, <2>1 DEF Forked, Shaped
    <3> QED BY <1>5, <2>1, <3>1
  <2>4. m[w].key = n[w].key /\ m[x].key = n[x].key
    BY <1>6, <2>1, <2>3
  <2> QED BY <2>2, <2>4 DEF Beyond, rank
<1>18. Ordered(m, T, sub2)
  BY <1>17 DEF Ordered, OrderedAt
<1> QED BY <1>2, <1>3, <1>11, <1>16, <1>18 DEF SearchTree

(* It is level, but for the side of the parent that became lower.            *)
LEMMA CutLevel ==
  ASSUME NEW n, NEW r, NEW S, NEW sub, NEW h, NEW e \in S, Sinking(n, r, S, sub, h, e),
         leaf_element(n, e), e # r, NEW p \in S \ {e}, NEW s \in Side, NEW m, CutOff(m, n, S, e, p, s)
  PROVE  LevelBut(m, S \ {e}, h, p, s, -1)
<1>1. Forked(n, r, S, sub) /\ LevelBut(n, S, h, NULL, "left", 0)
  BY DEF Sinking
<1>2. h[e] = 1 /\ h[NULL] = 0
  BY LeafAlone
<1>3. NULL \notin S
  BY <1>1, NullAssumption DEF Forked, Shaped, FieldsOf
<1>4. Heights(h) /\ \A x \in S : Even(n, h, x, "left", 0)
  BY <1>1, <1>3 DEF LevelBut
<1>5. /\ \A y \in S, z \in Side : m[y][z] = IF n[y][z] = e THEN NULL ELSE n[y][z]
      /\ \A y \in S : m[y].balance = n[y].balance
      /\ m[p][s] = NULL /\ n[p][s] = e
  BY DEF CutOff
<1>6. \A y \in S, z \in Side, x \in S, w \in Side : n[y][z] = e /\ n[x][w] = e => y = x /\ z = w
  BY <1>1, ForkLinks
<1>7. ASSUME NEW x \in S \ {e}, x # p
      PROVE  Even(m, h, x, "left", 0)
  <2>1. \A z \in Side : m[x][z] = n[x][z]
    BY <1>5, <1>6, <1>7
  <2>2. m[x]["left"] = n[x]["left"] /\ m[x][Other("left")] = n[x][Other("left")]
    BY <2>1 DEF Side, Other
  <2> QED BY <1>4, <1>5, <2>2 DEF Even
<1>8. Even(m, h, p, s, -1)
  <2>1. Even(n, h, p, s, 0)
    <3>1. FieldsOf(n, S)
      BY <1>1 DEF Forked, Shaped
    <3>2. Even(n, h, p, "left", 0) <=> Even(n, h, p, s, 0)
      BY <1>4, <3>1, EvenBothWays
    <3> QED BY <1>4, <3>2
  <2>2. Other(s) \in Side /\ Other(s) # s
    BY SideFacts
  <2>3. m[p][Other(s)] = n[p][Other(s)]
    BY <1>5, <1>6, <2>2
  <2>4. Fits(h[p], n[p].balance, h[e] - 0, h[n[p][Other(s)]], s)
    BY <1>5, <2>1 DEF Even
  <2>5. h[e] - 0 = h[m[p][s]] - (-1)
    BY <1>2, <1>5
  <2> QED BY <1>5, <2>3, <2>4, <2>5 DEF Even
<1> QED BY <1>4, <1>7, <1>8 DEF LevelBut

(* lighten levels it.                                                        *)
LEMMA CutSound ==
  ASSUME NEW n, NEW r, NEW S, NEW sub, NEW h, NEW e \in S, Sinking(n, r, S, sub, h, e), IsFiniteSet(S),
         leaf_element(n, e), NEW sz \in Nat, Cardinality(S) <= sz
  PROVE  Whole(Cut(Record(r, sz, n), e), sz, n, S \ {e}) /\ Carries(Cut(Record(r, sz, n), e), n)
<1>1. CASE e = r
  BY <1>1, CutRoot
<1>2. CASE e # r
  <2>1. PICK p : p = n[e].parent
    OBVIOUS
  <2>2. PICK s : s = IF n[p].left = e THEN "left" ELSE "right"
    OBVIOUS
  <2>3. PICK m : m = With(n, p, s, NULL)
    OBVIOUS
  <2>4. p \in S \ {e} /\ s \in Side /\ CutOff(m, n, S, e, p, s)
    BY <1>2, <2>1, <2>2, <2>3, CutShape
  <2>5. PICK sub2 : sub2 = SubCut(sub, e)
    OBVIOUS
  <2>6. SearchTree(m, r, S \ {e}, sub2)
    BY <1>2, <2>4, <2>5, CutSearch
  <2>7. LevelBut(m, S \ {e}, h, p, s, -1)
    BY <1>2, <2>4, CutLevel
  <2>8. IsFiniteSet(S \ {e}) /\ Cardinality(S \ {e}) <= sz
    <3>1. IsFiniteSet(S \ {e}) /\ Cardinality(S \ {e}) <= Cardinality(S)
      BY FS_Subset
    <3>2. Cardinality(S \ {e}) \in Nat /\ Cardinality(S) \in Nat
      BY <3>1, FS_CardinalityType
    <3> QED BY <3>1, <3>2
  <2>9. /\ Whole(lighten(Record(r, sz, m), p, s), sz, m, S \ {e})
        /\ Carries(lighten(Record(r, sz, m), p, s), m)
    BY <2>4, <2>6, <2>7, <2>8, LightenSound
  <2>10. Cut(Record(r, sz, n), e) = lighten(Record(r, sz, m), p, s)
    <3>1. PICK t : t = Record(r, sz, n)
      OBVIOUS
    <3>2. t.node = n /\ t.root = r /\ Update(t, m) = Record(r, sz, m)
      BY <3>1, RecordFacts
    <3> QED BY <1>2, <2>1, <2>2, <2>3, <3>1, <3>2 DEF Cut
  <2>11. PICK t : t = lighten(Record(r, sz, m), p, s)
    OBVIOUS
  <2>12. PICK n2, r2, sub3, h3 : /\ t = Record(r2, sz, n2) /\ SearchTree(n2, r2, S \ {e}, sub3)
                                 /\ LevelBut(n2, S \ {e}, h3, NULL, "left", 0)
                                 /\ \A y \in Elem \ (S \ {e}) : n2[y] = m[y]
    BY <2>9, <2>11 DEF Whole
  <2>13. \A y \in Elem \ (S \ {e}) : n2[y] = n[y]
    BY <2>4, <2>12 DEF CutOff
  <2>14. Whole(t, sz, n, S \ {e})
    BY <2>12, <2>13 DEF Whole
  <2>15. Carries(t, n)
    <3>1. Kept(m, n)
      BY <2>3, <2>4, SideNames, KeptWith
    <3> QED BY <2>9, <2>11, <3>1, CarriesFrom
  <2> QED BY <2>10, <2>11, <2>14, <2>15
<1> QED BY <1>1, <1>2

(* The tree after avl_tree_detach() of e.                                    *)
DetachResult(t, sz, n, S, e) ==
  /\ Carries(t, n)
  /\ \E n1 \in Heap : /\ Whole(t, sz, n1, S \ {e}) /\ n1[e] \in Node
                     /\ \A y \in Elem \ S : n1[y] = n[y]

(* avl_tree_detach() leaves a level search tree of the other elements.       *)
LEMMA TreeDetachSound ==
  ASSUME NEW n, NEW r, NEW S, NEW sub, SearchTree(n, r, S, sub), IsFiniteSet(S), NEW e \in S,
         NEW h, LevelBut(n, S, h, NULL, "left", 0), NEW sz \in Nat, Cardinality(S) <= sz
  PROVE  DetachResult(avl_tree_detach(Record(r, sz, n), e), sz - 1, n, S, e)
<1>1. PICK t : t = Sink(Record(r, sz, n), e)
  OBVIOUS
<1>2. Sunken(t, sz, n, S, e)
  BY <1>1, SinkSound
<1>3. PICK n1, r1, sub1, h1 : /\ t = Record(r1, sz, n1) /\ Sinking(n1, r1, S, sub1, h1, e)
                              /\ (\A y \in Elem \ S : n1[y] = n[y]) /\ leaf_element(n1, e)
                              /\ Kept(n1, n)
  BY <1>2 DEF Sunken
<1>4. PICK u : u = Cut(t, e)
  OBVIOUS
<1>5. Whole(u, sz, n1, S \ {e}) /\ Carries(u, n1)
  BY <1>3, <1>4, CutSound
<1>6. PICK n2, r2, sub2, h2 : /\ u = Record(r2, sz, n2) /\ SearchTree(n2, r2, S \ {e}, sub2)
                              /\ LevelBut(n2, S \ {e}, h2, NULL, "left", 0)
                              /\ \A y \in Elem \ (S \ {e}) : n2[y] = n1[y]
  BY <1>5 DEF Whole
<1>7. avl_tree_detach(Record(r, sz, n), e) = [u EXCEPT !.size = u.size - 1]
  BY <1>1, <1>4 DEF avl_tree_detach
<1>8. avl_tree_detach(Record(r, sz, n), e) = Record(r2, sz - 1, n2)
  BY <1>6, <1>7, RecordFacts, RecordSize
<1>9. Whole(Record(r2, sz - 1, n2), sz - 1, n1, S \ {e})
  BY <1>6 DEF Whole
<1>10. n1 \in Heap /\ n1[e] \in Fields /\ n1[e].balance \in -1..1
  <2>1. n1[e].balance \in -1..1
    BY <1>3, LeafAlone
  <2> QED BY <1>3, <2>1 DEF Sinking, Forked, Shaped, FieldsOf
<1>11. n1[e] \in Node
  BY <1>10 DEF Node, Fields
<1>12. Carries(Record(r2, sz - 1, n2), n)
  <2>1. Kept(n2, n1)
    BY <1>5, <1>6, CarriesNode
  <2>2. Kept(n2, n)
    BY <1>3, <2>1, KeptTwice
  <2> QED BY <2>2, CarriesSame
<1> QED BY <1>3, <1>8, <1>9, <1>10, <1>11, <1>12 DEF DetachResult

------------------------------------------------------------------------------
(* What the walk of the child pointers enumerates, and the heights that it   *)
(* measures.                                                                 *)

Woven(n, w, e) ==
  IF e = NULL THEN <<>>
  ELSE IF n[e] = Free THEN <<NULL>>
  ELSE w[n[e].left] \o <<e>> \o w[n[e].right]
Walks(W, n) ==
  /\ \A d \in Nat : Walk(n, d) = W[d]
  /\ \A e \in Pointer : W[0][e] = IF e = NULL THEN <<>> ELSE <<NULL>>
  /\ \A d \in Nat, e \in Pointer : W[d + 1][e] = Woven(n, W[d], e)

(* The walk of a subtree is a sequence.                                      *)
LEMMA WovenTyped ==
  ASSUME NEW n \in Heap, NEW w \in [Pointer -> Seq(Pointer)], NEW e \in Pointer
  PROVE  Woven(n, w, e) \in Seq(Pointer)
<1>1. CASE e = NULL
  BY <1>1 DEF Woven
<1>2. CASE e # NULL /\ n[e] = Free
  <2>1. NULL \in Pointer
    BY DEF Pointer
  <2>2. <<NULL>> \in Seq(Pointer)
    BY <2>1
  <2> QED BY <1>2, <2>2 DEF Woven
<1>3. CASE e # NULL /\ n[e] # Free
  <2>1. e \in Elem /\ n[e] \in Fields
    BY <1>3 DEF Pointer, Heap
  <2>2. n[e].left \in Pointer /\ n[e].right \in Pointer
    BY <2>1 DEF Fields
  <2>3. w[n[e].left] \in Seq(Pointer) /\ w[n[e].right] \in Seq(Pointer) /\ <<e>> \in Seq(Pointer)
    BY <2>2
  <2>4. w[n[e].left] \o <<e>> \in Seq(Pointer)
    BY <2>3, ConcatProperties
  <2>5. w[n[e].left] \o <<e>> \o w[n[e].right] \in Seq(Pointer)
    BY <2>3, <2>4, ConcatProperties
  <2> QED BY <1>3, <2>5 DEF Woven
<1> QED BY <1>1, <1>2, <1>3

(* Walk() by its recursion.                                                  *)
LEMMA WalkSteps ==
  ASSUME NEW n \in Heap
  PROVE  \E W : Walks(W, n)
<1>1. PICK V : V = [Pointer -> Seq(Pointer)]
  OBVIOUS
<1>2. PICK c : c = [e \in Pointer |-> IF e = NULL THEN <<>> ELSE <<NULL>>]
  OBVIOUS
<1> DEFINE G == [d \in Nat |-> [w \in V |-> [e \in Pointer |-> Woven(n, w, e)]]]
           Loop(f) == f = [d \in Nat |->
                             [e \in Pointer |->
                                IF e = NULL THEN <<>>
                                ELSE IF d = 0 \/ n[e] = Free THEN <<NULL>>
                                ELSE f[d - 1][n[e].left] \o <<e>> \o f[d - 1][n[e].right]]]
<1>3. c \in V
  <2>1. NULL \in Pointer
    BY DEF Pointer
  <2>2. <<NULL>> \in Seq(Pointer) /\ <<>> \in Seq(Pointer)
    BY <2>1
  <2> QED BY <1>1, <1>2, <2>2
<1>4. G \in [Nat -> [V -> V]]
  BY <1>1, WovenTyped
<1>5. PICK g : Recursive(g, c, G)
  BY <1>3, <1>4, RecursionExists
<1>6. Computes(g, V, c, G)
  BY <1>3, <1>4, <1>5, RecursionTyped
<1>7. g \in [Nat -> V] /\ g[0] = c /\ \A d \in Nat : g[d + 1] = [e \in Pointer |-> Woven(n, g[d], e)]
  <2>1. g \in [Nat -> V] /\ g[0] = c /\ \A d \in Nat : g[d + 1] = G[d + 1][g[d]]
    BY <1>6 DEF Computes
  <2>2. ASSUME NEW d \in Nat
        PROVE  g[d + 1] = [e \in Pointer |-> Woven(n, g[d], e)]
    <3>1. PICK w \in V : w = g[d]
      BY <2>1
    <3>2. PICK j \in Nat : j = d + 1
      OBVIOUS
    <3>3. G[j][w] = [e \in Pointer |-> Woven(n, w, e)]
      OBVIOUS
    <3> QED BY <2>1, <3>1, <3>2, <3>3
  <2> QED BY <2>1, <2>2
<1>8. ASSUME NEW d \in Nat
      PROVE  g[d] = [e \in Pointer |->
                       IF e = NULL THEN <<>>
                       ELSE IF d = 0 \/ n[e] = Free THEN <<NULL>>
                       ELSE g[d - 1][n[e].left] \o <<e>> \o g[d - 1][n[e].right]]
  <2>1. CASE d = 0
    BY <1>2, <1>7, <2>1
  <2>2. CASE d # 0
    <3>1. PICK j \in Nat : d = j + 1 /\ d - 1 = j
      BY <2>2
    <3>2. g[d] = [e \in Pointer |-> Woven(n, g[j], e)]
      BY <1>7, <3>1
    <3> QED BY <2>2, <3>1, <3>2 DEF Woven
  <2> QED BY <2>1, <2>2
<1>9. Loop(g)
  <2>1. g = [d \in Nat |-> g[d]]
    BY <1>7
  <2> QED BY <1>8, <2>1
<1>10. \E a : Loop(a)
  BY <1>9
<1>11. PICK W : W = CHOOSE a : Loop(a)
  OBVIOUS
<1>12. \A d \in Nat : Walk(n, d) = W[d]
  BY <1>11 DEF Walk
<1> HIDE DEF Loop, G
<1>13. Loop(W)
  BY <1>10, <1>11, Zenon
<1>14. ASSUME NEW d \in Nat, NEW e \in Pointer
       PROVE  W[d][e] = IF e = NULL THEN <<>>
                        ELSE IF d = 0 \/ n[e] = Free THEN <<NULL>>
                        ELSE W[d - 1][n[e].left] \o <<e>> \o W[d - 1][n[e].right]
  <2>1. W[d] = [x \in Pointer |->
                  IF x = NULL THEN <<>>
                  ELSE IF d = 0 \/ n[x] = Free THEN <<NULL>>
                  ELSE W[d - 1][n[x].left] \o <<x>> \o W[d - 1][n[x].right]]
    BY <1>13, Zenon DEF Loop
  <2> QED BY <2>1
<1>15. \A e \in Pointer : W[0][e] = IF e = NULL THEN <<>> ELSE <<NULL>>
  BY <1>14
<1>16. ASSUME NEW d \in Nat, NEW e \in Pointer
       PROVE  W[d + 1][e] = Woven(n, W[d], e)
  <2>1. PICK j \in Nat : j = d + 1 /\ j # 0 /\ j - 1 = d
    OBVIOUS
  <2>2. W[j][e] = IF e = NULL THEN <<>>
                  ELSE IF j = 0 \/ n[e] = Free THEN <<NULL>>
                  ELSE W[j - 1][n[e].left] \o <<e>> \o W[j - 1][n[e].right]
    BY <1>14
  <2> QED BY <2>1, <2>2 DEF Woven
<1>17. Walks(W, n)
  BY <1>12, <1>15, <1>16 DEF Walks
<1> QED BY <1>17

(* w lists the elements of A in key order.                                   *)
Enumerates(w, n, A) ==
  /\ w \in Seq(Elem) /\ Len(w) = Cardinality(A)
  /\ A = {w[i] : i \in 1..Len(w)}
  /\ \A i \in 1..Len(w), j \in 1..Len(w) : i < j => rank(n, w[i]) < rank(n, w[j])

(* U, then e, then v.                                                        *)
Joined(w, u, e, v) ==
  /\ w \in Seq(Elem) /\ Len(w) = Len(u) + 1 + Len(v)
  /\ \A i \in 1..Len(u) : w[i] = u[i]
  /\ w[Len(u) + 1] = e
  /\ \A i \in 1..Len(v) : w[Len(u) + 1 + i] = v[i]

(* The cells of u, e, v in a row.                                            *)
LEMMA JoinedFacts ==
  ASSUME NEW u \in Seq(Elem), NEW e \in Elem, NEW v \in Seq(Elem)
  PROVE  Joined(u \o <<e>> \o v, u, e, v)
<1>1. PICK o : o = <<e>>
  OBVIOUS
<1>2. o \in Seq(Elem) /\ Len(o) = 1 /\ o[1] = e
  BY <1>1
<1>3. PICK s : s = u \o o
  OBVIOUS
<1>4. PICK a \in Nat, b \in Nat : a = Len(u) /\ b = Len(v)
  OBVIOUS
<1>5. /\ s \in Seq(Elem) /\ Len(s) = a + 1
      /\ \A i \in 1..(a + 1) : s[i] = IF i <= a THEN u[i] ELSE o[i - a]
  <2>1. /\ u \o o \in Seq(Elem)
        /\ Len(u \o o) = Len(u) + Len(o)
        /\ \A i \in 1 .. Len(u) + Len(o) : (u \o o)[i] = IF i <= Len(u) THEN u[i] ELSE o[i - Len(u)]
    BY <1>2, ConcatProperties
  <2> QED BY <1>2, <1>3, <1>4, <2>1
<1>6. PICK w : w = s \o v
  OBVIOUS
<1>7. /\ w \in Seq(Elem) /\ Len(w) = (a + 1) + b
      /\ \A i \in 1..((a + 1) + b) : w[i] = IF i <= a + 1 THEN s[i] ELSE v[i - (a + 1)]
  <2>1. /\ s \o v \in Seq(Elem)
        /\ Len(s \o v) = Len(s) + Len(v)
        /\ \A i \in 1 .. Len(s) + Len(v) : (s \o v)[i] = IF i <= Len(s) THEN s[i] ELSE v[i - Len(s)]
    BY <1>5, ConcatProperties
  <2> QED BY <1>4, <1>5, <1>6, <2>1
<1>8. ASSUME NEW i \in 1..a
      PROVE  w[i] = u[i]
  <2>1. i \in 1..((a + 1) + b) /\ i \in 1..(a + 1) /\ i <= a /\ i <= a + 1
    BY <1>4
  <2> QED BY <1>5, <1>7, <2>1
<1>9. w[a + 1] = e
  <2>1. PICK k : k = a + 1
    OBVIOUS
  <2>2. k \in 1..((a + 1) + b) /\ k \in 1..(a + 1) /\ ~(k <= a) /\ k <= a + 1 /\ k - a = 1
    BY <1>4, <2>1
  <2> QED BY <1>2, <1>5, <1>7, <2>1, <2>2
<1>10. ASSUME NEW i \in 1..b
       PROVE  w[a + 1 + i] = v[i]
  <2>1. PICK k : k = a + 1 + i
    OBVIOUS
  <2>2. k \in 1..((a + 1) + b) /\ ~(k <= a + 1) /\ k - (a + 1) = i
    BY <1>4, <2>1
  <2> QED BY <1>7, <2>1, <2>2
<1> QED BY <1>1, <1>3, <1>4, <1>6, <1>7, <1>8, <1>9, <1>10 DEF Joined

(* A sequence that enumerates a set in key order, spelled out.               *)
LEMMA EnumeratesFacts ==
  ASSUME NEW w, NEW n, NEW A, Enumerates(w, n, A)
  PROVE  /\ w \in Seq(Elem) /\ Len(w) \in Nat /\ Len(w) = Cardinality(A)
         /\ A = {w[i] : i \in 1..Len(w)}
         /\ \A i \in 1..Len(w) : w[i] \in A
         /\ \A i \in 1..Len(w), j \in 1..Len(w) : i < j => rank(n, w[i]) < rank(n, w[j])
<1>1. w \in Seq(Elem) /\ Len(w) = Cardinality(A)
  BY Zenon DEF Enumerates
<1>2. A = {w[i] : i \in 1..Len(w)}
  BY Zenon DEF Enumerates
<1>3. \A i \in 1..Len(w), j \in 1..Len(w) : i < j => rank(n, w[i]) < rank(n, w[j])
  BY Zenon DEF Enumerates
<1>4. Len(w) \in Nat
  BY <1>1
<1>5. \A i \in 1..Len(w) : w[i] \in A
  BY <1>2
<1> QED BY <1>1, <1>2, <1>3, <1>4, <1>5, Zenon

(* The converse.                                                             *)
LEMMA EnumeratesIntro ==
  ASSUME NEW w, w \in Seq(Elem), NEW n, NEW A, Len(w) = Cardinality(A),
         A = {w[i] : i \in 1..Len(w)},
         \A i \in 1..Len(w), j \in 1..Len(w) : i < j => rank(n, w[i]) < rank(n, w[j])
  PROVE  Enumerates(w, n, A)
  BY Zenon DEF Enumerates

(* The nodes of a level tree have their balances within bounds.              *)
LEMMA NodesOf ==
  ASSUME NEW n, NEW S, FieldsOf(n, S), NEW h, LevelBut(n, S, h, NULL, "left", 0)
  PROVE  \A x \in S : n[x] \in Node /\ n[x] # Free
<1> SUFFICES ASSUME NEW x \in S
             PROVE  n[x] \in Node
  BY NullAssumption
<1>1. n[x] \in Fields /\ x # NULL
  BY NullAssumption DEF FieldsOf
<1>2. Even(n, h, x, "left", 0) /\ Heights(h)
  BY <1>1 DEF LevelBut
<1>3. n[x].balance \in -1..1
  <2>1. n[x]["left"] \in Pointer /\ n[x][Other("left")] \in Pointer
    BY <1>1 DEF Fields, Other
  <2>2. PICK a \in Nat, b \in Nat : a = h[n[x]["left"]] /\ b = h[n[x][Other("left")]]
    BY <1>2, <2>1 DEF Heights
  <2>3. Fits(h[x], n[x].balance, a - 0, b, "left")
    BY <1>2, <2>2 DEF Even
  <2>4. n[x].balance = b - (a - 0) /\ (a - 0) - b \in -1..1
    BY <2>3 DEF Fits
  <2> QED BY <2>4
<1> QED BY <1>1, <1>3 DEF Node, Fields

(* u, e, v is in order if u and v are, with e between them.                  *)
LEMMA JoinedOrder ==
  ASSUME NEW n, NEW S, FieldsOf(n, S), NEW A \in SUBSET S, NEW B \in SUBSET S, NEW e \in S,
         NEW u, Enumerates(u, n, A), NEW v, Enumerates(v, n, B), NEW w, Joined(w, u, e, v),
         \A x \in A : rank(n, x) < rank(n, e), \A x \in B : rank(n, e) < rank(n, x)
  PROVE  \A i \in 1..Len(w), j \in 1..Len(w) : i < j => rank(n, w[i]) < rank(n, w[j])
<1>1. PICK a \in Nat, b \in Nat : a = Len(u) /\ b = Len(v)
  BY EnumeratesFacts
<1>2. /\ Len(w) = a + 1 + b /\ w[a + 1] = e
      /\ (\A i \in 1..a : w[i] = u[i]) /\ (\A i \in 1..b : w[a + 1 + i] = v[i])
  BY <1>1 DEF Joined
<1>3. (\A i \in 1..a : u[i] \in A) /\ (\A i \in 1..b : v[i] \in B)
  BY <1>1, EnumeratesFacts
<1>4. \A x \in S : rank(n, x) \in Int
  BY RankFacts
<1>5. ASSUME NEW i \in 1..a
      PROVE  w[i] \in A
  BY <1>2, <1>3, <1>5
<1>6. ASSUME NEW i \in (a + 2)..(a + 1 + b)
      PROVE  \E k \in 1..b : k = i - (a + 1) /\ w[i] = v[k] /\ w[i] \in B
  <2>1. PICK k : k = i - (a + 1)
    OBVIOUS
  <2>2. k \in 1..b /\ i = a + 1 + k
    BY <2>1
  <2> QED BY <1>2, <1>3, <2>1, <2>2
<1>7. ASSUME NEW i \in 1..Len(w), NEW j \in 1..Len(w), i < j
      PROVE  rank(n, w[i]) < rank(n, w[j])
  <2>1. CASE j <= a
    <3>1. i \in 1..a /\ j \in 1..a
      BY <1>2, <1>7, <2>1
    <3>2. rank(n, u[i]) < rank(n, u[j])
      <4>1. \A x \in 1..Len(u), y \in 1..Len(u) : x < y => rank(n, u[x]) < rank(n, u[y])
        BY EnumeratesFacts
      <4> QED BY <1>1, <1>7, <3>1, <4>1
    <3> QED BY <1>2, <3>1, <3>2
  <2>2. CASE j = a + 1
    <3>1. i \in 1..a
      BY <1>2, <1>7, <2>2
    <3> QED BY <1>2, <1>5, <2>2, <3>1
  <2>3. CASE j > a + 1
    <3>1. j \in (a + 2)..(a + 1 + b)
      BY <1>2, <1>7, <2>3
    <3>2. PICK k \in 1..b : k = j - (a + 1) /\ w[j] = v[k] /\ w[j] \in B
      BY <1>6, <3>1
    <3>3. CASE i <= a
      <4>1. i \in 1..a
        BY <1>2, <1>7, <3>3
      <4>2. w[i] \in A
        BY <1>5, <4>1
      <4>3. rank(n, w[i]) < rank(n, e) /\ rank(n, e) < rank(n, w[j])
        BY <3>2, <4>2
      <4>4. rank(n, w[i]) \in Int /\ rank(n, e) \in Int /\ rank(n, w[j]) \in Int
        BY <1>4, <3>2, <4>2
      <4> QED BY <4>3, <4>4
    <3>4. CASE i = a + 1
      BY <1>2, <3>2, <3>4
    <3>5. CASE i > a + 1
      <4>1. i \in (a + 2)..(a + 1 + b)
        BY <1>2, <1>7, <3>5
      <4>2. PICK m \in 1..b : m = i - (a + 1) /\ w[i] = v[m] /\ w[i] \in B
        BY <1>6, <4>1
      <4>3. m < k
        BY <1>7, <3>2, <4>2
      <4>4. rank(n, v[m]) < rank(n, v[k])
        <5>1. \A x \in 1..Len(v), y \in 1..Len(v) : x < y => rank(n, v[x]) < rank(n, v[y])
          BY EnumeratesFacts
        <5> QED BY <1>1, <4>3, <5>1
      <4> QED BY <3>2, <4>2, <4>4
    <3> QED BY <1>1, <1>2, <1>7, <3>3, <3>4, <3>5
  <2> QED BY <1>1, <1>2, <1>7, <2>1, <2>2, <2>3
<1> QED BY <1>7

(* It enumerates all of them.                                                *)
LEMMA JoinedEnumerates ==
  ASSUME NEW n, NEW S, FieldsOf(n, S), IsFiniteSet(S), NEW A \in SUBSET S, NEW B \in SUBSET S, NEW e \in S,
         NEW u, Enumerates(u, n, A), NEW v, Enumerates(v, n, B), NEW w, Joined(w, u, e, v),
         \A x \in A : rank(n, x) < rank(n, e), \A x \in B : rank(n, e) < rank(n, x)
  PROVE  Enumerates(w, n, {e} \union A \union B)
<1>1. PICK a \in Nat, b \in Nat : a = Len(u) /\ b = Len(v)
  BY EnumeratesFacts
<1>2. /\ w \in Seq(Elem) /\ Len(w) = a + 1 + b /\ w[a + 1] = e
      /\ (\A i \in 1..a : w[i] = u[i]) /\ (\A i \in 1..b : w[a + 1 + i] = v[i])
  BY <1>1 DEF Joined
<1>3. A = {u[i] : i \in 1..a} /\ B = {v[i] : i \in 1..b}
  <2>1. A = {u[i] : i \in 1..Len(u)}
    BY EnumeratesFacts
  <2>2. B = {v[i] : i \in 1..Len(v)}
    BY EnumeratesFacts
  <2> QED BY <1>1, <2>1, <2>2
<1>4. \A i \in 1..Len(w), j \in 1..Len(w) : i < j => rank(n, w[i]) < rank(n, w[j])
  BY JoinedOrder
<1>5. PICK C : C = {e} \union A \union B
  OBVIOUS
<1>6. ASSUME NEW x \in C
      PROVE  \E i \in 1..(a + 1 + b) : x = w[i]
  <2>1. CASE x = e
    BY <1>2, <2>1
  <2>2. CASE x \in A
    <3>1. PICK i \in 1..a : x = u[i]
      BY <1>3, <2>2
    <3>2. i \in 1..(a + 1 + b)
      OBVIOUS
    <3> QED BY <1>2, <3>1, <3>2
  <2>3. CASE x \in B
    <3>1. PICK i \in 1..b : x = v[i]
      BY <1>3, <2>3
    <3>2. a + 1 + i \in 1..(a + 1 + b)
      OBVIOUS
    <3> QED BY <1>2, <3>1, <3>2
  <2> QED BY <1>5, <1>6, <2>1, <2>2, <2>3
<1>7. ASSUME NEW i \in 1..(a + 1 + b)
      PROVE  w[i] \in C
  <2>1. CASE i <= a
    <3>1. i \in 1..a
      BY <2>1
    <3> QED BY <1>2, <1>3, <1>5, <3>1
  <2>2. CASE i = a + 1
    BY <1>2, <1>5, <2>2
  <2>3. CASE i > a + 1
    <3>1. PICK k : k = i - (a + 1)
      OBVIOUS
    <3>2. k \in 1..b /\ i = a + 1 + k
      BY <2>3, <3>1
    <3> QED BY <1>2, <1>3, <1>5, <3>2
  <2> QED BY <2>1, <2>2, <2>3
<1>8. C = {w[i] : i \in 1..Len(w)}
  BY <1>2, <1>6, <1>7
<1>9. Cardinality(C) = a + 1 + b
  <2>1. \A x \in S : rank(n, x) \in Int
    BY RankFacts
  <2>2. e \notin A /\ e \notin B /\ A \intersect B = {}
    <3>1. ~(rank(n, e) < rank(n, e))
      BY <2>1
    <3>2. ASSUME NEW x \in A, x \in B
          PROVE  FALSE
      BY <2>1, <3>2
    <3> QED BY <3>1, <3>2
  <2>3. IsFiniteSet(A) /\ IsFiniteSet(B)
    BY FS_Subset
  <2>4. Cardinality(A) = a /\ Cardinality(B) = b
    BY <1>1, EnumeratesFacts
  <2>5. IsFiniteSet(A \union B) /\ Cardinality(A \union B) = Cardinality(A) + Cardinality(B) - Cardinality(A \intersect B)
    BY <2>3, FS_Union
  <2>6. Cardinality({}) = 0
    BY FS_EmptySet
  <2>7. Cardinality(A \union B) = a + b
    BY <2>2, <2>4, <2>5, <2>6
  <2>8. e \notin A \union B
    BY <2>2
  <2>9. Cardinality((A \union B) \union {e}) = Cardinality(A \union B) + 1
    <3>1. PICK D : D = A \union B
      OBVIOUS
    <3>2. IsFiniteSet(D) /\ e \notin D
      BY <2>5, <2>8, <3>1
    <3>3. Cardinality(D \union {e}) = Cardinality(D) + 1
      BY <3>2, FS_AddElement
    <3> QED BY <3>1, <3>3
  <2>10. C = (A \union B) \union {e}
    BY <1>5
  <2> QED BY <2>7, <2>9, <2>10
<1>10. Enumerates(w, n, C)
  BY <1>2, <1>4, <1>8, <1>9, EnumeratesIntro
<1> QED BY <1>5, <1>10

(* The walk from the root enumerates the elements of a search tree in key    *)
(* order.                                                                    *)
LEMMA WalkSound ==
  ASSUME NEW n, NEW r, NEW S, NEW sub, SearchTree(n, r, S, sub), IsFiniteSet(S), NEW sz \in Nat,
         Cardinality(S) <= sz, \A x \in S : n[x] # Free
  PROVE  Enumerates(Walk(n, sz)[r], n, S)
<1>1. /\ FieldsOf(n, S) /\ n \in Heap /\ S \subseteq Elem /\ NULL \notin S /\ S \subseteq Pointer /\ NULL \in Pointer
      /\ Forked(n, r, S, sub) /\ sub[NULL] = {} /\ sub[r] = S /\ r \in S \union {NULL}
  BY NullAssumption, SearchForked DEF SearchTree, Shaped, Nested, FieldsOf, Pointer
<1>2. PICK W : Walks(W, n)
  BY <1>1, WalkSteps
<1>3. /\ \A d \in Nat : Walk(n, d) = W[d]
      /\ \A e \in Pointer : W[0][e] = IF e = NULL THEN <<>> ELSE <<NULL>>
      /\ \A d \in Nat, e \in Pointer : W[d + 1][e] = Woven(n, W[d], e)
  BY <1>2 DEF Walks
<1> DEFINE Sound(d) == \A x \in S \union {NULL} : Cardinality(sub[x]) <= d => Enumerates(W[d][x], n, sub[x])
           K == {d \in Nat : Sound(d)}
<1>4. Enumerates(<<>>, n, {})
  <2>1. Cardinality({}) = 0
    BY FS_EmptySet
  <2> QED BY <2>1 DEF Enumerates
<1>5. \A x \in S : Cardinality(sub[x]) \in Nat /\ Cardinality(sub[x]) # 0
  <2> SUFFICES ASSUME NEW x \in S
               PROVE  Cardinality(sub[x]) \in Nat /\ Cardinality(sub[x]) # 0
    OBVIOUS
  <2>1. /\ sub[x] \in SUBSET S /\ x \in sub[x]
        /\ Cardinality(sub[x]) \in Nat /\ Cardinality(sub[x]) # 0
        /\ Cardinality(sub[x]) <= Cardinality(S) /\ Cardinality(S) \in Nat
    BY <1>1, NodeFacts
  <2> QED BY <2>1
<1>6. 0 \in K
  <2>1. \A x \in S : ~(Cardinality(sub[x]) <= 0)
    BY <1>5
  <2>2. W[0][NULL] = <<>>
    BY <1>1, <1>3
  <2> QED BY <1>1, <1>4, <2>1, <2>2
<1>7. ASSUME NEW d \in K
      PROVE  d + 1 \in K
  <2>1. d \in Nat /\ d + 1 \in Nat /\ Sound(d)
    OBVIOUS
  <2>2. W[d + 1][NULL] = <<>>
    BY <1>1, <1>3, <2>1 DEF Woven
  <2>3. ASSUME NEW x \in S, Cardinality(sub[x]) <= d + 1
        PROVE  Enumerates(W[d + 1][x], n, sub[x])
    <3>1. PICK l, g : l = n[x]["left"] /\ g = n[x]["right"]
      OBVIOUS
    <3>2. W[d + 1][x] = W[d][l] \o <<x>> \o W[d][g]
      <4>1. x # NULL /\ n[x] # Free
        BY <1>1
      <4> QED BY <1>1, <1>3, <2>1, <3>1, <4>1 DEF Woven
    <3>3. ASSUME NEW s \in Side, NEW k, k = n[x][s]
          PROVE  /\ sub[k] \in SUBSET S /\ Enumerates(W[d][k], n, sub[k])
                 /\ \A z \in sub[k] : Beyond(n, s, z, x)
      <4>1. /\ k \in S \union {NULL}
            /\ k # NULL => n[k].parent = x /\ k \in S /\ k # r
            /\ x \in sub[x] /\ sub[x] \subseteq S
            /\ sub[k] \subseteq sub[x] /\ x \notin sub[k]
            /\ \A z \in sub[k] : z \in S /\ Beyond(n, s, z, x)
        BY <3>3, KidFacts
      <4>2. Cardinality(sub[k]) \in Nat /\ Cardinality(sub[k]) < Cardinality(sub[x])
        BY <4>1, SmallerSet
      <4>3. Cardinality(sub[k]) <= d
        BY <1>5, <2>1, <2>3, <4>2
      <4> QED BY <2>1, <4>1, <4>3
    <3>4. /\ sub[l] \in SUBSET S /\ Enumerates(W[d][l], n, sub[l])
          /\ \A z \in sub[l] : Beyond(n, "left", z, x)
      BY <3>1, <3>3 DEF Side
    <3>5. /\ sub[g] \in SUBSET S /\ Enumerates(W[d][g], n, sub[g])
          /\ \A z \in sub[g] : Beyond(n, "right", z, x)
      BY <3>1, <3>3 DEF Side
    <3>6. \A z \in sub[l] : rank(n, z) < rank(n, x)
      BY <3>4 DEF Beyond
    <3>7. \A z \in sub[g] : rank(n, x) < rank(n, z)
      <4>1. \A z \in S : rank(n, z) \in Int
        BY <1>1, RankFacts
      <4> QED BY <3>5, <4>1 DEF Beyond
    <3>8. PICK u, v, w : u = W[d][l] /\ v = W[d][g] /\ w = u \o <<x>> \o v
      OBVIOUS
    <3>9. Enumerates(u, n, sub[l]) /\ Enumerates(v, n, sub[g])
      BY <3>4, <3>5, <3>8
    <3>10. u \in Seq(Elem) /\ v \in Seq(Elem) /\ x \in Elem
      BY <1>1, <3>9, EnumeratesFacts
    <3>11. Joined(w, u, x, v)
      BY <3>8, <3>10, JoinedFacts
    <3>12. Enumerates(w, n, {x} \union sub[l] \union sub[g])
      BY <1>1, <3>4, <3>5, <3>6, <3>7, <3>9, <3>11, JoinedEnumerates
    <3>13. sub[x] = {x} \union sub[l] \union sub[g]
      <4>1. \A s \in Side : sub[x] = {x} \union sub[n[x][s]] \union sub[n[x][Other(s)]]
        BY DEF SearchTree, Nested, NestedAt
      <4>2. "left" \in Side /\ Other("left") = "right"
        BY DEF Side, Other
      <4> QED BY <3>1, <4>1, <4>2
    <3> QED BY <3>2, <3>8, <3>12, <3>13
  <2> QED BY <1>1, <1>4, <2>1, <2>2, <2>3
<1>8. Sound(sz)
  <2>1. K = Nat
    <3> HIDE DEF Sound
    <3>1. K \in SUBSET Nat
      OBVIOUS
    <3> HIDE DEF K
    <3> QED BY <1>6, <1>7, <3>1, EveryNumber
  <2> QED BY <2>1
<1> QED BY <1>1, <1>3, <1>8

Taken(n, v, e) == IF e = NULL \/ n[e] = Free THEN 0 ELSE 1 + Higher(v[n[e].left], v[n[e].right])
Measures(H, n) ==
  /\ \A d \in Nat : Height(n, d) = H[d]
  /\ \A e \in Pointer : H[0][e] = 0
  /\ \A d \in Nat, e \in Pointer : H[d + 1][e] = Taken(n, H[d], e)

(* A measured height is a number.                                            *)
LEMMA TakenTyped ==
  ASSUME NEW n \in Heap, NEW v \in [Pointer -> Nat], NEW e \in Pointer
  PROVE  Taken(n, v, e) \in Nat
<1>1. CASE e = NULL \/ n[e] = Free
  BY <1>1 DEF Taken
<1>2. CASE e # NULL /\ n[e] # Free
  <2>1. e \in Elem /\ n[e] \in Fields
    BY <1>2 DEF Pointer, Heap
  <2>2. n[e].left \in Pointer /\ n[e].right \in Pointer
    BY <2>1 DEF Fields
  <2>3. v[n[e].left] \in Nat /\ v[n[e].right] \in Nat
    BY <2>2
  <2> QED BY <1>2, <2>3 DEF Taken, Higher
<1> QED BY <1>1, <1>2

(* Height() by its recursion.                                                *)
LEMMA HeightSteps ==
  ASSUME NEW n \in Heap
  PROVE  \E H : Measures(H, n)
<1>1. PICK V : V = [Pointer -> Nat]
  OBVIOUS
<1>2. PICK c : c = [e \in Pointer |-> 0]
  OBVIOUS
<1> DEFINE G == [d \in Nat |-> [v \in V |-> [e \in Pointer |-> Taken(n, v, e)]]]
           Loop(f) == f = [d \in Nat |->
                             [e \in Pointer |->
                                IF e = NULL \/ d = 0 \/ n[e] = Free THEN 0
                                ELSE 1 + Higher(f[d - 1][n[e].left], f[d - 1][n[e].right])]]
<1>3. c \in V
  BY <1>1, <1>2
<1>4. G \in [Nat -> [V -> V]]
  BY <1>1, TakenTyped
<1>5. PICK g : Recursive(g, c, G)
  BY <1>3, <1>4, RecursionExists
<1>6. Computes(g, V, c, G)
  BY <1>3, <1>4, <1>5, RecursionTyped
<1>7. g \in [Nat -> V] /\ g[0] = c /\ \A d \in Nat : g[d + 1] = [e \in Pointer |-> Taken(n, g[d], e)]
  <2>1. g \in [Nat -> V] /\ g[0] = c /\ \A d \in Nat : g[d + 1] = G[d + 1][g[d]]
    BY <1>6 DEF Computes
  <2>2. ASSUME NEW d \in Nat
        PROVE  g[d + 1] = [e \in Pointer |-> Taken(n, g[d], e)]
    <3>1. PICK v \in V : v = g[d]
      BY <2>1
    <3>2. PICK j \in Nat : j = d + 1
      OBVIOUS
    <3>3. G[j][v] = [e \in Pointer |-> Taken(n, v, e)]
      OBVIOUS
    <3> QED BY <2>1, <3>1, <3>2, <3>3
  <2> QED BY <2>1, <2>2
<1>8. ASSUME NEW d \in Nat
      PROVE  g[d] = [e \in Pointer |->
                       IF e = NULL \/ d = 0 \/ n[e] = Free THEN 0
                       ELSE 1 + Higher(g[d - 1][n[e].left], g[d - 1][n[e].right])]
  <2>1. CASE d = 0
    BY <1>2, <1>7, <2>1
  <2>2. CASE d # 0
    <3>1. PICK j \in Nat : d = j + 1 /\ d - 1 = j
      BY <2>2
    <3>2. g[d] = [e \in Pointer |-> Taken(n, g[j], e)]
      BY <1>7, <3>1
    <3> QED BY <2>2, <3>1, <3>2 DEF Taken
  <2> QED BY <2>1, <2>2
<1>9. Loop(g)
  <2>1. g = [d \in Nat |-> g[d]]
    BY <1>7
  <2> QED BY <1>8, <2>1
<1>10. \E a : Loop(a)
  BY <1>9
<1>11. PICK H : H = CHOOSE a : Loop(a)
  OBVIOUS
<1>12. \A d \in Nat : Height(n, d) = H[d]
  BY <1>11 DEF Height
<1> HIDE DEF Loop, G
<1>13. Loop(H)
  BY <1>10, <1>11, Zenon
<1>14. ASSUME NEW d \in Nat, NEW e \in Pointer
       PROVE  H[d][e] = IF e = NULL \/ d = 0 \/ n[e] = Free THEN 0
                        ELSE 1 + Higher(H[d - 1][n[e].left], H[d - 1][n[e].right])
  <2>1. H[d] = [x \in Pointer |->
                  IF x = NULL \/ d = 0 \/ n[x] = Free THEN 0
                  ELSE 1 + Higher(H[d - 1][n[x].left], H[d - 1][n[x].right])]
    BY <1>13, Zenon DEF Loop
  <2> QED BY <2>1
<1>15. \A e \in Pointer : H[0][e] = 0
  BY <1>14
<1>16. ASSUME NEW d \in Nat, NEW e \in Pointer
       PROVE  H[d + 1][e] = Taken(n, H[d], e)
  <2>1. PICK j \in Nat : j = d + 1 /\ j # 0 /\ j - 1 = d
    OBVIOUS
  <2>2. H[j][e] = IF e = NULL \/ j = 0 \/ n[e] = Free THEN 0
                  ELSE 1 + Higher(H[j - 1][n[e].left], H[j - 1][n[e].right])
    BY <1>14
  <2> QED BY <2>1, <2>2 DEF Taken
<1>17. Measures(H, n)
  BY <1>12, <1>15, <1>16 DEF Measures
<1> QED BY <1>17

(* The measured heights are those of the balances.                           *)
LEMMA HeightSound ==
  ASSUME NEW n, NEW r, NEW S, NEW sub, Forked(n, r, S, sub), IsFiniteSet(S), NEW sz \in Nat,
         Cardinality(S) <= sz, NEW h, LevelBut(n, S, h, NULL, "left", 0)
  PROVE  \A x \in S \union {NULL} : Height(n, sz)[x] = h[x]
<1>1. /\ FieldsOf(n, S) /\ n \in Heap /\ S \subseteq Elem /\ NULL \notin S /\ S \subseteq Pointer /\ NULL \in Pointer
      /\ sub[NULL] = {}
  BY NullAssumption DEF Forked, Shaped, Nested, FieldsOf, Pointer
<1>2. PICK H : Measures(H, n)
  BY <1>1, HeightSteps
<1>3. /\ \A d \in Nat : Height(n, d) = H[d]
      /\ \A e \in Pointer : H[0][e] = 0
      /\ \A d \in Nat, e \in Pointer : H[d + 1][e] = Taken(n, H[d], e)
  BY <1>2 DEF Measures
<1>4. Heights(h) /\ h[NULL] = 0 /\ \A x \in S : Even(n, h, x, "left", 0)
  BY <1>1 DEF LevelBut, Heights
<1> DEFINE Sound(d) == \A x \in S \union {NULL} : Cardinality(sub[x]) <= d => H[d][x] = h[x]
           K == {d \in Nat : Sound(d)}
<1>5. ASSUME NEW x \in S
      PROVE  /\ Cardinality(sub[x]) \in Nat /\ Cardinality(sub[x]) # 0 /\ Cardinality(sub[x]) <= sz
  <2>1. /\ sub[x] \in SUBSET S /\ x \in sub[x]
        /\ Cardinality(sub[x]) \in Nat /\ Cardinality(sub[x]) # 0
        /\ Cardinality(sub[x]) <= Cardinality(S) /\ Cardinality(S) \in Nat
    BY NodeFacts
  <2> QED BY <2>1
<1>6. Cardinality(sub[NULL]) = 0
  BY <1>1, FS_EmptySet
<1>7. 0 \in K
  <2>1. \A x \in S : ~(Cardinality(sub[x]) <= 0)
    BY <1>5
  <2> QED BY <1>1, <1>3, <1>4, <2>1
<1>8. ASSUME NEW d \in K
      PROVE  d + 1 \in K
  <2>1. d \in Nat /\ d + 1 \in Nat /\ Sound(d)
    OBVIOUS
  <2>2. H[d + 1][NULL] = h[NULL]
    BY <1>1, <1>3, <1>4, <2>1 DEF Taken
  <2>3. ASSUME NEW x \in S, Cardinality(sub[x]) <= d + 1
        PROVE  H[d + 1][x] = h[x]
    <3>1. PICK l, g : l = n[x]["left"] /\ g = n[x]["right"]
      OBVIOUS
    <3>2. H[d + 1][x] = 1 + Higher(H[d][l], H[d][g])
      <4>1. x # NULL /\ n[x] # Free
        BY <1>1, NodesOf
      <4> QED BY <1>1, <1>3, <2>1, <3>1, <4>1 DEF Taken
    <3>3. ASSUME NEW s \in Side, NEW k, k = n[x][s]
          PROVE  H[d][k] = h[k]
      <4>1. k \in S \union {NULL}
        BY <3>3, ForkFacts
      <4>2. x \in sub[x] /\ sub[x] \subseteq S
        BY <3>3, ForkFacts
      <4>3. sub[k] \subseteq sub[x] /\ x \notin sub[k]
        BY <3>3, ForkFacts
      <4>4. Cardinality(sub[k]) \in Nat /\ Cardinality(sub[k]) < Cardinality(sub[x])
        BY <4>2, <4>3, SmallerSet
      <4>5. Cardinality(sub[k]) <= d
        BY <1>5, <2>1, <2>3, <4>4
      <4> QED BY <2>1, <4>1, <4>5
    <3>4. H[d][l] = h[l] /\ H[d][g] = h[g]
      BY <3>1, <3>3 DEF Side
    <3>5. h[x] = 1 + Higher(h[l], h[g])
      <4>1. Other("left") = "right"
        BY DEF Other
      <4>2. l \in Pointer /\ g \in Pointer
        BY <1>1, <3>1, FieldTypes
      <4>3. PICK a \in Nat, b \in Nat : a = h[l] /\ b = h[g]
        BY <1>4, <4>2 DEF Heights
      <4>4. Fits(h[x], n[x].balance, a - 0, b, "left")
        BY <1>4, <3>1, <4>1, <4>3 DEF Even
      <4>5. h[x] = 1 + Higher(a - 0, b) /\ a - 0 = a
        BY <4>4 DEF Fits
      <4> QED BY <4>3, <4>5
    <3> QED BY <3>2, <3>4, <3>5
  <2> QED BY <2>1, <2>2, <2>3
<1>9. Sound(sz)
  <2>1. K = Nat
    <3> HIDE DEF Sound
    <3>1. K \in SUBSET Nat
      OBVIOUS
    <3> HIDE DEF K
    <3> QED BY <1>7, <1>8, <3>1, EveryNumber
  <2> QED BY <2>1
<1> QED BY <1>3, <1>5, <1>6, <1>9
==============================================================================
