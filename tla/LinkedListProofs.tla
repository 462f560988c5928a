--------------------------- MODULE LinkedListProofs ---------------------------
(* Proofs about LinkedList: its pointers represent the sequence of its cells *)
(* after any history of calls, on a memory of any size.                      *)
EXTENDS LinkedList, Lemmas

USE CellAssumption

(* list_foreach() is at an element of the list, which makes next[at] a        *)
(* pointer when it goes on.                                                  *)
OnList == at # NULL => at \in Cells(order)

Inv == TypeOK /\ ListInv /\ OnList

(* The representation, spelled out.                                          *)
LEMMA InvFacts ==
  ASSUME Inv
  PROVE  /\ order \in Seq(Cell) /\ Distinct(order) /\ size = Len(order)
         /\ Len(order) \in Nat /\ DOMAIN order = 1..Len(order)
         /\ allocated = Cells(order)
         /\ \A i \in 1..Len(order) : order[i] \in Cell /\ order[i] \in allocated
         /\ \A i, j \in 1..Len(order) : order[i] = order[j] => i = j
         /\ Len(order) = 0 => first = NULL /\ last = NULL
         /\ Len(order) > 0 => first = order[1] /\ last = order[Len(order)]
         /\ \A i \in 1..Len(order) :
              /\ next[order[i]] = IF i = Len(order) THEN NULL ELSE order[i + 1]
              /\ previous[order[i]] = IF i = 1 THEN NULL ELSE order[i - 1]
              /\ value[order[i]] \in Value
<1>1. order \in Seq(Cell) /\ Distinct(order) /\ Represents(order)
  BY DEF Inv, TypeOK, ListInv
<1>2. /\ Len(order) \in Nat /\ DOMAIN order = 1..Len(order)
      /\ \A i \in 1..Len(order) : order[i] \in Cell
      /\ Len(order) = 0 <=> order = <<>>
  BY <1>1
<1>3. \A i, j \in 1..Len(order) : order[i] = order[j] => i = j
  BY <1>1, <1>2 DEF Distinct
<1>4. allocated = Cells(order) /\ \A i \in 1..Len(order) : order[i] \in allocated
  BY <1>1, <1>2 DEF Represents, Cells
<1> QED BY <1>1, <1>2, <1>3, <1>4 DEF Represents

(* What has to be shown of the next state.                                   *)
LEMMA InvSuffices ==
  ASSUME NEW s \in Seq(Cell), order' = s, Distinct(s), size' = Len(s),
         allocated' = Cells(s),
         Len(s) = 0 => first' = NULL /\ last' = NULL,
         Len(s) > 0 => first' = s[1] /\ last' = s[Len(s)],
         \A i \in 1..Len(s) :
              /\ next'[s[i]] = IF i = Len(s) THEN NULL ELSE s[i + 1]
              /\ previous'[s[i]] = IF i = 1 THEN NULL ELSE s[i - 1]
              /\ value'[s[i]] \in Value,
         value' \in [Cell -> Value \union {Wild}],
         previous' \in [Cell -> Pointer \union {Wild}],
         next' \in [Cell -> Pointer \union {Wild}],
         at' = NULL \/ at' \in Cells(s), visited' \subseteq Cell, stable' \subseteq Cell
  PROVE  Inv'
<1>1. Len(s) \in Nat /\ (s = <<>> <=> Len(s) = 0) /\ \A i \in 1..Len(s) : s[i] \in Cell
  OBVIOUS
<1>2. ListInv'
  BY <1>1 DEF ListInv, Represents
<1>3. Cells(s) \subseteq Cell
  BY <1>1 DEF Cells
<1>4. first' \in Pointer /\ last' \in Pointer /\ allocated' \subseteq Cell /\ at' \in Pointer
  BY <1>1, <1>3 DEF Pointer
<1>5. TypeOK'
  BY <1>1, <1>4 DEF TypeOK
<1> QED BY <1>2, <1>5 DEF Inv, OnList

LEMMA InitInv == Init => Inv
<1> SUFFICES ASSUME Init PROVE Inv
  OBVIOUS
<1>1. <<>> \in Seq(Cell) /\ Cells(<<>>) = {} /\ Distinct(<<>>) /\ Len(<<>>) = 0
  BY DEF Cells, Distinct
<1> QED BY <1>1 DEF Init, Inv, OnList, TypeOK, ListInv, Represents, Pointer

(* Linking a new cell in at position k: between its neighbours, if any.      *)
LEMMA LinkInv ==
  ASSUME Inv, NEW c \in Cell \ allocated, NEW v \in Value,
         NEW k \in 1..Len(order) + 1,
         order' = InsertedAt(order, k, c),
         allocated' = allocated \union {c},
         size' = size + 1,
         first' = IF k = 1 THEN c ELSE first,
         last' = IF k = Len(order) + 1 THEN c ELSE last,
         value' = [value EXCEPT ![c] = v],
         next' \in [Cell -> Pointer \union {Wild}],
         previous' \in [Cell -> Pointer \union {Wild}],
         \A x \in Cell : next'[x] =
           IF x = c THEN IF k = Len(order) + 1 THEN NULL ELSE order[k]
           ELSE IF k > 1 /\ x = order[k - 1] THEN c ELSE next[x],
         \A x \in Cell : previous'[x] =
           IF x = c THEN IF k = 1 THEN NULL ELSE order[k - 1]
           ELSE IF k <= Len(order) /\ x = order[k] THEN c ELSE previous[x],
         UNCHANGED iteration
  PROVE  Inv'
<1> DEFINE s == InsertedAt(order, k, c)
<1> DEFINE L == Len(order)
<1>1. /\ L \in Nat /\ order \in Seq(Cell) /\ size = L /\ k \in 1..L + 1
      /\ \A i \in 1..L : order[i] \in Cell /\ order[i] # c
      /\ \A i, j \in 1..L : order[i] = order[j] => i = j
  BY InvFacts
<1>2. /\ s \in Seq(Cell) /\ Len(s) = L + 1 /\ Distinct(s)
      /\ Cells(s) = allocated'
      /\ \A i \in 1..L + 1 :
           s[i] = IF i < k THEN order[i] ELSE IF i = k THEN c ELSE order[i - 1]
  <2>1. order \in Seq(Cell) /\ Distinct(order) /\ c \notin Cells(order) /\ c \in Cell
        /\ allocated = Cells(order)
    BY InvFacts
  <2>2. /\ InsertedAt(order, k, c) \in Seq(Cell)
        /\ Len(InsertedAt(order, k, c)) = Len(order) + 1
        /\ \A i \in 1..Len(order) + 1 :
             InsertedAt(order, k, c)[i] =
               IF i < k THEN order[i] ELSE IF i = k THEN c ELSE order[i - 1]
        /\ Cells(InsertedAt(order, k, c)) = Cells(order) \union {c}
        /\ Distinct(order) /\ c \notin Cells(order) => Distinct(InsertedAt(order, k, c))
    BY <2>1, InsertedFacts
  <2> QED BY <2>1, <2>2
<1> HIDE DEF s
<1>3. s[1] = first' /\ s[Len(s)] = last'
  <2>1. s[1] = first'
    BY <1>1, <1>2, InvFacts
  <2>2. s[L + 1] = last'
    BY <1>1, <1>2, InvFacts
  <2> QED BY <1>2, <2>1, <2>2
<1>4. ASSUME NEW i \in 1..L + 1
      PROVE  next'[s[i]] = IF i = L + 1 THEN NULL ELSE s[i + 1]
  <2> DEFINE x == s[i]
  <2>0. x \in Cell /\ next'[x] =
           IF x = c THEN IF k = L + 1 THEN NULL ELSE order[k]
           ELSE IF k > 1 /\ x = order[k - 1] THEN c ELSE next[x]
    BY <1>1, <1>2
  <2>1. CASE i = k
    <3>1. s[i] = c /\ (k # L + 1 => s[i + 1] = order[k])
      BY <1>1, <1>2, <2>1
    <3> QED BY <2>0, <2>1, <3>1
  <2>2. CASE i = k - 1
    <3>1. s[i] = order[k - 1] /\ s[i] # c /\ s[i] \in Cell /\ k > 1 /\ s[i + 1] = c
      BY <1>1, <1>2, <2>2
    <3> QED BY <1>1, <2>0, <2>2, <3>1
  <2>3. CASE i < k - 1
    <3>1. /\ s[i] = order[i] /\ s[i] # c /\ s[i] \in Cell /\ s[i + 1] = order[i + 1]
          /\ i \in 1..L /\ i # L /\ (k > 1 => order[i] # order[k - 1])
      BY <1>1, <1>2, <2>3
    <3> QED BY <1>1, <2>0, <2>3, <3>1, InvFacts
  <2>4. CASE i > k
    <3>0. /\ i - 1 \in 1..L /\ ~(i < k) /\ i # k
          /\ i # L + 1 => i + 1 \in 1..L + 1 /\ ~(i + 1 < k) /\ i + 1 # k /\ (i + 1) - 1 = i
          /\ k > 1 => k - 1 \in 1..L /\ i - 1 # k - 1
      BY <1>1, <2>4
    <3>2. s[i] = order[i - 1]
      BY <1>2, <3>0
    <3>3. i # L + 1 => s[i + 1] = order[i]
      BY <1>2, <3>0
    <3>4. order[i - 1] \in Cell /\ order[i - 1] # c
      BY <1>1, <3>0
    <3>5. k > 1 => order[i - 1] # order[k - 1]
      BY <1>1, <3>0
    <3>1. /\ s[i] = order[i - 1] /\ s[i] # c /\ s[i] \in Cell
          /\ i # L + 1 => s[i + 1] = order[i]
          /\ i - 1 \in 1..L /\ (k > 1 => order[i - 1] # order[k - 1])
      BY <3>0, <3>2, <3>3, <3>4, <3>5
    <3> QED BY <1>1, <2>0, <2>4, <3>1, InvFacts
  <2> QED BY <1>1, <2>1, <2>2, <2>3, <2>4
<1>5. ASSUME NEW i \in 1..L + 1
      PROVE  previous'[s[i]] = IF i = 1 THEN NULL ELSE s[i - 1]
  <2> DEFINE x == s[i]
  <2>0. x \in Cell /\ previous'[x] =
           IF x = c THEN IF k = 1 THEN NULL ELSE order[k - 1]
           ELSE IF k <= L /\ x = order[k] THEN c ELSE previous[x]
    BY <1>1, <1>2
  <2>1. CASE i = k
    <3>1. s[i] = c /\ (k # 1 => s[i - 1] = order[k - 1])
      BY <1>1, <1>2, <2>1
    <3> QED BY <2>0, <2>1, <3>1
  <2>2. CASE i = k + 1
    <3>1. s[i] = order[k] /\ s[i] # c /\ s[i] \in Cell /\ k <= L /\ s[i - 1] = c
      BY <1>1, <1>2, <2>2
    <3> QED BY <1>1, <2>0, <2>2, <3>1
  <2>3. CASE i < k
    <3>1. /\ s[i] = order[i] /\ s[i] # c /\ s[i] \in Cell
          /\ i # 1 => s[i - 1] = order[i - 1]
          /\ i \in 1..L /\ (k <= L => order[i] # order[k])
      BY <1>1, <1>2, <2>3
    <3> QED BY <1>1, <2>0, <2>3, <3>1, InvFacts
  <2>4. CASE i > k + 1
    <3>0. /\ i - 1 \in 1..L + 1 /\ i - 1 \in 1..L /\ i - 1 # 1 /\ ~(i < k) /\ i # k
          /\ ~(i - 1 < k) /\ i - 1 # k /\ (i - 1) - 1 = i - 2
          /\ k <= L => k \in 1..L
      BY <1>1, <2>4
    <3>2. s[i] = order[i - 1]
      BY <1>2, <3>0
    <3>3. s[i - 1] = order[i - 2]
      BY <1>2, <3>0
    <3>4. order[i - 1] \in Cell /\ order[i - 1] # c
      BY <1>1, <3>0
    <3>5. k <= L => order[i - 1] # order[k]
      BY <1>1, <3>0
    <3>1. /\ s[i] = order[i - 1] /\ s[i] # c /\ s[i] \in Cell
          /\ s[i - 1] = order[i - 2]
          /\ i - 1 \in 1..L /\ i - 1 # 1 /\ (k <= L => order[i - 1] # order[k])
      BY <3>0, <3>2, <3>3, <3>4, <3>5
    <3> QED BY <1>1, <2>0, <2>4, <3>1, InvFacts
  <2> QED BY <1>1, <2>1, <2>2, <2>3, <2>4
<1>6. value' \in [Cell -> Value \union {Wild}]
  BY DEF Inv, TypeOK
<1>7. ASSUME NEW i \in 1..L + 1
      PROVE  value'[s[i]] \in Value
  <2>1. s[i] = c \/ \E j \in 1..L : s[i] = order[j] /\ s[i] # c
    <3>1. CASE i < k
      <4>1. i \in 1..L /\ s[i] = order[i]
        BY <1>1, <1>2, <3>1
      <4> QED BY <1>1, <4>1
    <3>2. CASE i = k
      BY <1>2, <3>2
    <3>3. CASE i > k
      <4>1. i - 1 \in 1..L /\ ~(i < k) /\ i # k
        BY <1>1, <3>3
      <4>2. s[i] = order[i - 1]
        BY <1>2, <4>1
      <4> QED BY <1>1, <4>1, <4>2
    <3> QED BY <1>1, <3>1, <3>2, <3>3
  <2> QED BY <1>1, <2>1, InvFacts DEF Inv, TypeOK
<1>8. (at' = NULL \/ at' \in Cells(s)) /\ visited' \subseteq Cell /\ stable' \subseteq Cell
  BY <1>2, InvFacts DEF iteration, Inv, OnList, TypeOK
<1>9. order' = s /\ size' = Len(s) /\ allocated' = Cells(s)
  BY <1>1, <1>2 DEF s
<1> QED BY <1>1, <1>2, <1>3, <1>4, <1>5, <1>6, <1>7, <1>8, <1>9, InvSuffices

(* The cells around the position of a removed cell, each case on its own.    *)
Around(o, s, k, i) ==
  /\ \E j \in 1..Len(o) : s[i] = o[j] /\ j # k
  /\ s[i] \in Cell /\ s[i] # o[k]
  /\ i < k - 1 => /\ s[i] = o[i] /\ s[i] # o[k - 1] /\ i # Len(o) - 1
                  /\ s[i + 1] = o[i + 1] /\ i # Len(o)
  /\ i = k - 1 => /\ k > 1 /\ s[i] = o[k - 1]
                  /\ i # Len(o) - 1 => s[i + 1] = o[k + 1]
  /\ i > k - 1 => /\ s[i] = o[i + 1] /\ (k > 1 => s[i] # o[k - 1])
                  /\ i # Len(o) - 1 => s[i + 1] = o[i + 2]
  /\ i < k => /\ s[i] = o[i] /\ (k < Len(o) => s[i] # o[k + 1])
              /\ i # 1 => s[i - 1] = o[i - 1]
  /\ i = k => /\ k < Len(o) /\ s[i] = o[k + 1]
              /\ i # 1 => s[i - 1] = o[k - 1]
  /\ i > k => /\ s[i] = o[i + 1] /\ s[i] # o[k + 1] /\ i # 1
              /\ s[i - 1] = o[i]

LEMMA RemovedNeighbours ==
  ASSUME NEW o \in Seq(Cell), NEW k \in 1..Len(o), NEW s,
         \A i, j \in 1..Len(o) : o[i] = o[j] => i = j,
         \A i \in 1..Len(o) - 1 : s[i] = IF i < k THEN o[i] ELSE o[i + 1],
         NEW i \in 1..Len(o) - 1
  PROVE  Around(o, s, k, i)
<1> DEFINE L == Len(o)
<1>1. L \in Nat /\ \A j \in 1..L : o[j] \in Cell
  OBVIOUS
<1> DEFINE f == IF i < k THEN i ELSE i + 1
<1>2. f \in 1..L /\ f # k /\ s[i] = o[f]
  BY <1>1
<1>3. \A j \in 1..L : j # f => o[j] # s[i]
  BY <1>1, <1>2
<1> HIDE DEF L
<1>4. i + 1 \in 1..L - 1 => s[i + 1] = IF i + 1 < k THEN o[i + 1] ELSE o[i + 2]
  BY <1>1 DEF L
<1>5. i - 1 \in 1..L - 1 => s[i - 1] = IF i - 1 < k THEN o[i - 1] ELSE o[i]
  BY <1>1 DEF L
<1>6. k \in 1..L /\ i \in 1..L - 1
  BY DEF L
<1>7. /\ i < k - 1 => /\ s[i] = o[i] /\ s[i] # o[k - 1] /\ i # L - 1
                      /\ s[i + 1] = o[i + 1] /\ i # L
      /\ i = k - 1 => /\ k > 1 /\ s[i] = o[k - 1]
                      /\ i # L - 1 => s[i + 1] = o[k + 1]
      /\ i > k - 1 => /\ s[i] = o[i + 1] /\ (k > 1 => s[i] # o[k - 1])
                      /\ i # L - 1 => s[i + 1] = o[i + 2]
  BY <1>1, <1>2, <1>3, <1>4, <1>6
<1>8. /\ i < k => /\ s[i] = o[i] /\ (k < L => s[i] # o[k + 1])
                  /\ i # 1 => s[i - 1] = o[i - 1]
      /\ i = k => /\ k < L /\ s[i] = o[k + 1]
                  /\ i # 1 => s[i - 1] = o[k - 1]
      /\ i > k => /\ s[i] = o[i + 1] /\ s[i] # o[k + 1] /\ i # 1
                  /\ s[i - 1] = o[i]
  BY <1>1, <1>2, <1>3, <1>5, <1>6
<1> QED BY <1>1, <1>2, <1>3, <1>7, <1>8 DEF L, Around

(* Linking the cell at position k out: its neighbours, if any, become each   *)
(* other's.                                                                  *)
LEMMA UnlinkInv ==
  ASSUME Inv, NEW k \in 1..Len(order),
         order' = RemovedAt(order, k),
         allocated' = allocated \ {order[k]},
         size' = size - 1,
         first' = IF k > 1 THEN first ELSE IF Len(order) = 1 THEN NULL ELSE order[2],
         last' = IF k < Len(order) THEN last
                 ELSE IF Len(order) = 1 THEN NULL ELSE order[Len(order) - 1],
         value' = [value EXCEPT ![order[k]] = Wild],
         next' \in [Cell -> Pointer \union {Wild}],
         previous' \in [Cell -> Pointer \union {Wild}],
         \A x \in Cell \ {order[k]} : next'[x] =
           IF k > 1 /\ x = order[k - 1]
           THEN IF k = Len(order) THEN NULL ELSE order[k + 1] ELSE next[x],
         \A x \in Cell \ {order[k]} : previous'[x] =
           IF k < Len(order) /\ x = order[k + 1]
           THEN IF k = 1 THEN NULL ELSE order[k - 1] ELSE previous[x],
         at' = at, at # order[k], visited' \subseteq Cell, stable' \subseteq Cell
  PROVE  Inv'
<1> DEFINE s == RemovedAt(order, k)
<1> DEFINE L == Len(order)
<1>1. /\ L \in Nat /\ order \in Seq(Cell) /\ size = L /\ k \in 1..L
      /\ \A i \in 1..L : order[i] \in Cell
      /\ \A i, j \in 1..L : order[i] = order[j] => i = j
  BY InvFacts
<1>2. /\ s \in Seq(Cell) /\ Len(s) = L - 1 /\ Distinct(s)
      /\ Cells(s) = allocated'
      /\ \A i \in 1..L - 1 : s[i] = IF i < k THEN order[i] ELSE order[i + 1]
  <2>1. order \in Seq(Cell) /\ Distinct(order) /\ allocated = Cells(order)
    BY InvFacts
  <2>2. /\ RemovedAt(order, k) \in Seq(Cell)
        /\ Len(RemovedAt(order, k)) = Len(order) - 1
        /\ \A i \in 1..Len(order) - 1 :
             RemovedAt(order, k)[i] = IF i < k THEN order[i] ELSE order[i + 1]
        /\ Distinct(order) => /\ Cells(RemovedAt(order, k)) = Cells(order) \ {order[k]}
                              /\ Distinct(RemovedAt(order, k))
    BY <2>1, RemovedFacts
  <2> QED BY <2>1, <2>2
<1> HIDE DEF s
<1>3. /\ L = 1 => first' = NULL /\ last' = NULL
      /\ L > 1 => s[1] = first' /\ s[L - 1] = last'
  <2>1. L > 0 /\ first = order[1] /\ last = order[L]
    BY <1>1, InvFacts
  <2>2. L > 1 => s[1] = first'
    BY <1>1, <1>2, <2>1
  <2>3. L > 1 => s[L - 1] = last'
    BY <1>1, <1>2, <2>1
  <2> QED BY <1>1, <2>2, <2>3
<1>4. ASSUME NEW i \in 1..L - 1
      PROVE  /\ next'[s[i]] = IF i = L - 1 THEN NULL ELSE s[i + 1]
             /\ previous'[s[i]] = IF i = 1 THEN NULL ELSE s[i - 1]
  <2> DEFINE x == s[i]
  <2>1. /\ \E j \in 1..L : x = order[j] /\ j # k
        /\ x \in Cell /\ x # order[k]
        /\ i < k - 1 => /\ x = order[i] /\ x # order[k - 1] /\ i # L - 1
                        /\ s[i + 1] = order[i + 1] /\ i # L
        /\ i = k - 1 => /\ k > 1 /\ x = order[k - 1]
                        /\ i # L - 1 => s[i + 1] = order[k + 1]
        /\ i > k - 1 => /\ x = order[i + 1] /\ (k > 1 => x # order[k - 1])
                        /\ i # L - 1 => s[i + 1] = order[i + 2]
        /\ i < k => /\ x = order[i] /\ (k < L => x # order[k + 1])
                    /\ i # 1 => s[i - 1] = order[i - 1]
        /\ i = k => /\ k < L /\ x = order[k + 1]
                    /\ i # 1 => s[i - 1] = order[k - 1]
        /\ i > k => /\ x = order[i + 1] /\ x # order[k + 1] /\ i # 1
                    /\ s[i - 1] = order[i]
    <3>1. Around(order, s, k, i)
      BY <1>1, <1>2, RemovedNeighbours
    <3> QED BY <3>1 DEF Around
  <2>2. /\ next'[x] = IF k > 1 /\ x = order[k - 1]
                      THEN IF k = L THEN NULL ELSE order[k + 1] ELSE next[x]
        /\ previous'[x] = IF k < L /\ x = order[k + 1]
                          THEN IF k = 1 THEN NULL ELSE order[k - 1] ELSE previous[x]
    BY <2>1
  <2>3. \A j \in 1..L :
          /\ next[order[j]] = IF j = L THEN NULL ELSE order[j + 1]
          /\ previous[order[j]] = IF j = 1 THEN NULL ELSE order[j - 1]
    BY InvFacts
  <2> HIDE DEF L, x
  <2>4. next'[x] = IF i = L - 1 THEN NULL ELSE s[i + 1]
    <3>1. CASE i = k - 1
      BY <1>1, <2>1, <2>2, <3>1
    <3>2. CASE i < k - 1
      BY <1>1, <2>1, <2>2, <2>3, <3>2
    <3>3. CASE i > k - 1
      BY <1>1, <2>1, <2>2, <2>3, <3>3
    <3> QED BY <1>1, <3>1, <3>2, <3>3
  <2>5. previous'[x] = IF i = 1 THEN NULL ELSE s[i - 1]
    <3>1. CASE i = k
      BY <1>1, <2>1, <2>2, <3>1
    <3>2. CASE i < k
      BY <1>1, <2>1, <2>2, <2>3, <3>2
    <3>3. CASE i > k
      BY <1>1, <2>1, <2>2, <2>3, <3>3
    <3> QED BY <1>1, <3>1, <3>2, <3>3
  <2> QED BY <2>4, <2>5 DEF x, L
<1>6. value' \in [Cell -> Value \union {Wild}]
  BY DEF Inv, TypeOK
<1>7. ASSUME NEW i \in 1..L - 1
      PROVE  value'[s[i]] \in Value
  <2>1. s[i] \in Cell /\ s[i] # order[k] /\ \E j \in 1..L : s[i] = order[j]
    BY <1>1, <1>2, RemovedNeighbours DEF Around
  <2> QED BY <1>1, <2>1, InvFacts DEF Inv, TypeOK
<1>8. order' = s /\ size' = Len(s) /\ allocated' = Cells(s)
  BY <1>1, <1>2 DEF s
<1>9. at' = NULL \/ at' \in Cells(s)
  BY <1>2, InvFacts DEF Inv, OnList
<1> QED BY <1>1, <1>2, <1>3, <1>4, <1>6, <1>7, <1>8, <1>9, InvSuffices

(* The operations, each at its position.                                     *)
LEMMA AppendInv ==
  ASSUME Inv, NEW v \in Value, ListAppend(v)
  PROVE  Inv'
<1> PICK c \in Cell : append(c, v) /\ UNCHANGED iteration
  BY DEF ListAppend
<1> DEFINE k == Len(order) + 1
<1>1. /\ c \in Cell \ allocated /\ order' = InsertedAt(order, k, c)
      /\ allocated' = allocated \union {c} /\ size' = size + 1 /\ last' = c
      /\ value' = [value EXCEPT ![c] = v]
  BY DEF append, Alloc, AtEnd
<1>2. /\ next \in [Cell -> Pointer \union {Wild}] /\ previous \in [Cell -> Pointer \union {Wild}]
      /\ first \in Pointer /\ last \in Pointer
  BY DEF Inv, TypeOK
<1>3. CASE Len(order) = 0
  <2>1. first = NULL
    BY <1>3, InvFacts
  <2>2. /\ next' = [next EXCEPT ![c] = NULL] /\ previous' = [previous EXCEPT ![c] = NULL]
        /\ first' = c
    BY <2>1 DEF append
  <2>3. /\ next' \in [Cell -> Pointer \union {Wild}] /\ previous' \in [Cell -> Pointer \union {Wild}]
        /\ \A x \in Cell : /\ next'[x] = IF x = c THEN NULL ELSE next[x]
                           /\ previous'[x] = IF x = c THEN NULL ELSE previous[x]
    BY <1>1, <1>2, <2>2 DEF Pointer
  <2>4. k = 1 /\ k \in 1..Len(order) + 1
    BY <1>3
  <2>5. first' = (IF k = 1 THEN c ELSE first) /\ last' = IF k = Len(order) + 1 THEN c ELSE last
    BY <1>1, <2>2, <2>4
  <2>6. /\ \A x \in Cell : next'[x] =
           IF x = c THEN IF k = Len(order) + 1 THEN NULL ELSE order[k]
           ELSE IF k > 1 /\ x = order[k - 1] THEN c ELSE next[x]
        /\ \A x \in Cell : previous'[x] =
           IF x = c THEN IF k = 1 THEN NULL ELSE order[k - 1]
           ELSE IF k <= Len(order) /\ x = order[k] THEN c ELSE previous[x]
    BY <1>3, <2>3, <2>4
  <2> HIDE DEF k
  <2> QED BY <1>1, <2>3, <2>4, <2>5, <2>6, LinkInv
<1>4. CASE Len(order) # 0
  <2>1. first # NULL /\ last = order[k - 1] /\ last \in Cell /\ last # c /\ k > 1 /\ k \in Nat
    BY <1>1, <1>4, InvFacts
  <2>2. /\ next' = [next EXCEPT ![c] = NULL, ![last] = c]
        /\ previous' = [previous EXCEPT ![c] = last] /\ first' = first
    BY <2>1 DEF append
  <2>3. /\ next' \in [Cell -> Pointer \union {Wild}] /\ previous' \in [Cell -> Pointer \union {Wild}]
        /\ \A x \in Cell :
             /\ next'[x] = IF x = c THEN NULL ELSE IF x = last THEN c ELSE next[x]
             /\ previous'[x] = IF x = c THEN last ELSE previous[x]
    BY <1>1, <1>2, <2>1, <2>2 DEF Pointer
  <2>4. k \in 1..Len(order) + 1 /\ k # 1 /\ ~(k <= Len(order))
    BY <1>4, InvFacts
  <2> QED BY <1>1, <2>1, <2>2, <2>3, <2>4, LinkInv
<1> QED BY <1>3, <1>4

LEMMA PrependInv ==
  ASSUME Inv, NEW v \in Value, ListPrepend(v)
  PROVE  Inv'
<1> PICK c \in Cell : prepend(c, v) /\ UNCHANGED iteration
  BY DEF ListPrepend
<1>1. /\ c \in Cell \ allocated /\ order' = InsertedAt(order, 1, c)
      /\ allocated' = allocated \union {c} /\ size' = size + 1 /\ first' = c
      /\ value' = [value EXCEPT ![c] = v]
  BY DEF prepend, Alloc, AtFront
<1>2. /\ next \in [Cell -> Pointer \union {Wild}] /\ previous \in [Cell -> Pointer \union {Wild}]
      /\ first \in Pointer /\ last \in Pointer
  BY DEF Inv, TypeOK
<1>3. CASE Len(order) = 0
  <2>1. first = NULL
    BY <1>3, InvFacts
  <2>2. /\ next' = [next EXCEPT ![c] = NULL] /\ previous' = [previous EXCEPT ![c] = NULL]
        /\ last' = c
    BY <2>1 DEF prepend
  <2>3. /\ next' \in [Cell -> Pointer \union {Wild}] /\ previous' \in [Cell -> Pointer \union {Wild}]
        /\ \A x \in Cell : /\ next'[x] = IF x = c THEN NULL ELSE next[x]
                           /\ previous'[x] = IF x = c THEN NULL ELSE previous[x]
    BY <1>1, <1>2, <2>2 DEF Pointer
  <2>4. 1 \in 1..Len(order) + 1
    BY <1>3
  <2>5. first' = (IF 1 = 1 THEN c ELSE first) /\ last' = IF 1 = Len(order) + 1 THEN c ELSE last
    BY <1>1, <1>3, <2>2
  <2>6. /\ \A x \in Cell : next'[x] =
           IF x = c THEN IF 1 = Len(order) + 1 THEN NULL ELSE order[1]
           ELSE IF 1 > 1 /\ x = order[1 - 1] THEN c ELSE next[x]
        /\ \A x \in Cell : previous'[x] =
           IF x = c THEN IF 1 = 1 THEN NULL ELSE order[1 - 1]
           ELSE IF 1 <= Len(order) /\ x = order[1] THEN c ELSE previous[x]
    BY <1>3, <2>3
  <2> QED BY <1>1, <2>3, <2>4, <2>5, <2>6, LinkInv
<1>4. CASE Len(order) # 0
  <2>1. first # NULL /\ first = order[1] /\ first \in Cell /\ first # c
    BY <1>1, <1>4, InvFacts
  <2>2. /\ next' = [next EXCEPT ![c] = first]
        /\ previous' = [previous EXCEPT ![c] = NULL, ![first] = c] /\ last' = last
    BY <2>1 DEF prepend
  <2>3. /\ next' \in [Cell -> Pointer \union {Wild}] /\ previous' \in [Cell -> Pointer \union {Wild}]
        /\ \A x \in Cell :
             /\ next'[x] = IF x = c THEN first ELSE next[x]
             /\ previous'[x] = IF x = c THEN NULL ELSE IF x = first THEN c ELSE previous[x]
    BY <1>1, <1>2, <2>1, <2>2 DEF Pointer
  <2>4. 1 \in 1..Len(order) + 1 /\ 1 # Len(order) + 1 /\ 1 <= Len(order)
    BY <1>4, InvFacts
  <2>5. first' = (IF 1 = 1 THEN c ELSE first) /\ last' = IF 1 = Len(order) + 1 THEN c ELSE last
    BY <1>1, <2>2, <2>4
  <2>6. /\ \A x \in Cell : next'[x] =
           IF x = c THEN IF 1 = Len(order) + 1 THEN NULL ELSE order[1]
           ELSE IF 1 > 1 /\ x = order[1 - 1] THEN c ELSE next[x]
        /\ \A x \in Cell : previous'[x] =
           IF x = c THEN IF 1 = 1 THEN NULL ELSE order[1 - 1]
           ELSE IF 1 <= Len(order) /\ x = order[1] THEN c ELSE previous[x]
    BY <2>1, <2>3, <2>4
  <2> QED BY <1>1, <2>3, <2>4, <2>5, <2>6, LinkInv, ZenonT(30)
<1> QED BY <1>3, <1>4

LEMMA InsertBeforeInv ==
  ASSUME Inv, NEW v \in Value, NEW d \in Cell, InsertBefore(v, d)
  PROVE  Inv'
<1> PICK c \in Cell : insert_before(c, v, d) /\ UNCHANGED iteration
  BY DEF InsertBefore
<1> DEFINE k == Position(order, d)
<1>1. /\ c \in Cell \ allocated /\ order' = InsertedAt(order, k, c)
      /\ allocated' = allocated \union {c} /\ size' = size + 1 /\ last' = last
      /\ value' = [value EXCEPT ![c] = v]
      /\ d \in Cells(order)
      /\ previous' = [previous EXCEPT ![c] = previous[d], ![d] = c]
  BY DEF insert_before, Alloc, Before
<1>2. /\ next \in [Cell -> Pointer \union {Wild}] /\ previous \in [Cell -> Pointer \union {Wild}]
      /\ first \in Pointer /\ last \in Pointer
  BY DEF Inv, TypeOK
<1>3. k \in DOMAIN order /\ order[k] = d
  BY <1>1, PositionFacts
<1> HIDE DEF k
<1>4. /\ k \in 1..Len(order) /\ Len(order) \in Nat /\ d \in allocated /\ d # c
      /\ previous[d] = IF k = 1 THEN NULL ELSE order[k - 1]
      /\ first = order[1]
  BY <1>1, <1>3, InvFacts
<1>5. k \in 1..Len(order) + 1 /\ k # Len(order) + 1 /\ k <= Len(order)
  BY <1>4
<1>6. CASE k = 1
  <2>1. next' = [next EXCEPT ![c] = d] /\ first' = c
    BY <1>4, <1>6 DEF insert_before
  <2>2. /\ next' \in [Cell -> Pointer \union {Wild}] /\ previous' \in [Cell -> Pointer \union {Wild}]
        /\ \A x \in Cell :
             /\ next'[x] = IF x = c THEN d ELSE next[x]
             /\ previous'[x] = IF x = c THEN NULL ELSE IF x = d THEN c ELSE previous[x]
    BY <1>1, <1>2, <1>4, <1>6, <2>1 DEF Pointer
  <2>3. first' = (IF k = 1 THEN c ELSE first) /\ last' = IF k = Len(order) + 1 THEN c ELSE last
    BY <1>1, <1>5, <1>6, <2>1
  <2>4. /\ \A x \in Cell : next'[x] =
           IF x = c THEN IF k = Len(order) + 1 THEN NULL ELSE order[k]
           ELSE IF k > 1 /\ x = order[k - 1] THEN c ELSE next[x]
        /\ \A x \in Cell : previous'[x] =
           IF x = c THEN IF k = 1 THEN NULL ELSE order[k - 1]
           ELSE IF k <= Len(order) /\ x = order[k] THEN c ELSE previous[x]
    BY <1>3, <1>5, <1>6, <2>2
  <2>5. /\ c \in Cell \ allocated /\ order' = InsertedAt(order, k, c)
        /\ allocated' = allocated \union {c} /\ size' = size + 1
        /\ value' = [value EXCEPT ![c] = v] /\ k \in 1..Len(order) + 1
    BY <1>1, <1>5
  <2>6. /\ next' \in [Cell -> Pointer \union {Wild}]
        /\ previous' \in [Cell -> Pointer \union {Wild}]
    BY <2>2
  <2> QED BY <2>3, <2>4, <2>5, <2>6, LinkInv, ZenonT(30)
<1>7. CASE k # 1
  <2> DEFINE p == order[k - 1]
  <2>1. k - 1 \in 1..Len(order) /\ k > 1
    BY <1>4, <1>7
  <2>2. p \in Cell /\ p \in allocated /\ p # c /\ p # NULL /\ previous[d] = p
    BY <1>1, <1>4, <1>7, <2>1, InvFacts
  <2> HIDE DEF p
  <2>3. next' = [next EXCEPT ![c] = d, ![p] = c] /\ first' = first
    BY <2>2 DEF insert_before
  <2>4. /\ next' \in [Cell -> Pointer \union {Wild}] /\ previous' \in [Cell -> Pointer \union {Wild}]
        /\ \A x \in Cell :
             /\ next'[x] = IF x = c THEN d ELSE IF x = p THEN c ELSE next[x]
             /\ previous'[x] = IF x = c THEN p ELSE IF x = d THEN c ELSE previous[x]
    BY <1>1, <1>2, <1>4, <2>2, <2>3 DEF Pointer
  <2> QED BY <1>1, <1>3, <1>5, <1>7, <2>1, <2>3, <2>4, LinkInv, ZenonT(30) DEF p
<1> QED BY <1>6, <1>7

LEMMA RemoveInv ==
  ASSUME Inv, NEW c \in Cells(order), remove(c)
  PROVE  Inv'
<1> DEFINE k == Position(order, c)
<1>1. k \in DOMAIN order /\ order[k] = c
  BY PositionFacts
<1>2. /\ order' = RemovedAt(order, k) /\ allocated' = allocated \ {c} /\ size' = size - 1
      /\ value' = [value EXCEPT ![c] = Wild] /\ at' = at /\ at # c
      /\ visited' \subseteq Cell /\ stable' \subseteq Cell
  BY DEF remove, Without, Inv, TypeOK
<1>3. /\ next \in [Cell -> Pointer \union {Wild}] /\ previous \in [Cell -> Pointer \union {Wild}]
  BY DEF Inv, TypeOK
<1> HIDE DEF k
<1> DEFINE L == Len(order)
<1>4. /\ L \in Nat /\ k \in 1..L /\ c \in Cell
      /\ first = order[1] /\ last = order[L]
      /\ next[c] = IF k = L THEN NULL ELSE order[k + 1]
      /\ previous[c] = IF k = 1 THEN NULL ELSE order[k - 1]
      /\ first = c <=> k = 1
      /\ last = c <=> k = L
      /\ k < L => order[k + 1] \in Cell /\ order[k + 1] # c
      /\ k > 1 => order[k - 1] \in Cell /\ order[k - 1] # c
  BY <1>1, InvFacts
<1> DEFINE n == IF k = L THEN NULL ELSE order[k + 1]
           p == IF k = 1 THEN NULL ELSE order[k - 1]
<1>5. /\ next[c] = n /\ previous[c] = p
      /\ k # L => n \in Cell /\ n # c /\ n = order[k + 1]
      /\ k # 1 => p \in Cell /\ p # c /\ p = order[k - 1]
      /\ k = L => n = NULL
      /\ k = 1 => p = NULL
  BY <1>4
<1> HIDE DEF n, p
<1>6. /\ first' = IF k = 1 THEN n ELSE first
      /\ last' = IF k = L THEN p ELSE last
      /\ next' = IF k = 1 THEN [next EXCEPT ![c] = Wild]
                 ELSE [next EXCEPT ![p] = n, ![c] = Wild]
      /\ previous' = IF k = L THEN [previous EXCEPT ![c] = Wild]
                     ELSE [previous EXCEPT ![n] = p, ![c] = Wild]
  <2>1. Unlink(c)
    BY DEF remove
  <2> HIDE DEF L
  <2>2. CASE first = c /\ last = c
    BY <1>4, <1>5, <2>1, <2>2 DEF Unlink
  <2>3. CASE first = c /\ last # c
    BY <1>4, <1>5, <2>1, <2>3 DEF Unlink
  <2>4. CASE first # c /\ last = c
    BY <1>4, <1>5, <2>1, <2>4 DEF Unlink
  <2>5. CASE first # c /\ last # c
    BY <1>4, <1>5, <2>1, <2>5 DEF Unlink
  <2> QED BY <2>2, <2>3, <2>4, <2>5
<1>7. /\ next' \in [Cell -> Pointer \union {Wild}]
      /\ \A x \in Cell \ {c} : next'[x] = IF k # 1 /\ x = p THEN n ELSE next[x]
  BY <1>3, <1>4, <1>5, <1>6 DEF Pointer
<1>8. /\ previous' \in [Cell -> Pointer \union {Wild}]
      /\ \A x \in Cell \ {c} : previous'[x] = IF k # L /\ x = n THEN p ELSE previous[x]
  BY <1>3, <1>4, <1>5, <1>6 DEF Pointer
<1>9. /\ first' = IF k > 1 THEN first ELSE IF L = 1 THEN NULL ELSE order[2]
      /\ last' = IF k < L THEN last ELSE IF L = 1 THEN NULL ELSE order[L - 1]
  <2>1. k = 1 => first' = IF L = 1 THEN NULL ELSE order[2]
    <3>1. k = 1 /\ L # 1 => n = order[2]
      BY <1>5
    <3> QED BY <1>5, <1>6, <3>1
  <2>2. k = L => last' = IF L = 1 THEN NULL ELSE order[L - 1]
    <3>1. k = L /\ L # 1 => p = order[L - 1]
      BY <1>5
    <3> QED BY <1>5, <1>6, <3>1
  <2>3. k # 1 => first' = first /\ k > 1
    BY <1>4, <1>6
  <2>4. k # L => last' = last /\ k < L
    BY <1>4, <1>6
  <2>5. (k > 1 => k # 1) /\ (k < L => k # L)
    BY <1>4
  <2> HIDE DEF L
  <2> QED BY <2>1, <2>2, <2>3, <2>4, <2>5
<1>10. /\ \A x \in Cell \ {order[k]} : next'[x] =
            IF k > 1 /\ x = order[k - 1] THEN IF k = L THEN NULL ELSE order[k + 1] ELSE next[x]
       /\ \A x \in Cell \ {order[k]} : previous'[x] =
            IF k < L /\ x = order[k + 1] THEN IF k = 1 THEN NULL ELSE order[k - 1] ELSE previous[x]
  BY <1>1, <1>4, <1>5, <1>7, <1>8
<1> QED BY <1>1, <1>2, <1>4, <1>7, <1>8, <1>9, <1>10, UnlinkInv

(* The loop of destroy_list() reaches every cell of the list.                *)
LEMMA ReachesAll ==
  ASSUME Inv, NEW i \in 1..Len(order)
  PROVE  order[i] \in Reachable
<1> SUFFICES ASSUME NEW S \in SUBSET Cell, first \in S, ClosedUnderNext(S)
             PROVE  order[i] \in S
  BY InvFacts DEF Reachable
<1> SUFFICES ASSUME order[i] \notin S PROVE FALSE
  OBVIOUS
<1> DEFINE T == {j \in Nat : j \in 1..Len(order) /\ order[j] \notin S}
<1>1. \E j \in T : \A m \in T : ~(<<m, j>> \in OpToRel(<, Nat))
  <2>1. T \subseteq Nat /\ i \in T
    BY InvFacts
  <2> QED BY <2>1, NatLessThanWellFounded, WFMin
<1>2. PICK j \in T : \A m \in T : ~(m < j)
  BY <1>1 DEF OpToRel
<1>3. j # 1
  BY <1>2, InvFacts
<1>4. j - 1 \in 1..Len(order) /\ j - 1 < j /\ j \in 1..Len(order)
  BY <1>2, <1>3, InvFacts
<1>5. order[j - 1] \in S
  BY <1>2, <1>4
<1>6. next[order[j - 1]] = order[j] /\ order[j] \in Cell
  BY <1>4, InvFacts
<1> QED BY <1>2, <1>5, <1>6 DEF ClosedUnderNext

LEMMA DestroyInv ==
  ASSUME Inv, Destroy
  PROVE  Inv'
<1>1. allocated \subseteq Reachable
  BY ReachesAll, InvFacts DEF Cells
<1>2. /\ allocated' = {} /\ order' = <<>> /\ size' = 0 /\ first' = NULL /\ last' = NULL
      /\ at' = NULL /\ visited' \subseteq Cell /\ stable' \subseteq Cell
  BY <1>1 DEF Destroy, iteration, Inv, TypeOK
<1>3. /\ value' \in [Cell -> Value \union {Wild}]
      /\ previous' \in [Cell -> Pointer \union {Wild}]
      /\ next' \in [Cell -> Pointer \union {Wild}]
  BY DEF Destroy, Inv, TypeOK
<1>4. <<>> \in Seq(Cell) /\ Cells(<<>>) = {} /\ Distinct(<<>>) /\ Len(<<>>) = 0
  BY DEF Cells, Distinct
<1> QED BY <1>2, <1>3, <1>4 DEF Inv, OnList, TypeOK, ListInv, Represents, Pointer

(* The iteration changes nothing in the list.                                *)
LEMMA IterationInv ==
  ASSUME Inv, UNCHANGED list, at' = NULL \/ at' \in Cells(order),
         visited' \subseteq Cell, stable' \subseteq Cell
  PROVE  Inv'
<1>1. Cells(order) \subseteq Cell
  BY InvFacts DEF Cells
<1>2. Represents(order)' /\ Distinct(order)'
  BY DEF list, fields, Inv, ListInv, Represents
<1> QED BY <1>1, <1>2 DEF list, fields, Inv, OnList, TypeOK, ListInv, Pointer

LEMMA StepInv == Inv /\ [Next]_vars => Inv'
<1> SUFFICES ASSUME Inv, [Next]_vars PROVE Inv'
  OBVIOUS
<1>1. ASSUME NEW v \in Value, ListAppend(v) PROVE Inv'
  BY <1>1, AppendInv
<1>2. ASSUME NEW v \in Value, ListPrepend(v) PROVE Inv'
  BY <1>2, PrependInv
<1>3. ASSUME NEW v \in Value, NEW d \in Cell, InsertBefore(v, d) PROVE Inv'
  BY <1>3, InsertBeforeInv
<1>4. ASSUME NEW c \in Cell, Remove(c) PROVE Inv'
  BY <1>4, RemoveInv DEF Remove
<1>5. CASE PopFirst
  <2>1. first \in Cells(order)
    BY <1>5, InvFacts DEF PopFirst, Cells
  <2> QED BY <1>5, <2>1, RemoveInv DEF PopFirst
<1>6. CASE PopLast
  <2>1. last \in Cells(order)
    BY <1>6, InvFacts DEF PopLast, Cells
  <2> QED BY <1>6, <2>1, RemoveInv DEF PopLast
<1>7. CASE Destroy
  BY <1>7, DestroyInv
<1>8. CASE Foreach
  <2>1. first \in Cells(order) /\ Cells(order) \subseteq Cell
    BY <1>8, InvFacts DEF Foreach, Cells
  <2> QED BY <1>8, <2>1, IterationInv DEF Foreach
<1>9. CASE Advance
  <2>1. at \in Cells(order) /\ Cells(order) \subseteq Cell
    BY <1>9, InvFacts DEF Advance, Inv, OnList, Cells
  <2>2. PICK i \in 1..Len(order) : at = order[i]
    BY <2>1, InvFacts DEF Cells
  <2>3. next[at] = NULL \/ next[at] \in Cells(order)
    BY <2>2, InvFacts DEF Cells
  <2>4. visited' \subseteq Cell /\ stable' \subseteq Cell
    BY <1>9, <2>1, <2>3 DEF Advance, Inv, TypeOK
  <2> QED BY <1>9, <2>3, <2>4, IterationInv DEF Advance
<1>10. CASE UNCHANGED vars
  BY <1>10, IterationInv DEF vars, iteration, Inv, OnList, TypeOK
<1> QED BY <1>1, <1>2, <1>3, <1>4, <1>5, <1>6, <1>7, <1>8, <1>9, <1>10 DEF Next

LEMMA InvHolds == Spec => []Inv
  BY InitInv, StepInv, PTL DEF Spec

(* After any history of calls, and of callbacks during list_foreach(), the   *)
(* pointers of list.c spell out the sequence of the elements in both         *)
(* directions, and the allocated cells are exactly those of the list.        *)
THEOREM ListCorrect == Spec => []ListInv
<1>1. Inv => ListInv
  BY DEF Inv
<1> QED BY <1>1, InvHolds, PTL

(* The fields of the list and of its cells keep to their types, also when    *)
(* list_foreach() follows the next pointer of an element after its callback. *)
THEOREM TypeCorrect == Spec => []TypeOK
<1>1. Inv => TypeOK
  BY DEF Inv
<1> QED BY <1>1, InvHolds, PTL
------------------------------------------------------------------------------
(* Where list_foreach() has come to: the stable cells up to at, and no cell  *)
(* behind it, have been given to the callback.                               *)
Traversal ==
  /\ visited \subseteq Cells(order) /\ stable \subseteq Cells(order)
  /\ IF at = NULL THEN visited = {} /\ stable = {}
     ELSE \E p \in 1..Len(order) : order[p] = at /\ Scanned(order, p, visited, stable)

(* A new cell in the list moves at by a place, if it comes before it.        *)
LEMMA LinkTraversal ==
  ASSUME Inv, Traversal, NEW c \in Cell \ allocated, NEW k \in 1..Len(order) + 1,
         order' = InsertedAt(order, k, c), UNCHANGED iteration
  PROVE  Traversal'
<1>1. /\ order \in Seq(Cell) /\ Len(order) \in Nat /\ DOMAIN order = 1..Len(order)
      /\ c \in Cell /\ c \notin Cells(order) /\ at' = at /\ visited' = visited /\ stable' = stable
  BY InvFacts DEF iteration
<1>2. /\ InsertedAt(order, k, c) \in Seq(Cell)
      /\ Len(InsertedAt(order, k, c)) = Len(order) + 1
      /\ \A i \in 1..Len(order) + 1 :
           InsertedAt(order, k, c)[i] =
             IF i < k THEN order[i] ELSE IF i = k THEN c ELSE order[i - 1]
      /\ Cells(InsertedAt(order, k, c)) = Cells(order) \union {c}
      /\ Distinct(order) /\ c \notin Cells(order) => Distinct(InsertedAt(order, k, c))
  BY <1>1, InsertedFacts
<1>3. c \notin visited /\ c \notin stable
  BY <1>1 DEF Traversal
<1>4. CASE at # NULL
  <2>1. PICK p \in 1..Len(order) : order[p] = at /\ Scanned(order, p, visited, stable)
    BY <1>4 DEF Traversal
  <2> DEFINE q == IF k <= p THEN p + 1 ELSE p
  <2>2. Scanned(InsertedAt(order, k, c), q, visited, stable)
    BY <1>1, <1>3, <2>1, InsertedScanned
  <2>3. q \in 1..Len(order) + 1 /\ InsertedAt(order, k, c)[q] = at
    BY <1>1, <1>2, <2>1
  <2> HIDE DEF q
  <2> QED BY <1>1, <1>2, <1>4, <2>2, <2>3 DEF Traversal
<1> QED BY <1>1, <1>2, <1>4 DEF Traversal

LEMMA UnlinkTraversal ==
  ASSUME Inv, Traversal, NEW c \in Cells(order), remove(c)
  PROVE  Traversal'
<1> DEFINE k == Position(order, c)
<1>1. k \in DOMAIN order /\ order[k] = c
  BY PositionFacts
<1>2. /\ order' = RemovedAt(order, k) /\ at' = at /\ at # c
      /\ visited' = visited \ {c} /\ stable' = stable \ {c}
  BY DEF remove, Without
<1> HIDE DEF k
<1>3. /\ order \in Seq(Cell) /\ Len(order) \in Nat /\ DOMAIN order = 1..Len(order)
      /\ Distinct(order) /\ k \in 1..Len(order)
  BY <1>1, InvFacts
<1>4. /\ Len(RemovedAt(order, k)) = Len(order) - 1
      /\ \A i \in 1..Len(order) - 1 :
           RemovedAt(order, k)[i] = IF i < k THEN order[i] ELSE order[i + 1]
      /\ Distinct(order) => Cells(RemovedAt(order, k)) = Cells(order) \ {order[k]}
  BY <1>3, RemovedFacts
<1>5. CASE at # NULL
  <2>1. PICK p \in 1..Len(order) : order[p] = at /\ Scanned(order, p, visited, stable)
    BY <1>5 DEF Traversal
  <2> DEFINE q == IF k <= p THEN p - 1 ELSE p
  <2>2. Scanned(RemovedAt(order, k), q, visited \ {order[k]}, stable \ {order[k]})
    <3>1. p \in 0..Len(order)
      BY <1>3
    <3> QED BY <1>3, <2>1, <3>1, RemovedScanned
  <2>3. k # p
    BY <1>1, <1>2, <2>1
  <2>4. q \in 1..Len(order) - 1 /\ RemovedAt(order, k)[q] = at
    BY <1>3, <1>4, <2>1, <2>3
  <2> HIDE DEF q
  <2> QED BY <1>1, <1>2, <1>3, <1>4, <1>5, <2>2, <2>4 DEF Traversal
<1> QED BY <1>1, <1>2, <1>3, <1>4, <1>5 DEF Traversal

LEMMA ForeachTraversal ==
  ASSUME Inv, Foreach
  PROVE  Traversal'
<1>1. Len(order) \in 1..Len(order) /\ 1 \in 1..Len(order) /\ first = order[1] /\ first # NULL
      /\ order \in Seq(Cell)
  BY InvFacts DEF Foreach
<1>2. visited' = {order[1]} /\ stable' = Cells(order) /\ at' = order[1] /\ order' = order
  BY <1>1 DEF Foreach, list
<1>3. \A i \in 1..Len(order) : order[i] = order[1] <=> i = 1
  BY <1>1, InvFacts
<1>4. Scanned(order, 1, {order[1]}, Cells(order))
  BY <1>1, <1>3, InvFacts DEF Scanned
<1>5. order[1] \in Cells(order)
  BY <1>1, InvFacts DEF Cells
<1> QED BY <1>1, <1>2, <1>4, <1>5 DEF Traversal

LEMMA AdvanceTraversal ==
  ASSUME Inv, Traversal, Advance
  PROVE  /\ Traversal'
         /\ IF at' = NULL THEN stable \subseteq visited ELSE at' \notin visited
<1>1. PICK p \in 1..Len(order) : order[p] = at /\ Scanned(order, p, visited, stable)
  BY DEF Advance, Traversal
<1>2. at' = (IF p = Len(order) THEN NULL ELSE order[p + 1]) /\ order' = order
  BY <1>1, InvFacts DEF Advance, list
<1>3. Len(order) \in Nat /\ DOMAIN order = 1..Len(order)
  BY InvFacts
<1>4. CASE p = Len(order)
  <2>1. stable \subseteq visited
    <3> SUFFICES ASSUME NEW c \in stable PROVE c \in visited
      OBVIOUS
    <3>1. PICK i \in DOMAIN order : c = order[i]
      BY DEF Traversal, Cells
    <3> QED BY <1>1, <1>4, <1>3, <3>1 DEF Scanned
  <2> QED BY <1>2, <1>4, <2>1 DEF Advance, Traversal
<1>5. CASE p # Len(order)
  <2>0. PICK n \in 1..Len(order) : n = p + 1
    <3> DEFINE L == Len(order)
    <3>0. L \in Nat /\ p \in 1..L /\ p # L
      BY <1>5, InvFacts
    <3> HIDE DEF L
    <3>1. p + 1 \in 1..L
      BY <3>0
    <3> QED BY <3>1 DEF L
  <2>1. at' = order[n] /\ order[n] \in Cell /\ order[n] # NULL
    <3>1. at' = order[n]
      BY <1>2, <1>5, <2>0, Zenon
    <3> QED BY <3>1, InvFacts
  <2>2. at' \notin visited
    <3>1. ~(n <= p) /\ n \in DOMAIN order
      BY <1>3, <2>0
    <3> QED BY <1>1, <2>1, <3>1 DEF Scanned
  <2>3. visited' = visited \union {order[n]} /\ stable' = stable
    BY <2>1 DEF Advance
  <2>4. ASSUME NEW i \in DOMAIN order
        PROVE  /\ i <= n /\ order[i] \in stable => order[i] \in visited'
               /\ order[i] \in visited' => i <= n
    <3>1. CASE i = n
      BY <1>3, <2>3, <3>1
    <3>2. CASE i # n
      <4>1. i \in 1..Len(order) /\ (i <= n <=> i <= p)
        BY <1>3, <2>0, <3>2
      <4>2. order[i] # order[n]
        BY <3>2, <4>1, InvFacts
      <4> QED BY <1>1, <2>3, <4>1, <4>2 DEF Scanned
    <3> QED BY <3>1, <3>2
  <2>5. Scanned(order, n, visited', stable')
    BY <2>3, <2>4 DEF Scanned
  <2>6. order[n] \in Cells(order)
    BY <1>3, <2>1 DEF Cells
  <2> QED BY <1>2, <2>1, <2>2, <2>3, <2>5, <2>6 DEF Traversal
<1> QED BY <1>4, <1>5

LEMMA StepTraversal == Inv /\ Traversal /\ [Next]_vars => Traversal'
<1> SUFFICES ASSUME Inv, Traversal, [Next]_vars PROVE Traversal'
  OBVIOUS
<1>1. ASSUME NEW v \in Value, ListAppend(v) PROVE Traversal'
  <2>1. PICK c \in Cell : append(c, v) /\ UNCHANGED iteration
    BY <1>1 DEF ListAppend
  <2>2. c \in Cell \ allocated /\ order' = InsertedAt(order, Len(order) + 1, c)
        /\ Len(order) + 1 \in 1..Len(order) + 1
    BY <2>1, InvFacts DEF append, Alloc, AtEnd
  <2> QED BY <2>1, <2>2, LinkTraversal
<1>2. ASSUME NEW v \in Value, ListPrepend(v) PROVE Traversal'
  <2>1. PICK c \in Cell : prepend(c, v) /\ UNCHANGED iteration
    BY <1>2 DEF ListPrepend
  <2>2. c \in Cell \ allocated /\ order' = InsertedAt(order, 1, c)
        /\ 1 \in 1..Len(order) + 1
    BY <2>1, InvFacts DEF prepend, Alloc, AtFront
  <2> QED BY <2>1, <2>2, LinkTraversal
<1>3. ASSUME NEW v \in Value, NEW d \in Cell, InsertBefore(v, d) PROVE Traversal'
  <2>1. PICK c \in Cell : insert_before(c, v, d) /\ UNCHANGED iteration
    BY <1>3 DEF InsertBefore
  <2>2. c \in Cell \ allocated /\ order' = InsertedAt(order, Position(order, d), c)
        /\ Position(order, d) \in 1..Len(order) + 1
    BY <2>1, InvFacts, PositionFacts DEF insert_before, Alloc, Before
  <2> QED BY <2>1, <2>2, LinkTraversal
<1>4. ASSUME NEW c \in Cell, Remove(c) PROVE Traversal'
  BY <1>4, UnlinkTraversal DEF Remove
<1>5. CASE PopFirst
  <2>1. first \in Cells(order)
    BY <1>5, InvFacts DEF PopFirst, Cells
  <2> QED BY <1>5, <2>1, UnlinkTraversal DEF PopFirst
<1>6. CASE PopLast
  <2>1. last \in Cells(order)
    BY <1>6, InvFacts DEF PopLast, Cells
  <2> QED BY <1>6, <2>1, UnlinkTraversal DEF PopLast
<1>7. CASE Destroy
  BY <1>7 DEF Destroy, Traversal, iteration
<1>8. CASE Foreach
  BY <1>8, ForeachTraversal
<1>9. CASE Advance
  BY <1>9, AdvanceTraversal
<1>10. CASE UNCHANGED vars
  BY <1>10 DEF vars, list, iteration, Traversal
<1> QED BY <1>1, <1>2, <1>3, <1>4, <1>5, <1>6, <1>7, <1>8, <1>9, <1>10 DEF Next

(* list_foreach() gives its callback every element that stays in the list,   *)
(* and none twice, whatever the callback itself inserts and removes.         *)
THEOREM VisitsCorrect == Spec => VisitsEachOnce
<1> DEFINE Visit == at # NULL /\ at' # at =>
                      IF at' = NULL THEN stable \subseteq visited
                      ELSE at' \notin stable \intersect visited
<1>1. Init => Traversal
  BY DEF Init, Traversal
<1>2. Inv /\ Traversal /\ [Next]_vars => [Visit]_vars
  <2> SUFFICES ASSUME Inv, Traversal, Next, at # NULL, at' # at PROVE Visit
    OBVIOUS
  <2>1. Advance
    BY DEF Next, ListAppend, ListPrepend, InsertBefore, Remove, PopFirst, PopLast, Destroy,
           Foreach, remove, iteration
  <2> QED BY <2>1, AdvanceTraversal
<1> HIDE DEF Visit
<1>3. Inv /\ Traversal /\ [Next]_vars => Traversal'
  BY StepTraversal
<1>4. Spec => [][Visit]_vars
  BY <1>1, <1>2, <1>3, InvHolds, PTL DEF Spec
<1> QED BY <1>4 DEF VisitsEachOnce, Visit
------------------------------------------------------------------------------
(* The walk along the next pointers, step by step: what it comes to at i.    *)
Walked(f, i) == f[i] = IF i = 0 THEN first
                       ELSE IF f[i - 1] \in Cell THEN next[f[i - 1]] ELSE NULL

LEMMA NthWalks ==
  ASSUME Inv
  PROVE  \A i \in Nat : Walked(nth, i)
<1> DEFINE f == [i \in Nat |-> IF i < Len(order) THEN order[i + 1] ELSE NULL]
           Step(g) == [i \in Nat |-> IF i = 0 THEN first
                                     ELSE IF g[i - 1] \in Cell THEN next[g[i - 1]] ELSE NULL]
<1>1. ASSUME NEW i \in Nat PROVE Walked(f, i)
  <2> DEFINE L == Len(order)
  <2>1. L \in Nat /\ (i = 0 \/ i - 1 \in Nat)
    BY InvFacts
  <2> HIDE DEF L
  <2>2. f[i] = (IF i < L THEN order[i + 1] ELSE NULL)
    BY DEF L
  <2>3. i # 0 => f[i - 1] = IF i - 1 < L THEN order[i] ELSE NULL
    <3>1. i # 0 => f[i - 1] = IF i - 1 < L THEN order[(i - 1) + 1] ELSE NULL
      BY <2>1 DEF L
    <3> QED BY <2>1, <3>1
  <2> HIDE DEF f
  <2>4. CASE i = 0
    <3>1. L = 0 => first = NULL
      BY InvFacts DEF L
    <3>2. L > 0 => first = order[1]
      BY InvFacts DEF L
    <3> QED BY <2>1, <2>2, <2>4, <3>1, <3>2 DEF Walked
  <2>5. CASE i # 0 /\ i - 1 < L
    <3>1. i \in 1..L
      BY <2>1, <2>5
    <3>2. order[i] \in Cell /\ next[order[i]] = IF i = L THEN NULL ELSE order[i + 1]
      BY <3>1, InvFacts DEF L
    <3>3. i < L <=> i # L
      BY <2>1, <3>1
    <3>4. f[i - 1] = order[i]
      BY <2>3, <2>5
    <3> QED BY <2>2, <2>5, <3>2, <3>3, <3>4 DEF Walked
  <2>6. CASE i # 0 /\ ~(i - 1 < L)
    <3>1. ~(i < L)
      BY <2>1, <2>6
    <3>2. f[i - 1] = NULL
      BY <2>3, <2>6
    <3> QED BY <2>2, <2>6, <3>1, <3>2 DEF Walked
  <2> QED BY <2>4, <2>5, <2>6
<1>2. f = Step(f)
  BY <1>1 DEF Walked
<1> HIDE DEF f
<1>3. nth = Step(nth)
  BY <1>2 DEF nth
<1>4. ASSUME NEW i \in Nat PROVE Walked(nth, i)
  BY <1>3 DEF Walked
<1> QED BY <1>4

(* It comes to the cells of the list, one after another, and then to NULL.   *)
LEMMA NthFacts ==
  ASSUME Inv, NEW i \in Nat
  PROVE  nth[i] = IF i < Len(order) THEN order[i + 1] ELSE NULL
<1> DEFINE L == Len(order)
           Right(j) == nth[j] = IF j < L THEN order[j + 1] ELSE NULL
           T == {j \in Nat : ~Right(j)}
<1>0. L \in Nat
  BY InvFacts
<1> HIDE DEF L
<1> SUFFICES ASSUME i \in T PROVE FALSE
  BY DEF L
<1>1. \E j \in T : \A m \in T : ~(<<m, j>> \in OpToRel(<, Nat))
  <2>1. T \subseteq Nat /\ i \in T
    OBVIOUS
  <2> HIDE DEF T
  <2> QED BY <2>1, NatLessThanWellFounded, WFMin
<1>2. PICK j \in T : \A m \in T : ~(m < j)
  BY <1>1 DEF OpToRel
<1>3. j \in Nat /\ ~Right(j) /\ \A m \in Nat : m < j => Right(m)
  BY <1>2
<1>4. Walked(nth, j)
  BY <1>3, NthWalks
<1>5. CASE j = 0
  <2>1. L = 0 => first = NULL
    BY InvFacts DEF L
  <2>2. L > 0 => first = order[1]
    BY InvFacts DEF L
  <2> QED BY <1>0, <1>3, <1>4, <1>5, <2>1, <2>2 DEF Walked
<1>6. CASE j # 0
  <2>1. PICK m \in Nat : m = j - 1 /\ j = m + 1
    BY <1>3, <1>6
  <2>2. nth[m] = IF m < L THEN order[j] ELSE NULL
    BY <1>3, <2>1
  <2>3. nth[j] = IF nth[m] \in Cell THEN next[nth[m]] ELSE NULL
    BY <1>4, <1>6, <2>1 DEF Walked
  <2>4. CASE m < L
    <3>1. j \in 1..L
      BY <1>0, <2>1, <2>4
    <3>2. order[j] \in Cell /\ next[order[j]] = IF j = L THEN NULL ELSE order[j + 1]
      BY <3>1, InvFacts DEF L
    <3>3. j < L <=> j # L
      BY <1>0, <3>1
    <3> QED BY <1>3, <2>2, <2>3, <2>4, <3>2, <3>3
  <2>5. CASE ~(m < L)
    <3>1. ~(j < L)
      BY <1>0, <2>1, <2>5
    <3> QED BY <1>3, <2>2, <2>3, <2>5, <3>1
  <2> QED BY <2>4, <2>5
<1> QED BY <1>5, <1>6

(* list_get() stops at the first cell with the value, or behind the last.    *)
LEMMA GetFacts ==
  ASSUME Inv, NEW v \in Value
  PROVE  LET hits == {i \in 1..size : value[order[i]] = v}
         IN  IF hits = {} THEN list_get(v) = NULL
             ELSE \E i \in hits : list_get(v) = order[i] /\ \A j \in hits : i <= j
<1> DEFINE L == Len(order)
           Hit(i) == nth[i] = NULL \/ (nth[i] \in Cell /\ value[nth[i]] = v)
           First(i) == i \in 0..size /\ Hit(i) /\ \A j \in 0..i - 1 : ~Hit(j)
           stop == CHOOSE i \in 0..size : Hit(i) /\ \A j \in 0..i - 1 : ~Hit(j)
           T == {i \in Nat : Hit(i)}
           hits == {i \in 1..size : value[order[i]] = v}
<1>1. L \in Nat /\ size = L
  BY InvFacts
<1> HIDE DEF L
<1>2. ASSUME NEW i \in Nat
      PROVE  Hit(i) <=> (i < L => value[order[i + 1]] = v)
  <2>1. nth[i] = IF i < L THEN order[i + 1] ELSE NULL
    BY NthFacts DEF L
  <2>2. i < L => i + 1 \in 1..L
    BY <1>1
  <2>3. i < L => order[i + 1] \in Cell
    BY <2>2, InvFacts DEF L
  <2> QED BY <2>1, <2>3
<1>3. list_get(v) = nth[stop]
  BY DEF list_get
<1> HIDE DEF Hit
<1>4. First(stop)
  <2>1. \E i \in T : \A j \in T : ~(<<j, i>> \in OpToRel(<, Nat))
    <3>1. L \in T
      BY <1>1, <1>2
    <3>2. T \subseteq Nat
      OBVIOUS
    <3> HIDE DEF T
    <3> QED BY <3>1, <3>2, NatLessThanWellFounded, WFMin
  <2>2. PICK i \in T : \A j \in T : ~(j < i)
    BY <2>1 DEF OpToRel
  <2>3. L \in T
    BY <1>1, <1>2
  <2>4. i \in 0..size
    BY <1>1, <2>2, <2>3
  <2>5. \A j \in 0..i - 1 : j \in Nat /\ j < i
    BY <2>4
  <2>6. Hit(i) /\ \A j \in 0..i - 1 : ~Hit(j)
    BY <2>2, <2>5
  <2> QED BY <2>4, <2>6
<1> HIDE DEF stop
<1>5. stop \in Nat /\ stop <= L /\ stop \in 0..L
  BY <1>1, <1>4
<1>6. nth[stop] = IF stop < L THEN order[stop + 1] ELSE NULL
  BY <1>5, NthFacts DEF L
<1>7. ASSUME NEW j \in hits PROVE stop + 1 <= j
  <2>1. j \in 1..L /\ value[order[j]] = v
    BY <1>1
  <2>2. PICK m \in Nat : m = j - 1 /\ j = m + 1
    BY <1>1, <2>1
  <2>3. Hit(m)
    BY <1>2, <2>1, <2>2
  <2>4. ~(m \in 0..stop - 1)
    BY <1>4, <2>3
  <2> QED BY <1>5, <2>2, <2>4
<1>8. CASE stop < L
  <2>1. stop + 1 \in 1..size
    BY <1>1, <1>5, <1>8
  <2>2. value[order[stop + 1]] = v
    BY <1>2, <1>4, <1>5, <1>8
  <2>3. stop + 1 \in hits
    BY <2>1, <2>2
  <2>4. list_get(v) = order[stop + 1]
    BY <1>3, <1>6, <1>8
  <2> QED BY <1>7, <2>3, <2>4
<1>9. CASE ~(stop < L)
  <2>1. hits = {}
    <3> SUFFICES ASSUME NEW j \in hits PROVE FALSE
      OBVIOUS
    <3>1. stop + 1 <= j /\ j \in 1..L
      BY <1>1, <1>7
    <3> QED BY <1>1, <1>5, <1>9, <3>1
  <2> QED BY <1>3, <1>6, <1>9, <2>1
<1> QED BY <1>8, <1>9

(* Looking up by index and by value finds what is there in the sequence: the *)
(* element at every index, none out of range, and the first with a value.    *)
THEOREM LookupsCorrect == Spec => []LookupsAgree
<1>1. ASSUME Inv PROVE LookupsAgree
  <2>1. ASSUME NEW k \in -1..size
        PROVE  list_get_by_index(k) = IF k \in 0..size - 1 THEN order[k + 1] ELSE NULL
    <3> DEFINE L == Len(order)
    <3>1. L \in Nat /\ size = L
      BY <1>1, InvFacts
    <3>2. CASE k \in Nat
      <4>1. nth[k] = IF k < L THEN order[k + 1] ELSE NULL
        BY <1>1, <3>2, NthFacts
      <4> HIDE DEF L
      <4>2. (k < L <=> k \in 0..size - 1) /\ k >= 0
        BY <3>1, <3>2
      <4> QED BY <4>1, <4>2 DEF list_get_by_index
    <3>3. CASE k \notin Nat
      <4> HIDE DEF L
      <4>1. ~(k >= 0) /\ k \notin 0..size - 1
        BY <3>1, <3>3
      <4> QED BY <4>1 DEF list_get_by_index
    <3> QED BY <3>2, <3>3
  <2> QED BY <1>1, <2>1, GetFacts DEF LookupsAgree
<1> QED BY <1>1, InvHolds, PTL
==============================================================================
