-------------------------------- MODULE Lemmas --------------------------------
(* Facts on division, on least numbers, on functions defined by recursion    *)
(* and on the sequences of CellSequence, that several of the proofs cite.    *)
EXTENDS CellSequence, WellFoundedInduction, TLAPS

(* How a number divides by a positive one, and that it does so in one way.   *)
LEMMA Divide ==
  ASSUME NEW M \in Nat, M > 0, NEW x \in Int
  PROVE  x = M * (x \div M) + (x % M) /\ (x % M) \in 0..M - 1 /\ (x \div M) \in Int
  OBVIOUS

LEMMA MultipleUp == ASSUME NEW M \in Nat, M > 0, NEW d \in Int, d >= 1
                    PROVE  M * d >= M
  OBVIOUS

LEMMA MultipleDown == ASSUME NEW M \in Nat, M > 0, NEW d \in Int, d <= -1
                      PROVE  M * d <= -M
  OBVIOUS

LEMMA DivideOneWay ==
  ASSUME NEW M \in Nat, M > 0, NEW q \in Int, NEW r \in 0..M - 1,
         NEW p \in Int, NEW s \in 0..M - 1, M * q + r = M * p + s
  PROVE  q = p /\ r = s
<1>1. M * (q - p) = s - r
  OBVIOUS
<1>2. q - p \in Int
  OBVIOUS
<1>3. ~(q - p >= 1)
  BY <1>1, <1>2, MultipleUp
<1>4. ~(q - p <= -1)
  BY <1>1, <1>2, MultipleDown
<1>5. q = p
  BY <1>3, <1>4
<1> QED BY <1>5

LEMMA Remainder ==
  ASSUME NEW M \in Nat, M > 0, NEW q \in Int, NEW r \in 0..M - 1
  PROVE  (M * q + r) % M = r
<1> DEFINE x == M * q + r
<1>1. x \in Int
  OBVIOUS
<1>2. x = M * (x \div M) + (x % M) /\ (x % M) \in 0..M - 1 /\ (x \div M) \in Int
  BY <1>1, Divide
<1> QED BY <1>2, DivideOneWay

(* Adding multiples of the divisor does not change a remainder.              *)
LEMMA SameRemainder ==
  ASSUME NEW M \in Nat, M > 0, NEW x \in Int, NEW k \in Int
  PROVE  (x + M * k) % M = x % M
<1>1. x = M * (x \div M) + (x % M) /\ (x % M) \in 0..M - 1 /\ (x \div M) \in Int
  BY Divide
<1>2. x + M * k = M * ((x \div M) + k) + (x % M)
  BY <1>1
<1>3. (x \div M) + k \in Int
  BY <1>1
<1> QED BY <1>1, <1>2, <1>3, Remainder
LEMMA QuotientBounds ==
  ASSUME NEW M \in Nat, M > 0, NEW x \in Nat
  PROVE  x \div M \in Nat /\ (x \div M) * M <= x
<1>1. x = M * (x \div M) + (x % M) /\ (x % M) \in 0..M - 1 /\ (x \div M) \in Int
  BY Divide
<1>2. ~(x \div M <= -1)
  BY <1>1, MultipleDown
<1> QED BY <1>1, <1>2
------------------------------------------------------------------------------
(* Every set of numbers has a least one.                                     *)
LEMMA LeastFacts ==
  ASSUME NEW S \in SUBSET Nat, S # {}, NEW m, m = CHOOSE k \in S : \A n \in S : k <= n
  PROVE  m \in S /\ \A n \in S : m <= n
<1>1. \E k \in S : \A n \in S : ~(<<n, k>> \in OpToRel(<, Nat))
  BY NatLessThanWellFounded, WFMin
<1>2. PICK k \in S : \A n \in S : ~(n < k)
  BY <1>1 DEF OpToRel
<1>3. \A n \in S : k <= n
  BY <1>2
<1> QED BY <1>3

(* What holds of 0 and of every successor holds of every number: sets of     *)
(* numbers stand for what holds of them.                                     *)
LEMMA EveryNumber ==
  ASSUME NEW S \in SUBSET Nat, 0 \in S, \A n \in S : n + 1 \in S
  PROVE  S = Nat
<1> SUFFICES ASSUME Nat \ S # {}
             PROVE  FALSE
  OBVIOUS
<1>1. PICK m : m = CHOOSE k \in Nat \ S : \A n \in Nat \ S : k <= n
  OBVIOUS
<1>2. m \in Nat \ S /\ \A n \in Nat \ S : m <= n
  BY <1>1, LeastFacts
<1>3. m - 1 \in Nat /\ m - 1 + 1 = m
  BY <1>2
<1>4. m - 1 \in S
  BY <1>2, <1>3
<1> QED BY <1>2, <1>3, <1>4

(* A function may be defined by recursion on the numbers. The step is a      *)
(* function as well: of a number, and of the value before.                   *)
Recursive(f, c, G) == f = [k \in Nat |-> IF k = 0 THEN c ELSE G[k][f[k - 1]]]
Computes(f, V, c, G) ==
  f \in [Nat -> V] /\ f[0] = c /\ \A k \in Nat : f[k + 1] = G[k + 1][f[k]]

LEMMA RecursionTyped ==
  ASSUME NEW V, NEW c \in V, NEW G \in [Nat -> [V -> V]], NEW f, Recursive(f, c, G)
  PROVE  Computes(f, V, c, G)
<1>1. f = [k \in Nat |-> IF k = 0 THEN c ELSE G[k][f[k - 1]]]
  BY DEF Recursive
<1> DEFINE S == {k \in Nat : f[k] \in V}
<1>2. f[0] = c
  BY <1>1
<1>3. ASSUME NEW k \in Nat
      PROVE  f[k + 1] = G[k + 1][f[k]]
  <2>1. PICK j \in Nat : j = k + 1
    OBVIOUS
  <2>2. f[j] = IF j = 0 THEN c ELSE G[j][f[j - 1]]
    BY <1>1, Zenon
  <2>3. j # 0 /\ j - 1 = k
    BY <2>1
  <2> QED BY <2>1, <2>2, <2>3, Zenon
<1>4. ASSUME NEW k \in S
      PROVE  k + 1 \in S
  <2>1. G[k + 1] \in [V -> V]
    OBVIOUS
  <2> QED BY <1>3, <2>1
<1>5. S = Nat
  BY <1>2, <1>4, EveryNumber
<1> QED BY <1>1, <1>2, <1>3, <1>5 DEF Computes

LEMMA RecursionExists ==
  ASSUME NEW V, NEW c \in V, NEW G \in [Nat -> [V -> V]]
  PROVE  \E f : Recursive(f, c, G)
<1> DEFINE Upto(n, g) == /\ g \in [0..n -> V] /\ g[0] = c
                         /\ \A k \in 1..n : g[k] = G[k][g[k - 1]]
           S == {n \in Nat : \E g : Upto(n, g)}
<1>1. 0 \in S
  <2>1. Upto(0, [k \in 0..0 |-> c])
    OBVIOUS
  <2> QED BY <2>1
<1>2. ASSUME NEW n \in S
      PROVE  n + 1 \in S
  <2>1. PICK g : Upto(n, g)
    OBVIOUS
  <2> DEFINE h == [k \in 0..n + 1 |-> IF k = n + 1 THEN G[n + 1][g[n]] ELSE g[k]]
  <2>2. g[n] \in V /\ G[n + 1] \in [V -> V]
    BY <2>1
  <2>3. G[n + 1][g[n]] \in V
    BY <2>2
  <2>4. h \in [0..n + 1 -> V] /\ h[0] = c
    BY <2>1, <2>3
  <2>5. ASSUME NEW k \in 1..n + 1
        PROVE  h[k] = G[k][h[k - 1]]
    BY <2>1
  <2>6. Upto(n + 1, h)
    BY <2>4, <2>5
  <2> HIDE DEF Upto, h
  <2>7. \E x : Upto(n + 1, x)
    BY <2>6, Zenon
  <2>8. n + 1 \in Nat
    OBVIOUS
  <2> QED BY <2>7, <2>8, Zenon
<1>3. S = Nat
  BY <1>1, <1>2, EveryNumber
<1>4. ASSUME NEW n \in Nat, NEW g, NEW h, Upto(n, g), Upto(n + 1, h)
      PROVE  g[n] = h[n]
  <2> DEFINE T == {k \in Nat : k <= n => g[k] = h[k]}
  <2>1. 0 \in T
    BY <1>4
  <2>2. ASSUME NEW k \in T
        PROVE  k + 1 \in T
    <3> SUFFICES ASSUME k + 1 <= n
                 PROVE  g[k + 1] = h[k + 1]
      OBVIOUS
    <3>1. k + 1 \in 1..n /\ k + 1 \in 1..n + 1 /\ k + 1 - 1 = k /\ g[k] = h[k]
      OBVIOUS
    <3>2. g[k + 1] = G[k + 1][g[k + 1 - 1]] /\ h[k + 1] = G[k + 1][h[k + 1 - 1]]
      BY <1>4, <3>1
    <3> QED BY <3>1, <3>2
  <2>3. T = Nat
    BY <2>1, <2>2, EveryNumber
  <2> QED BY <2>3
<1> DEFINE At(n) == CHOOSE g : Upto(n, g)
           f == [n \in Nat |-> At(n)[n]]
<1>5. \A n \in Nat : Upto(n, At(n))
  BY <1>3
<1> HIDE DEF At, Upto
<1>6. ASSUME NEW n \in Nat
      PROVE  f[n] = IF n = 0 THEN c ELSE G[n][f[n - 1]]
  <2>1. CASE n = 0
    BY <1>5, <2>1 DEF Upto
  <2>2. CASE n # 0
    <3>1. PICK m \in Nat : n = m + 1
      <4>1. n - 1 \in Nat /\ n = n - 1 + 1
        BY <2>2
      <4> QED BY <4>1
    <3>2. Upto(m, At(m)) /\ Upto(m + 1, At(n))
      BY <1>5, <3>1
    <3>3. At(m)[m] = At(n)[m]
      BY <1>4, <3>2
    <3>4. At(n)[n] = G[n][At(n)[n - 1]] /\ n - 1 = m
      BY <3>1, <3>2 DEF Upto
    <3>5. f[n] = At(n)[n] /\ f[m] = At(m)[m]
      OBVIOUS
    <3> QED BY <2>2, <3>3, <3>4, <3>5
  <2> QED BY <2>1, <2>2
<1>7. f = [k \in Nat |-> IF k = 0 THEN c ELSE G[k][f[k - 1]]]
  BY <1>6
<1> QED BY <1>7 DEF Recursive

------------------------------------------------------------------------------
(* The place of a cell in a sequence.                                        *)
LEMMA PositionFacts ==
  ASSUME NEW s, NEW c \in Cells(s)
  PROVE  Position(s, c) \in DOMAIN s /\ s[Position(s, c)] = c
  BY DEF Cells, Position

(* What inserting one cell into a sequence gives.                            *)
LEMMA InsertedFacts ==
  ASSUME NEW Cell, NEW s \in Seq(Cell), NEW k \in 1..Len(s) + 1, NEW c \in Cell
  PROVE  /\ InsertedAt(s, k, c) \in Seq(Cell)
         /\ Len(InsertedAt(s, k, c)) = Len(s) + 1
         /\ \A i \in 1..Len(s) + 1 :
              InsertedAt(s, k, c)[i] =
                IF i < k THEN s[i] ELSE IF i = k THEN c ELSE s[i - 1]
         /\ Cells(InsertedAt(s, k, c)) = Cells(s) \union {c}
         /\ Distinct(s) /\ c \notin Cells(s) => Distinct(InsertedAt(s, k, c))
<1> DEFINE t == InsertedAt(s, k, c)
<1>1. Len(s) \in Nat /\ DOMAIN s = 1..Len(s) /\ \A i \in 1..Len(s) : s[i] \in Cell
  OBVIOUS
<1>2. /\ DOMAIN t = 1..Len(s) + 1
      /\ \A i \in 1..Len(s) + 1 :
           t[i] = IF i < k THEN s[i] ELSE IF i = k THEN c ELSE s[i - 1]
  BY DEF InsertedAt
<1>3. \A i \in 1..Len(s) + 1 : t[i] \in Cell
  BY <1>1, <1>2
<1>4. t \in Seq(Cell) /\ Len(t) = Len(s) + 1
  BY <1>1, <1>3 DEF InsertedAt
<1>5. Cells(t) = Cells(s) \union {c}
  <2>1. ASSUME NEW i \in DOMAIN t
        PROVE  t[i] \in Cells(s) \union {c}
    <3>1. t[i] = c \/ \E j \in DOMAIN s : t[i] = s[j]
      BY <1>1, <1>2
    <3> QED BY <3>1 DEF Cells
  <2>2. c \in Cells(t)
    BY <1>1, <1>2 DEF Cells
  <2>3. ASSUME NEW i \in DOMAIN s
        PROVE  s[i] \in Cells(t)
    <3>1. CASE i < k
      BY <1>1, <1>2, <3>1 DEF Cells
    <3>2. CASE ~(i < k)
      <4>1. i + 1 \in DOMAIN t /\ t[i + 1] = s[i]
        BY <1>1, <1>2, <3>2
      <4> QED BY <4>1 DEF Cells
    <3> QED BY <3>1, <3>2
  <2> QED BY <2>1, <2>2, <2>3 DEF Cells
<1>6. ASSUME Distinct(s), c \notin Cells(s)
      PROVE  Distinct(t)
  <2> SUFFICES ASSUME NEW i \in DOMAIN t, NEW j \in DOMAIN t, t[i] = t[j]
               PROVE  i = j
    BY DEF Distinct
  <2>1. \A m \in DOMAIN s : s[m] # c
    BY <1>6 DEF Cells
  <2>2. \A m, l \in DOMAIN s : s[m] = s[l] => m = l
    BY <1>6 DEF Distinct
  <2> DEFINE f(m) == IF m < k THEN m ELSE m - 1
  <2>3. ASSUME NEW m \in DOMAIN t
        PROVE  /\ m = k => t[m] = c
               /\ m # k => f(m) \in DOMAIN s /\ t[m] = s[f(m)] /\ t[m] # c
    BY <1>1, <1>2, <2>1
  <2>4. CASE i = k \/ j = k
    BY <2>3, <2>4
  <2>5. CASE i # k /\ j # k
    <3>1. f(i) = f(j)
      BY <2>2, <2>3, <2>5
    <3> QED BY <1>1, <1>2, <2>5, <3>1
  <2> QED BY <2>4, <2>5
<1> QED BY <1>2, <1>4, <1>5, <1>6

(* What removing one cell from a sequence gives.                             *)
LEMMA RemovedFacts ==
  ASSUME NEW Cell, NEW s \in Seq(Cell), NEW k \in 1..Len(s)
  PROVE  /\ RemovedAt(s, k) \in Seq(Cell)
         /\ Len(RemovedAt(s, k)) = Len(s) - 1
         /\ \A i \in 1..Len(s) - 1 :
              RemovedAt(s, k)[i] = IF i < k THEN s[i] ELSE s[i + 1]
         /\ Distinct(s) => /\ Cells(RemovedAt(s, k)) = Cells(s) \ {s[k]}
                           /\ Distinct(RemovedAt(s, k))
<1> DEFINE t == RemovedAt(s, k)
<1>1. Len(s) \in Nat /\ DOMAIN s = 1..Len(s) /\ \A i \in 1..Len(s) : s[i] \in Cell
  OBVIOUS
<1>2. /\ DOMAIN t = 1..Len(s) - 1
      /\ \A i \in 1..Len(s) - 1 : t[i] = IF i < k THEN s[i] ELSE s[i + 1]
  BY DEF RemovedAt
<1>3. \A i \in 1..Len(s) - 1 : t[i] \in Cell
  BY <1>1, <1>2
<1>4. t \in Seq(Cell) /\ Len(t) = Len(s) - 1
  BY <1>1, <1>3 DEF RemovedAt
<1>5. ASSUME Distinct(s)
      PROVE  Cells(t) = Cells(s) \ {s[k]}
  <2>1. \A m, l \in DOMAIN s : s[m] = s[l] => m = l
    BY <1>5 DEF Distinct
  <2>2. \A i \in DOMAIN t : t[i] \in Cells(s) \ {s[k]}
    BY <1>1, <1>2, <2>1 DEF Cells
  <2>3. ASSUME NEW i \in DOMAIN s, s[i] # s[k]
        PROVE  s[i] \in Cells(t)
    <3>1. CASE i < k
      BY <1>1, <1>2, <3>1 DEF Cells
    <3>2. CASE ~(i < k)
      <4>1. i - 1 \in DOMAIN t /\ t[i - 1] = s[i]
        BY <1>1, <1>2, <2>3, <3>2
      <4> QED BY <4>1 DEF Cells
    <3> QED BY <3>1, <3>2
  <2> QED BY <2>2, <2>3 DEF Cells
<1>6. ASSUME Distinct(s)
      PROVE  Distinct(t)
  <2> SUFFICES ASSUME NEW i \in DOMAIN t, NEW j \in DOMAIN t, t[i] = t[j]
               PROVE  i = j
    BY DEF Distinct
  <2>1. \A m, l \in DOMAIN s : s[m] = s[l] => m = l
    BY <1>6 DEF Distinct
  <2> QED BY <1>1, <1>2, <2>1
<1> QED BY <1>2, <1>4, <1>5, <1>6
------------------------------------------------------------------------------
(* A scan of a sequence has come to place p: of the cells that were stable   *)
(* all up to p have been visited, and none behind.                           *)
Scanned(s, p, visited, stable) ==
  \A i \in DOMAIN s : /\ i <= p /\ s[i] \in stable => s[i] \in visited
                      /\ s[i] \in visited => i <= p

(* A cell that is inserted is neither.                                       *)
LEMMA InsertedScanned ==
  ASSUME NEW Cell, NEW s \in Seq(Cell), NEW k \in 1..Len(s) + 1, NEW c \in Cell,
         NEW p \in 0..Len(s), NEW V, NEW W, c \notin V, c \notin W,
         Scanned(s, p, V, W)
  PROVE  Scanned(InsertedAt(s, k, c), IF k <= p THEN p + 1 ELSE p, V, W)
<1> DEFINE t == InsertedAt(s, k, c)
           q == IF k <= p THEN p + 1 ELSE p
<1>1. /\ Len(s) \in Nat /\ DOMAIN s = 1..Len(s) /\ DOMAIN t = 1..Len(s) + 1
      /\ \A i \in 1..Len(s) + 1 :
           t[i] = IF i < k THEN s[i] ELSE IF i = k THEN c ELSE s[i - 1]
  BY DEF InsertedAt
<1> HIDE DEF t
<1> SUFFICES ASSUME NEW i \in 1..Len(s) + 1
             PROVE  /\ i <= q /\ t[i] \in W => t[i] \in V
                    /\ t[i] \in V => i <= q
  BY <1>1 DEF Scanned, t
<1>2. CASE i = k
  BY <1>1, <1>2
<1>3. CASE i < k
  <2>1. i \in DOMAIN s /\ t[i] = s[i] /\ (i <= q <=> i <= p)
    BY <1>1, <1>3
  <2> QED BY <2>1 DEF Scanned
<1>4. CASE i > k
  <2>1. i - 1 \in DOMAIN s /\ t[i] = s[i - 1] /\ (i <= q <=> i - 1 <= p)
    BY <1>1, <1>4
  <2> QED BY <2>1 DEF Scanned
<1> QED BY <1>2, <1>3, <1>4

(* A cell that is removed no longer counts.                                  *)
LEMMA RemovedScanned ==
  ASSUME NEW Cell, NEW s \in Seq(Cell), NEW k \in 1..Len(s), Distinct(s),
         NEW p \in 0..Len(s), NEW V, NEW W, Scanned(s, p, V, W)
  PROVE  Scanned(RemovedAt(s, k), IF k <= p THEN p - 1 ELSE p, V \ {s[k]}, W \ {s[k]})
<1> DEFINE t == RemovedAt(s, k)
           q == IF k <= p THEN p - 1 ELSE p
<1>1. /\ Len(s) \in Nat /\ DOMAIN s = 1..Len(s) /\ DOMAIN t = 1..Len(s) - 1
      /\ \A i \in 1..Len(s) - 1 : t[i] = IF i < k THEN s[i] ELSE s[i + 1]
  BY DEF RemovedAt
<1>2. \A i, j \in 1..Len(s) : s[i] = s[j] => i = j
  BY <1>1 DEF Distinct
<1> HIDE DEF t
<1> SUFFICES ASSUME NEW i \in 1..Len(s) - 1
             PROVE  /\ i <= q /\ t[i] \in W \ {s[k]} => t[i] \in V \ {s[k]}
                    /\ t[i] \in V \ {s[k]} => i <= q
  BY <1>1 DEF Scanned, t
<1>3. CASE i < k
  <2>1. i \in DOMAIN s /\ t[i] = s[i] /\ (i <= q <=> i <= p)
    BY <1>1, <1>3
  <2> QED BY <2>1 DEF Scanned
<1>4. CASE ~(i < k)
  <2>1. i + 1 \in DOMAIN s /\ t[i] = s[i + 1] /\ (i <= q <=> i + 1 <= p)
    BY <1>1, <1>4
  <2> QED BY <2>1 DEF Scanned
<1> QED BY <1>3, <1>4
==============================================================================
