--------------------------- MODULE ByteArrayProofs ---------------------------
(* Proofs about ByteArray: for every width of size_t, every limit and every  *)
(* input the string stays terminated inside its allocation, and the array    *)
(* is freed with its last holder.                                            *)
EXTENDS ByteArray, FiniteSetTheorems, SequenceTheorems, WellFoundedInduction,
        TLAPS

USE ByteAssumption, SizeAssumption, ScribblesAssumption

(* The growth loop finds a size that suffices, however it rounds.            *)
LEMMA RoundUpFacts ==
  ASSUME NEW m \in 0..SizeMax
  PROVE  RoundUp(m) \in m..SizeMax
<1>1. Candidates(m) \subseteq Nat /\ Candidates(m) # {}
  BY DEF Candidates
<1>2. PICK k \in Candidates(m) : \A j \in Candidates(m) : ~(<<j, k>> \in OpToRel(<, Nat))
  BY <1>1, NatLessThanWellFounded, WFMin
<1>3. ASSUME NEW j \in Candidates(m), j < k
      PROVE  FALSE
  <2>1. <<j, k>> \in OpToRel(<, Nat)
    BY <1>1, <1>3 DEF OpToRel
  <2> QED BY <1>2, <2>1
<1>4. \A j \in Candidates(m) : k <= j
  BY <1>1, <1>3
<1>5. RoundUp(m) \in Candidates(m)
  BY <1>4 DEF RoundUp
<1> QED BY <1>5 DEF Candidates

(* A sum that leaves the range comes back to it with the next subtraction.   *)
LEMMA WrapSum ==
  ASSUME NEW x \in 0..SizeMax, NEW y \in 0..SizeMax, NEW z \in 0..SizeMax,
         x <= z, x + y > z
  PROVE  Wrap(Wrap(x + y) - z) = x + y - z
<1>1. CASE x + y > SizeMax
  <2>1. Wrap(x + y) = x + y - (SizeMax + 1)
    BY <1>1 DEF Wrap
  <2> QED BY <1>1, <2>1 DEF Wrap
<1>2. CASE ~(x + y > SizeMax)
  <2>1. Wrap(x + y) = x + y
    BY <1>2 DEF Wrap
  <2> QED BY <1>2, <2>1 DEF Wrap
<1> QED BY <1>1, <1>2

(* The part of the state the size computations look at.                      *)
Sized == /\ cursor \in Nat /\ max_size \in Nat /\ size \in Nat
         /\ cursor < max_size /\ max_size <= SizeMax
         /\ cursor < size /\ size <= SizeMax

(* ensure_space() leaves room for the bytes and the terminator; its sums do  *)
(* not wrap around; it never shrinks the allocation.                         *)
LEMMA EnsureSpaceFacts ==
  ASSUME Sized, NEW len \in Nat, len <= SizeMax, HasRoom(len)
  PROVE  /\ cursor + len < max_size
         /\ SizeFor(len) \in size..SizeMax
         /\ cursor + len < SizeFor(len)
<1>1. cursor + len < max_size
  BY DEF HasRoom, Wrap, Sized
<1>2. Needed(len) = cursor + len + 1
  BY <1>1 DEF Needed, Wrap, Sized
<1>3. Needed(len) \in 0..SizeMax
  BY <1>1, <1>2 DEF Sized
<1>4. RoundUp(Needed(len)) \in cursor + len + 1..SizeMax
  BY <1>2, <1>3, RoundUpFacts
<1> HIDE DEF RoundUp
<1>5. Wrap(size - cursor) = size - cursor
  BY DEF Wrap, Sized
<1> QED BY <1>1, <1>4, <1>5 DEF SizeFor, Sized

Inv == TypeOK /\ StringInv

LEMMA InvSized == Inv => Sized
  BY DEF Inv, TypeOK, StringInv, InBounds, Sized

(* What a call changes of the array, apart from its bookkeeping.             *)
ArrayOK == /\ cursor \in Nat /\ cursor < max_size
           /\ size \in 1..SizeMax /\ cursor < size
           /\ top \in Nat /\ top < size
           /\ data \in [0..size - 1 -> Byte \union {Stale}]
           /\ data[cursor] = NUL
           /\ NoStaleByte

(* Inv is ArrayOK and the types of the rest.                                 *)
LEMMA ArraySuffices ==
  ASSUME Inv, ArrayOK', UNCHANGED <<max_size, ref_count, holders>>,
         freed' \in BOOLEAN, outcome' \in {"success", "failure"},
         call' \in [op : {"make", "append", "appendf", "copy", "resize",
                             "clear", "stream"},
                       pos : 0..SizeMax, bytes : Seq(Byte)]
  PROVE  Inv'
<1>1. StringInv'
  BY DEF StringInv, InBounds, TrailingNUL, ArrayOK, StreamReserved, Reading
<1>2. /\ cursor' \in 0..SizeMax /\ top' \in 0..SizeMax /\ size' \in 1..SizeMax
      /\ data' \in [0..size' - 1 -> Byte \union {Stale}]
  <2>1. /\ cursor' \in Nat /\ cursor' < size' /\ top' \in Nat /\ top' < size'
        /\ size' \in 1..SizeMax
    BY DEF ArrayOK
  <2>2. cursor' \in 0..SizeMax /\ top' \in 0..SizeMax
    BY <2>1
  <2> QED BY <2>1, <2>2 DEF ArrayOK
<1>3. /\ max_size' \in 1..SizeMax /\ holders' \subseteq Client
      /\ ref_count' \in 0..Cardinality(Client)
  BY DEF Inv, TypeOK
<1> QED BY <1>1, <1>2, <1>3 DEF Inv, TypeOK

LEMMA InvArray == Inv => ArrayOK
  BY DEF Inv, TypeOK, StringInv, InBounds, TrailingNUL, ArrayOK

(* Writing bytes at or before the cursor up to a new end, in an allocation   *)
(* that holds them and the terminator.                                       *)
LEMMA ExtendOK ==
  ASSUME Inv, NEW pos \in 0..cursor, NEW s \in Seq(Byte), NEW sz \in size..SizeMax,
         pos + Len(s) < sz, pos + Len(s) < max_size,
         UNCHANGED max_size, Extend(pos, s, sz)
  PROVE  ArrayOK'
<1>1. ArrayOK /\ Sized /\ Len(s) \in Nat
  BY InvArray, InvSized
<1>2. /\ cursor' = pos + Len(s) /\ size' = sz /\ top' = Larger(top, pos + Len(s))
      /\ data' = Terminated(Put(Reserved(sz), pos, s), pos + Len(s))
  BY DEF Extend
<1>3. /\ DOMAIN data' = 0..sz - 1
      /\ data'[pos + Len(s)] = NUL
      /\ \A i \in 0..pos + Len(s) - 1 : data'[i] \in Byte
      /\ \A i \in 0..sz - 1 : data'[i] \in Byte \union {Stale}
  <2>1. data' = [i \in 0..sz - 1 |->
                   IF i < pos + Len(s)
                   THEN IF i \in pos..pos + Len(s) - 1 THEN s[i - pos + 1]
                        ELSE IF i < size THEN data[i] ELSE Stale
                   ELSE IF i = pos + Len(s) THEN NUL ELSE Stale]
    BY <1>2 DEF Terminated, Put, Reserved
  <2>2. ASSUME NEW i \in 0..sz - 1, i < pos + Len(s)
        PROVE  data'[i] \in Byte
    <3>1. CASE i \in pos..pos + Len(s) - 1
      <4>1. i - pos + 1 \in 1..Len(s)
        BY <1>1, <3>1
      <4> QED BY <2>1, <2>2, <3>1, <4>1
    <3>2. CASE i \notin pos..pos + Len(s) - 1
      <4>1. i \in 0..cursor - 1 /\ i < size
        BY <1>1, <2>2, <3>2 DEF Sized
      <4> QED BY <1>1, <2>1, <2>2, <3>2, <4>1 DEF ArrayOK, NoStaleByte
    <3> QED BY <3>1, <3>2
  <2>3. ASSUME NEW i \in 0..sz - 1, ~(i < pos + Len(s))
        PROVE  data'[i] \in {NUL, Stale}
    BY <2>1, <2>3
  <2>4. data'[pos + Len(s)] = NUL
    BY <1>1, <2>1 DEF Sized
  <2>5. \A i \in 0..pos + Len(s) - 1 : data'[i] \in Byte
    BY <1>1, <2>2 DEF Sized
  <2> QED BY <2>1, <2>2, <2>3, <2>4, <2>5
<1>4. top' \in Nat /\ top' < sz
  BY <1>1, <1>2 DEF Larger, ArrayOK
<1>5. data' \in [0..sz - 1 -> Byte \union {Stale}]
  BY <1>2, <1>3 DEF Terminated, Put, Reserved
<1> QED BY <1>1, <1>2, <1>3, <1>4, <1>5 DEF ArrayOK, NoStaleByte, Sized

(* The bytes of a call fit into its record.                                  *)
LEMMA CalledFacts ==
  ASSUME Inv, NEW op \in {"append", "appendf", "copy", "resize", "clear", "stream"},
         NEW pos \in 0..SizeMax, NEW s \in Seq(Byte), Called(op, pos, s)
  PROVE  /\ call' \in [op : {"make", "append", "appendf", "copy", "resize",
                             "clear", "stream"},
                       pos : 0..SizeMax, bytes : Seq(Byte)]
         /\ UNCHANGED <<max_size, ref_count, holders, freed>>
         /\ freed' \in BOOLEAN
  BY DEF Called, Inv, TypeOK

LEMMA InputFacts ==
  ASSUME NEW s \in Input
  PROVE  s \in Seq(Byte) /\ Len(s) \in 0..SizeMax
  BY InputAssumption

(* A failed call leaves the array as it is.                                  *)
LEMMA UnchangedOK == Inv /\ UNCHANGED <<array, max_size>> => ArrayOK'
  BY InvArray DEF array, ArrayOK, NoStaleByte

LEMMA AppendBytesOK ==
  ASSUME Inv, NEW s \in Seq(Byte), Len(s) \in 0..SizeMax, UNCHANGED max_size,
         AppendBytes(s)
  PROVE  ArrayOK' /\ outcome' \in {"success", "failure"}
<1>1. CASE HasRoom(Len(s))
  <2>1. Sized /\ cursor \in 0..cursor
    BY InvSized DEF Sized
  <2>2. Extend(cursor, s, SizeFor(Len(s))) /\ outcome' = "success"
    BY <1>1 DEF AppendBytes, Succeed
  <2> QED BY <1>1, <2>1, <2>2, EnsureSpaceFacts, ExtendOK
<1>2. CASE ~HasRoom(Len(s))
  BY <1>2, UnchangedOK DEF AppendBytes, Fail
<1> QED BY <1>1, <1>2

LEMMA AppendInv ==
  ASSUME Inv, NEW s \in Input, AppendAll(s) \/ AppendF(s)
  PROVE  Inv'
<1>1. CASE AppendAll(s)
  BY <1>1, InputFacts, CalledFacts, AppendBytesOK, ArraySuffices DEF AppendAll
<1>2. CASE AppendF(s)
  <2>1. ArrayOK' /\ outcome' \in {"success", "failure"}
    BY <1>2, InputFacts, CalledFacts, AppendBytesOK, UnchangedOK
       DEF AppendF, Called, Succeed, Fail
  <2> QED BY <1>2, <2>1, InputFacts, CalledFacts, ArraySuffices DEF AppendF
<1> QED BY <1>1, <1>2

(* Overwriting bytes of the string leaves its end alone.                     *)
LEMMA CopyInv ==
  ASSUME Inv, NEW s \in Input, NEW pos \in 0..SizeMax, Copy(pos, s)
  PROVE  Inv'
<1>1. /\ s \in Seq(Byte) /\ Len(s) \in 0..SizeMax /\ Called("copy", pos, s)
      /\ UNCHANGED max_size /\ ArrayOK /\ Sized
  BY InputFacts, InvArray, InvSized DEF Copy, Called
<1>2. CASE pos > cursor
  <2>1. Fail
    BY <1>2 DEF Copy
  <2> QED BY <1>1, <2>1, CalledFacts, UnchangedOK, ArraySuffices DEF Fail
<1>3. CASE pos <= cursor /\ Len(s) > cursor - pos
  <2> DEFINE more == Wrap(Wrap(pos + Len(s)) - cursor)
  <2>1. more = pos + Len(s) - cursor
    <3>1. /\ pos \in 0..SizeMax /\ pos <= cursor /\ cursor \in 0..SizeMax
          /\ Len(s) \in 0..SizeMax /\ pos + Len(s) > cursor
      BY <1>1, <1>3 DEF Sized
    <3> QED BY <3>1, WrapSum
  <2>2. more \in Nat /\ more <= SizeMax /\ pos \in 0..cursor
    BY <1>1, <1>3, <2>1 DEF Sized
  <2>3. CASE HasRoom(more)
    <3>1. Extend(pos, s, SizeFor(more)) /\ outcome' = "success"
      BY <1>1, <1>3, <2>3 DEF Copy, Succeed, Sized
    <3>2. pos + Len(s) < max_size /\ SizeFor(more) \in size..SizeMax
          /\ pos + Len(s) < SizeFor(more)
      BY <1>1, <2>1, <2>2, <2>3, EnsureSpaceFacts DEF Sized
    <3>3. ArrayOK'
      BY <1>1, <2>2, <3>1, <3>2, ExtendOK
    <3> QED BY <1>1, <3>1, <3>3, CalledFacts, ArraySuffices
  <2>4. CASE ~HasRoom(more)
    <3>1. Fail
      BY <1>1, <1>3, <2>4 DEF Copy, Sized
    <3> QED BY <1>1, <3>1, CalledFacts, UnchangedOK, ArraySuffices DEF Fail
  <2> QED BY <2>3, <2>4
<1>4. CASE pos <= cursor /\ ~(Len(s) > cursor - pos)
  <2>1. /\ data' = Put(data, pos, s) /\ outcome' = "success"
        /\ UNCHANGED <<cursor, size, top>>
    BY <1>1, <1>4 DEF Copy, Succeed, Sized
  <2>2. \A i \in 0..size - 1 :
          data'[i] = IF i \in pos..pos + Len(s) - 1 THEN s[i - pos + 1] ELSE data[i]
    BY <1>1, <2>1 DEF Put, ArrayOK
  <2>3. \A i \in 0..size - 1 : i \in pos..pos + Len(s) - 1 =>
           i < cursor /\ data'[i] \in Byte
    BY <1>1, <1>4, <2>2 DEF Sized
  <2>4. data' \in [0..size - 1 -> Byte \union {Stale}]
    BY <1>1, <2>1, <2>2, <2>3 DEF Put, ArrayOK
  <2>5. data'[cursor] = NUL
    BY <1>1, <2>2, <2>3 DEF ArrayOK
  <2>6. \A i \in 0..cursor - 1 : data'[i] \in Byte
    BY <1>1, <2>2, <2>3 DEF ArrayOK, NoStaleByte, Sized
  <2>7. ArrayOK'
    BY <1>1, <2>1, <2>4, <2>5, <2>6 DEF ArrayOK, NoStaleByte
  <2> QED BY <1>1, <2>1, <2>7, CalledFacts, ArraySuffices
<1> QED BY <1>1, <1>2, <1>3, <1>4 DEF Sized

(* Cutting the string off at or before the cursor.                           *)
LEMMA CutOK ==
  ASSUME Inv, NEW end \in 0..cursor, data' = Terminated(data, end),
         cursor' = end, UNCHANGED <<max_size, size, top>>
  PROVE  ArrayOK'
<1>1. ArrayOK /\ Sized
  BY InvArray, InvSized
<1>2. data' = [i \in 0..size - 1 |->
                 IF i < end THEN data[i] ELSE IF i = end THEN NUL ELSE Stale]
  BY <1>1 DEF Terminated, ArrayOK
<1>3. \A i \in 0..end - 1 : i \in 0..cursor - 1 /\ data'[i] = data[i]
  BY <1>1, <1>2 DEF Sized
<1>4. data'[end] = NUL
  BY <1>1, <1>2 DEF Sized
<1>5. data' \in [0..size - 1 -> Byte \union {Stale}]
  BY <1>1, <1>2 DEF ArrayOK
<1>6. NoStaleByte'
  BY <1>1, <1>3 DEF ArrayOK, NoStaleByte
<1>7. /\ cursor' \in Nat /\ cursor' < max_size' /\ size' \in 1..SizeMax
      /\ cursor' < size' /\ top' \in Nat /\ top' < size'
  BY <1>1 DEF ArrayOK, Sized
<1> QED BY <1>4, <1>5, <1>6, <1>7 DEF ArrayOK

(* Resizing cuts the string or extends it by copies of one byte.             *)
LEMMA ResizeInv ==
  ASSUME Inv, NEW m \in 0..SizeMax, NEW c \in Byte, Resize(m, c)
  PROVE  Inv'
<1>1. /\ <<c>> \in Seq(Byte) /\ Called("resize", m, <<c>>)
      /\ UNCHANGED max_size /\ Sized
  BY InvSized DEF Resize, Called
<1>2. ArrayOK' /\ outcome' \in {"success", "failure"}
  <2>1. CASE m <= cursor
    <3>1. /\ data' = Terminated(data, m) /\ cursor' = m /\ outcome' = "success"
          /\ UNCHANGED <<size, top>>
      BY <2>1 DEF Resize, Succeed
    <3> QED BY <1>1, <2>1, <3>1, CutOK DEF Sized
  <2>2. CASE ~(m <= cursor) /\ HasRoom(m - cursor)
    <3> DEFINE s == [i \in 1..m - cursor |-> c]
    <3>1. m - cursor \in Nat /\ m - cursor <= SizeMax /\ cursor \in 0..cursor
      BY <1>1, <2>2 DEF Sized
    <3>2. s \in Seq(Byte) /\ Len(s) = m - cursor
      BY <3>1
    <3>3. Extend(cursor, s, SizeFor(m - cursor)) /\ outcome' = "success"
      BY <2>2 DEF Resize, Succeed
    <3> HIDE DEF s
    <3>4. /\ cursor + Len(s) < max_size /\ SizeFor(m - cursor) \in size..SizeMax
          /\ cursor + Len(s) < SizeFor(m - cursor)
      BY <1>1, <2>2, <3>1, <3>2, EnsureSpaceFacts
    <3> QED BY <1>1, <3>1, <3>2, <3>3, <3>4, ExtendOK
  <2>3. CASE ~(m <= cursor) /\ ~HasRoom(m - cursor)
    BY <1>1, <2>3, UnchangedOK DEF Resize, Fail
  <2> QED BY <2>1, <2>2, <2>3
<1> QED BY <1>1, <1>2, CalledFacts, ArraySuffices

LEMMA ClearInv ==
  ASSUME Inv, Clear
  PROVE  Inv'
<1>1. /\ <<>> \in Seq(Byte) /\ Called("clear", 0, <<>>) /\ outcome' = "success"
      /\ data' = Terminated(data, 0) /\ cursor' = 0
      /\ UNCHANGED <<max_size, size, top>> /\ 0 \in 0..cursor
  BY InvSized DEF Clear, Called, Succeed, Sized
<1>2. ArrayOK'
  BY <1>1, CutOK
<1>3. 0 \in 0..SizeMax /\ "clear" \in {"append", "appendf", "copy", "resize", "clear", "stream"}
  OBVIOUS
<1>4. /\ call' \in [op : {"make", "append", "appendf", "copy", "resize",
                             "clear", "stream"},
                       pos : 0..SizeMax, bytes : Seq(Byte)]
      /\ UNCHANGED <<max_size, ref_count, holders, freed>>
      /\ freed' \in BOOLEAN
  BY <1>1, <1>3, CalledFacts
<1>5. outcome' \in {"success", "failure"}
  BY <1>1
<1> QED BY <1>2, <1>4, <1>5, ArraySuffices

(* A granted request fits, terminator included.                              *)
LEMMA GrantedFacts ==
  ASSUME Sized, NEW len \in 0..SizeMax, ~(len >= Available /\ Available = 1)
  PROVE  /\ Granted(len) \in Nat /\ Granted(len) <= SizeMax
         /\ HasRoom(Granted(len))
  BY DEF Sized, Granted, Available, HasRoom, Wrap

(* Reserving space keeps the string where it was.                            *)
LEMMA ReserveOK ==
  ASSUME Inv, NEW sz \in size..SizeMax, size' = sz, data' = Reserved(sz),
         UNCHANGED <<cursor, max_size, top>>
  PROVE  ArrayOK'
<1>1. ArrayOK /\ Sized
  BY InvArray, InvSized
<1>2. \A i \in 0..cursor : data'[i] = data[i]
  BY <1>1 DEF Reserved, Sized
<1>3. data' \in [0..sz - 1 -> Byte \union {Stale}]
  BY <1>1 DEF Reserved, ArrayOK
<1>4. data'[cursor] = NUL /\ NoStaleByte'
  BY <1>1, <1>2 DEF ArrayOK, NoStaleByte, Sized
<1>5. /\ cursor' \in Nat /\ cursor' < max_size' /\ size' \in 1..SizeMax
      /\ cursor' < size' /\ top' \in Nat /\ top' < size'
  BY <1>1 DEF ArrayOK, Sized
<1> QED BY <1>3, <1>4, <1>5 DEF ArrayOK

LEMMA BeginStreamInv ==
  ASSUME Inv, NEW m \in 0..SizeMax, BeginStream(m)
  PROVE  Inv'
<1>1. /\ <<>> \in Seq(Byte) /\ Called("stream", m, <<>>)
      /\ UNCHANGED max_size /\ Sized
      /\ "stream" \in {"append", "appendf", "copy", "resize", "clear", "stream"}
  BY InvSized DEF BeginStream, Called
<1>2. /\ call' \in [op : {"make", "append", "appendf", "copy", "resize",
                             "clear", "stream"},
                       pos : 0..SizeMax, bytes : Seq(Byte)]
      /\ UNCHANGED <<max_size, ref_count, holders, freed>>
      /\ freed' \in BOOLEAN
  BY <1>1, CalledFacts
<1>3. CASE Fail
  <2>1. ArrayOK' /\ outcome' \in {"success", "failure"}
    BY <1>1, <1>3, UnchangedOK DEF Fail
  <2> QED BY <1>2, <2>1, ArraySuffices
<1>4. CASE ~Fail
  <2> DEFINE g == Granted(m)
  <2>1. /\ g \in Nat /\ g <= SizeMax /\ HasRoom(g)
        /\ size' = SizeFor(g) /\ data' = Reserved(size')
        /\ outcome' = "pending" /\ UNCHANGED <<cursor, top>>
    BY <1>1, <1>4, GrantedFacts DEF BeginStream
  <2>2. /\ cursor + g < max_size /\ SizeFor(g) \in size..SizeMax
        /\ cursor + g < SizeFor(g)
    BY <1>1, <2>1, EnsureSpaceFacts
  <2>3. ArrayOK'
    BY <1>1, <2>1, <2>2, ReserveOK
  <2>4. (Granted(call.pos))' = g
    BY <1>1, <2>1 DEF Granted, Available, Called, Wrap
  <2>5. StreamReserved'
    BY <1>1, <2>1, <2>2, <2>4 DEF StreamReserved, Smaller
  <2> HIDE DEF g
  <2>6. StringInv'
    BY <2>3, <2>5 DEF StringInv, InBounds, TrailingNUL, ArrayOK
  <2>7. /\ cursor' \in Nat /\ cursor' < size' /\ top' \in Nat /\ top' < size'
        /\ size' \in 1..SizeMax /\ data' \in [0..size' - 1 -> Byte \union {Stale}]
    BY <2>3 DEF ArrayOK
  <2>8. cursor' \in 0..SizeMax /\ top' \in 0..SizeMax
    BY <2>7
  <2>9. /\ max_size' \in 1..SizeMax /\ holders' \subseteq Client
        /\ ref_count' \in 0..Cardinality(Client)
    BY <1>2 DEF Inv, TypeOK
  <2> QED BY <1>2, <2>1, <2>6, <2>7, <2>8, <2>9 DEF Inv, TypeOK
<1> QED BY <1>3, <1>4

(* The bytes a stream answers fit into the space reserved for them.          *)
LEMMA StreamReadInv ==
  ASSUME Inv, NEW s \in Input, StreamRead(s)
  PROVE  Inv'
<1>1. /\ s \in Seq(Byte) /\ Len(s) \in 0..SizeMax /\ Sized
      /\ cursor \in 0..cursor /\ size \in size..SizeMax
      /\ Extend(cursor, s, size) /\ outcome' = "success"
      /\ UNCHANGED <<max_size, ref_count, holders, freed>>
  BY InputFacts, InvSized DEF StreamRead, Succeed, Sized
<1>2. /\ Granted(call.pos) \in Nat
      /\ cursor + Granted(call.pos) < size /\ cursor + Granted(call.pos) < max_size
  BY <1>1 DEF Inv, StringInv, StreamReserved, StreamRead, Smaller, Sized
<1>3. cursor + Len(s) < size /\ cursor + Len(s) < max_size
  BY <1>1, <1>2 DEF StreamRead, Sized
<1>4. ArrayOK'
  BY <1>1, <1>3, ExtendOK
<1>5. /\ call' \in [op : {"make", "append", "appendf", "copy", "resize",
                             "clear", "stream"},
                       pos : 0..SizeMax, bytes : Seq(Byte)]
      /\ freed' \in BOOLEAN
  BY <1>1 DEF StreamRead, Inv, TypeOK
<1> QED BY <1>1, <1>4, <1>5, ArraySuffices

(* A stream that answers nothing leaves the string as it was, provided the   *)
(* callback keeps its hands off the buffer.                                  *)
LEMMA StreamEndInv ==
  ASSUME Inv, ~Scribbles, StreamEnd
  PROVE  Inv'
<1>1. ArrayOK' /\ outcome' \in {"success", "failure"}
  BY UnchangedOK DEF StreamEnd, array
<1> QED BY <1>1, ArraySuffices DEF StreamEnd, Inv, TypeOK

Counted == Inv /\ FreedWithLastHolder

(* Sharing and destroying keep the count equal to the number of holders.     *)
LEMMA HolderInv ==
  ASSUME Counted, NEW c \in Client, Share(c) \/ Destroy(c)
  PROVE  Counted'
<1>1. /\ holders \in SUBSET Client /\ IsFiniteSet(holders)
      /\ Cardinality(holders) \in Nat /\ ref_count = Cardinality(holders)
      /\ (freed <=> holders = {})
  BY ClientAssumption, FS_Subset, FS_CardinalityType
     DEF Counted, Inv, TypeOK, FreedWithLastHolder
<1>a. ASSUME NEW n \in 0..RefMax PROVE RefCount(n) = n
  BY RefAssumption DEF RefCount
<1>b. ASSUME NEW H \in SUBSET Client
      PROVE  IsFiniteSet(H) /\ Cardinality(H) \in 0..RefMax
  BY ClientAssumption, RefAssumption, FS_Subset, FS_CardinalityType
<1>2. /\ holders' \in SUBSET Client /\ IsFiniteSet(holders')
      /\ ref_count' = Cardinality(holders') /\ ref_count' \in Nat
      /\ freed' = (holders' = {})
      /\ UNCHANGED <<array, max_size, call, outcome>>
  <2>1. CASE Share(c)
    <3>1. /\ holders' = holders \union {c} /\ IsFiniteSet(holders')
          /\ Cardinality(holders') = ref_count + 1 /\ holders # {}
      BY <1>1, <2>1, FS_AddElement DEF Share
    <3>2. holders' \in SUBSET Client /\ ref_count' = Cardinality(holders')
      BY <1>1, <1>a, <1>b, <2>1, <3>1 DEF Share
    <3>3. freed' = (holders' = {})
      BY <1>1, <2>1, <3>1 DEF Share, Counted, Inv, TypeOK
    <3>4. ref_count' \in Nat
      BY <3>1, <3>2, FS_CardinalityType
    <3> QED BY <2>1, <3>1, <3>2, <3>3, <3>4 DEF Share
  <2>2. CASE Destroy(c)
    <3>0. /\ holders' = holders \ {c} /\ IsFiniteSet(holders')
          /\ Cardinality(holders') = ref_count - 1 /\ holders' \in SUBSET Client
      BY <1>1, <2>2, FS_RemoveElement DEF Destroy
    <3>1. /\ holders' = holders \ {c} /\ IsFiniteSet(holders')
          /\ ref_count' = Cardinality(holders')
      BY <1>a, <1>b, <2>2, <3>0 DEF Destroy
    <3>2. ref_count' \in Nat /\ (ref_count' = 0 <=> holders' = {})
      BY <3>1, FS_CardinalityType, FS_EmptySet
    <3> QED BY <1>1, <2>2, <3>1, <3>2 DEF Destroy, FreedAt
  <2> QED BY <2>1, <2>2
<1>3. ref_count' \in 0..Cardinality(Client)
  BY <1>2, ClientAssumption, FS_Subset, FS_CardinalityType
<1>4. TypeOK'
  BY <1>2, <1>3 DEF Counted, Inv, TypeOK, array
<1>5. StringInv'
  BY <1>2 DEF Counted, Inv, StringInv, InBounds, TrailingNUL, NoStaleByte,
     StreamReserved, Reading, Granted, Available, array
<1> QED BY <1>2, <1>4, <1>5 DEF Counted, Inv, FreedWithLastHolder

LEMMA InitCounted == Init => Counted
<1> SUFFICES ASSUME Init PROVE Counted
  OBVIOUS
<1>1. TypeOK
  <2>1. ref_count \in 0..Cardinality(Client) /\ holders \subseteq Client
    <3>1. PICK c \in Client : holders = {c}
      BY DEF Init
    <3>2. Cardinality({c}) = 1 /\ {c} \in SUBSET Client
      BY FS_Singleton
    <3>3. 1 <= Cardinality(Client) /\ Cardinality(Client) \in Nat
      BY <3>2, ClientAssumption, FS_Subset, FS_CardinalityType
    <3> QED BY <3>1, <3>3 DEF Init
  <2>2. /\ size \in 1..SizeMax /\ max_size \in 1..SizeMax
        /\ cursor \in 0..SizeMax /\ top \in 0..SizeMax
        /\ data \in [0..size - 1 -> Byte \union {Stale}]
    BY DEF Init
  <2>3. /\ call \in [op : {"make", "append", "appendf", "copy", "resize",
                             "clear", "stream"},
                     pos : 0..SizeMax, bytes : Seq(Byte)]
        /\ outcome \in {"success", "failure", "pending"} /\ freed \in BOOLEAN
    <3>1. <<>> \in Seq(Byte) /\ 0 \in 0..SizeMax
      OBVIOUS
    <3> QED BY <3>1 DEF Init
  <2> QED BY <2>1, <2>2, <2>3 DEF TypeOK
<1>2. StringInv
  BY DEF Init, StringInv, InBounds, TrailingNUL, NoStaleByte, StreamReserved, Reading
<1>3. FreedWithLastHolder
  BY FS_Singleton DEF Init, FreedWithLastHolder
<1> QED BY <1>1, <1>2, <1>3 DEF Counted, Inv

(* Calls on the string leave the holders alone.                              *)
LEMMA HoldersUnchanged ==
  ASSUME Counted, Inv', UNCHANGED <<ref_count, holders, freed>>
  PROVE  Counted'
  BY DEF Counted, FreedWithLastHolder

LEMMA StepCounted == ~Scribbles /\ Counted /\ [Next]_vars => Counted'
<1> SUFFICES ASSUME ~Scribbles, Counted, [Next]_vars
             PROVE  Counted'
  OBVIOUS
<1> USE DEF Counted
<1>1. ASSUME NEW s \in Input, AppendAll(s) \/ AppendF(s) \/ StreamRead(s)
      PROVE  Counted'
  BY <1>1, AppendInv, StreamReadInv, HoldersUnchanged
     DEF AppendAll, AppendF, Called, StreamRead
<1>2. ASSUME NEW s \in Input, NEW pos \in 0..SizeMax, Copy(pos, s)
      PROVE  Counted'
  BY <1>2, CopyInv, HoldersUnchanged DEF Copy, Called
<1>3. ASSUME NEW m \in 0..SizeMax, BeginStream(m) \/ \E c \in Byte : Resize(m, c)
      PROVE  Counted'
  BY <1>3, BeginStreamInv, ResizeInv, HoldersUnchanged DEF BeginStream, Resize, Called
<1>4. CASE Clear \/ StreamEnd
  BY <1>4, ClearInv, StreamEndInv, HoldersUnchanged DEF Clear, Called, StreamEnd
<1>5. ASSUME NEW c \in Client, Share(c) \/ Destroy(c)
      PROVE  Counted'
  BY <1>5, HolderInv
<1>6. CASE UNCHANGED vars
  BY <1>6 DEF vars, Inv, TypeOK, StringInv, InBounds, TrailingNUL, NoStaleByte,
     StreamReserved, Reading, Granted, Available, FreedWithLastHolder
<1> QED BY <1>1, <1>2, <1>3, <1>4, <1>5, <1>6 DEF Next
------------------------------------------------------------------------------
(* The fields keep their types, whatever width size_t has.                   *)
THEOREM TypeCorrect ==
  ASSUME ~Scribbles
  PROVE  Spec => []TypeOK
<1>1. Counted => TypeOK
  BY DEF Counted, Inv
<1>2. Counted /\ [Next]_vars => Counted'
  BY StepCounted
<1> QED BY <1>1, <1>2, InitCounted, PTL DEF Spec

(* The string is terminated within its allocation and its limit, and no      *)
(* write ever left the allocation, if read callbacks keep to their bytes.    *)
THEOREM StringCorrect ==
  ASSUME ~Scribbles
  PROVE  Spec => []StringInv
<1>1. Counted => StringInv
  BY DEF Counted, Inv
<1>2. Counted /\ [Next]_vars => Counted'
  BY StepCounted
<1> QED BY <1>1, <1>2, InitCounted, PTL DEF Spec

(* The memory is freed by the last holder and by no other.                   *)
THEOREM FreedOnce ==
  ASSUME ~Scribbles
  PROVE  Spec => []FreedWithLastHolder
<1>1. Counted => FreedWithLastHolder
  BY DEF Counted
<1>2. Counted /\ [Next]_vars => Counted'
  BY StepCounted
<1> QED BY <1>1, <1>2, InitCounted, PTL DEF Spec
------------------------------------------------------------------------------
(* Sequences given byte by byte: a prefix and what follows it, and bytes     *)
(* overwritten in the middle.                                                *)
Catenated(x, y, z) ==
  /\ Len(x) \in Nat /\ Len(y) \in Nat /\ Len(z) = Len(x) + Len(y)
  /\ \A i \in 1..Len(x) + Len(y) : z[i] = IF i <= Len(x) THEN x[i] ELSE y[i - Len(x)]

LEMMA ConcatFacts ==
  ASSUME NEW x \in Seq(Byte), NEW y \in Seq(Byte)
  PROVE  x \o y \in Seq(Byte) /\ Catenated(x, y, x \o y)
  BY ConcatProperties, LenProperties DEF Catenated

LEMMA ConcatIs ==
  ASSUME NEW x \in Seq(Byte), NEW y \in Seq(Byte), NEW z \in Seq(Byte),
         Catenated(x, y, z)
  PROVE  z = x \o y
<1>1. PICK c : c = x \o y
  OBVIOUS
<1>2. c \in Seq(Byte) /\ Catenated(x, y, c)
  BY <1>1, ConcatFacts
<1>3. Len(z) = Len(c) /\ Len(z) \in Nat /\ \A i \in 1..Len(z) : z[i] = c[i]
  <2>1. PICK n : n = Len(x) + Len(y)
    OBVIOUS
  <2>2. n \in Nat /\ Len(z) = n /\ Len(c) = n
    BY <1>2, <2>1 DEF Catenated
  <2>3. \A i \in 1..n : z[i] = IF i <= Len(x) THEN x[i] ELSE y[i - Len(x)]
    BY <2>1 DEF Catenated
  <2>4. \A i \in 1..n : c[i] = IF i <= Len(x) THEN x[i] ELSE y[i - Len(x)]
    BY <1>2, <2>1 DEF Catenated
  <2> QED BY <2>2, <2>3, <2>4
<1>4. z = c
  BY <1>2, <1>3, SeqEqual
<1> QED BY <1>1, <1>4

LEMMA JoinedSeq ==
  ASSUME NEW u \in Seq(Byte), NEW s \in Seq(Byte), NEW v \in Seq(Byte),
         NEW pos \in 0..Len(u), Len(v) = pos + Len(s),
         \A i \in 1..Len(v) : v[i] = IF i <= pos THEN u[i] ELSE s[i - pos]
  PROVE  v = SubSeq(u, 1, pos) \o s
<1>1. PICK w : w = SubSeq(u, 1, pos)
  OBVIOUS
<1>2. w \in Seq(Byte) /\ Len(w) = pos /\ \A i \in 1..pos : w[i] = u[i]
  BY <1>1, SubSeqProperties
<1>3. Len(s) \in Nat /\ pos \in Nat
  OBVIOUS
<1>4. Catenated(w, s, v)
  BY <1>2, <1>3 DEF Catenated
<1>5. v = w \o s
  BY <1>2, <1>4, ConcatIs
<1> QED BY <1>1, <1>5

LEMMA OverwrittenSeq ==
  ASSUME NEW u \in Seq(Byte), NEW s \in Seq(Byte), NEW v \in Seq(Byte),
         NEW pos \in Nat, pos + Len(s) <= Len(u), Len(v) = Len(u),
         \A i \in 1..Len(v) :
           v[i] = IF i \in pos + 1..pos + Len(s) THEN s[i - pos] ELSE u[i]
  PROVE  v = SubSeq(u, 1, pos) \o s \o SubSeq(u, pos + Len(s) + 1, Len(u))
<1>1. PICK k, l : k = pos + Len(s) /\ l = Len(u)
  OBVIOUS
<1>2. k \in Nat /\ l \in Nat /\ k <= l /\ Len(s) \in Nat
  BY <1>1
<1>3. PICK w, t : w = SubSeq(u, 1, pos) /\ t = SubSeq(u, k + 1, l)
  OBVIOUS
<1>4. w \in Seq(Byte) /\ Len(w) = pos /\ \A i \in 1..pos : w[i] = u[i]
  BY <1>1, <1>2, <1>3, SubSeqProperties
<1>5. /\ t \in Seq(Byte) /\ Len(t) = l - k
      /\ \A i \in 1..l - k : t[i] = u[k + i]
  <2>1. \A i \in k + 1..l : u[i] \in Byte
    BY <1>1, <1>2
  <2>2. /\ t \in Seq(Byte)
        /\ Len(t) = IF k + 1 <= l THEN l - (k + 1) + 1 ELSE 0
        /\ \A i \in 1..l - (k + 1) + 1 : t[i] = u[k + 1 + i - 1]
    BY <1>2, <1>3, <2>1, SubSeqProperties
  <2> QED BY <1>2, <2>2
<1>6. PICK c : c = w \o s
  OBVIOUS
<1>7. c \in Seq(Byte) /\ Catenated(w, s, c)
  BY <1>4, <1>6, ConcatFacts
<1>8. Len(c) = k /\ \A i \in 1..k : c[i] = IF i <= pos THEN w[i] ELSE s[i - pos]
  BY <1>1, <1>4, <1>7 DEF Catenated
<1>9. Catenated(c, t, v)
  <2>1. ASSUME NEW i \in 1..l
        PROVE  v[i] = IF i <= k THEN c[i] ELSE t[i - k]
    <3>1. CASE i <= pos
      <4>1. i \in 1..pos /\ i \in 1..k /\ i \notin pos + 1..pos + Len(s)
        BY <1>1, <1>2, <3>1
      <4> QED BY <1>1, <1>4, <1>8, <3>1, <4>1
    <3>2. CASE i > pos /\ i <= k
      <4>1. i \in 1..k /\ i \in pos + 1..pos + Len(s) /\ ~(i <= pos)
        BY <1>1, <1>2, <3>2
      <4> QED BY <1>1, <1>8, <3>2, <4>1
    <3>3. CASE i > k
      <4>1. i - k \in 1..l - k /\ k + (i - k) = i /\ i \notin pos + 1..pos + Len(s)
        BY <1>1, <1>2, <3>3
      <4> QED BY <1>1, <1>2, <1>5, <3>3, <4>1
    <3> QED BY <1>2, <3>1, <3>2, <3>3
  <2>2. Len(v) = l /\ Len(c) + Len(t) = l
    BY <1>1, <1>2, <1>5, <1>8
  <2> QED BY <1>2, <1>5, <1>8, <2>1, <2>2 DEF Catenated
<1>10. v = c \o t
  BY <1>5, <1>7, <1>9, ConcatIs
<1> QED BY <1>1, <1>3, <1>6, <1>10

(* The string of the abstract specification.                                 *)
Str == [i \in 1..cursor |-> data[i - 1]]
StrSound == /\ Str \in Seq(Byte) /\ Len(Str) = cursor /\ cursor \in Nat
            /\ \A i \in 1..cursor : Str[i] = data[i - 1]

LEMMA InvStr == Inv => StrSound
<1> SUFFICES ASSUME Inv PROVE StrSound
  OBVIOUS
<1>1. cursor \in Nat /\ \A i \in 0..cursor - 1 : data[i] \in Byte
  BY DEF Inv, TypeOK, StringInv, NoStaleByte
<1>2. \A i \in 1..cursor : data[i - 1] \in Byte
  BY <1>1
<1> QED BY <1>1, <1>2 DEF Str, StrSound

LEMMA InvStrNext == Inv' => StrSound'
  BY InvStr, PTL

(* Extend() leaves the bytes up to pos, followed by s.                       *)
LEMMA ExtendStr ==
  ASSUME Inv, Inv', NEW pos \in 0..cursor, NEW s \in Seq(Byte), NEW sz \in size..SizeMax,
         pos + Len(s) < sz, Extend(pos, s, sz)
  PROVE  Str' = SubSeq(Str, 1, pos) \o s /\ cursor' = pos + Len(s)
<1>1. ArrayOK /\ Sized /\ Len(s) \in Nat
  BY InvArray, InvSized
<1>2. /\ cursor' = pos + Len(s)
      /\ data' = Terminated(Put(Reserved(sz), pos, s), pos + Len(s))
  BY DEF Extend
<1>3. data' = [i \in 0..sz - 1 |->
                 IF i < pos + Len(s)
                 THEN IF i \in pos..pos + Len(s) - 1 THEN s[i - pos + 1]
                      ELSE IF i < size THEN data[i] ELSE Stale
                 ELSE IF i = pos + Len(s) THEN NUL ELSE Stale]
  BY <1>2 DEF Terminated, Put, Reserved
<1>4. PICK u, v, c : u = Str /\ v = Str' /\ c = cursor
  OBVIOUS
<1>5. u \in Seq(Byte) /\ Len(u) = c /\ \A i \in 1..c : u[i] = data[i - 1]
  BY <1>4, InvStr DEF StrSound
<1>6. /\ v \in Seq(Byte) /\ Len(v) = pos + Len(s)
      /\ \A i \in 1..pos + Len(s) : v[i] = data'[i - 1]
  BY <1>2, <1>4, InvStrNext DEF StrSound
<1>7. ASSUME NEW i \in 1..pos + Len(s)
      PROVE  v[i] = IF i <= pos THEN u[i] ELSE s[i - pos]
  <2>1. i - 1 \in 0..sz - 1 /\ i - 1 < pos + Len(s)
    BY <1>1 DEF Sized
  <2>2. CASE i <= pos
    <3>1. i - 1 \notin pos..pos + Len(s) - 1 /\ i - 1 < size /\ i \in 1..c
      BY <1>1, <1>4, <2>2 DEF Sized
    <3> QED BY <1>3, <1>5, <1>6, <2>1, <2>2, <3>1
  <2>3. CASE i > pos
    <3>1. i - 1 \in pos..pos + Len(s) - 1 /\ i - 1 - pos + 1 = i - pos
      BY <1>1, <2>3
    <3> QED BY <1>3, <1>6, <2>1, <2>3, <3>1
  <2> QED BY <2>2, <2>3
<1>8. v = SubSeq(u, 1, pos) \o s
  <2>1. pos \in 0..Len(u)
    BY <1>4, <1>5
  <2> QED BY <1>5, <1>6, <1>7, <2>1, JoinedSeq
<1> QED BY <1>2, <1>4, <1>8

(* ensure_space() agrees with the abstract limit.                            *)
LEMMA RoomFits ==
  ASSUME Inv, NEW len \in 0..SizeMax
  PROVE  HasRoom(len) <=> cursor + len < max_size
<1>1. Sized
  BY InvSized
<1>2. Wrap(max_size - cursor) = max_size - cursor
  BY <1>1 DEF Sized, Wrap
<1> QED BY <1>1, <1>2 DEF Sized, HasRoom

LEMMA KeptStr ==
  ASSUME UNCHANGED array
  PROVE  Str' = Str
  BY DEF array, Str

(* The cases of the abstract calls, said of the string of this array.        *)
Stored(t) == Str' = t /\ outcome' = "success"
Refused == Str' = Str /\ outcome' = "failure"
SettlesAt(t) == IF Len(t) < max_size THEN Stored(t) ELSE Refused

LEMMA AppendCases ==
  ASSUME NEW s, call' = [op |-> "append", pos |-> 0, bytes |-> s], UNCHANGED max_size,
         SettlesAt(Str \o s)
  PROVE  Abstract!Next
<1>1. call' = [op |-> "append", pos |-> 0, bytes |-> call'.bytes] /\ call'.bytes = s
  OBVIOUS
<1>2. SettlesAt(Str \o call'.bytes)
  BY <1>1 DEF SettlesAt, Stored
<1>3. Abstract!AppendAll(call'.bytes)
  BY <1>1, <1>2, Zenon DEF Abstract!AppendAll, Abstract!Called, Abstract!Settle,
     Abstract!Fits, SettlesAt, Stored, Refused, Str
<1> QED BY <1>3 DEF Abstract!Next

LEMMA AppendFCases ==
  ASSUME NEW s, call' = [op |-> "appendf", pos |-> 0, bytes |-> s], UNCHANGED max_size,
         SettlesAt(Str \o s) \/ Refused
  PROVE  Abstract!Next
<1>1. call' = [op |-> "appendf", pos |-> 0, bytes |-> call'.bytes] /\ call'.bytes = s
  OBVIOUS
<1>2. SettlesAt(Str \o call'.bytes) \/ Refused
  BY <1>1 DEF SettlesAt, Stored
<1>3. Abstract!AppendF(call'.bytes)
  BY <1>1, <1>2, Zenon DEF Abstract!AppendF, Abstract!Called, Abstract!Settle,
     Abstract!Fits, SettlesAt, Stored, Refused, Str
<1> QED BY <1>3 DEF Abstract!Next

CopiesAt(pos, s) ==
  \/ pos > Len(Str) /\ Refused
  \/ /\ ~(pos > Len(Str)) /\ pos + Len(s) <= Len(Str)
     /\ Stored(SubSeq(Str, 1, pos) \o s \o SubSeq(Str, pos + Len(s) + 1, Len(Str)))
  \/ /\ ~(pos > Len(Str)) /\ ~(pos + Len(s) <= Len(Str))
     /\ SettlesAt(SubSeq(Str, 1, pos) \o s)

LEMMA CopyCases ==
  ASSUME NEW pos, NEW s, call' = [op |-> "copy", pos |-> pos, bytes |-> s],
         UNCHANGED max_size, CopiesAt(pos, s)
  PROVE  Abstract!Next
<1>1. /\ call' = [op |-> "copy", pos |-> call'.pos, bytes |-> call'.bytes]
      /\ call'.pos = pos /\ call'.bytes = s
  OBVIOUS
<1>2. CopiesAt(call'.pos, call'.bytes)
  BY <1>1 DEF CopiesAt, SettlesAt, Stored
<1>3. Abstract!Copy(call'.pos, call'.bytes)
  BY <1>1, <1>2, Zenon DEF Abstract!Copy, Abstract!Called, Abstract!Settle,
     Abstract!Fits, CopiesAt, SettlesAt, Stored, Refused, Str
<1> QED BY <1>3 DEF Abstract!Next

(* A call that fails leaves the string as it is.                             *)
LEMMA FailRefused == Fail => Refused
  BY KeptStr DEF Fail, Refused

LEMMA AppendBytesStr ==
  ASSUME Inv, Inv', NEW s \in Seq(Byte), Len(s) \in 0..SizeMax, AppendBytes(s)
  PROVE  SettlesAt(Str \o s)
<1>1. PICK u, n : u = Str /\ n = cursor
  OBVIOUS
<1>2. u \in Seq(Byte) /\ Len(u) = n /\ n \in Nat
  BY <1>1, InvStr DEF StrSound
<1>3. Len(u \o s) = n + Len(s)
  BY <1>2, ConcatFacts DEF Catenated
<1>4. CASE HasRoom(Len(s))
  <2>1. Extend(cursor, s, SizeFor(Len(s))) /\ outcome' = "success"
    BY <1>4 DEF AppendBytes, Succeed
  <2>2. /\ cursor \in 0..cursor /\ SizeFor(Len(s)) \in size..SizeMax
        /\ cursor + Len(s) < SizeFor(Len(s))
    BY <1>4, InvSized, EnsureSpaceFacts DEF Sized
  <2>3. Str' = SubSeq(Str, 1, cursor) \o s
    BY <2>1, <2>2, ExtendStr
  <2>4. SubSeq(u, 1, n) = u
    BY <1>2, SubSeqFull
  <2>5. Len(u \o s) < max_size
    BY <1>1, <1>3, <1>4, RoomFits
  <2> QED BY <1>1, <2>1, <2>3, <2>4, <2>5 DEF SettlesAt, Stored
<1>5. CASE ~HasRoom(Len(s))
  <2>1. Refused
    BY <1>5, FailRefused DEF AppendBytes
  <2>2. ~(Len(u \o s) < max_size)
    BY <1>1, <1>3, <1>5, RoomFits
  <2> QED BY <1>1, <2>1, <2>2 DEF SettlesAt
<1> QED BY <1>4, <1>5

LEMMA AppendStr ==
  ASSUME Inv, Inv', NEW s \in Input, AppendAll(s) \/ AppendF(s)
  PROVE  Abstract!Next
<1>1. s \in Seq(Byte) /\ Len(s) \in 0..SizeMax
  BY InputFacts
<1>2. CASE AppendAll(s)
  <2>1. SettlesAt(Str \o s)
    BY <1>1, <1>2, AppendBytesStr DEF AppendAll
  <2> QED BY <1>2, <2>1, AppendCases DEF AppendAll, Called
<1>3. CASE AppendF(s)
  <2>1. SettlesAt(Str \o s) \/ Refused
    <3>1. CASE s = <<>> /\ Succeed /\ UNCHANGED array
      <4>1. PICK u : u = Str
        OBVIOUS
      <4>2. u \in Seq(Byte) /\ Len(u) = cursor
        BY <4>1, InvStr DEF StrSound
      <4>3. u \o s = u
        BY <3>1, <4>2, ConcatEmptySeq
      <4>4. Len(u \o s) < max_size
        BY <4>2, <4>3, InvSized DEF Sized
      <4>5. Str' = u \o s /\ outcome' = "success"
        BY <3>1, <4>1, <4>3, KeptStr DEF Succeed
      <4> QED BY <4>1, <4>4, <4>5 DEF SettlesAt, Stored
    <3>2. CASE s # <<>> /\ AppendBytes(s)
      BY <1>1, <3>2, AppendBytesStr
    <3> QED BY <1>3, <3>1, <3>2, FailRefused DEF AppendF
  <2> QED BY <1>3, <2>1, AppendFCases DEF AppendF, Called
<1> QED BY <1>2, <1>3

(* Copying over the end of the string extends it, copying inside it leaves   *)
(* what is before and after.                                                 *)
LEMMA CopyStr ==
  ASSUME Inv, Inv', NEW s \in Input, NEW pos \in 0..SizeMax, Copy(pos, s)
  PROVE  Abstract!Next
<1>1. /\ s \in Seq(Byte) /\ Len(s) \in 0..SizeMax /\ Sized
      /\ call' = [op |-> "copy", pos |-> pos, bytes |-> s]
      /\ UNCHANGED max_size
  BY InputFacts, InvSized DEF Copy, Called
<1> SUFFICES CopiesAt(pos, s)
  BY <1>1, CopyCases
<1>2. PICK u, n : u = Str /\ n = cursor
  OBVIOUS
<1>3. u \in Seq(Byte) /\ Len(u) = n /\ n \in Nat /\ n <= SizeMax
  BY <1>1, <1>2, InvStr DEF StrSound, Sized
<1>4. CASE pos > n
  <2>1. Refused
    BY <1>2, <1>4, FailRefused DEF Copy
  <2>2. pos > Len(Str)
    BY <1>2, <1>3, <1>4
  <2> QED BY <2>1, <2>2 DEF CopiesAt
<1>5. CASE pos <= n /\ Len(s) > n - pos
  <2> DEFINE more == Wrap(Wrap(pos + Len(s)) - cursor)
             t == SubSeq(u, 1, pos) \o s
  <2>1. more = pos + Len(s) - n
    <3>1. n \in 0..SizeMax /\ pos + Len(s) > n /\ pos \in 0..SizeMax
      BY <1>3, <1>5, <1>1
    <3> QED BY <1>1, <1>2, <1>5, <3>1, WrapSum
  <2>2. more \in 0..SizeMax /\ n + more = pos + Len(s)
    BY <1>1, <1>3, <1>5, <2>1
  <2>3. Len(t) = pos + Len(s)
    <3>1. PICK w : w = SubSeq(u, 1, pos)
      OBVIOUS
    <3>2. w \in Seq(Byte) /\ Len(w) = pos
      BY <1>3, <1>5, <3>1, SubSeqProperties
    <3>3. Len(w \o s) = Len(w) + Len(s)
      BY <1>1, <3>2, ConcatFacts DEF Catenated
    <3> QED BY <3>1, <3>2, <3>3
  <2> HIDE DEF t
  <2>4. HasRoom(more) <=> Len(t) < max_size
    BY <1>2, <2>2, <2>3, RoomFits
  <2>5. IF HasRoom(more) THEN Extend(pos, s, SizeFor(more)) /\ outcome' = "success" ELSE Fail
    BY <1>2, <1>3, <1>5 DEF Copy, Succeed
  <2>6. ASSUME HasRoom(more) PROVE SettlesAt(t)
    <3>1. /\ SizeFor(more) \in size..SizeMax /\ pos + Len(s) < SizeFor(more)
          /\ pos \in 0..cursor
      <4>1. /\ cursor + more < max_size
            /\ SizeFor(more) \in size..SizeMax
            /\ cursor + more < SizeFor(more)
        BY <1>1, <2>2, <2>6, EnsureSpaceFacts
      <4> QED BY <1>2, <1>3, <1>5, <2>2, <4>1
    <3>2. Str' = SubSeq(Str, 1, pos) \o s
      BY <1>1, <2>5, <2>6, <3>1, ExtendStr
    <3>3. Str' = t
      BY <1>2, <3>2 DEF t
    <3> QED BY <2>4, <2>5, <2>6, <3>3 DEF SettlesAt, Stored
  <2>7. ASSUME ~HasRoom(more) PROVE SettlesAt(t)
    BY <2>4, <2>5, <2>7, FailRefused DEF SettlesAt
  <2>8. SettlesAt(SubSeq(Str, 1, pos) \o s)
    BY <1>2, <2>6, <2>7 DEF SettlesAt, Stored, t
  <2>9. ~(pos > Len(Str)) /\ ~(pos + Len(s) <= Len(Str))
    BY <1>1, <1>2, <1>3, <1>5
  <2> QED BY <2>8, <2>9 DEF CopiesAt
<1>6. CASE pos <= n /\ ~(Len(s) > n - pos)
  <2>1. /\ data' = Put(data, pos, s) /\ outcome' = "success" /\ cursor' = n
    BY <1>2, <1>6, <1>3 DEF Copy, Succeed
  <2>2. DOMAIN data = 0..size - 1 /\ n < size /\ size \in Nat
    BY <1>1, <1>2 DEF Inv, TypeOK, Sized
  <2>3. PICK v : v = Str'
    OBVIOUS
  <2>4. v \in Seq(Byte) /\ Len(v) = n /\ \A i \in 1..n : v[i] = data'[i - 1]
    BY <2>1, <2>3, InvStrNext DEF StrSound
  <2>5. \A i \in 1..n : u[i] = data[i - 1]
    BY <1>2, InvStr DEF StrSound
  <2>6. ASSUME NEW i \in 1..n
        PROVE  v[i] = IF i \in pos + 1..pos + Len(s) THEN s[i - pos] ELSE u[i]
    <3>1. i - 1 \in DOMAIN data
      BY <1>3, <2>2
    <3>2. data'[i - 1] = IF i - 1 \in pos..pos + Len(s) - 1
                         THEN s[i - 1 - pos + 1] ELSE data[i - 1]
      BY <2>1, <3>1 DEF Put
    <3>3. /\ i - 1 \in pos..pos + Len(s) - 1 <=> i \in pos + 1..pos + Len(s)
          /\ i - 1 - pos + 1 = i - pos
      BY <1>1, <1>3
    <3> QED BY <2>4, <2>5, <3>2, <3>3
  <2>7. pos \in Nat /\ pos + Len(s) <= Len(u) /\ Len(v) = Len(u)
    BY <1>1, <1>3, <1>6, <2>4
  <2>8. v = SubSeq(u, 1, pos) \o s \o SubSeq(u, pos + Len(s) + 1, Len(u))
    BY <1>1, <1>3, <2>4, <2>6, <2>7, OverwrittenSeq
  <2>9. ~(pos > Len(u)) /\ pos + Len(s) <= Len(u)
    BY <1>3, <1>6, <2>7
  <2>10. Stored(SubSeq(Str, 1, pos) \o s \o SubSeq(Str, pos + Len(s) + 1, Len(Str)))
    BY <1>2, <2>1, <2>3, <2>8 DEF Stored
  <2>11. ~(pos > Len(Str)) /\ pos + Len(s) <= Len(Str)
    BY <1>2, <2>9
  <2> QED BY <2>10, <2>11 DEF CopiesAt
<1> QED BY <1>3, <1>4, <1>5, <1>6

(* Resizing and clearing.                                                    *)
LEMMA ResizeCases ==
  ASSUME NEW m, NEW c, call' = [op |-> "resize", pos |-> m, bytes |-> <<c>>],
         UNCHANGED max_size,
         SettlesAt([i \in 1..m |-> IF i <= Len(Str) THEN Str[i] ELSE c])
  PROVE  Abstract!Next
<1>1. /\ call' = [op |-> "resize", pos |-> call'.pos, bytes |-> <<call'.bytes[1]>>]
      /\ call'.pos = m /\ call'.bytes[1] = c /\ call'.op = "resize"
  OBVIOUS
<1>2. SettlesAt([i \in 1..call'.pos |-> IF i <= Len(Str) THEN Str[i] ELSE call'.bytes[1]])
  BY <1>1 DEF SettlesAt, Stored
<1>3. Abstract!Resize(call'.pos, call'.bytes[1])
  BY <1>1, <1>2, Zenon DEF Abstract!Resize, Abstract!Called, Abstract!Settle,
     Abstract!Fits, SettlesAt, Stored, Refused, Str
<1> QED BY <1>1, <1>3 DEF Abstract!Next

LEMMA CutStr ==
  ASSUME Inv, Inv', NEW end \in 0..cursor, data' = Terminated(data, end), cursor' = end
  PROVE  Str' = [i \in 1..end |-> Str[i]]
<1>1. DOMAIN data = 0..size - 1 /\ Sized
  BY InvSized DEF Inv, TypeOK
<1>2. ASSUME NEW i \in 1..end PROVE data'[i - 1] = Str[i]
  <2>1. i - 1 \in 0..size - 1 /\ i - 1 < end /\ i \in 1..cursor
    BY <1>1 DEF Sized
  <2>2. Str[i] = data[i - 1]
    BY <2>1, InvStr DEF StrSound
  <2> QED BY <1>1, <2>1, <2>2 DEF Terminated
<1>3. Str' = [i \in 1..cursor' |-> data'[i - 1]]
  BY DEF Str
<1> QED BY <1>2, <1>3

LEMMA ResizeStr ==
  ASSUME Inv, Inv', NEW m \in 0..SizeMax, NEW c \in Byte, Resize(m, c)
  PROVE  Abstract!Next
<1>1. /\ call' = [op |-> "resize", pos |-> m, bytes |-> <<c>>]
      /\ UNCHANGED max_size /\ Sized /\ m \in Nat
  BY InvSized DEF Resize, Called
<1>2. PICK u, n, v : u = Str /\ n = cursor /\ v = Str'
  OBVIOUS
<1>3. u \in Seq(Byte) /\ Len(u) = n /\ n \in Nat /\ n < max_size
  BY <1>1, <1>2, InvStr DEF StrSound, Sized
<1> DEFINE t == [i \in 1..m |-> IF i <= Len(u) THEN u[i] ELSE c]
<1>4. Len(t) = m
  BY <1>1
<1>5. CASE m <= n
  <2>1. data' = Terminated(data, m) /\ cursor' = m /\ outcome' = "success" /\ m \in 0..cursor
    BY <1>1, <1>2, <1>3, <1>5 DEF Resize, Succeed
  <2>2. v = [i \in 1..m |-> u[i]]
    BY <1>2, <2>1, CutStr
  <2>3. v = t
    BY <1>1, <1>3, <1>5, <2>2
  <2>4. Len(t) < max_size
    BY <1>3, <1>4, <1>5, <1>1 DEF Sized
  <2> HIDE DEF t
  <2>5. SettlesAt(t)
    BY <1>2, <2>1, <2>3, <2>4 DEF SettlesAt, Stored
  <2> QED BY <1>1, <1>2, <2>5, ResizeCases DEF t
<1>6. CASE ~(m <= n) /\ HasRoom(m - cursor)
  <2> DEFINE s == [i \in 1..m - cursor |-> c]
  <2>1. m - n \in 0..SizeMax /\ n + (m - n) = m /\ m - cursor \in Nat /\ m - cursor <= SizeMax
    BY <1>1, <1>2, <1>3, <1>6
  <2>2. s \in Seq(Byte) /\ Len(s) = m - n /\ \A i \in 1..m - n : s[i] = c
    BY <1>2, <2>1
  <2>3. Extend(cursor, s, SizeFor(m - cursor)) /\ outcome' = "success"
    BY <1>2, <1>6 DEF Resize, Succeed
  <2> HIDE DEF s
  <2>4. /\ cursor + (m - cursor) < max_size /\ SizeFor(m - cursor) \in size..SizeMax
        /\ cursor + (m - cursor) < SizeFor(m - cursor)
    BY <1>1, <1>6, <2>1, EnsureSpaceFacts
  <2>5. cursor \in 0..cursor /\ cursor + Len(s) < SizeFor(m - cursor) /\ m < max_size
    BY <1>2, <1>3, <2>1, <2>2, <2>4
  <2>6. Str' = SubSeq(Str, 1, cursor) \o s
    BY <2>2, <2>3, <2>4, <2>5, ExtendStr
  <2>7. PICK r : r = s
    OBVIOUS
  <2>8. SubSeq(u, 1, n) = u
    BY <1>3, SubSeqFull
  <2>9. v = u \o r /\ r \in Seq(Byte) /\ Len(r) = m - n
    BY <1>2, <2>2, <2>6, <2>7, <2>8
  <2>10. u \o r \in Seq(Byte) /\ Catenated(u, r, u \o r)
    BY <1>3, <2>9, ConcatFacts
  <2>11. v \in Seq(Byte) /\ Len(v) = m /\ \A i \in 1..m : v[i] = IF i <= n THEN u[i] ELSE r[i - n]
    BY <1>3, <2>1, <2>9, <2>10 DEF Catenated
  <2>12. \A i \in 1..m : v[i] = IF i <= n THEN u[i] ELSE c
    <3>1. \A i \in 1..m : ~(i <= n) => i - n \in 1..m - n
      BY <1>1, <1>3
    <3> QED BY <2>2, <2>7, <2>11, <3>1
  <2>13. v = [i \in 1..m |-> v[i]]
    BY <2>11, LenProperties
  <2>14. v = t
    BY <1>3, <2>12, <2>13
  <2> HIDE DEF t
  <2>15. SettlesAt(t)
    BY <1>2, <1>4, <2>3, <2>5, <2>14 DEF SettlesAt, Stored
  <2> QED BY <1>1, <1>2, <2>15, ResizeCases DEF t
<1>7. CASE ~(m <= n) /\ ~HasRoom(m - cursor)
  <2>1. m - cursor \in 0..SizeMax /\ cursor + (m - cursor) = m
    BY <1>1, <1>2, <1>3, <1>7
  <2>2. ~(Len(t) < max_size)
    BY <1>4, <1>7, <2>1, RoomFits
  <2>3. Refused
    BY <1>2, <1>7, FailRefused DEF Resize
  <2> HIDE DEF t
  <2>4. SettlesAt(t)
    BY <2>2, <2>3 DEF SettlesAt
  <2> QED BY <1>1, <1>2, <2>4, ResizeCases DEF t
<1> QED BY <1>5, <1>6, <1>7

LEMMA ClearStr ==
  ASSUME Inv, Inv', Clear
  PROVE  Abstract!Next
<1>1. /\ call' = [op |-> "clear", pos |-> 0, bytes |-> <<>>] /\ UNCHANGED max_size
      /\ outcome' = "success" /\ data' = Terminated(data, 0) /\ cursor' = 0
  BY DEF Clear, Called, Succeed
<1>2. Str' = [i \in 1..cursor' |-> data'[i - 1]]
  BY DEF Str
<1>3. Str' = <<>>
  BY <1>1, <1>2
<1>4. Abstract!Clear
  BY <1>1, <1>3 DEF Abstract!Clear, Abstract!Called, Str
<1> QED BY <1>4 DEF Abstract!Next

(* Streams.  Only a stream is ever pending, and it has not answered yet.     *)
Streaming == Reading => call.op = "stream" /\ call.bytes = <<>>

LEMMA BeginStreamStr ==
  ASSUME Inv, Inv', NEW m \in 0..SizeMax, BeginStream(m)
  PROVE  Abstract!Next
<1>1. /\ call' = [op |-> "stream", pos |-> m, bytes |-> <<>>] /\ UNCHANGED max_size /\ Sized
  BY InvSized DEF BeginStream, Called
<1>2. call' = [op |-> "stream", pos |-> call'.pos, bytes |-> <<>>] /\ call'.pos = m
  BY <1>1
<1>3. Len(Str) = cursor /\ Available = max_size - cursor
  BY <1>1, InvStr DEF StrSound, Available, Wrap, Sized
<1>4. /\ Str' = Str
      /\ \/ (outcome' = "failure" /\ m > 0 /\ ~(Len(Str) + 1 < max_size))
         \/ (outcome' = "pending" /\ (m = 0 \/ Len(Str) + 1 < max_size))
  <2>1. CASE m >= Available /\ Available = 1
    <3>1. Fail
      BY <2>1 DEF BeginStream
    <3> QED BY <1>1, <1>3, <2>1, <3>1, KeptStr DEF Fail, Sized
  <2>2. CASE ~(m >= Available /\ Available = 1)
    <3>1. HasRoom(Granted(m))
      BY <1>1, <2>2, GrantedFacts
    <3>2. /\ outcome' = "pending" /\ cursor' = cursor
          /\ size' = SizeFor(Granted(m)) /\ data' = Reserved(size')
      BY <2>2, <3>1 DEF BeginStream
    <3>3. Granted(m) \in Nat /\ Granted(m) <= SizeMax
      BY <1>1, <2>2, GrantedFacts
    <3>4. size' \in size..SizeMax
      BY <1>1, <3>1, <3>2, <3>3, EnsureSpaceFacts
    <3>5. \A i \in 1..cursor : data'[i - 1] = data[i - 1]
      BY <1>1, <3>2, <3>4 DEF Reserved, Sized
    <3>6. Str' = Str
      <4>1. Str' = [i \in 1..cursor' |-> data'[i - 1]]
        BY DEF Str
      <4> QED BY <3>2, <3>5, <4>1 DEF Str
    <3>7. m = 0 \/ Len(Str) + 1 < max_size
      BY <1>1, <1>3, <2>2 DEF Sized
    <3> QED BY <3>2, <3>6, <3>7
  <2> QED BY <2>1, <2>2
<1>5. /\ Str' = Str
      /\ \/ (outcome' = "failure" /\ call'.pos > 0 /\ ~(Len(Str) + 1 < max_size))
         \/ (outcome' = "pending" /\ (call'.pos = 0 \/ Len(Str) + 1 < max_size))
  BY <1>2, <1>4
<1>6. Abstract!BeginStream(call'.pos)
  BY <1>1, <1>2, <1>5, Zenon DEF Abstract!BeginStream, Abstract!Called, Abstract!Fits, Str
<1> QED BY <1>6 DEF Abstract!Next

(* What a stream answers is appended as a whole.                             *)
LEMMA AnswerStr ==
  ASSUME Inv, Streaming, Reading, NEW s \in Seq(Byte), Len(s) <= Granted(call.pos) \/ s = <<>>,
         cursor + Len(s) < max_size, Str' = Str \o s, outcome' = "success",
         UNCHANGED max_size, call' = [call EXCEPT !.bytes = s]
  PROVE  Abstract!Next
<1>1. call'.bytes = s /\ call.op = "stream" /\ outcome = "pending"
  BY DEF Inv, TypeOK, Streaming, Reading
<1>2. call' = [call EXCEPT !.bytes = call'.bytes]
  BY <1>1
<1>3. Len(s) <= call.pos
  <2>1. call.pos \in Nat /\ Len(s) \in Nat /\ Sized
    BY InvSized DEF Inv, TypeOK
  <2>2. Available = max_size - cursor
    BY <2>1 DEF Available, Wrap, Sized
  <2>3. Granted(call.pos) <= call.pos
    BY <2>1, <2>2 DEF Granted, Sized
  <2>4. Granted(call.pos) \in Int
    BY <2>1, <2>2 DEF Granted, Sized
  <2>5. s = <<>> => Len(s) = 0
    OBVIOUS
  <2> QED BY <2>1, <2>3, <2>4, <2>5
<1>4. Len(Str \o s) < max_size
  <2>1. PICK u : u = Str
    OBVIOUS
  <2>2. u \in Seq(Byte) /\ Len(u) = cursor
    BY <2>1, InvStr DEF StrSound
  <2>3. Len(u \o s) = cursor + Len(s)
    BY <2>2, ConcatFacts DEF Catenated
  <2> QED BY <2>1, <2>3
<1>5. /\ Len(call'.bytes) <= call.pos /\ Len(Str \o call'.bytes) < max_size
      /\ Str' = Str \o call'.bytes
  BY <1>1, <1>3, <1>4
<1>6. Abstract!EndStream(call'.bytes)
  BY <1>1, <1>2, <1>5, Zenon DEF Abstract!EndStream, Abstract!Fits, Str
<1> QED BY <1>6 DEF Abstract!Next

LEMMA StreamReadStr ==
  ASSUME Inv, Inv', Streaming, NEW s \in Input, StreamRead(s)
  PROVE  Abstract!Next
<1>1. /\ s \in Seq(Byte) /\ Len(s) \in 0..SizeMax /\ Sized /\ Reading
      /\ cursor \in 0..cursor /\ size \in size..SizeMax
      /\ Extend(cursor, s, size) /\ outcome' = "success"
      /\ Len(s) <= Granted(call.pos)
      /\ UNCHANGED max_size /\ call' = [call EXCEPT !.bytes = s]
  BY InputFacts, InvSized DEF StreamRead, Succeed, Sized
<1>2. /\ Granted(call.pos) \in Nat
      /\ cursor + Granted(call.pos) < size /\ cursor + Granted(call.pos) < max_size
  BY <1>1 DEF Inv, StringInv, StreamReserved, Smaller, Sized
<1>3. cursor + Len(s) < size /\ cursor + Len(s) < max_size
  BY <1>1, <1>2 DEF Sized
<1>4. Str' = SubSeq(Str, 1, cursor) \o s
  BY <1>1, <1>3, ExtendStr
<1>5. SubSeq(Str, 1, cursor) = Str
  <2>1. PICK u, n : u = Str /\ n = cursor
    OBVIOUS
  <2>2. u \in Seq(Byte) /\ Len(u) = n
    BY <2>1, InvStr DEF StrSound
  <2>3. SubSeq(u, 1, n) = u
    BY <2>2, SubSeqFull
  <2> QED BY <2>1, <2>3
<1>6. Str' = Str \o s
  BY <1>4, <1>5
<1> QED BY <1>1, <1>3, <1>6, AnswerStr

LEMMA StreamEndStr ==
  ASSUME Inv, Streaming, ~Scribbles, StreamEnd
  PROVE  Abstract!Next
<1>1. /\ Reading /\ outcome' \in {"success", "failure"} /\ UNCHANGED <<max_size, call>>
      /\ Str' = Str /\ call.op = "stream" /\ call.bytes = <<>> /\ outcome = "pending"
  BY KeptStr DEF StreamEnd, array, Streaming, Reading
<1>2. CASE outcome' = "failure"
  <2>1. Abstract!FailStream
    BY <1>1, <1>2 DEF Abstract!FailStream, Str
  <2> QED BY <2>1 DEF Abstract!Next
<1>3. CASE outcome' = "success"
  <2>1. <<>> \in Seq(Byte) /\ Len(<<>>) = 0
    OBVIOUS
  <2>2. Str \o <<>> = Str
    <3>1. PICK u : u = Str
      OBVIOUS
    <3>2. u \in Seq(Byte)
      BY <3>1, InvStr DEF StrSound
    <3>3. u \o <<>> = u
      BY <3>2, ConcatEmptySeq
    <3> QED BY <3>1, <3>3
  <2>3. Str' = Str \o <<>>
    BY <1>1, <2>2
  <2>4. call' = [call EXCEPT !.bytes = <<>>]
    BY <1>1 DEF Inv, TypeOK
  <2>5. cursor + Len(<<>>) < max_size
    BY <2>1, InvSized DEF Sized
  <2>6. PICK s : s = <<>>
    OBVIOUS
  <2> QED BY <1>1, <1>3, <2>1, <2>3, <2>4, <2>5, <2>6, AnswerStr
<1> QED BY <1>1, <1>2, <1>3

LEMMA StepStreaming == Inv /\ Streaming /\ [Next]_vars => Streaming'
<1> SUFFICES ASSUME Inv, Streaming, [Next]_vars, Reading'
             PROVE  call'.op = "stream" /\ call'.bytes = <<>>
  BY DEF Streaming
<1>1. CASE UNCHANGED <<call, outcome>>
  BY <1>1 DEF Streaming, Reading
<1>2. ASSUME NEW m \in 0..SizeMax, BeginStream(m)
      PROVE  call'.op = "stream" /\ call'.bytes = <<>>
  BY <1>2 DEF BeginStream, Called
<1>3. ASSUME outcome' \in {"success", "failure"} PROVE FALSE
  BY <1>3 DEF Reading
<1>4. ASSUME NEW s \in Input, NEW pos \in 0..SizeMax,
             AppendAll(s) \/ AppendF(s) \/ StreamRead(s) \/ Copy(pos, s)
      PROVE  FALSE
  BY <1>3, <1>4 DEF AppendAll, AppendF, AppendBytes, StreamRead, Copy, Succeed, Fail
<1>5. ASSUME NEW m \in 0..SizeMax, NEW c \in Byte, Resize(m, c)
      PROVE  FALSE
  BY <1>3, <1>5 DEF Resize, Succeed, Fail
<1>6. ASSUME Clear \/ StreamEnd PROVE FALSE
  BY <1>3, <1>6 DEF Clear, StreamEnd, Succeed
<1>7. ASSUME NEW c \in Client, Share(c) \/ Destroy(c)
      PROVE  UNCHANGED <<call, outcome>>
  BY <1>7 DEF Share, Destroy
<1>8. 0 \in 0..SizeMax
  OBVIOUS
<1> QED BY <1>1, <1>2, <1>4, <1>5, <1>6, <1>7, <1>8 DEF Next, vars

(* Every call is a call of the abstract string, or leaves it as it is.       *)
LEMMA StepStr ==
  ~Scribbles /\ Inv /\ Inv' /\ Streaming /\ [Next]_vars => [Abstract!Next]_(Abstract!vars)
<1> SUFFICES ASSUME ~Scribbles, Inv, Inv', Streaming, [Next]_vars
             PROVE  Abstract!Next \/ UNCHANGED <<Str, max_size, call, outcome>>
  BY DEF Abstract!vars, Str
<1>1. ASSUME NEW s \in Input, AppendAll(s) \/ AppendF(s) \/ StreamRead(s)
      PROVE  Abstract!Next
  BY <1>1, AppendStr, StreamReadStr
<1>2. ASSUME NEW s \in Input, NEW pos \in 0..SizeMax, Copy(pos, s)
      PROVE  Abstract!Next
  BY <1>2, CopyStr
<1>3. ASSUME NEW m \in 0..SizeMax, BeginStream(m) \/ \E c \in Byte : Resize(m, c)
      PROVE  Abstract!Next
  BY <1>3, BeginStreamStr, ResizeStr
<1>4. CASE Clear \/ StreamEnd
  BY <1>4, ClearStr, StreamEndStr
<1>5. ASSUME UNCHANGED vars \/ \E c \in Client : Share(c) \/ Destroy(c)
      PROVE  UNCHANGED <<Str, max_size, call, outcome>>
  BY <1>5, KeptStr DEF vars, Share, Destroy, array
<1> QED BY <1>1, <1>2, <1>3, <1>4, <1>5 DEF Next

LEMMA InitStr == Init => Abstract!Init /\ Streaming
  BY DEF Init, Abstract!Init, Streaming, Reading

(* The array implements the byte string: a call changes the string as a      *)
(* whole or not at all, says which, and refuses only what does not fit.      *)
THEOREM StringImplemented ==
  ASSUME ~Scribbles
  PROVE  Spec => ImplementsByteString
<1>1. Counted /\ [Next]_vars => Counted'
  BY StepCounted
<1>2. Counted => Inv
  BY DEF Counted
<1>3. Spec => []Inv
  BY <1>1, <1>2, InitCounted, PTL DEF Spec
<1>4. Inv /\ Inv' /\ Streaming /\ [Next]_vars => [Abstract!Next]_(Abstract!vars)
  BY StepStr
<1> QED BY <1>3, <1>4, InitStr, StepStreaming, PTL DEF Spec, ImplementsByteString, Abstract!Spec
==============================================================================
