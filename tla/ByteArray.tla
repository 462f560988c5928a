------------------------------ MODULE ByteArray ------------------------------
(* The growing byte array of src/bytearray.c, shared by reference count.     *)
(* A call is one step, except byte_array_append_stream(), which runs the     *)
(* client's read callback on the reserved space between its two halves.      *)
EXTENDS Integers, Sequences, FiniteSets

CONSTANTS Byte,         \* the bytes
          NUL,          \* the terminator, one of them
          Stale,        \* what bytes behind the terminator hold: never read
          SizeMax,      \* SIZE_MAX: size_t arithmetic is modulo SizeMax + 1
          InitialSize,  \* 128, the first allocation
          RefMax,       \* UINT32_MAX: reference counts are modulo RefMax + 1
          Client,       \* who may hold a reference, one each: RefMax at most
          Input,        \* the byte sequences a call or a stream supplies
          Scribbles     \* whether a read callback may write to the buffer
                        \* beyond the bytes it says it has read

ASSUME ByteAssumption == NUL \in Byte /\ Stale \notin Byte
ASSUME SizeAssumption == SizeMax \in Nat /\ InitialSize \in 1..SizeMax
ASSUME InputAssumption == \A s \in Input : s \in Seq(Byte) /\ Len(s) <= SizeMax
ASSUME ClientAssumption == IsFiniteSet(Client)
ASSUME RefAssumption == RefMax \in Nat /\ Cardinality(Client) <= RefMax
ASSUME ScribblesAssumption == Scribbles \in BOOLEAN

VARIABLES data,       \* array->data, the bytes at 0 .. size - 1
          cursor,     \* array->cursor
          max_size,   \* array->max_size
          size,       \* array->size
          ref_count,  \* array->ref_count
          holders,    \* the clients that hold a reference
          freed,      \* whether the array and its data have been freed
          top,        \* the last offset any call has written to
          call,       \* the latest call and its arguments
          outcome     \* how it ended, "pending" inside a read callback

array == <<data, cursor, size, top>>
vars == <<data, cursor, max_size, size, ref_count, holders, freed,
          top, call, outcome>>

Wrap(x) == IF x > SizeMax THEN x - (SizeMax + 1)
           ELSE IF x < 0 THEN x + (SizeMax + 1) ELSE x

TypeOK == /\ cursor \in 0..SizeMax
          /\ max_size \in 1..SizeMax
          /\ size \in 1..SizeMax
          /\ data \in [0..size - 1 -> Byte \union {Stale}]
          /\ ref_count \in 0..Cardinality(Client)
          /\ holders \subseteq Client
          /\ freed \in BOOLEAN
          /\ top \in 0..SizeMax
          /\ call \in [op : {"make", "append", "appendf", "copy", "resize",
                             "clear", "stream"},
                       pos : 0..SizeMax, bytes : Seq(Byte)]
          /\ outcome \in {"success", "failure", "pending"}

(* make_byte_array(): the limit must leave room for the terminator, which is *)
(* one of its bytes (include/bytearray.h). Of a limit of 0, which the code   *)
(* does not refuse, nothing is modelled: it writes the NUL all the same, to  *)
(* an allocation of no bytes.                                                *)
Init == /\ max_size \in 1..SizeMax
        /\ size = IF InitialSize > max_size THEN max_size ELSE InitialSize
        /\ cursor = 0
        /\ data = [i \in 0..size - 1 |-> IF i = 0 THEN NUL ELSE Stale]
        /\ ref_count = 1
        /\ \E c \in Client : holders = {c}
        /\ freed = FALSE
        /\ top = 0
        /\ call = [op |-> "make", pos |-> 0, bytes |-> <<>>]
        /\ outcome = "success"
------------------------------------------------------------------------------
(* ensure_space(): whether len more bytes and the terminator stay within     *)
(* max_size, and the allocation after it.                                    *)
HasRoomForAll(len) == len <= Wrap(max_size - cursor)
HasRoom(len) == len < Wrap(max_size - cursor)

IsPowerOfTwo(m) == \E k \in 0..m : m = 2^k
CandidatesUncapped(m) == {k \in m..2 * SizeMax : IsPowerOfTwo(k)}
Candidates(m) == {k \in m..SizeMax : k = SizeMax \/ IsPowerOfTwo(k)}
RoundUp(m) == CHOOSE k \in Candidates(m) : \A j \in Candidates(m) : k <= j

Needed(len) == Wrap(Wrap(cursor + len) + 1)
SizeForBytes(len) == IF len > Wrap(size - cursor) THEN RoundUp(Needed(len)) ELSE size
SizeFor(len) == IF len >= Wrap(size - cursor) THEN RoundUp(Needed(len)) ELSE size

Larger(x, y) == IF x > y THEN x ELSE y
Smaller(x, y) == IF x < y THEN x ELSE y

Reserved(sz) == [i \in 0..sz - 1 |-> IF i < size THEN data[i] ELSE Stale]
Put(d, pos, s) ==
  [i \in DOMAIN d |-> IF i \in pos..pos + Len(s) - 1 THEN s[i - pos + 1] ELSE d[i]]
Terminated(d, end) ==
  [i \in DOMAIN d |-> IF i < end THEN d[i] ELSE IF i = end THEN NUL ELSE Stale]

(* The bytes s behind the cursor, which moves to their end.                  *)
Extend(pos, s, sz) == LET end == pos + Len(s) IN
  /\ data' = Terminated(Put(Reserved(sz), pos, s), end)
  /\ cursor' = end
  /\ size' = sz
  /\ top' = Larger(top, end)

Called(op, pos, s) == /\ holders # {}
                      /\ outcome # "pending"
                      /\ call' = [op |-> op, pos |-> pos, bytes |-> s]
                      /\ UNCHANGED <<max_size, ref_count, holders, freed>>

Succeed == outcome' = "success"
Fail == outcome' = "failure" /\ UNCHANGED array

AppendBytes(s) == IF HasRoom(Len(s))
                  THEN Extend(cursor, s, SizeFor(Len(s))) /\ Succeed
                  ELSE Fail

AppendAll(s) == Called("append", 0, s) /\ AppendBytes(s)

(* byte_array_vappendf(): text of length 0 needs no room, and vsnprintf()    *)
(* may fail.                                                                 *)
AppendF(s) == /\ Called("appendf", 0, s)
              /\ \/ s = <<>> /\ Succeed /\ UNCHANGED array
                 \/ s # <<>> /\ AppendBytes(s)
                 \/ Fail

Copy(pos, s) ==
  /\ Called("copy", pos, s)
  /\ IF pos > cursor THEN Fail
     ELSE IF Len(s) > cursor - pos
     THEN LET more == Wrap(Wrap(pos + Len(s)) - cursor)
          IN  IF HasRoom(more)
              THEN Extend(pos, s, SizeFor(more)) /\ Succeed
              ELSE Fail
     ELSE /\ data' = Put(data, pos, s)
          /\ Succeed
          /\ UNCHANGED <<cursor, size, top>>

Resize(m, c) ==
  /\ Called("resize", m, <<c>>)
  /\ IF m <= cursor
     THEN /\ data' = Terminated(data, m)
          /\ cursor' = m
          /\ Succeed
          /\ UNCHANGED <<size, top>>
     ELSE IF HasRoom(m - cursor)
     THEN Extend(cursor, [i \in 1..m - cursor |-> c], SizeFor(m - cursor)) /\ Succeed
     ELSE Fail

Clear == /\ Called("clear", 0, <<>>)
         /\ data' = Terminated(data, 0)
         /\ cursor' = 0
         /\ Succeed
         /\ UNCHANGED <<size, top>>
------------------------------------------------------------------------------
(* byte_array_append_stream(): a request that does not fit is cut down to    *)
(* what does, and fails only if nothing does.                                *)
Available == Wrap(max_size - cursor)
Granted(len) == IF len >= Available THEN Available - 1 ELSE len

BeginStream(len) ==
  /\ Called("stream", len, <<>>)
  /\ IF (len >= Available /\ Available = 1) \/ ~HasRoom(Granted(len))
     THEN Fail
     ELSE /\ size' = SizeFor(Granted(len))
          /\ data' = Reserved(size')
          /\ outcome' = "pending"
          /\ UNCHANGED <<cursor, top>>

Reading == outcome = "pending"

StreamRead(s) ==
  /\ Reading
  /\ s # <<>> /\ Len(s) <= Granted(call.pos)
  /\ Extend(cursor, s, size)
  /\ Succeed
  /\ call' = [call EXCEPT !.bytes = s]
  /\ UNCHANGED <<max_size, ref_count, holders, freed>>

StreamEnd ==
  /\ Reading
  /\ outcome' \in {"success", "failure"}
  /\ IF Scribbles /\ Granted(call.pos) > 0
     THEN \E b \in Byte : data' = [data EXCEPT ![cursor] = b]
     ELSE UNCHANGED data
  /\ UNCHANGED <<cursor, max_size, size, ref_count, holders, freed, top, call>>
------------------------------------------------------------------------------
(* share_byte_array(), destroy_byte_array(): the count is a uint32_t, and no *)
(* call looks whether it wraps.                                              *)
RefCount(n) == IF n > RefMax THEN n - (RefMax + 1)
               ELSE IF n < 0 THEN n + (RefMax + 1) ELSE n

Share(c) == /\ holders # {} /\ c \notin holders
            /\ ref_count' = RefCount(ref_count + 1)
            /\ holders' = holders \union {c}
            /\ UNCHANGED <<array, max_size, freed, call, outcome>>

FreedAtOne(count) == count <= 1
FreedAt(count) == count = 0

Destroy(c) == /\ ~Reading
              /\ c \in holders
              /\ ref_count' = RefCount(ref_count - 1)
              /\ holders' = holders \ {c}
              /\ freed' = FreedAt(ref_count')
              /\ UNCHANGED <<array, max_size, call, outcome>>

Next == \/ \E s \in Input : \/ AppendAll(s) \/ AppendF(s) \/ StreamRead(s)
                            \/ \E pos \in 0..SizeMax : Copy(pos, s)
        \/ \E m \in 0..SizeMax : BeginStream(m) \/ \E c \in Byte : Resize(m, c)
        \/ Clear \/ StreamEnd
        \/ \E c \in Client : Share(c) \/ Destroy(c)

Spec == Init /\ [][Next]_vars
------------------------------------------------------------------------------
(* The string always ends in its terminator, within what is allocated and    *)
(* within max_size, and nothing was ever written beyond the allocation:      *)
(* ensure_space() counts the terminator, and its sums do not wrap around.    *)
InBounds == cursor < size /\ cursor < max_size /\ top < size
TrailingNUL == data[cursor] = NUL

(* No byte of the string is one that was never written.                      *)
NoStaleByte == \A i \in 0..cursor - 1 : data[i] \in Byte

(* The array is freed with its last holder, not before and not never.        *)
FreedWithLastHolder == /\ ref_count = Cardinality(holders)
                       /\ freed <=> holders = {}

(* What all calls keep true, for a read callback that keeps to its bytes:    *)
(* the buffer it is given leaves room for the terminator, too.               *)
StreamReserved ==
  Reading => Granted(call.pos) \in Nat /\ cursor + Granted(call.pos) < Smaller(size, max_size)
StringInv == InBounds /\ TrailingNUL /\ NoStaleByte /\ StreamReserved

(* Every call changes the string as a whole or not at all.                   *)
Abstract == INSTANCE ByteString
              WITH string <- [i \in 1..cursor |-> data[i - 1]]
ImplementsByteString == Abstract!Spec
==============================================================================
