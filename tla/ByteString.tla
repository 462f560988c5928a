------------------------------ MODULE ByteString ------------------------------
(* What include/bytearray.h promises: a sequence of bytes that leaves room   *)
(* for its terminator within max_size, is changed by a call as a whole or    *)
(* not at all, and says which.                                               *)
EXTENDS Integers, Sequences

VARIABLES string,    \* the bytes before the terminator
          max_size,  \* the limit, terminator included
          call,      \* the latest call and its arguments
          outcome    \* "success" or "failure" of the latest call, or "pending"

vars == <<string, max_size, call, outcome>>

Fits(n) == n < max_size

Settle(s) == IF Fits(Len(s))
             THEN string' = s /\ outcome' = "success"
             ELSE UNCHANGED string /\ outcome' = "failure"
Called(op, pos, bytes) ==
  call' = [op |-> op, pos |-> pos, bytes |-> bytes] /\ UNCHANGED max_size

Init == /\ string = <<>>
        /\ max_size > 0
        /\ call = [op |-> "make", pos |-> 0, bytes |-> <<>>]
        /\ outcome = "success"

AppendAll(s) == Called("append", 0, s) /\ Settle(string \o s)

(* The formatted text is appended, or the conversion fails.                  *)
AppendF(s) == /\ Called("appendf", 0, s)
              /\ \/ Settle(string \o s)
                 \/ UNCHANGED string /\ outcome' = "failure"

Copy(pos, s) ==
  /\ Called("copy", pos, s)
  /\ IF pos > Len(string)
     THEN UNCHANGED string /\ outcome' = "failure"
     ELSE LET end == pos + Len(s)
          IN  IF end <= Len(string)
              THEN /\ string' = SubSeq(string, 1, pos) \o s
                                \o SubSeq(string, end + 1, Len(string))
                   /\ outcome' = "success"
              ELSE Settle(SubSeq(string, 1, pos) \o s)

Resize(n, c) ==
  /\ Called("resize", n, <<c>>)
  /\ Settle([i \in 1..n |-> IF i <= Len(string) THEN string[i] ELSE c])

Clear == /\ Called("clear", 0, <<>>)
         /\ string' = <<>> /\ outcome' = "success"

(* A stream is asked for as much as fits; what it answers is appended.       *)
BeginStream(n) ==
  /\ Called("stream", n, <<>>)
  /\ UNCHANGED string
  /\ \/ (outcome' = "failure" /\ n > 0 /\ ~Fits(Len(string) + 1))
     \/ (outcome' = "pending" /\ (n = 0 \/ Fits(Len(string) + 1)))
EndStream(s) ==
  /\ call.op = "stream" /\ outcome = "pending"
  /\ Len(s) <= call.pos
  /\ Fits(Len(string \o s))
  /\ string' = string \o s
  /\ outcome' = "success"
  /\ UNCHANGED max_size
  /\ call' = [call EXCEPT !.bytes = s]
FailStream == /\ call.op = "stream" /\ outcome = "pending"
              /\ outcome' = "failure"
              /\ UNCHANGED <<string, max_size, call>>

Next == \/ AppendAll(call'.bytes)
        \/ AppendF(call'.bytes)
        \/ Copy(call'.pos, call'.bytes)
        \/ call'.op = "resize" /\ Resize(call'.pos, call'.bytes[1])
        \/ Clear
        \/ BeginStream(call'.pos)
        \/ EndStream(call'.bytes)
        \/ FailStream

Spec == Init /\ [][Next]_vars
==============================================================================
