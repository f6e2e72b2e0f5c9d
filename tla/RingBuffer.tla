----------------------------- MODULE RingBuffer -----------------------------
(***************************************************************************)
(* ring_buffer_write and ring_buffer_read, byte by byte.  A frame is the   *)
(* length of the message in four bytes and the message; each of the two    *)
(* parts is copied with one memcpy, or with two when it runs over the end  *)
(* of the buffer.  The four shared-memory transports hold one copy each of *)
(* these functions; their callers keep the calls apart (by the mutex, or   *)
(* by the turn that module Lfshm shows), so a call is one step.            *)
(***************************************************************************)
EXTENDS Integers, Sequences

CONSTANTS
  Size,     \* bytes in the buffer
  Base,     \* values of a byte (256 in the code)
  MaxRead,  \* max_len of the reads: the bytes the reader's buffer holds
  Messages  \* what is offered to the ring

HdrLen == 4 \* sizeof(uint32_t)
Byte == 0..(Base - 1)

ASSUME RingAssumption ==
  /\ Size \in Nat /\ Size > 12
  /\ Base \in Nat /\ Base > 1
  /\ Size \div 2 < Base * Base * Base * Base
  /\ MaxRead \in Nat
  /\ Messages \subseteq Seq(Byte)

VARIABLES
  buffer, readPos, writePos,
  out,   \* what the last read returned
  queue, \* ghost: the messages accepted and not yet read
  starts \* ghost: where the frame of each of them begins

vars == <<buffer, readPos, writePos, out, queue, starts>>

Cells == 0..(Size - 1)

TypeOK ==
  /\ buffer \in [Cells -> Byte]
  /\ readPos \in Cells
  /\ writePos \in Cells
  /\ out \in Seq(Byte)
  /\ queue \in Seq(Seq(Byte))
  /\ starts \in Seq(Cells)

Init ==
  /\ buffer = [c \in Cells |-> 0]
  /\ readPos = 0
  /\ writePos = 0
  /\ out = <<>>
  /\ queue = <<>>
  /\ starts = <<>>

-----------------------------------------------------------------------------
(* The length word, least significant byte first.                          *)

Header(n) ==
  <<n % Base,
    (n \div Base) % Base,
    ((n \div Base) \div Base) % Base,
    (((n \div Base) \div Base) \div Base) % Base>>

Value(h) == h[1] + Base * (h[2] + Base * (h[3] + Base * h[4]))

-----------------------------------------------------------------------------
(* Copies that may run over the end.                                       *)

(* Fault: a copy that ends at the end of the buffer leaves the position there. *)
AdvanceLate(pos, n) == IF pos + n > Size THEN n - (Size - pos) ELSE pos + n

(* The position n bytes on. *)
Advance(pos, n) ==
  IF pos + n > Size THEN n - (Size - pos)
  ELSE IF pos + n = Size THEN 0
  ELSE pos + n

(* The end of a frame of n bytes of message that starts at pos. *)
FrameEnd(pos, n) == Advance(Advance(pos, HdrLen), n)

(* Fault: the second memcpy starts where the first one ended. *)
StoreNoWrap(b, pos, s) ==
  [c \in Cells |->
     IF pos <= c /\ c - pos < Len(s) THEN s[c - pos + 1] ELSE b[c]]

(* The buffer after s has been copied to pos. *)
Store(b, pos, s) ==
  [c \in Cells |->
     IF pos <= c /\ c - pos < Len(s) THEN s[c - pos + 1]
     ELSE IF pos + Len(s) > Size /\ c < Len(s) - (Size - pos) THEN s[c + (Size - pos) + 1]
     ELSE b[c]]

(* The n bytes from pos on. *)
Fetch(b, pos, n) ==
  [i \in 1..n |->
     IF pos + n > Size /\ i > Size - pos THEN b[i - (Size - pos) - 1] ELSE b[pos + i - 1]]

-----------------------------------------------------------------------------
(* The two operations.  A call that is refused leaves everything as it is. *)

Available == IF writePos >= readPos THEN Size - (writePos - readPos) ELSE readPos - writePos

(* Fault: the length word is forgotten. *)
AcceptsTight(n) == n <= Size \div 2 /\ Available > n + 1

Accepts(n) == n <= Size \div 2 /\ Available > n + HdrLen + 1

Write(m) ==
  /\ Accepts(Len(m))
  /\ buffer' = Store(Store(buffer, writePos, Header(Len(m))), Advance(writePos, HdrLen), m)
  /\ writePos' = FrameEnd(writePos, Len(m))
  /\ queue' = Append(queue, m)
  /\ starts' = Append(starts, writePos)
  /\ UNCHANGED <<readPos, out>>

(* The length the next read finds. *)
NextLen == Value(Fetch(buffer, readPos, HdrLen))

Read ==
  /\ readPos # writePos
  /\ NextLen <= MaxRead
  /\ out' = Fetch(buffer, Advance(readPos, HdrLen), NextLen)
  /\ readPos' = FrameEnd(readPos, NextLen)
  /\ queue' = IF queue = <<>> THEN queue ELSE Tail(queue)
  /\ starts' = IF starts = <<>> THEN starts ELSE Tail(starts)
  /\ UNCHANGED <<buffer, writePos>>

Next == Read \/ \E m \in Messages : Write(m)

Spec == Init /\ [][Next]_vars

-----------------------------------------------------------------------------

(***************************************************************************)
(* The frames from the read position on are the accepted messages, in      *)
(* order, each with its length, and they end at the write position:        *)
(* whatever the place where a length word or a message is cut in two.      *)
(***************************************************************************)
Contents ==
  /\ Len(starts) = Len(queue)
  /\ queue # <<>> => starts[1] = readPos
  /\ \A k \in 1..Len(queue) :
       /\ Fetch(buffer, starts[k], HdrLen) = Header(Len(queue[k]))
       /\ Fetch(buffer, Advance(starts[k], HdrLen), Len(queue[k])) = queue[k]
       /\ FrameEnd(starts[k], Len(queue[k])) = IF k = Len(queue) THEN writePos ELSE starts[k + 1]

(***************************************************************************)
(* Equal positions mean an empty ring and never a full one, so a reader    *)
(* finds a message exactly when there is one.                              *)
(***************************************************************************)
EmptyIsEmpty == (readPos = writePos) <=> (queue = <<>>)

(* The bytes from p on to position c. *)
Dist(p, c) == IF c >= p THEN c - p ELSE c - p + Size

(***************************************************************************)
(* The frames lie one behind the other between the two positions, over any *)
(* number of turns around the buffer: no write ever overlaps a message     *)
(* that has not been read.                                                 *)
(***************************************************************************)
Disjoint ==
  \A k \in 1..Len(queue) :
    LET end == Dist(readPos, starts[k]) + HdrLen + Len(queue[k])
    IN  /\ end <= Dist(readPos, writePos)
        /\ \A l \in 1..Len(queue) : k < l => end <= Dist(readPos, starts[l])

(***************************************************************************)
(* An empty ring takes every message of up to half its size, wherever its  *)
(* positions stand.                                                        *)
(***************************************************************************)
EmptyAcceptsHalf ==
  queue = <<>> => \A m \in Messages : Len(m) <= Size \div 2 => Accepts(Len(m))

Queue == INSTANCE MessageQueue

(***************************************************************************)
(* The ring buffer implements the queue of messages.                       *)
(***************************************************************************)
QueueSpec == Queue!Spec
=============================================================================
