------------------------------ MODULE FrameRing ------------------------------
(***************************************************************************)
(* Positions in the ring buffer that the four shared-memory transports     *)
(* share, counted in whole frames (length word and payload).  The bytes of *)
(* a frame are the subject of module RingBuffer.                           *)
(***************************************************************************)
EXTENDS Integers

CONSTANT NSlots \* frames the ring has room for, one of them always left free

ASSUME FrameRingAssumption == NSlots \in Nat /\ NSlots > 1

Slots == 0..(NSlots - 1)

(* Fault: the end of the ring is taken for a position in it. *)
WrapLate(i) == IF i + 1 > NSlots THEN 0 ELSE i + 1

(* The position after frame i. *)
Succ(i) == IF i + 1 = NSlots THEN 0 ELSE i + 1

(* Fault: an empty ring is taken for a full one. *)
FreeStrict(r, w) == IF w > r THEN NSlots - (w - r) ELSE r - w

(* The room between write position w and read position r. *)
Free(r, w) == IF w >= r THEN NSlots - (w - r) ELSE r - w
=============================================================================
