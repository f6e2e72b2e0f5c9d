------------------------------ MODULE Interrupt ------------------------------
(***************************************************************************)
(* interrupt.c: signals between threads through a file descriptor.  An     *)
(* eventfd is a counter: a write adds one, a read takes the whole count;   *)
(* it is created blocking.  Where eventfd is missing a pipe stands in:     *)
(* every signal is eight bytes of it, a read takes one of them, and only   *)
(* its read end does not block, so that a wait polls and reads again.      *)
(*                                                                         *)
(* The descriptors belong to the kernel; a step is one system call.  Any   *)
(* read, write or poll may fail, and the function then returns -1.         *)
(***************************************************************************)
EXTENDS Naturals

CONSTANTS
  Threads,
  Capacity \* bound: signals the descriptor holds before a write blocks

ASSUME InterruptAssumption == Capacity \in Nat /\ Capacity > 0

VARIABLES
  kind,  \* "eventfd" or "pipe", "none" while there is no interrupt
  count, \* signals in the descriptor
  pc,    \* the call each thread is in
  result \* what its last one returned: 0 is "ok", -1 is "error"

vars == <<kind, count, pc, result>>

TypeOK ==
  /\ kind \in {"none", "eventfd", "pipe"}
  /\ count \in 0..Capacity
  /\ pc \in [Threads -> {"idle", "read", "poll", "clear"}]
  /\ result \in [Threads -> {"ok", "error"}]
  /\ kind = "none" => count = 0 /\ pc = [t \in Threads |-> "idle"]

Init ==
  /\ kind = "none"
  /\ count = 0
  /\ pc = [t \in Threads |-> "idle"]
  /\ result = [t \in Threads |-> "ok"]

Goto(t, from, to) ==
  /\ pc[t] = from
  /\ pc' = [pc EXCEPT ![t] = to]

Return(t, from, r) ==
  /\ Goto(t, from, "idle")
  /\ result' = [result EXCEPT ![t] = r]

(* eventfd first, a pipe if there is no such call.  A creation that fails  *)
(* leaves the caller without an interrupt, as it was.                      *)
Create ==
  /\ kind = "none"
  /\ kind' \in {"eventfd", "pipe"}
  /\ UNCHANGED <<count, pc, result>>

(* Its user calls this when no other thread is left. *)
Destroy ==
  /\ kind # "none"
  /\ \A t \in Threads : pc[t] = "idle"
  /\ kind' = "none"
  /\ count' = 0
  /\ UNCHANGED <<pc, result>>

Signal(t) ==
  /\ kind # "none"
  /\ count < Capacity
  /\ Return(t, "idle", "ok")
  /\ count' = count + 1
  /\ UNCHANGED kind

(* The write fails or is short: no signal is given. *)
SignalFails(t) ==
  /\ kind # "none"
  /\ Return(t, "idle", "error")
  /\ UNCHANGED <<kind, count>>

(* What a successful read leaves in the descriptor. *)
Rest == IF kind = "eventfd" THEN 0 ELSE count - 1

StartWait(t) ==
  /\ kind # "none"
  /\ Goto(t, "idle", "read")
  /\ UNCHANGED <<kind, count, result>>

ReadSignal(t) ==
  /\ count > 0
  /\ Return(t, "read", "ok")
  /\ count' = Rest
  /\ UNCHANGED kind

(* Fault: EAGAIN is taken for a signal. *)
ReadReturns(t) ==
  /\ kind = "pipe"
  /\ count = 0
  /\ Return(t, "read", "ok")
  /\ UNCHANGED <<kind, count>>

(* EAGAIN: the read end of the pipe does not block, an eventfd does. *)
ReadEmpty(t) ==
  /\ kind = "pipe"
  /\ count = 0
  /\ Goto(t, "read", "poll")
  /\ UNCHANGED <<kind, count, result>>

(* Fault: the wait goes on polling. *)
PollAgain(t) ==
  /\ count > 0
  /\ Goto(t, "poll", "poll")
  /\ UNCHANGED <<kind, count, result>>

(* The signal that ended the poll may be read by another thread first. *)
Poll(t) ==
  /\ count > 0
  /\ Goto(t, "poll", "read")
  /\ UNCHANGED <<kind, count, result>>

(* A read that fails with another error than EAGAIN, a poll that fails or  *)
(* returns without POLLIN: the wait returns without a signal.              *)
WaitFails(t) ==
  /\ Return(t, "read", "error") \/ Return(t, "poll", "error")
  /\ UNCHANGED <<kind, count>>

StartClear(t) ==
  /\ kind # "none"
  /\ Goto(t, "idle", "clear")
  /\ UNCHANGED <<kind, count, result>>

Clear(t) ==
  /\ count > 0
  /\ Return(t, "clear", "ok")
  /\ count' = Rest
  /\ UNCHANGED kind

(* "No data available is not an error": of a pipe.  An eventfd blocks. *)
ClearEmpty(t) ==
  /\ kind = "pipe"
  /\ count = 0
  /\ Return(t, "clear", "ok")
  /\ UNCHANGED <<kind, count>>

ClearFails(t) ==
  /\ Return(t, "clear", "error")
  /\ UNCHANGED <<kind, count>>

Call(t) == ReadSignal(t) \/ ReadEmpty(t) \/ Poll(t) \/ Clear(t) \/ ClearEmpty(t)

Next ==
  \/ Create \/ Destroy
  \/ \E t \in Threads :
       \/ Signal(t) \/ StartWait(t) \/ StartClear(t) \/ Call(t)
       \/ SignalFails(t) \/ WaitFails(t) \/ ClearFails(t)

Spec == Init /\ [][Next]_vars

(* A thread inside a call goes on with it; nobody has to make a call, and  *)
(* no call has to fail.                                                    *)
FairSpec == Spec /\ \A t \in Threads : WF_vars(Call(t))

-----------------------------------------------------------------------------

Waiting(t) == pc[t] \in {"read", "poll"}

Events == INSTANCE Event WITH
  pending <- count,
  waiting <- {t \in Threads : Waiting(t)}

(***************************************************************************)
(* Eventfd and pipe keep the same promise: a wait that returns 0 has had a *)
(* signal of its own, one that returns -1 has taken none, and only a wait  *)
(* or a clear uses a signal up.                                            *)
(***************************************************************************)
EventSpec == Events!Spec

(***************************************************************************)
(* A signal is not overslept: a thread that waits while one is pending     *)
(* returns, unless other threads have used it up.                          *)
(***************************************************************************)
WaitReturns ==
  \A t \in Threads : (Waiting(t) /\ count > 0) ~> (pc[t] = "idle" \/ count = 0)
=============================================================================
