-------------------------------- MODULE Event --------------------------------
(***************************************************************************)
(* What interrupt.h promises the threads that share an interrupt: a call   *)
(* says whether it succeeded.  A wait that succeeds has used up at least   *)
(* one signal that was pending; a call that fails has neither given nor    *)
(* taken any; and no signal that was given is lost while nobody waits or   *)
(* clears.  How many of several pending signals one wait uses up is left   *)
(* open: the eventfd takes them all, the pipe one.                         *)
(***************************************************************************)
EXTENDS Naturals

CONSTANT Threads

VARIABLES
  pending, \* signals given and not used up
  waiting, \* threads inside interrupt_wait
  result   \* what the last call of each thread returned

vars == <<pending, waiting, result>>

Returns(t, r) == result' = [result EXCEPT ![t] = r]

(* What a successful wait may leave of n pending signals. *)
Left(n) == 0..(n - 1)

Init ==
  /\ pending = 0
  /\ waiting = {}
  /\ result = [t \in Threads |-> "ok"]

Raise(t) ==
  /\ t \notin waiting
  /\ pending' = pending + 1
  /\ Returns(t, "ok")
  /\ UNCHANGED waiting

Begin(t) ==
  /\ t \notin waiting
  /\ waiting' = waiting \union {t}
  /\ UNCHANGED <<pending, result>>

Succeed(t) ==
  /\ t \in waiting
  /\ waiting' = waiting \ {t}
  /\ pending > 0
  /\ pending' \in Left(pending)
  /\ Returns(t, "ok")

(* Any of the three calls. *)
Fail(t) ==
  /\ waiting' = waiting \ {t}
  /\ Returns(t, "error")
  /\ UNCHANGED pending

(* interrupt_clear, which may find nothing. *)
Discard(t) ==
  /\ t \notin waiting
  /\ pending' \in {0} \union Left(pending)
  /\ Returns(t, "ok")
  /\ UNCHANGED waiting

End ==
  /\ waiting = {}
  /\ pending' = 0
  /\ UNCHANGED <<waiting, result>>

Next ==
  \/ End
  \/ \E t \in Threads : Raise(t) \/ Begin(t) \/ Succeed(t) \/ Fail(t) \/ Discard(t)

Spec == Init /\ [][Next]_vars
=============================================================================
