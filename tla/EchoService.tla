----------------------------- MODULE EchoService -----------------------------
(***************************************************************************)
(* What every transport of the benchmark promises its caller: one client   *)
(* has at most one request in flight, a serving server answers it, and the *)
(* client counts the call.  A server that shuts down lets the client go,   *)
(* and on that occasion the call in flight may be lost, or be counted      *)
(* although no answer was ever produced: that happens to one call at most. *)
(***************************************************************************)
EXTENDS Naturals

VARIABLES
  call,       \* the call in flight: "none", "sent" or "answered"
  closed,     \* the server has announced its shutdown
  ops,        \* calls the client has counted
  unanswered, \* those of them that no answer was produced for
  left        \* the client has stopped sending

vars == <<call, closed, ops, unanswered, left>>

TypeOK ==
  /\ call \in {"none", "sent", "answered"}
  /\ closed \in BOOLEAN
  /\ ops \in Nat
  /\ unanswered \in {0, 1}
  /\ left \in BOOLEAN

Init ==
  /\ call = "none"
  /\ closed = FALSE
  /\ ops = 0
  /\ unanswered = 0
  /\ left = FALSE

Send ==
  /\ ~left
  /\ call = "none"
  /\ call' = "sent"
  /\ UNCHANGED <<closed, ops, unanswered, left>>

Answer ==
  /\ ~closed
  /\ call = "sent"
  /\ call' = "answered"
  /\ UNCHANGED <<closed, ops, unanswered, left>>

Complete ==
  /\ call = "answered"
  /\ call' = "none"
  /\ ops' = ops + 1
  /\ UNCHANGED <<closed, unanswered, left>>

(***************************************************************************)
(* The shutdown wakes a client whose request nobody will answer; the       *)
(* client takes the wake-up for its answer.                                *)
(***************************************************************************)
CompleteUnanswered ==
  /\ closed
  /\ call = "sent"
  /\ unanswered = 0
  /\ call' = "none"
  /\ ops' = ops + 1
  /\ unanswered' = 1
  /\ UNCHANGED <<closed, left>>

Close ==
  /\ ~closed
  /\ closed' = TRUE
  /\ UNCHANGED <<call, ops, unanswered, left>>

(***************************************************************************)
(* A call that waits for its answer is abandoned only when the server has  *)
(* shut down; one whose answer has come may be, if the client refuses it.  *)
(***************************************************************************)
Leave ==
  /\ ~left
  /\ call # "sent" \/ closed
  /\ left' = TRUE
  /\ call' = "none"
  /\ UNCHANGED <<closed, ops, unanswered>>

Next == Send \/ Answer \/ Complete \/ CompleteUnanswered \/ Close \/ Leave

Spec == Init /\ [][Next]_vars
=============================================================================
