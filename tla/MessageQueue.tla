---------------------------- MODULE MessageQueue ----------------------------
(***************************************************************************)
(* What a ring buffer promises: the messages it accepted come out whole,   *)
(* once, and in the order in which they went in.                           *)
(***************************************************************************)
EXTENDS Sequences

CONSTANT Messages

VARIABLES
  queue, \* accepted and not yet read
  out    \* what the last read returned

Init == queue = <<>> /\ out = <<>>

Put(m) ==
  /\ queue' = Append(queue, m)
  /\ UNCHANGED out

Get ==
  /\ queue # <<>>
  /\ out' = Head(queue)
  /\ queue' = Tail(queue)

Next == Get \/ \E m \in Messages : Put(m)

Spec == Init /\ [][Next]_<<queue, out>>
=============================================================================
