----------------------------- MODULE MCInterrupt -----------------------------
(***************************************************************************)
(* Interrupt for TLC, with threads that signal, wait and clear at will.    *)
(***************************************************************************)
EXTENDS Interrupt
=============================================================================
