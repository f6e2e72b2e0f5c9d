------------------------------ MODULE MCHarness ------------------------------
(***************************************************************************)
(* Harness for TLC, with two makes that run one at a time or together.     *)
(***************************************************************************)
EXTENDS Harness
=============================================================================
