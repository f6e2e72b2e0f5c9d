-------------------------------- MODULE MCUds --------------------------------
(***************************************************************************)
(* Uds for TLC: the .cfg file gives the constants small values.            *)
(***************************************************************************)
EXTENDS Uds
=============================================================================
