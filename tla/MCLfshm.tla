------------------------------- MODULE MCLfshm -------------------------------
(***************************************************************************)
(* Lfshm for TLC: the .cfg files give the constants small values.          *)
(***************************************************************************)
EXTENDS Lfshm
=============================================================================
