---------------------------- MODULE MCShmBlocking ----------------------------
(***************************************************************************)
(* ShmBlocking for TLC: the .cfg files give the constants small values.    *)
(***************************************************************************)
EXTENDS ShmBlocking
=============================================================================
