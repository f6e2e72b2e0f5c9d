--------------------------- MODULE MCShmNonblocking ---------------------------
(***************************************************************************)
(* ShmNonblocking for TLC: the .cfg file gives the constants small values. *)
(***************************************************************************)
EXTENDS ShmNonblocking
=============================================================================
