---------------------------- MODULE MCRingBuffer ----------------------------
(***************************************************************************)
(* RingBuffer for TLC.  Frames of 5, 7 and 12 bytes in a ring of 16 start  *)
(* at every position, so that the length word and the message are cut at   *)
(* every place; the message of 9 bytes is over the limit.                  *)
(***************************************************************************)
EXTENDS RingBuffer

MCMessages ==
  {<<1>>, <<0, 1, 0>>, <<1, 1, 0, 1, 0, 0, 1, 1>>, <<1, 0, 1, 0, 1, 0, 1, 0, 1>>}
=============================================================================
