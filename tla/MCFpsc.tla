------------------------------- MODULE MCFpsc -------------------------------
(***************************************************************************)
(* A buffer of two bytes; slices and streams from none to three buffers,   *)
(* the last one full or not.                                               *)
(***************************************************************************)
EXTENDS Fpsc

MCLengths == 0 .. 5
MCReadSizes == {1, 2}
=============================================================================
