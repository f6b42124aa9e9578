--------------------------- MODULE MCRingReader ----------------------------
(***************************************************************************)
(* An instance of RingReader for TLC: enough events to go round the ring   *)
(* twice, and then one with a negative length.                             *)
(***************************************************************************)
EXTENDS RingReader

ThenABadOne == <<7, 0, 3, 7, 1, 5, 2, 9, 1, -1>>
=============================================================================
