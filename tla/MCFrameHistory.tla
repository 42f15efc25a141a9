--------------------------- MODULE MCFrameHistory ---------------------------
(***************************************************************************)
(* A second of 10, ages 8 to 15.  A full ring of 4 frames at least 4 apart *)
(* just exceeds the maximum age, as 154 frames at 77 per second do.        *)
(***************************************************************************)
EXTENDS FrameHistory

MCRegularGaps == {4, 5, 9}
MCInterruptions == {1, 13}
=============================================================================
