--------------------------- MODULE MCClockOffset ----------------------------
(***************************************************************************)
(* Constants for TLC.  Two records let the ring be partly filled, wrap,  *)
(* and mix two hosts; a second of eight units has differences up to the    *)
(* half and across a second; both ends of the range that is wrapped right  *)
(* occur, 0 and HALF_SECOND.                                               *)
(***************************************************************************)
EXTENDS ClockOffset

MCAhead == {0, 1, 3}
MCBehind == {-2}
MCSources == {0, 1, 2}
=============================================================================
