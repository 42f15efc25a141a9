----------------------- MODULE MCInterpolatorTimeline -----------------------
(****************************************************************************)
(* A second of 10 timestamps and enough absolute time to enter a third one. *)
(****************************************************************************)
EXTENDS InterpolatorTimeline

MCValues == 0 .. Horizon
MCLookBacks == {1, 2}
=============================================================================
