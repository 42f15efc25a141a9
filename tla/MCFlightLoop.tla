---------------------------- MODULE MCFlightLoop ----------------------------
(***************************************************************************)
(* Halves as fractions, averages of 2, 1 cycle to the ground; firm at      *)
(* speed 1, lift at 3.  Blended elevations are whole numbers.              *)
(***************************************************************************)
EXTENDS FlightLoop

MCSpeeds == {1, 3}
MCElevations == {0, 4}
MCDatarefs == {"suspend_injection", "interpolate"}
=============================================================================
