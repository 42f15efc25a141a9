--------------------------- MODULE KeyFrameWindow ---------------------------
(***************************************************************************)
(* What one interpolator promises its callers (the comments of             *)
(* interpolation.h): a window over the most recent data points, oldest     *)
(* first, that is emptied as soon as two neighbouring points could be so   *)
(* far apart that the milliseconds part of a timestamp no longer tells     *)
(* their order.  No buffer, no indices: Interpolator implements this with  *)
(* a ring of slots.                                                        *)
(***************************************************************************)
EXTENDS Integers, SequencesExt

CONSTANTS
    MAX_INTERPOLATOR_FRAMES,                \* key frames the window holds (8)
    MAX_INTERPOLATOR_FRAME_TIME_DIFF_MILLIS,\* (499)
    MILLIS_PER_SECOND,                      \* where timestamps wrap (1000)
    Values,                                 \* the finite values of data points
    NonFinite,                              \* stands for NAN and infinity
    NAN                                     \* the result if there is no value

VARIABLE window     \* sequence of [timestamp_millis_part, value], oldest first

Timestamps == 0 .. MILLIS_PER_SECOND - 1

KeyFrame == [timestamp_millis_part : Timestamps, value : Values]

\* Milliseconds from one timestamp to the next occurrence of another.
Elapsed(from, to) == (to - from) % MILLIS_PER_SECOND

MostRecent(w, n) == IF Len(w) <= n THEN w ELSE SubSeq(w, Len(w) - n + 1, Len(w))

Maintained(w, t) ==
    IF /\ w # <<>>
       /\ Elapsed(Last(w).timestamp_millis_part, t)
              >= MAX_INTERPOLATOR_FRAME_TIME_DIFF_MILLIS
    THEN <<>> ELSE w

Added(w, t, v) ==
    LET m == Maintained(w, t) IN
    IF \/ v = NonFinite
       \/ m # <<>> /\ Last(m).timestamp_millis_part = t
    THEN m
    ELSE MostRecent(Append(m, [timestamp_millis_part |-> t, value |-> v]),
                    MAX_INTERPOLATOR_FRAMES)

\* How far frame i lies behind the latest one, adding up the gaps between them.
Behind(w, i) ==
    LET behind[k \in 1 .. Len(w)] ==
            IF k = Len(w) THEN 0
            ELSE behind[k + 1] + Elapsed(w[k].timestamp_millis_part,
                                         w[k + 1].timestamp_millis_part)
    IN behind[i]

\* The frames i with i + 1 whose time span contains a query t, looking back
\* from the latest frame; empty when no pair does or t is out of range.
Brackets(w, t) ==
    IF Len(w) < 2 THEN {}
    ELSE LET age == Elapsed(t, Last(w).timestamp_millis_part) IN
         {i \in 1 .. Len(w) - 1 :
             /\ age <= MAX_INTERPOLATOR_FRAME_TIME_DIFF_MILLIS
             /\ Behind(w, i + 1) <= age
             /\ age <= Behind(w, i)}

\* A result is right at time t if it lies on the line through every bracket.
IsInterpolation(w, t, result) ==
    LET age == Elapsed(t, Last(w).timestamp_millis_part) IN
    /\ (result = NAN) <=> (Brackets(w, t) = {})
    /\ \A i \in Brackets(w, t) :
          LET since == Behind(w, i) - age
              width == Behind(w, i) - Behind(w, i + 1)
          IN  result.num * width
                = result.den * (w[i].value * width
                                + since * (w[i + 1].value - w[i].value))
-----------------------------------------------------------------------------
Init == window = <<>>

Reset == window' = <<>>

Maintain(t) == window' = Maintained(window, t)

AddPoint(t, v) == window' = Added(window, t, v)

Next ==
    \/ Reset
    \/ \E t \in Timestamps : Maintain(t)
    \/ \E t \in Timestamps, v \in Values \cup {NonFinite} : AddPoint(t, v)

Spec == Init /\ [][Next]_window
=============================================================================
