---------------------------- MODULE Interpolator ----------------------------
(***************************************************************************)
(* One interpolator_t of interpolation.c: a ring of key frames indexed by  *)
(* frames_start and num_frames, whose timestamps are only the milliseconds *)
(* part of a second.  There is one action per exported function that       *)
(* changes the structure; interpolator_calculate only reads and is an      *)
(* operator.                                                               *)
(*                                                                         *)
(* Abstracted: values are integers instead of doubles, query times are     *)
(* whole milliseconds, and an interpolated value is an exact fraction, so  *)
(* the clamping of rounding errors at the end (dlimit) has nothing to do.  *)
(***************************************************************************)
EXTENDS Integers, FiniteSetsExt

CONSTANTS
    MAX_INTERPOLATOR_FRAMES,
    MAX_INTERPOLATOR_FRAME_TIME_DIFF_MILLIS,
    MILLIS_PER_SECOND,
    Values,             \* finite values of data points
    InitialValue,       \* what zmalloc leaves in a slot
    NonFinite,          \* a value for which isfinite() is false
    NAN                 \* the result of a calculation that is not possible

ASSUME FramesAssumption == MAX_INTERPOLATOR_FRAMES \in Nat \ {0}
ASSUME TimeDiffAssumption ==
    /\ MILLIS_PER_SECOND \in Nat
    /\ MAX_INTERPOLATOR_FRAME_TIME_DIFF_MILLIS \in 1 .. MILLIS_PER_SECOND
ASSUME ValuesAssumption ==
    /\ Values \subseteq Int
    /\ InitialValue \in Values
    /\ NonFinite \notin Values
ASSUME NanAssumption == NAN \notin [num : Int, den : Int]

VARIABLES frames_start, num_frames, frames

vars == <<frames_start, num_frames, frames>>

Timestamps == 0 .. MILLIS_PER_SECOND - 1
Slots == 0 .. MAX_INTERPOLATOR_FRAMES - 1
KeyFrame == [timestamp_millis_part : Timestamps, value : Values]

\* The fields stay within the bounds of the ring (interpolation.h, the struct).
TypeOK ==
    /\ frames_start \in Slots
    /\ num_frames \in 0 .. MAX_INTERPOLATOR_FRAMES
    /\ frames \in [Slots -> KeyFrame]
-----------------------------------------------------------------------------
\* The sign of C's remainder is that of the dividend.
c_rem(value, divisor) ==
    IF value >= 0 THEN value % divisor ELSE -((-value) % divisor)

ipmod(value, divisor) ==
    LET res == c_rem(value, divisor) IN IF res >= 0 THEN res ELSE res + divisor

\* A difference of timestamps that is moved to the next second if negative.
MillisDiff(to, from) ==
    LET diff == to - from IN IF diff < 0 THEN diff + MILLIS_PER_SECOND ELSE diff

\* The i-th key frame counts from 1 at the oldest.
SlotFromZero(i) == i - 1                       \* mutant: frames_start is ignored

Slot(i) == ipmod(frames_start + i - 1, MAX_INTERPOLATOR_FRAMES)

Frame(i) == frames[Slot(i)]

Time(i) == Frame(i).timestamp_millis_part

\* Mutant: no wrap to the next second.
GapWithinSecond(i) == Time(i) - Time(i - 1)

\* From key frame i - 1 to key frame i.
Gap(i) == MillisDiff(Time(i), Time(i - 1))
-----------------------------------------------------------------------------
\* zmalloc clears the structure.
create_interpolator ==
    /\ frames_start = 0
    /\ num_frames = 0
    /\ frames = [s \in Slots |->
                    [timestamp_millis_part |-> 0, value |-> InitialValue]]

\* Mutant: the start is reset in place of the count.
interpolator_reset_start ==
    /\ frames_start' = 0
    /\ UNCHANGED <<num_frames, frames>>

interpolator_reset ==
    /\ num_frames' = 0
    /\ UNCHANGED <<frames_start, frames>>

\* Mutant: off by one, a gap of exactly the limit is kept.
IsOutdatedLater(t) ==
    /\ num_frames # 0
    /\ MillisDiff(t, Time(num_frames)) > MAX_INTERPOLATOR_FRAME_TIME_DIFF_MILLIS

IsOutdated(t) ==
    /\ num_frames # 0
    /\ MillisDiff(t, Time(num_frames)) >= MAX_INTERPOLATOR_FRAME_TIME_DIFF_MILLIS

interpolator_maintain(t) ==
    /\ IsOutdated(t)
    /\ interpolator_reset

IsFull(n) == n >= MAX_INTERPOLATOR_FRAMES

\* Maintenance comes first, so all that follows counts from the frames it left.
interpolator_add_point(t, v) ==
    LET kept == IF IsOutdated(t) THEN 0 ELSE num_frames
        is_ignored == v = NonFinite \/ (kept # 0 /\ Time(kept) = t)
        is_full == IsFull(kept)
        new_slot == IF kept = 0 \/ is_full THEN frames_start ELSE Slot(kept + 1)
    IN  \/ /\ is_ignored
           /\ num_frames' = kept
           /\ UNCHANGED <<frames_start, frames>>
        \/ /\ ~is_ignored
           /\ frames' = [frames EXCEPT ![new_slot] =
                            [timestamp_millis_part |-> t, value |-> v]]
           /\ num_frames' = IF is_full THEN kept ELSE kept + 1
           /\ frames_start' = IF is_full
                              THEN ipmod(frames_start + 1, MAX_INTERPOLATOR_FRAMES)
                              ELSE frames_start

Exactly(v) == [num |-> v, den |-> 1]

\* Mutant: no wrap to the next second.
MillisBetweenWithinSecond(i) == Time(i) - Time(i - 1)

MillisBetween(i) ==
    LET diff == Time(i) - Time(i - 1)
    IN  IF diff <= 0 THEN diff + MILLIS_PER_SECOND ELSE diff

\* The value at a time inside the pair of key frames (i - 1, i).
Blend(i, t) ==
    LET base == Frame(i - 1).value
        target == Frame(i).value
        millis_between_frames == MillisBetween(i)
        millis_since_base == MillisDiff(t, Time(i - 1))
    IN  CASE millis_since_base <= 0 -> Exactly(base)
          [] millis_since_base >= millis_between_frames -> Exactly(target)
          [] OTHER -> [num |-> base * millis_between_frames
                                + millis_since_base * (target - base),
                       den |-> millis_between_frames]

\* Walks back from the latest key frame, taking off one gap after the other
\* from the time to the target, until what is left fits into a gap.
interpolator_calculate(t) ==
    LET time_to_target_frame[i \in 2 .. num_frames] ==
            IF i = num_frames THEN MillisDiff(Time(i), t)
            ELSE time_to_target_frame[i + 1] - Gap(i + 1)
        between_frames == {i \in 2 .. num_frames : time_to_target_frame[i] <= Gap(i)}
    IN  IF \/ num_frames < 2
           \/ time_to_target_frame[num_frames] > MAX_INTERPOLATOR_FRAME_TIME_DIFF_MILLIS
           \/ between_frames = {}
        THEN NAN
        ELSE Blend(Max(between_frames), t)
-----------------------------------------------------------------------------
Init == create_interpolator

Next ==
    \/ interpolator_reset
    \/ \E t \in Timestamps : interpolator_maintain(t)
    \/ \E t \in Timestamps, v \in Values \cup {NonFinite} : interpolator_add_point(t, v)

Spec == Init /\ [][Next]_vars
-----------------------------------------------------------------------------
\* interpolation.h: neighbouring frames are strictly advancing and close enough
\* for the milliseconds part to be relatable, however the ring wrapped, was
\* reset, was maintained or dropped its oldest frames.
GapsRelatable ==
    \A i \in 2 .. num_frames :
        Gap(i) \in 1 .. MAX_INTERPOLATOR_FRAME_TIME_DIFF_MILLIS - 1

\* The key frames in their order, with the ring taken away.
Window == INSTANCE KeyFrameWindow
              WITH window <- [i \in 1 .. num_frames |-> Frame(i)]

\* The ring keeps exactly the window of most recent data points it is meant to.
ImplementsWindow == Window!Spec

\* The walk over differences modulo a second finds the pair of key frames that
\* surrounds the queried time on a timeline, and the value on the line between
\* them; it is unavailable exactly when there is no such pair.
CalculationOnTimeline ==
    \A t \in Timestamps :
        Window!IsInterpolation([i \in 1 .. num_frames |-> Frame(i)], t,
                               interpolator_calculate(t))
=============================================================================
