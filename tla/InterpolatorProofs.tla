------------------------- MODULE InterpolatorProofs -------------------------
(***************************************************************************)
(* For every number of key frames, every length of the second and every    *)
(* maximum time difference: the ring is the window of KeyFrameWindow, its  *)
(* key frames can be ordered by milliseconds, and interpolator_calculate   *)
(* returns what lies on the timeline; between connection thread and flight *)
(* loop, nothing outdated is replayed and nothing available withheld.      *)
(*                                                                         *)
(* Distances from the latest key frame add up over the ring in the walk as *)
(* well as in its definition.  What such a sum is, is shown downwards from *)
(* the latest key frame, by the key frame nearest to it where it would not *)
(* hold (LeastOfNat, Downwards).                                           *)
(***************************************************************************)
EXTENDS InterpolatorTimeline, SequenceTheorems, WellFoundedInduction, TLAPS

\* ipmod as the ring uses it: at most one turn too far.
LEMMA IpmodOfOneTurn ==
    ASSUME NEW d \in Nat \ {0}, NEW a \in 0 .. 2 * d - 1
    PROVE  ipmod(a, d) = IF a < d THEN a ELSE a - d
<1>1. a % d = IF a < d THEN a ELSE a - d
  <2>1. CASE a < d
    BY <2>1
  <2>2. CASE a >= d
    BY <2>2
  <2> QED BY <2>1, <2>2
<1>2. a >= 0 /\ a % d >= 0
  BY <1>1
<1> QED BY <1>1, <1>2 DEF ipmod, c_rem

\* Key frames lie in the ring, and no two of them in the same slot.
LEMMA SlotsDistinct ==
    ASSUME TypeOK, NEW i \in 1 .. MAX_INTERPOLATOR_FRAMES,
           NEW j \in 1 .. MAX_INTERPOLATOR_FRAMES
    PROVE  /\ Slot(i) \in Slots
           /\ Slot(i) = Slot(j) => i = j
           /\ Slot(1) = frames_start
<1>1. /\ frames_start + i - 1 \in 0 .. 2 * MAX_INTERPOLATOR_FRAMES - 1
      /\ frames_start + j - 1 \in 0 .. 2 * MAX_INTERPOLATOR_FRAMES - 1
      /\ frames_start + 1 - 1 \in 0 .. 2 * MAX_INTERPOLATOR_FRAMES - 1
  BY FramesAssumption DEF TypeOK, Slots
<1> QED BY <1>1, IpmodOfOneTurn, FramesAssumption DEF Slot, Slots, TypeOK

\* Dropping the oldest key frame moves every other one up by one place.
LEMMA SlotAfterAdvance ==
    ASSUME TypeOK, NEW i \in 1 .. MAX_INTERPOLATOR_FRAMES - 1,
           frames_start' = ipmod(frames_start + 1, MAX_INTERPOLATOR_FRAMES)
    PROVE  /\ Slot(i)' = Slot(i + 1)
           /\ Slot(MAX_INTERPOLATOR_FRAMES)' = frames_start
<1>1. frames_start' = IF frames_start + 1 < MAX_INTERPOLATOR_FRAMES
                      THEN frames_start + 1 ELSE 0
  <2>1. frames_start + 1 \in 0 .. 2 * MAX_INTERPOLATOR_FRAMES - 1
    BY FramesAssumption DEF TypeOK, Slots
  <2> QED BY <2>1, IpmodOfOneTurn, FramesAssumption DEF TypeOK, Slots
<1>2. /\ frames_start + (i + 1) - 1 \in 0 .. 2 * MAX_INTERPOLATOR_FRAMES - 1
      /\ frames_start' + i - 1 \in 0 .. 2 * MAX_INTERPOLATOR_FRAMES - 1
      /\ frames_start' + MAX_INTERPOLATOR_FRAMES - 1
            \in 0 .. 2 * MAX_INTERPOLATOR_FRAMES - 1
  BY <1>1, FramesAssumption DEF TypeOK, Slots
<1>3. Slot(i)' = Slot(i + 1)
  BY <1>1, <1>2, IpmodOfOneTurn, FramesAssumption DEF Slot, TypeOK, Slots
<1>4. Slot(MAX_INTERPOLATOR_FRAMES)' = frames_start
  <2> DEFINE a == frames_start' + MAX_INTERPOLATOR_FRAMES - 1
  <2>1. a \in 0 .. 2 * MAX_INTERPOLATOR_FRAMES - 1
    BY <1>2
  <2>2. ipmod(a, MAX_INTERPOLATOR_FRAMES)
            = IF a < MAX_INTERPOLATOR_FRAMES THEN a ELSE a - MAX_INTERPOLATOR_FRAMES
    BY <2>1, IpmodOfOneTurn, FramesAssumption
  <2>3. ipmod(a, MAX_INTERPOLATOR_FRAMES) = frames_start
    BY <1>1, <2>2, FramesAssumption DEF TypeOK, Slots
  <2> QED BY <2>3 DEF Slot
<1> QED BY <1>3, <1>4

LEMMA MillisDiffRange ==
    ASSUME NEW t \in Timestamps, NEW u \in Timestamps
    PROVE  /\ MillisDiff(t, u) \in 0 .. MILLIS_PER_SECOND - 1
           /\ t # u => MillisDiff(t, u) # 0
  BY TimeDiffAssumption DEF MillisDiff, Timestamps
-----------------------------------------------------------------------------
\* What interpolator_add_point decides before it writes, named for the proofs.
Kept(t) == IF IsOutdated(t) THEN 0 ELSE num_frames

NewSlot(t) ==
    IF Kept(t) = 0 \/ Kept(t) >= MAX_INTERPOLATOR_FRAMES
    THEN frames_start ELSE Slot(Kept(t) + 1)

\* An added point that is not ignored has one of two effects.
LEMMA AddPointEffect ==
    ASSUME TypeOK, NEW t \in Timestamps, NEW v,
           interpolator_add_point(t, v)
    PROVE  \/ /\ num_frames' = Kept(t)
              /\ UNCHANGED <<frames_start, frames>>
           \/ /\ v # NonFinite
              /\ Kept(t) # 0 => Time(Kept(t)) # t
              /\ frames' = [frames EXCEPT ![NewSlot(t)] =
                               [timestamp_millis_part |-> t, value |-> v]]
              /\ \/ /\ Kept(t) < MAX_INTERPOLATOR_FRAMES
                    /\ num_frames' = Kept(t) + 1
                    /\ frames_start' = frames_start
                 \/ /\ Kept(t) = MAX_INTERPOLATOR_FRAMES
                    /\ num_frames' = MAX_INTERPOLATOR_FRAMES
                    /\ frames_start' = ipmod(frames_start + 1, MAX_INTERPOLATOR_FRAMES)
<1>1. Kept(t) \in 0 .. MAX_INTERPOLATOR_FRAMES
  BY FramesAssumption DEF Kept, TypeOK
<1> QED BY <1>1, FramesAssumption DEF IsFull, interpolator_add_point, Kept, NewSlot

LEMMA InitTypeOK == Init => TypeOK
  BY FramesAssumption, TimeDiffAssumption, ValuesAssumption
     DEF Init, create_interpolator, TypeOK, Slots, KeyFrame, Timestamps

LEMMA AddPointTypeOK ==
    ASSUME TypeOK, NEW t \in Timestamps, NEW v \in Values \cup {NonFinite},
           interpolator_add_point(t, v)
    PROVE  TypeOK'
<1>1. Kept(t) \in 0 .. MAX_INTERPOLATOR_FRAMES
  BY FramesAssumption DEF Kept, TypeOK
<1>2. NewSlot(t) \in Slots
  BY <1>1, SlotsDistinct, FramesAssumption DEF NewSlot, TypeOK
<1>3. ipmod(frames_start + 1, MAX_INTERPOLATOR_FRAMES) \in Slots
  BY IpmodOfOneTurn, FramesAssumption DEF TypeOK, Slots
<1>4. frames' \in [Slots -> KeyFrame]
  BY <1>2, AddPointEffect DEF TypeOK, KeyFrame
<1>5. frames_start' \in Slots
  BY <1>3, AddPointEffect DEF TypeOK
<1>6. num_frames' \in 0 .. MAX_INTERPOLATOR_FRAMES
  BY <1>1, AddPointEffect, FramesAssumption DEF TypeOK
<1> QED BY <1>4, <1>5, <1>6 DEF TypeOK

LEMMA NextTypeOK == TypeOK /\ [Next]_vars => TypeOK'
<1> SUFFICES ASSUME TypeOK, [Next]_vars PROVE TypeOK'
  OBVIOUS
<1>1. CASE interpolator_reset
  BY <1>1, FramesAssumption DEF interpolator_reset, TypeOK
<1>2. CASE \E t \in Timestamps : interpolator_maintain(t)
  BY <1>2, FramesAssumption DEF interpolator_maintain, interpolator_reset, TypeOK
<1>3. CASE \E t \in Timestamps, v \in Values \cup {NonFinite} :
              interpolator_add_point(t, v)
  BY <1>3, AddPointTypeOK
<1>4. CASE UNCHANGED vars
  BY <1>4 DEF vars, TypeOK
<1> QED BY <1>1, <1>2, <1>3, <1>4 DEF Next

\* interpolation.c never leaves its ring: indices, counter and slots keep their
\* ranges under every sequence of calls.
THEOREM InterpolatorTypeCorrect == Spec => []TypeOK
<1>1. Init => TypeOK
  BY InitTypeOK
<1>2. TypeOK /\ [Next]_vars => TypeOK'
  BY NextTypeOK
<1> QED BY <1>1, <1>2, PTL DEF Spec
-----------------------------------------------------------------------------
\* The gaps need no more than the types to be kept from step to step.
IInv == TypeOK /\ GapsRelatable

\* A point is added behind a frame only if it is not too far from it.
LEMMA NewGapRelatable ==
    ASSUME TypeOK, NEW t \in Timestamps, Kept(t) # 0, Time(Kept(t)) # t
    PROVE  /\ Kept(t) = num_frames
           /\ MillisDiff(t, Time(Kept(t)))
                  \in 1 .. MAX_INTERPOLATOR_FRAME_TIME_DIFF_MILLIS - 1
<1>1. Kept(t) = num_frames /\ ~IsOutdated(t) /\ num_frames \in 1 .. MAX_INTERPOLATOR_FRAMES
  BY DEF Kept, TypeOK
<1>2. Time(num_frames) \in Timestamps
  BY <1>1, SlotsDistinct, FramesAssumption DEF Time, Frame, TypeOK, KeyFrame
<1>3. /\ MillisDiff(t, Time(num_frames)) \in 0 .. MILLIS_PER_SECOND - 1
      /\ MillisDiff(t, Time(num_frames)) # 0
  BY <1>1, <1>2, MillisDiffRange
<1>4. MillisDiff(t, Time(num_frames)) < MAX_INTERPOLATOR_FRAME_TIME_DIFF_MILLIS
  BY <1>1, <1>3, TimeDiffAssumption DEF IsOutdated
<1> QED BY <1>1, <1>3, <1>4, TimeDiffAssumption

LEMMA AddPointGaps ==
    ASSUME IInv, NEW t \in Timestamps, NEW v \in Values \cup {NonFinite},
           interpolator_add_point(t, v)
    PROVE  GapsRelatable'
<1> USE FramesAssumption
<1> DEFINE N == MAX_INTERPOLATOR_FRAMES
           new == [timestamp_millis_part |-> t, value |-> v]
<1>1. TypeOK /\ GapsRelatable /\ Kept(t) \in 0 .. num_frames /\ num_frames \in 0 .. N
  BY DEF IInv, Kept, TypeOK
<1>2. CASE num_frames' = Kept(t) /\ UNCHANGED <<frames_start, frames>>
  BY <1>1, <1>2 DEF GapsRelatable, Gap, Time, Frame, Slot
<1>3. CASE /\ Kept(t) # 0 => Time(Kept(t)) # t
           /\ frames' = [frames EXCEPT ![NewSlot(t)] = new]
           /\ Kept(t) < N
           /\ num_frames' = Kept(t) + 1
           /\ frames_start' = frames_start
  <2>1. PICK k \in 0 .. N - 1 : k = Kept(t)
    BY <1>1, <1>3
  <2>2. NewSlot(t) = Slot(k + 1)
    BY <1>1, <1>3, <2>1, SlotsDistinct DEF NewSlot
  <2>3. /\ Time(k + 1)' = t
        /\ \A i \in 1 .. k : Time(i)' = Time(i)
    <3>1. Slot(k + 1) \in Slots
      BY <1>1, <2>1, SlotsDistinct
    <3>2. \A i \in 1 .. k : Slot(i) \in Slots /\ Slot(i) # Slot(k + 1)
      BY <1>1, <2>1, SlotsDistinct
    <3>3. \A i \in 1 .. N : Slot(i)' = Slot(i)
      BY <1>3 DEF Slot
    <3>4. Time(k + 1)' = t
      BY <1>1, <1>3, <2>1, <2>2, <3>1, <3>3 DEF Time, Frame, TypeOK
    <3>5. \A i \in 1 .. k : Time(i)' = Time(i)
      BY <1>1, <1>3, <2>1, <2>2, <3>1, <3>2, <3>3 DEF Time, Frame, TypeOK
    <3> QED BY <3>4, <3>5
  <2> SUFFICES ASSUME NEW i \in 2 .. k + 1
               PROVE  Gap(i)' \in 1 .. MAX_INTERPOLATOR_FRAME_TIME_DIFF_MILLIS - 1
    BY <1>3, <2>1 DEF GapsRelatable
  <2>4. CASE i <= k
    BY <1>1, <2>1, <2>3, <2>4 DEF GapsRelatable, Gap
  <2>5. CASE i = k + 1
    <3>1. k # 0 /\ k \in 1 .. k /\ i - 1 = k
      BY <2>1, <2>5
    <3>2. Gap(i)' = MillisDiff(t, Time(k))
      BY <2>3, <2>5, <3>1 DEF Gap
    <3> QED BY <1>3, <1>1, <2>1, <3>1, <3>2, NewGapRelatable
  <2> QED BY <2>1, <2>4, <2>5
<1>4. CASE /\ Kept(t) # 0 => Time(Kept(t)) # t
           /\ frames' = [frames EXCEPT ![NewSlot(t)] = new]
           /\ Kept(t) = N
           /\ num_frames' = N
           /\ frames_start' = ipmod(frames_start + 1, N)
  <2>1. NewSlot(t) = Slot(1) /\ Slot(1) = frames_start
    BY <1>1, <1>4, SlotsDistinct DEF NewSlot
  <2>2. CASE N = 1
    BY <1>4, <2>2 DEF GapsRelatable
  <2>3. CASE N # 1
    <3>1. /\ Slot(N)' = Slot(1)
          /\ \A i \in 1 .. N - 1 : Slot(i)' = Slot(i + 1)
      BY <1>1, <1>4, <2>1, <2>3, SlotAfterAdvance
    <3>2. \A i \in 1 .. N - 1 : Slot(i + 1) \in Slots /\ Slot(i + 1) # Slot(1)
      BY <1>1, SlotsDistinct
    <3>3. /\ Time(N)' = t
          /\ \A i \in 1 .. N - 1 : Time(i)' = Time(i + 1)
      <4>1. Slot(1) \in Slots
        BY <1>1, SlotsDistinct
      <4> QED BY <1>1, <1>4, <2>1, <3>1, <3>2, <4>1 DEF Time, Frame, TypeOK
    <3> SUFFICES ASSUME NEW i \in 2 .. N
                 PROVE  Gap(i)' \in 1 .. MAX_INTERPOLATOR_FRAME_TIME_DIFF_MILLIS - 1
      BY <1>4 DEF GapsRelatable
    <3>4. num_frames = N
      BY <1>1, <1>4
    <3>5. CASE i < N
      <4>1. i + 1 \in 2 .. num_frames /\ i - 1 \in 1 .. N - 1 /\ (i - 1) + 1 = i
        BY <3>4, <3>5
      <4>2. Gap(i)' = Gap(i + 1)
        BY <3>3, <3>5, <4>1 DEF Gap
      <4> QED BY <1>1, <4>1, <4>2 DEF GapsRelatable
    <3>6. CASE i = N
      <4>1. N - 1 \in 1 .. N - 1 /\ (N - 1) + 1 = N
        BY <2>3
      <4>2. Gap(i)' = MillisDiff(t, Time(Kept(t)))
        BY <1>4, <3>3, <3>6, <4>1 DEF Gap
      <4> QED BY <1>1, <1>4, <4>2, NewGapRelatable
    <3> QED BY <3>5, <3>6
  <2> QED BY <2>2, <2>3
<1> QED BY <1>1, <1>2, <1>3, <1>4, AddPointEffect

\* interpolation.h: whatever the calls were, neighbouring key frames advance
\* strictly and are closer than the maximum, so their order can be told from
\* the milliseconds part alone.
THEOREM NeighboursRelatable == Spec => []GapsRelatable
<1>1. Init => IInv
  BY InitTypeOK DEF Init, create_interpolator, IInv, GapsRelatable
<1>2. IInv /\ [Next]_vars => IInv'
  <2> SUFFICES ASSUME IInv, [Next]_vars PROVE GapsRelatable'
    BY NextTypeOK DEF IInv
  <2>1. CASE interpolator_reset
    BY <2>1 DEF interpolator_reset, GapsRelatable
  <2>2. CASE \E t \in Timestamps : interpolator_maintain(t)
    BY <2>2 DEF interpolator_maintain, interpolator_reset, GapsRelatable
  <2>3. CASE \E t \in Timestamps, v \in Values \cup {NonFinite} :
                interpolator_add_point(t, v)
    BY <2>3, AddPointGaps
  <2>4. CASE UNCHANGED vars
    BY <2>4 DEF vars, IInv, GapsRelatable, Gap, Time, Frame, Slot
  <2> QED BY <2>1, <2>2, <2>3, <2>4 DEF Next
<1>3. IInv => GapsRelatable
  BY DEF IInv
<1> QED BY <1>1, <1>2, <1>3, PTL DEF Spec
-----------------------------------------------------------------------------
\* The key frames in their order.
OrderedFrames == [i \in 1 .. num_frames |-> Frame(i)]

LEMMA OrderedFramesSeq ==
    ASSUME TypeOK
    PROVE  /\ OrderedFrames \in Seq(KeyFrame) /\ Len(OrderedFrames) = num_frames
           /\ \A i \in 1 .. num_frames : OrderedFrames[i] = Frame(i) /\ Frame(i) \in KeyFrame
           /\ num_frames \in 0 .. MAX_INTERPOLATOR_FRAMES /\ num_frames \in Nat
           /\ num_frames # 0 => OrderedFrames[Len(OrderedFrames)] = Frame(num_frames)
           /\ (OrderedFrames = << >>) <=> (num_frames = 0)
<1>1. num_frames \in 0 .. MAX_INTERPOLATOR_FRAMES /\ num_frames \in Nat
  BY FramesAssumption DEF TypeOK
<1>2. ASSUME NEW i \in 1 .. num_frames
      PROVE  Frame(i) \in KeyFrame
  <2>1. i \in 1 .. MAX_INTERPOLATOR_FRAMES
    BY <1>1, FramesAssumption
  <2> QED
    BY <2>1, SlotsDistinct DEF Frame, TypeOK
<1>3. OrderedFrames \in Seq(KeyFrame) /\ Len(OrderedFrames) = num_frames
  <2>1. OrderedFrames \in [1 .. num_frames -> KeyFrame]
    BY <1>2 DEF OrderedFrames
  <2> QED
    BY <1>1, <2>1
<1>4. \A i \in 1 .. num_frames : OrderedFrames[i] = Frame(i)
  BY DEF OrderedFrames
<1>5. num_frames # 0 => num_frames \in 1 .. num_frames
  BY <1>1
<1>6. (OrderedFrames = << >>) <=> (num_frames = 0)
  BY <1>3, EmptySeq
<1> QED
  BY <1>1, <1>2, <1>3, <1>4, <1>5, <1>6

\* What the ring computes with a condition is the difference modulo a second.
LEMMA ElapsedIsMillisDiff ==
    ASSUME NEW t \in Timestamps, NEW u \in Timestamps
    PROVE  Window!Elapsed(u, t) = MillisDiff(t, u)
<1>1. MILLIS_PER_SECOND \in Nat \ {0} /\ t \in Int /\ u \in Int
  BY TimeDiffAssumption DEF Timestamps
<1>2. CASE t - u >= 0
  <2>1. t - u \in 0 .. MILLIS_PER_SECOND - 1
    BY <1>1, <1>2 DEF Timestamps
  <2>2. (t - u) % MILLIS_PER_SECOND = t - u
    BY <1>1, <2>1
  <2> QED
    BY <1>1, <1>2, <2>2 DEF Window!Elapsed, MillisDiff
<1>3. CASE t - u < 0
  <2>1. t - u + MILLIS_PER_SECOND \in 0 .. MILLIS_PER_SECOND - 1
    BY <1>1, <1>3 DEF Timestamps
  <2>2. (t - u) % MILLIS_PER_SECOND = t - u + MILLIS_PER_SECOND
    BY <1>1, <1>3, <2>1
  <2> QED
    BY <1>1, <1>3, <2>2 DEF Window!Elapsed, MillisDiff
<1> QED
  BY <1>1, <1>2, <1>3

\* Both are emptied at the same time.
LEMMA KeptIsMaintained ==
    ASSUME TypeOK, NEW t \in Timestamps
    PROVE  Window!Maintained(OrderedFrames, t) =
                IF IsOutdated(t) THEN << >> ELSE OrderedFrames
<1>1. num_frames # 0 => Time(num_frames) \in Timestamps
  BY OrderedFramesSeq DEF Time, KeyFrame
<1>2. num_frames # 0 =>
          /\ Window!Last(OrderedFrames) = Frame(num_frames)
          /\ Window!Elapsed(Frame(num_frames).timestamp_millis_part, t)
                = MillisDiff(t, Time(num_frames))
  <2>1. num_frames # 0 => Window!Last(OrderedFrames) = Frame(num_frames)
    BY OrderedFramesSeq DEF Window!Last
  <2> QED
    BY <1>1, <2>1, ElapsedIsMillisDiff DEF Time
<1> QED
  BY <1>2, OrderedFramesSeq DEF Window!Maintained, IsOutdated

\* Only the first of these frames counts, if none of them moved.
LEMMA SameFrames ==
    ASSUME TypeOK, TypeOK', num_frames' \in 0 .. num_frames, UNCHANGED <<frames_start, frames>>
    PROVE  /\ num_frames' = 0 => OrderedFrames' = << >>
           /\ num_frames' = num_frames => OrderedFrames' = OrderedFrames
<1>1. num_frames' = 0 => OrderedFrames' = << >>
  <2>1. 1 .. 0 = {}
    OBVIOUS
  <2>2. OrderedFrames' = [i \in 1 .. num_frames' |-> Frame(i)']
    BY DEF OrderedFrames
  <2>3. [i \in 1 .. 0 |-> Frame(i)'] = << >>
    BY <2>1
  <2> QED
    BY <2>2, <2>3
<1>2. num_frames' = num_frames => OrderedFrames' = OrderedFrames
  BY DEF OrderedFrames, Frame, Slot
<1> QED
  BY <1>1, <1>2

\* A frame added to a ring with a free slot is the last one.
LEMMA AddedBehind ==
    ASSUME TypeOK, NEW t \in Timestamps, NEW k \in Nat, k = Kept(t),
           k < MAX_INTERPOLATOR_FRAMES,
           NEW new \in KeyFrame, frames' = [frames EXCEPT ![NewSlot(t)] = new],
           frames_start' = frames_start
    PROVE  /\ \A i \in 1 .. k : Frame(i)' = Frame(i)
           /\ Frame(k + 1)' = new
<1> USE FramesAssumption
<1>1. k + 1 \in 1 .. MAX_INTERPOLATOR_FRAMES /\ 1 \in 1 .. MAX_INTERPOLATOR_FRAMES
  OBVIOUS
<1>2. NewSlot(t) = Slot(k + 1) /\ Slot(k + 1) \in Slots
  <2>1. /\ k = 0 => k + 1 = 1
        /\ ~(k >= MAX_INTERPOLATOR_FRAMES)
    OBVIOUS
  <2> QED
    BY <1>1, <2>1, SlotsDistinct DEF NewSlot
<1>3. \A i \in 1 .. k : Slot(i) \in Slots /\ Slot(i) # Slot(k + 1)
  <2>1. \A i \in 1 .. k : i \in 1 .. MAX_INTERPOLATOR_FRAMES /\ i # k + 1
    OBVIOUS
  <2> QED
    BY <1>1, <2>1, SlotsDistinct
<1>4. /\ \A i \in 1 .. k : Frame(i)' = frames'[Slot(i)]
      /\ Frame(k + 1)' = frames'[Slot(k + 1)]
  <2>1. \A i \in Int : Slot(i)' = Slot(i)
    BY DEF Slot
  <2>2. \A i \in Int : Frame(i)' = frames'[Slot(i)']
    BY DEF Frame
  <2>3. k + 1 \in Int /\ 1 .. k \subseteq Int
    OBVIOUS
  <2> QED
    BY <2>1, <2>2, <2>3
<1>5. \A s \in Slots : frames'[s] = IF s = Slot(k + 1) THEN new ELSE frames[s]
  BY <1>2 DEF TypeOK
<1>6. \A i \in 1 .. k : Frame(i)' = Frame(i)
  BY <1>3, <1>4, <1>5 DEF Frame
<1>7. Frame(k + 1)' = new
  BY <1>2, <1>4, <1>5
<1> QED
  BY <1>6, <1>7

\* A frame added to a full ring takes the place of the oldest one.
LEMMA AddedInPlace ==
    ASSUME TypeOK, NEW t \in Timestamps, Kept(t) = MAX_INTERPOLATOR_FRAMES,
           NEW new \in KeyFrame, frames' = [frames EXCEPT ![NewSlot(t)] = new],
           frames_start' = ipmod(frames_start + 1, MAX_INTERPOLATOR_FRAMES)
    PROVE  /\ \A i \in 1 .. MAX_INTERPOLATOR_FRAMES - 1 : Frame(i)' = Frame(i + 1)
           /\ Frame(MAX_INTERPOLATOR_FRAMES)' = new
<1> USE FramesAssumption
<1> DEFINE N == MAX_INTERPOLATOR_FRAMES
<1>1. 1 \in 1 .. N /\ N \in 1 .. N
  OBVIOUS
<1>2. NewSlot(t) = frames_start /\ Slot(1) = frames_start /\ frames_start \in Slots
  BY <1>1, SlotsDistinct DEF NewSlot
<1>3. \A i \in 1 .. N - 1 : /\ Slot(i)' = Slot(i + 1) /\ Slot(i + 1) \in Slots
                            /\ Slot(i + 1) # Slot(1)
  <2>1. \A i \in 1 .. N - 1 : i + 1 \in 1 .. N /\ i + 1 # 1
    OBVIOUS
  <2> QED
    BY <1>1, <2>1, SlotAfterAdvance, SlotsDistinct
<1>4. Slot(N)' = frames_start
  <2>1. CASE N = 1
    <3>1. frames_start = 0 /\ TypeOK /\ frames_start + 1 = 1
      BY <1>2, <2>1 DEF Slots
    <3>2. ipmod(1, 1) = 0
      BY <2>1, IpmodOfOneTurn
    <3>3. frames_start' = 0
      BY <2>1, <3>1, <3>2
    <3>4. ipmod(0, 1) = 0
      BY <2>1, IpmodOfOneTurn
    <3>5. Slot(N)' = ipmod(0 + 1 - 1, 1)
      BY <2>1, <3>3 DEF Slot
    <3> QED
      BY <3>1, <3>4, <3>5
  <2>2. CASE N # 1
    <3>1. 1 \in 1 .. N - 1
      BY <2>2
    <3> QED
      BY <3>1, SlotAfterAdvance
  <2> QED
    BY <2>1, <2>2
<1>5. \A i \in 1 .. N - 1 : Frame(i)' = frames'[Slot(i + 1)]
  BY <1>3 DEF Frame
<1> QED
  BY <1>2, <1>3, <1>4, <1>5 DEF Frame, TypeOK

\* A window that is not too long keeps all points, a longer one loses the oldest.
LEMMA MostRecentAppended ==
    ASSUME NEW w \in Seq(KeyFrame), NEW new \in KeyFrame, Len(w) <= MAX_INTERPOLATOR_FRAMES
    PROVE  /\ Append(w, new) \in Seq(KeyFrame)
           /\ Len(w) < MAX_INTERPOLATOR_FRAMES =>
                Window!MostRecent(Append(w, new), MAX_INTERPOLATOR_FRAMES) = Append(w, new)
           /\ Len(w) = MAX_INTERPOLATOR_FRAMES =>
                Window!MostRecent(Append(w, new), MAX_INTERPOLATOR_FRAMES)
                    = SubSeq(Append(w, new), 2, MAX_INTERPOLATOR_FRAMES + 1)
<1> DEFINE n == Len(w)
           long == Append(w, new)
<1>1. n \in Nat /\ long \in Seq(KeyFrame) /\ Len(long) = n + 1
  OBVIOUS
<1> HIDE DEF n, long
<1>2. CASE n < MAX_INTERPOLATOR_FRAMES
  <2>1. Len(long) <= MAX_INTERPOLATOR_FRAMES /\ n # MAX_INTERPOLATOR_FRAMES
    BY <1>1, <1>2, FramesAssumption
  <2> QED
    BY <1>1, <2>1 DEF Window!MostRecent, n, long
<1>3. CASE n = MAX_INTERPOLATOR_FRAMES
  <2>1. ~(Len(long) <= MAX_INTERPOLATOR_FRAMES) /\ ~(n < MAX_INTERPOLATOR_FRAMES)
    BY <1>1, <1>3, FramesAssumption
  <2>2. /\ Len(long) = MAX_INTERPOLATOR_FRAMES + 1
        /\ MAX_INTERPOLATOR_FRAMES + 1 - MAX_INTERPOLATOR_FRAMES + 1 = 2
    BY <1>1, <1>3, FramesAssumption
  <2>3. Window!MostRecent(long, MAX_INTERPOLATOR_FRAMES)
            = SubSeq(long, 2, MAX_INTERPOLATOR_FRAMES + 1)
    <3>1. Window!MostRecent(long, MAX_INTERPOLATOR_FRAMES)
              = SubSeq(long, Len(long) - MAX_INTERPOLATOR_FRAMES + 1, Len(long))
      BY <2>1, Zenon DEF Window!MostRecent
    <3>2. Len(long) - MAX_INTERPOLATOR_FRAMES + 1 = 2
      <4> DEFINE l == Len(long)
      <4>1. l = MAX_INTERPOLATOR_FRAMES + 1
        BY <2>2
      <4> HIDE DEF l
      <4>2. l - MAX_INTERPOLATOR_FRAMES + 1 = 2
        BY <4>1, FramesAssumption
      <4> QED
        BY <4>2 DEF l
    <3> QED
      BY <2>2, <3>1, <3>2, Zenon
  <2> QED
    BY <1>1, <2>1, <2>3 DEF n, long
<1>4. n < MAX_INTERPOLATOR_FRAMES \/ n = MAX_INTERPOLATOR_FRAMES
  BY <1>1, FramesAssumption DEF n
<1> QED
  BY <1>2, <1>3, <1>4

LEMMA AddPointWindow ==
    ASSUME TypeOK, NEW t \in Timestamps, NEW v \in Values \cup {NonFinite},
           interpolator_add_point(t, v)
    PROVE  OrderedFrames' = Window!Added(OrderedFrames, t, v)
<1> DEFINE N == MAX_INTERPOLATOR_FRAMES
           new == [timestamp_millis_part |-> t, value |-> v]
           w == OrderedFrames
           m == Window!Maintained(w, t)
<1>1. /\ TypeOK' /\ N \in Nat \ {0} /\ Kept(t) \in 0 .. num_frames /\ num_frames \in 0 .. N
      /\ Kept(t) \in Nat /\ num_frames \in Nat
  BY AddPointTypeOK, FramesAssumption DEF Kept, TypeOK
<1>2. /\ m = IF IsOutdated(t) THEN << >> ELSE w
      /\ m \in Seq(KeyFrame) /\ Len(m) = Kept(t)
      /\ Kept(t) # 0 => m = w /\ Kept(t) = num_frames
      /\ \A i \in 1 .. Kept(t) : m[i] = Frame(i)
      /\ (m = << >>) <=> (Kept(t) = 0)
  <2>1. m = IF IsOutdated(t) THEN << >> ELSE w
    BY KeptIsMaintained
  <2>2. CASE IsOutdated(t)
    <3>1. m = << >> /\ Kept(t) = 0
      BY <2>1, <2>2 DEF Kept
    <3>2. 1 .. 0 = {} /\ << >> \in Seq(KeyFrame) /\ Len(<< >>) = 0
      OBVIOUS
    <3> HIDE DEF m
    <3> QED
      BY <2>1, <3>1, <3>2
  <2>3. CASE ~IsOutdated(t)
    <3>1. m = w /\ Kept(t) = num_frames
      BY <2>1, <2>3 DEF Kept
    <3> QED
      BY <2>1, <3>1, OrderedFramesSeq
  <2> QED
    BY <2>2, <2>3
<1>3. Kept(t) # 0 => Window!Last(m).timestamp_millis_part = Time(Kept(t))
  BY <1>2, OrderedFramesSeq DEF Window!Last, Time
<1> DEFINE is_ignored == v = NonFinite \/ (Kept(t) # 0 /\ Time(Kept(t)) = t)
<1>4. /\ is_ignored => Window!Added(w, t, v) = m
      /\ ~is_ignored => Window!Added(w, t, v) = Window!MostRecent(Append(m, new), N)
  BY <1>2, <1>3 DEF Window!Added
<1> HIDE DEF m, w
<1>5. CASE is_ignored
  <2>1. num_frames' = Kept(t) /\ UNCHANGED <<frames_start, frames>>
    BY <1>5 DEF interpolator_add_point, Kept
  <2>2. /\ Kept(t) = 0 => OrderedFrames' = << >>
        /\ Kept(t) # 0 => OrderedFrames' = OrderedFrames
    BY <1>1, <1>2, <2>1, SameFrames
  <2> QED
    BY <1>2, <1>4, <1>5, <2>2 DEF w
<1>6. CASE ~is_ignored
  <2>1. /\ v \in Values /\ new \in KeyFrame
        /\ frames' = [frames EXCEPT ![NewSlot(t)] = new]
        /\ num_frames' = IF IsFull(Kept(t)) THEN Kept(t) ELSE Kept(t) + 1
        /\ frames_start' = IF IsFull(Kept(t)) THEN ipmod(frames_start + 1, N) ELSE frames_start
    <3>1. v \in Values /\ new \in KeyFrame
      BY <1>6 DEF KeyFrame
    <3>2. /\ frames' = [frames EXCEPT ![NewSlot(t)] = new]
          /\ num_frames' = IF IsFull(Kept(t)) THEN Kept(t) ELSE Kept(t) + 1
          /\ frames_start' = IF IsFull(Kept(t)) THEN ipmod(frames_start + 1, N)
                             ELSE frames_start
      BY <1>6 DEF interpolator_add_point, Kept, NewSlot, IsFull
    <3> QED
      BY <3>1, <3>2
  <2> HIDE DEF new
  <2>2. ASSUME NEW s \in Seq(KeyFrame), Len(s) = num_frames',
               \A i \in 1 .. num_frames' : Frame(i)' = s[i]
        PROVE  OrderedFrames' = s
    <3>1. OrderedFrames' = [i \in 1 .. num_frames' |-> Frame(i)']
      BY DEF OrderedFrames
    <3>2. s = [i \in 1 .. num_frames' |-> s[i]]
      BY <2>2
    <3> QED
      BY <2>2, <3>1, <3>2
  <2>3. CASE Kept(t) < N
    <3>0. PICK k \in Nat : k = Kept(t)
      BY <1>1
    <3>1. num_frames' = k + 1 /\ frames_start' = frames_start
      BY <1>1, <2>1, <2>3, <3>0 DEF IsFull
    <3>2. /\ \A i \in 1 .. k : Frame(i)' = Frame(i)
          /\ Frame(k + 1)' = new
      BY <2>1, <2>3, <3>0, <3>1, AddedBehind
    <3>3. Window!Added(w, t, v) = Append(m, new)
      <4>1. Len(m) < N /\ Len(m) <= N /\ m \in Seq(KeyFrame)
        BY <1>1, <1>2, <2>3
      <4> QED
        BY <1>4, <1>6, <2>1, <4>1, MostRecentAppended
    <3>4. OrderedFrames' = Append(m, new)
      <4>1. /\ Append(m, new) \in Seq(KeyFrame) /\ Len(Append(m, new)) = k + 1
            /\ \A i \in 1 .. k : Append(m, new)[i] = m[i]
            /\ Append(m, new)[k + 1] = new
        BY <1>2, <2>1, <3>0
      <4>2. ASSUME NEW i \in 1 .. k + 1
            PROVE  Frame(i)' = Append(m, new)[i]
        <5>1. CASE i \in 1 .. k
          <6>1. Frame(i)' = Frame(i) /\ m[i] = Frame(i)
            BY <1>2, <3>0, <3>2, <5>1
          <6> QED
            BY <4>1, <5>1, <6>1
        <5>2. CASE i = k + 1
          BY <3>2, <4>1, <5>2
        <5>3. i \in 1 .. k \/ i = k + 1
          OBVIOUS
        <5> QED
          BY <5>1, <5>2, <5>3
      <4> QED
        BY <2>2, <3>1, <4>1, <4>2
    <3> QED
      BY <3>3, <3>4 DEF w
  <2>4. CASE Kept(t) = N
    <3>1. num_frames' = N /\ frames_start' = ipmod(frames_start + 1, N)
      BY <1>1, <2>1, <2>4 DEF IsFull
    <3>2. /\ \A i \in 1 .. N - 1 : Frame(i)' = Frame(i + 1)
          /\ Frame(N)' = new
      BY <2>1, <2>4, <3>1, AddedInPlace
    <3>3. Window!Added(w, t, v) = SubSeq(Append(m, new), 2, N + 1)
      BY <1>1, <1>2, <1>4, <1>6, <2>1, <2>4, MostRecentAppended
    <3>4. OrderedFrames' = SubSeq(Append(m, new), 2, N + 1)
      <4>1. /\ Append(m, new) \in Seq(KeyFrame) /\ Len(Append(m, new)) = N + 1
            /\ \A i \in 1 .. N : Append(m, new)[i] = m[i]
            /\ Append(m, new)[N + 1] = new
        BY <1>1, <1>2, <2>1, <2>4
      <4> DEFINE long == Append(m, new)
                 rest == SubSeq(long, 2, N + 1)
      <4>2. /\ rest \in Seq(KeyFrame) /\ Len(rest) = N
            /\ \A i \in 1 .. N : rest[i] = long[i + 1]
        <5> HIDE DEF long, N
        <5>1. long \in Seq(KeyFrame) /\ Len(long) = N + 1 /\ N \in Nat \ {0}
          BY <1>1, <4>1 DEF long
        <5> QED
          BY <5>1
      <4>3. ASSUME NEW i \in 1 .. N
            PROVE  Frame(i)' = rest[i]
        <5>1. CASE i = N
          BY <3>2, <4>1, <4>2, <5>1
        <5>2. CASE i # N
          <6>1. i \in 1 .. N - 1 /\ i + 1 \in 1 .. N
            BY <1>1, <5>2
          <6>2. Frame(i)' = Frame(i + 1) /\ m[i + 1] = Frame(i + 1)
            BY <1>2, <2>4, <3>2, <6>1
          <6> QED
            BY <4>1, <4>2, <6>1, <6>2
        <5> QED
          BY <5>1, <5>2
      <4> HIDE DEF rest
      <4>4. OrderedFrames' = rest
        BY <2>2, <3>1, <4>2, <4>3
      <4> QED
        BY <4>4 DEF rest
    <3> QED
      BY <3>3, <3>4 DEF w
  <2> QED
    BY <1>1, <2>3, <2>4
<1> QED
  BY <1>5, <1>6

\* interpolation.h: over every sequence of calls, the ring holds exactly the most recent
\* points that it is meant to hold, in their order; none is lost, kept too long or put in
\* the place of another.
THEOREM RingImplementsWindow == Spec => ImplementsWindow
<1>1. Init => TypeOK /\ Window!Init
  <2>1. Init => num_frames = 0
    BY DEF Init, create_interpolator
  <2>2. 1 .. 0 = {}
    OBVIOUS
  <2>3. Init => [i \in 1 .. num_frames |-> Frame(i)] = << >>
    BY <2>1, <2>2
  <2> QED
    BY <2>3, InitTypeOK DEF Window!Init
<1>2. TypeOK /\ [Next]_vars => TypeOK' /\ [Window!Next]_OrderedFrames
  <2> SUFFICES ASSUME TypeOK, [Next]_vars
               PROVE  [Window!Next]_OrderedFrames
    BY NextTypeOK
  <2>1. TypeOK'
    BY NextTypeOK
  <2>2. interpolator_reset => OrderedFrames' = << >>
    BY <2>1, SameFrames, FramesAssumption DEF interpolator_reset, TypeOK
  <2>3. CASE interpolator_reset
    BY <2>2, <2>3 DEF Window!Next, Window!Reset, OrderedFrames
  <2>4. ASSUME NEW t \in Timestamps, interpolator_maintain(t)
        PROVE  Window!Next
    <3>1. OrderedFrames' = Window!Maintained(OrderedFrames, t)
      BY <2>2, <2>4, KeptIsMaintained DEF interpolator_maintain
    <3>2. Window!Timestamps = Timestamps
      BY DEF Window!Timestamps, Timestamps
    <3> QED
      BY <3>1, <3>2 DEF Window!Next, Window!Maintain, OrderedFrames
  <2>5. ASSUME NEW t \in Timestamps, NEW v \in Values \cup {NonFinite},
               interpolator_add_point(t, v)
        PROVE  Window!Next
    <3>1. OrderedFrames' = Window!Added(OrderedFrames, t, v)
      BY <2>5, AddPointWindow
    <3>2. Window!Timestamps = Timestamps
      BY DEF Window!Timestamps, Timestamps
    <3> QED
      BY <3>1, <3>2 DEF Window!Next, Window!AddPoint, OrderedFrames
  <2>6. CASE UNCHANGED vars
    BY <2>6 DEF vars, OrderedFrames, Frame, Slot
  <2> QED
    BY <2>3, <2>4, <2>5, <2>6 DEF Next
<1>3. OrderedFrames = [i \in 1 .. num_frames |-> Frame(i)]
  BY DEF OrderedFrames
<1> QED
  BY <1>1, <1>2, <1>3, PTL DEF Spec, ImplementsWindow, Window!Spec, OrderedFrames
-----------------------------------------------------------------------------
Below == {ss \in Nat \X Nat : ss[1] < ss[2]}

\* A set of natural numbers has a least one, as natural numbers do not descend for ever.
LEMMA LeastOfNat ==
    ASSUME NEW S \in SUBSET Nat, S # {}
    PROVE  \E least \in S : \A n \in S : least <= n
<1>1. Below = OpToRel(<, Nat)
  BY Zenon DEF Below, OpToRel
<1>2. IsWellFoundedOn(Below, Nat)
  BY <1>1, NatLessThanWellFounded
<1>3. PICK least \in S : \A n \in S : <<n, least>> \notin Below
  BY <1>2, WFMin
<1>4. ASSUME NEW n \in S
      PROVE  least <= n
  <2>1. n \in Nat /\ least \in Nat
    OBVIOUS
  <2>2. <<n, least>> \in Nat \X Nat /\ <<n, least>>[1] = n /\ <<n, least>>[2] = least
    BY <2>1
  <2>3. ~(n < least)
    BY <1>3, <2>2 DEF Below
  <2> QED
    BY <2>1, <2>3
<1> QED
  BY <1>4

\* What holds at the end and is handed down holds for all that is before it.
LEMMA Downwards ==
    ASSUME NEW first \in Int, NEW last \in Int, NEW Good,
           last \in Good,
           \A k \in first .. last - 1 : k + 1 \in Good => k \in Good
    PROVE  first .. last \subseteq Good
<1> DEFINE Bad == {d \in Nat : last - d \in first .. last /\ last - d \notin Good}
<1>1. SUFFICES ASSUME Bad # {}
               PROVE  FALSE
  <2>1. ASSUME Bad = {}, NEW k \in first .. last
        PROVE  k \in Good
    <3> DEFINE d == last - k
    <3>1. d \in Nat /\ last - d = k
      OBVIOUS
    <3> HIDE DEF d
    <3>2. k \notin Good => d \in Bad
      BY <2>1, <3>1
    <3> QED BY <2>1, <3>2
  <2> QED BY <2>1
<1>2. PICK d \in Bad : \A e \in Bad : d <= e
  <2> HIDE DEF Bad
  <2>1. Bad \in SUBSET Nat
    BY DEF Bad
  <2> QED BY <1>1, <2>1, LeastOfNat
<1>3. d # 0
  BY <1>2
<1>4. d - 1 \in Nat /\ d - 1 \notin Bad
  BY <1>2, <1>3
<1> DEFINE k == last - d
<1>5. k \in first .. last - 1 /\ k + 1 \in Good
  BY <1>2, <1>3, <1>4
<1>6. k \in Good
  <2> HIDE DEF k
  <2> QED BY <1>5
<1> QED BY <1>2, <1>6

\* One step of adding up distances, from the latest one down.
SumStep(f, dist, last, k) == IF k = last THEN 0 ELSE f[k + 1] + dist[k]

LEMMA SumsExist ==
    ASSUME NEW last \in Nat \ {0}, NEW dist
    PROVE  \E f : f = [k \in 1 .. last |-> SumStep(f, dist, last, k)]
<1> DEFINE Sums(f, j) == f = [k \in j .. last |-> SumStep(f, dist, last, k)]
           Good == {j \in 1 .. last : \E f : Sums(f, j)}
<1>1. last \in Good
  <2> DEFINE f == [k \in last .. last |-> 0]
  <2>1. f = [k \in last .. last |-> SumStep(f, dist, last, k)]
    BY DEF SumStep
  <2> QED BY <2>1
<1>2. ASSUME NEW j \in 1 .. last - 1, j + 1 \in Good
      PROVE  j \in Good
  <2>1. PICK f : Sums(f, j + 1)
    BY <1>2
  <2> DEFINE h == [k \in j .. last |-> SumStep(f, dist, last, k)]
  <2>2. ASSUME NEW k \in j .. last
        PROVE  SumStep(h, dist, last, k) = SumStep(f, dist, last, k)
    <3>1. CASE k = last
      BY <3>1 DEF SumStep
    <3>2. CASE k # last
      <4>1. k + 1 \in (j + 1) .. last /\ k + 1 \in j .. last
        BY <3>2
      <4>2. h[k + 1] = SumStep(f, dist, last, k + 1)
        BY <4>1
      <4>3. f[k + 1] = SumStep(f, dist, last, k + 1)
        BY <2>1, <4>1
      <4> QED BY <3>2, <4>2, <4>3 DEF SumStep
    <3> QED BY <3>1, <3>2
  <2>3. Sums(h, j)
    BY <2>2
  <2>4. \E g : Sums(g, j)
    <3> HIDE DEF Sums, h
    <3> QED BY <2>3
  <2> QED BY <2>4
<1>3. 1 .. last \subseteq Good
  <2> HIDE DEF Good
  <2> QED BY <1>1, <1>2, Downwards
<1>4. 1 \in Good
  BY <1>3
<1> QED BY <1>4

Steps == [k \in 1 .. num_frames - 1 |-> Gap(k + 1)]

Behind(k) == Window!Behind(OrderedFrames, k)

LEMMA TimesAndGaps ==
    ASSUME TypeOK, GapsRelatable
    PROVE  /\ \A i \in 1 .. num_frames : Time(i) \in Timestamps
           /\ \A k \in 1 .. num_frames - 1 :
                /\ Window!Elapsed(Time(k), Time(k + 1)) = Gap(k + 1)
                /\ Gap(k + 1) \in 1 .. MAX_INTERPOLATOR_FRAME_TIME_DIFF_MILLIS - 1
<1>1. num_frames \in Nat /\ \A i \in 1 .. num_frames : Time(i) \in Timestamps
  BY OrderedFramesSeq DEF Time, KeyFrame
<1>2. ASSUME NEW k \in 1 .. num_frames - 1
      PROVE  /\ Window!Elapsed(Time(k), Time(k + 1)) = Gap(k + 1)
             /\ Gap(k + 1) \in 1 .. MAX_INTERPOLATOR_FRAME_TIME_DIFF_MILLIS - 1
  <2>1. k \in 1 .. num_frames /\ k + 1 \in 2 .. num_frames /\ k + 1 \in 1 .. num_frames
        /\ (k + 1) - 1 = k
    BY <1>1
  <2>2. Window!Elapsed(Time(k), Time(k + 1)) = MillisDiff(Time(k + 1), Time(k))
    BY <1>1, <2>1, ElapsedIsMillisDiff
  <2>3. Gap(k + 1) = MillisDiff(Time(k + 1), Time(k))
    BY <2>1 DEF Gap
  <2> QED BY <2>1, <2>2, <2>3 DEF GapsRelatable
<1> QED BY <1>1, <1>2

\* Adding up the gaps from the latest key frame.
LEMMA BehindIs ==
    ASSUME TypeOK, GapsRelatable, num_frames # 0
    PROVE  /\ Behind(num_frames) = 0
           /\ \A k \in 1 .. num_frames - 1 : Behind(k) = Behind(k + 1) + Gap(k + 1)
<1> DEFINE w == OrderedFrames
           Rule(f) == f = [k \in 1 .. Len(w) |->
                             IF k = Len(w) THEN 0
                             ELSE f[k + 1] + Window!Elapsed(w[k].timestamp_millis_part,
                                                            w[k + 1].timestamp_millis_part)]
<1>1. /\ num_frames \in Nat \ {0} /\ Len(w) = num_frames
      /\ \A k \in 1 .. num_frames : w[k].timestamp_millis_part = Time(k)
  BY OrderedFramesSeq DEF Time
<1>2. ASSUME NEW f, NEW k \in 1 .. num_frames
      PROVE  SumStep(f, Steps, num_frames, k)
               = IF k = Len(w) THEN 0
                 ELSE f[k + 1] + Window!Elapsed(w[k].timestamp_millis_part,
                                                w[k + 1].timestamp_millis_part)
  <2>1. CASE k = num_frames
    BY <1>1, <2>1 DEF SumStep
  <2>2. CASE k # num_frames
    <3>1. k \in 1 .. num_frames - 1 /\ k + 1 \in 1 .. num_frames
      BY <1>1, <2>2
    <3>2. Steps[k] = Window!Elapsed(w[k].timestamp_millis_part, w[k + 1].timestamp_millis_part)
      BY <1>1, <3>1, TimesAndGaps DEF Steps
    <3> HIDE DEF w
    <3> QED BY <1>1, <2>2, <3>2 DEF SumStep
  <2> QED BY <2>1, <2>2
<1>3. \E f : Rule(f)
  <2>1. PICK f : f = [k \in 1 .. num_frames |-> SumStep(f, Steps, num_frames, k)]
    <3>1. num_frames \in Nat \ {0}
      BY <1>1
    <3> QED
      BY ONLY <3>1, SumsExist
  <2>2. Rule(f)
    <3> HIDE DEF w
    <3>1. [k \in 1 .. num_frames |-> SumStep(f, Steps, num_frames, k)]
            = [k \in 1 .. Len(w) |->
                 IF k = Len(w) THEN 0
                 ELSE f[k + 1] + Window!Elapsed(w[k].timestamp_millis_part,
                                                w[k + 1].timestamp_millis_part)]
      BY <1>1, <1>2
    <3> QED BY <2>1, <3>1
  <2> QED BY <2>2
<1> DEFINE behind == CHOOSE f : Rule(f)
<1>4. Rule(behind)
  <2> HIDE DEF Rule
  <2> QED BY <1>3
<1>5. \A k \in 1 .. num_frames : Behind(k) = behind[k]
  BY Zenon DEF Behind, Window!Behind
<1>6. ASSUME NEW k \in 1 .. num_frames
      PROVE  behind[k] = SumStep(behind, Steps, num_frames, k)
  <2>1. behind[k] = IF k = Len(w) THEN 0
                    ELSE behind[k + 1] + Window!Elapsed(w[k].timestamp_millis_part,
                                                        w[k + 1].timestamp_millis_part)
    <3> HIDE DEF behind, w
    <3> QED BY <1>1, <1>4
  <2> HIDE DEF behind
  <2> QED BY <1>2, <2>1
<1> HIDE DEF behind
<1>7. Behind(num_frames) = 0
  BY <1>1, <1>5, <1>6 DEF SumStep
<1>8. ASSUME NEW k \in 1 .. num_frames - 1
      PROVE  Behind(k) = Behind(k + 1) + Gap(k + 1)
  <2>1. k \in 1 .. num_frames /\ k + 1 \in 1 .. num_frames /\ k # num_frames
    BY <1>1
  <2> QED BY <1>5, <1>6, <2>1 DEF SumStep, Steps
<1> QED BY <1>7, <1>8

\* The distances grow towards the oldest key frame.
LEMMA BehindOrder ==
    ASSUME TypeOK, GapsRelatable, num_frames # 0
    PROVE  /\ \A k \in 1 .. num_frames : Behind(k) \in Nat
           /\ \A j, k \in 1 .. num_frames : j < k => Behind(k) < Behind(j)
<1> DEFINE n == num_frames
           Good == {j \in 1 .. n : /\ Behind(j) \in Nat
                                   /\ \A k \in 1 .. n : j < k =>
                                        Behind(k) \in Nat /\ Behind(k) < Behind(j)}
<1>1. n \in Nat \ {0} /\ 1 .. n = 1 .. num_frames
  BY OrderedFramesSeq
<1>2. n \in Good
  BY <1>1, BehindIs
<1>3. ASSUME NEW j \in 1 .. n - 1, j + 1 \in Good
      PROVE  j \in Good
  <2>1. Behind(j) = Behind(j + 1) + Gap(j + 1) /\ Gap(j + 1) \in Nat \ {0}
    <3>1. Gap(j + 1) \in 1 .. MAX_INTERPOLATOR_FRAME_TIME_DIFF_MILLIS - 1
      BY <1>1, TimesAndGaps
    <3> QED BY <1>1, <3>1, BehindIs, TimeDiffAssumption
  <2>2. /\ Behind(j + 1) \in Nat
        /\ \A k \in 1 .. n : j + 1 < k => Behind(k) \in Nat /\ Behind(k) < Behind(j + 1)
    BY <1>3
  <2>3. ASSUME NEW k \in 1 .. n, j < k
        PROVE  Behind(k) \in Nat /\ Behind(k) < Behind(j)
    <3>1. CASE k = j + 1
      BY <2>1, <2>2, <3>1
    <3>2. CASE k # j + 1
      <4>1. Behind(k) \in Nat /\ Behind(k) < Behind(j + 1) /\ Behind(j + 1) < Behind(j)
        BY <1>1, <2>1, <2>2, <2>3, <3>2
      <4> QED BY <2>1, <2>2, <4>1
    <3> QED BY <3>1, <3>2
  <2> QED BY <1>1, <2>1, <2>2, <2>3
<1>4. 1 .. n \subseteq Good
  <2> HIDE DEF Good, n
  <2> QED BY <1>1, <1>2, <1>3, Downwards
<1> QED BY <1>1, <1>4

\* Seen from the latest key frame, distances are times modulo a second.
LEMMA BehindIsTime ==
    ASSUME TypeOK, GapsRelatable, num_frames # 0, NEW k \in 1 .. num_frames
    PROVE  \E q \in Int : Behind(k) = Time(num_frames) - Time(k) + MILLIS_PER_SECOND * q
<1> DEFINE n == num_frames
           second == MILLIS_PER_SECOND
           Apart(j, q) == Behind(j) = Time(n) - Time(j) + second * q
           Good == {j \in 1 .. n : \E q \in Int : Apart(j, q)}
<1>1. n \in Nat \ {0} /\ second \in Nat /\ \A j \in 1 .. n : Time(j) \in Int
  BY OrderedFramesSeq, TimesAndGaps, TimeDiffAssumption DEF Timestamps
<1>2. n \in Good
  <2>1. Apart(n, 0) /\ 0 \in Int /\ n \in 1 .. n
    BY <1>1, BehindIs
  <2> HIDE DEF Apart, n
  <2> QED BY <2>1
<1>3. ASSUME NEW j \in 1 .. n - 1, j + 1 \in Good
      PROVE  j \in Good
  <2>1. PICK q \in Int : Behind(j + 1) = Time(n) - Time(j + 1) + second * q
    BY <1>3
  <2>2. Behind(j) = Behind(j + 1) + Gap(j + 1)
    BY BehindIs
  <2>3. PICK r \in {0, 1} : Gap(j + 1) = Time(j + 1) - Time(j) + second * r
    <3>1. (j + 1) - 1 = j
      OBVIOUS
    <3>2. Gap(j + 1) = MillisDiff(Time(j + 1), Time(j))
      BY <3>1 DEF Gap
    <3>3. second * 0 = 0 /\ second * 1 = second
      BY <1>1
    <3>4. j \in 1 .. n /\ j + 1 \in 1 .. n
      BY <1>1
    <3>5. Gap(j + 1) = Time(j + 1) - Time(j) + second * 0
          \/ Gap(j + 1) = Time(j + 1) - Time(j) + second * 1
      <4> HIDE DEF n
      <4> QED BY <1>1, <3>2, <3>3, <3>4 DEF MillisDiff
    <3> QED BY <3>5
  <2>4. second * (q + r) = second * q + second * r
        /\ second * q \in Int /\ second * r \in Int /\ q + r \in Int
    BY <1>1
  <2>5. Apart(j, q + r)
    <3> DEFINE a == second * q
               b == second * r
    <3>1. /\ a \in Int /\ b \in Int /\ second * (q + r) = a + b
          /\ Behind(j + 1) = Time(n) - Time(j + 1) + a
          /\ Gap(j + 1) = Time(j + 1) - Time(j) + b
          /\ Time(j) \in Int /\ Time(j + 1) \in Int /\ Time(n) \in Int
      BY <1>1, <2>1, <2>3, <2>4
    <3> HIDE DEF a, b, n
    <3> QED BY <2>2, <3>1
  <2>6. q + r \in Int /\ j \in 1 .. n
    BY <1>1, <2>4
  <2> HIDE DEF Apart, n
  <2> QED BY <2>5, <2>6
<1>4. 1 .. n \subseteq Good
  <2> HIDE DEF Good, n
  <2> QED BY <1>1, <1>2, <1>3, Downwards
<1> QED BY <1>4

\* Between two key frames, the milliseconds since the older one are what is left of its
\* distance.
LEMMA SinceIs ==
    ASSUME TypeOK, GapsRelatable, NEW t \in Timestamps, NEW k \in 1 .. num_frames - 1,
           Behind(k + 1) <= MillisDiff(Time(num_frames), t),
           MillisDiff(Time(num_frames), t) <= Behind(k)
    PROVE  MillisDiff(t, Time(k)) = Behind(k) - MillisDiff(Time(num_frames), t)
<1> DEFINE n == num_frames
           second == MILLIS_PER_SECOND
           age == MillisDiff(Time(n), t)
           since == MillisDiff(t, Time(k))
<1>1. /\ n \in Nat \ {0} /\ k \in 1 .. n /\ k + 1 \in 1 .. n /\ n \in 1 .. n
      /\ second \in Nat \ {0} /\ t \in Int
      /\ Time(k) \in Timestamps /\ Time(n) \in Timestamps
  BY OrderedFramesSeq, TimesAndGaps, TimeDiffAssumption DEF Timestamps
<1>2. /\ age \in 0 .. second - 1 /\ since \in 0 .. second - 1
  BY <1>1, MillisDiffRange
<1>3. Behind(k) - age \in 0 .. second - 1
  <2>1. Behind(k) = Behind(k + 1) + Gap(k + 1) /\ Behind(k) \in Nat /\ Behind(k + 1) \in Nat
    BY <1>1, BehindIs, BehindOrder
  <2>2. Gap(k + 1) \in 1 .. MAX_INTERPOLATOR_FRAME_TIME_DIFF_MILLIS - 1
    BY TimesAndGaps
  <2> HIDE DEF age, n
  <2>3. Gap(k + 1) \in Nat /\ Gap(k + 1) < second
    BY <2>2, TimeDiffAssumption
  <2>4. Behind(k + 1) <= age /\ age <= Behind(k)
    BY DEF age, n
  <2> DEFINE x == Behind(k)
             y == Behind(k + 1)
             g == Gap(k + 1)
  <2>5. /\ x = y + g /\ x \in Nat /\ y \in Nat /\ g \in Nat /\ g < second /\ y <= age /\ age <= x
        /\ age \in Int /\ second \in Int
    BY <1>1, <1>2, <2>1, <2>3, <2>4
  <2>6. x - age \in 0 .. second - 1
    <3> HIDE DEF x, y, g, second
    <3> QED BY <2>5
  <2> QED BY <2>6
<1>4. PICK q \in Int : Behind(k) = Time(n) - Time(k) + second * q
  BY <1>1, BehindIsTime
<1>5. PICK a \in {0, 1} : age = Time(n) - t + second * a
  <2>1. second * 0 = 0 /\ second * 1 = second
    BY <1>1
  <2>2. age = Time(n) - t + second * 0 \/ age = Time(n) - t + second * 1
    BY <1>1, <2>1 DEF MillisDiff, Timestamps
  <2> QED BY <2>2
<1>6. PICK b \in {0, 1} : since = t - Time(k) + second * b
  <2>1. second * 0 = 0 /\ second * 1 = second
    BY <1>1
  <2>2. since = t - Time(k) + second * 0 \/ since = t - Time(k) + second * 1
    BY <1>1, <2>1 DEF MillisDiff, Timestamps
  <2> QED BY <2>2
<1> DEFINE p == q - a - b
<1>7. p \in Int /\ second * p = second * q - second * a - second * b
      /\ second * q \in Int /\ second * a \in Int /\ second * b \in Int
  BY <1>1
<1>8. Behind(k) - age = since + second * p
  <2> DEFINE x == second * q
             y == second * a
             z == second * b
  <2>1. /\ x \in Int /\ y \in Int /\ z \in Int /\ second * p = x - y - z
        /\ Behind(k) = Time(n) - Time(k) + x /\ age = Time(n) - t + y
        /\ since = t - Time(k) + z /\ Time(n) \in Int /\ Time(k) \in Int /\ t \in Int
    BY <1>1, <1>4, <1>5, <1>6, <1>7 DEF Timestamps
  <2> HIDE DEF x, y, z, age, since, n, p
  <2> QED BY <2>1
<1>9. p = 0
  <2> HIDE DEF p, age, since, n
  <2>1. p >= 1 => second * p >= second
    BY <1>1, <1>7
  <2>2. p <= -1 => second * p <= -second
    BY <1>1, <1>7
  <2>3. second * p \in Int
    BY <1>1, <1>7
  <2>4. ~(p >= 1) /\ ~(p <= -1)
    BY <1>1, <1>2, <1>3, <1>8, <2>1, <2>2, <2>3
  <2> QED BY <1>7, <2>4
<1>10. second * p = 0
  BY <1>1, <1>9
<1>11. Behind(k) - age = since
  <2> HIDE DEF p, age, since, n
  <2> QED BY <1>2, <1>8, <1>10
<1> QED BY <1>11

-----------------------------------------------------------------------------
\* The recursive function and the set of pairs in interpolator_calculate, named.
TargetRule(f, t) ==
    f = [i \in 2 .. num_frames |->
           IF i = num_frames THEN MillisDiff(Time(i), t) ELSE f[i + 1] - Gap(i + 1)]

ToTarget(t) == CHOOSE f : TargetRule(f, t)

Pairs(t) == {i \in 2 .. num_frames : ToTarget(t)[i] <= Gap(i)}

Age(t) == MillisDiff(Time(num_frames), t)

LEMMA CalculateIs ==
    ASSUME NEW t
    PROVE  interpolator_calculate(t) =
             IF \/ num_frames < 2
                \/ ToTarget(t)[num_frames] > MAX_INTERPOLATOR_FRAME_TIME_DIFF_MILLIS
                \/ Pairs(t) = {}
             THEN NAN ELSE Blend(Max(Pairs(t)), t)
BY Zenon DEF interpolator_calculate, ToTarget, TargetRule, Pairs

\* The walk takes off distances from the age of the queried time.
LEMMA ToTargetIs ==
    ASSUME TypeOK, GapsRelatable, NEW t \in Timestamps, NEW i \in 2 .. num_frames
    PROVE  ToTarget(t)[i] = Age(t) - Behind(i)
<1> DEFINE n == num_frames
           first == 2
<1>1. n \in Nat \ {0} /\ n >= 2 /\ n \in 2 .. n /\ Age(t) \in Nat
  <2>1. n \in Nat \ {0} /\ n >= 2 /\ n \in 1 .. n
    BY OrderedFramesSeq
  <2>2. Age(t) \in 0 .. MILLIS_PER_SECOND - 1
    BY <2>1, TimesAndGaps, MillisDiffRange DEF Age
  <2> QED BY <2>1, <2>2
<1>2. /\ \A k \in 2 .. n : Behind(k) \in Nat
      /\ Behind(n) = 0
      /\ \A k \in 2 .. n - 1 : Behind(k) = Behind(k + 1) + Gap(k + 1) /\ Gap(k + 1) \in Nat
  <2>1. \A k \in 2 .. n - 1 : k \in 1 .. num_frames - 1
    BY <1>1
  <2>2. \A k \in 2 .. n : k \in 1 .. num_frames
    BY <1>1
  <2>3. \A k \in 2 .. n - 1 : Gap(k + 1) \in Nat
    <3> SUFFICES ASSUME NEW k \in 2 .. n - 1
                 PROVE  Gap(k + 1) \in Nat
      OBVIOUS
    <3>1. Gap(k + 1) \in 1 .. MAX_INTERPOLATOR_FRAME_TIME_DIFF_MILLIS - 1
      BY <2>1, TimesAndGaps
    <3> QED BY <3>1, TimeDiffAssumption
  <2> QED BY <1>1, <2>1, <2>2, <2>3, BehindIs, BehindOrder
<1>3. \E f : TargetRule(f, t)
  <2> DEFINE f == [k \in 2 .. n |-> Age(t) - Behind(k)]
  <2>1. ASSUME NEW k \in 2 .. n
        PROVE  f[k] = IF k = n THEN MillisDiff(Time(k), t) ELSE f[k + 1] - Gap(k + 1)
    <3>1. CASE k = n
      BY <1>1, <1>2, <3>1 DEF Age
    <3>2. CASE k # n
      <4>1. k \in 2 .. n - 1 /\ k + 1 \in 2 .. n
        BY <1>1, <3>2
      <4>2. f[k + 1] = Age(t) - Behind(k + 1) /\ f[k] = Age(t) - Behind(k)
        BY <4>1
      <4>3. Age(t) - Behind(k) = Age(t) - Behind(k + 1) - Gap(k + 1)
        BY <1>1, <1>2, <4>1
      <4> HIDE DEF f, n
      <4> QED BY <3>2, <4>2, <4>3
    <3> QED BY <3>1, <3>2
  <2>2. TargetRule(f, t)
    BY <2>1 DEF TargetRule
  <2> HIDE DEF f
  <2> QED BY <2>2
<1>4. TargetRule(ToTarget(t), t)
  BY <1>3 DEF ToTarget
<1>5. \A k \in 2 .. n : ToTarget(t)[k] = IF k = n THEN MillisDiff(Time(k), t)
                                         ELSE ToTarget(t)[k + 1] - Gap(k + 1)
  <2> DEFINE f == ToTarget(t)
  <2>1. f = [k \in 2 .. n |->
               IF k = n THEN MillisDiff(Time(k), t) ELSE f[k + 1] - Gap(k + 1)]
    BY <1>4 DEF TargetRule
  <2> HIDE DEF f, n
  <2>2. \A k \in 2 .. n : f[k] = IF k = n THEN MillisDiff(Time(k), t)
                                 ELSE f[k + 1] - Gap(k + 1)
    BY <2>1
  <2> QED BY <2>2 DEF f
<1> DEFINE Good == {k \in 2 .. n : ToTarget(t)[k] = Age(t) - Behind(k)}
<1>6. n \in Good
  BY <1>1, <1>2, <1>5 DEF Age
<1>7. ASSUME NEW k \in 2 .. n - 1, k + 1 \in Good
      PROVE  k \in Good
  <2>1. k \in 2 .. n /\ k # n /\ k + 1 \in 2 .. n
    BY <1>1
  <2>2. ToTarget(t)[k] = ToTarget(t)[k + 1] - Gap(k + 1)
    BY <1>5, <2>1
  <2>3. ToTarget(t)[k + 1] = Age(t) - Behind(k + 1)
    BY <1>7
  <2>4. Age(t) - Behind(k) = Age(t) - Behind(k + 1) - Gap(k + 1)
    BY <1>1, <1>2, <2>1
  <2> QED BY <2>1, <2>2, <2>3, <2>4
<1>8. 2 .. n \subseteq Good
  <2> HIDE DEF Good, n
  <2> QED BY <1>1, <1>6, <1>7, Downwards
<1> QED BY <1>8

\* A pair is a candidate if the queried time is not before it.
LEMMA PairsAre ==
    ASSUME TypeOK, GapsRelatable, NEW t \in Timestamps, NEW i \in 2 .. num_frames
    PROVE  i \in Pairs(t) <=> Age(t) <= Behind(i - 1)
<1>1. num_frames \in Nat /\ num_frames # 0 /\ i - 1 \in 1 .. num_frames - 1 /\ (i - 1) + 1 = i
      /\ i \in 1 .. num_frames /\ i - 1 \in 1 .. num_frames
  BY OrderedFramesSeq
<1>2. ToTarget(t)[i] = Age(t) - Behind(i)
  BY ToTargetIs
<1>3. Behind(i - 1) = Behind(i) + Gap(i) /\ Behind(i) \in Nat
  BY <1>1, BehindIs, BehindOrder
<1>4. Gap(i) \in 1 .. MAX_INTERPOLATOR_FRAME_TIME_DIFF_MILLIS - 1
  BY <1>1, TimesAndGaps
<1>5. Age(t) \in 0 .. MILLIS_PER_SECOND - 1
  <2>1. num_frames \in 1 .. num_frames
    BY <1>1
  <2> QED BY <2>1, TimesAndGaps, MillisDiffRange DEF Age
<1>6. Age(t) - Behind(i) <= Gap(i) <=> Age(t) <= Behind(i - 1)
  <2>1. Age(t) \in Int /\ Gap(i) \in Int
    BY <1>4, <1>5
  <2> QED BY <1>3, <2>1
<1> QED BY <1>2, <1>6 DEF Pairs

LEMMA GreatestPair ==
    ASSUME TypeOK, NEW t, Pairs(t) # {}
    PROVE  Max(Pairs(t)) \in Pairs(t) /\ \A i \in Pairs(t) : i <= Max(Pairs(t))
<1> DEFINE D == {num_frames - i : i \in Pairs(t)}
<1>1. num_frames \in Nat /\ Pairs(t) \subseteq 2 .. num_frames
  BY OrderedFramesSeq DEF Pairs
<1>2. D \in SUBSET Nat /\ D # {}
  BY <1>1
<1>3. PICK least \in D : \A d \in D : least <= d
  <2> HIDE DEF D
  <2> QED BY <1>2, LeastOfNat
<1>4. PICK m \in Pairs(t) : \A i \in Pairs(t) : num_frames - m <= num_frames - i
  BY <1>3
<1>5. \A i \in Pairs(t) : m >= i
  BY <1>1, <1>4
<1> DEFINE G(x) == x \in Pairs(t) /\ \A i \in Pairs(t) : x >= i
<1>6. G(m)
  BY <1>5
<1>7. Max(Pairs(t)) = CHOOSE x : G(x)
  BY Zenon DEF Max
<1> HIDE DEF G
<1>8. G(CHOOSE x : G(x))
  BY <1>6
<1>9. G(Max(Pairs(t)))
  BY <1>7, <1>8
<1> QED BY <1>1, <1>9 DEF G

\* The walk ends at a pair around the queried time.
LEMMA FoundPair ==
    ASSUME TypeOK, GapsRelatable, NEW t \in Timestamps, num_frames >= 2, Pairs(t) # {}
    PROVE  /\ Max(Pairs(t)) \in 2 .. num_frames
           /\ Behind(Max(Pairs(t))) <= Age(t) /\ Age(t) <= Behind(Max(Pairs(t)) - 1)
           /\ \A k \in 1 .. num_frames - 1 :
                Behind(k + 1) <= Age(t) /\ Age(t) <= Behind(k) =>
                  \/ k = Max(Pairs(t)) - 1
                  \/ k = Max(Pairs(t)) - 2 /\ Behind(k + 1) = Age(t)
<1> DEFINE m == Max(Pairs(t))
           n == num_frames
<1>1. m \in Pairs(t) /\ m \in 2 .. n /\ \A i \in Pairs(t) : i <= m
  BY GreatestPair DEF Pairs
<1> HIDE DEF m
<1>2. n \in Nat /\ n # 0 /\ n \in 1 .. n
  BY OrderedFramesSeq
<1>3. Age(t) \in Nat
  <2>1. Age(t) \in 0 .. MILLIS_PER_SECOND - 1
    BY <1>2, TimesAndGaps, MillisDiffRange DEF Age
  <2> QED BY <2>1
<1>4. Age(t) <= Behind(m - 1)
  BY <1>1, PairsAre
<1>5. \A k \in 1 .. n : Behind(k) \in Nat
  BY <1>2, BehindOrder
<1>6. \A j, k \in 1 .. n : j < k => Behind(k) < Behind(j)
  BY <1>2, BehindOrder
<1>7. Behind(m) <= Age(t)
  <2>1. CASE m = n
    BY <1>2, <1>3, <2>1, BehindIs
  <2>2. CASE m # n
    <3>1. m + 1 \in 2 .. n /\ (m + 1) - 1 = m /\ ~(m + 1 <= m) /\ m \in 1 .. n
      BY <1>1, <1>2, <2>2
    <3>2. ~(Age(t) <= Behind(m))
      BY <1>1, <3>1, PairsAre
    <3> QED BY <1>3, <1>5, <3>1, <3>2
  <2> QED BY <2>1, <2>2
<1>8. ASSUME NEW k \in 1 .. n - 1, Behind(k + 1) <= Age(t), Age(t) <= Behind(k)
      PROVE  k = m - 1 \/ (k = m - 2 /\ Behind(k + 1) = Age(t))
  <2>1. k + 1 \in 2 .. n /\ (k + 1) - 1 = k /\ k + 1 \in 1 .. n /\ m - 1 \in 1 .. n
    BY <1>1, <1>2
  <2>2. k + 1 <= m
    BY <1>1, <1>8, <2>1, PairsAre
  <2>3. CASE k + 1 < m - 1
    <3>1. Behind(m - 1) < Behind(k + 1)
      BY <1>6, <2>1, <2>3
    <3> QED BY <1>3, <1>4, <1>5, <1>8, <2>1, <3>1
  <2>4. CASE k + 1 = m - 1
    <3>1. Behind(k + 1) = Age(t)
      BY <1>3, <1>4, <1>5, <1>8, <2>1, <2>4
    <3> QED BY <1>1, <2>4, <3>1
  <2>5. CASE k + 1 = m
    BY <1>1, <2>5
  <2> QED BY <1>1, <2>2, <2>3, <2>4, <2>5
<1> QED BY <1>1, <1>4, <1>7, <1>8 DEF m
-----------------------------------------------------------------------------
\* Both ends of the line and every point between them.
LEMMA OnLine ==
    ASSUME NEW b \in Int, NEW c \in Int, NEW s \in Int, NEW g \in Int
    PROVE  /\ b * g = 1 * (b * g + 0 * (c - b))
           /\ c * g = 1 * (b * g + g * (c - b))
           /\ (b * g + s * (c - b)) * g = g * (b * g + s * (c - b))
           /\ b * g + s * (c - b) \in Int
<1>1. b * g \in Int /\ s * (c - b) \in Int /\ c - b \in Int /\ 0 * (c - b) = 0
  OBVIOUS
<1>2. g * (c - b) = c * g - b * g /\ c * g \in Int
  OBVIOUS
<1> DEFINE p == b * g + s * (c - b)
<1>3. p \in Int
  BY <1>1
<1>4. p * g = g * p
  <2> HIDE DEF p
  <2> QED BY <1>3
<1>5. b * g = 1 * (b * g + 0 * (c - b))
  BY <1>1
<1>6. c * g = 1 * (b * g + g * (c - b))
  <2> DEFINE x == c * g
             y == b * g
             z == g * (c - b)
  <2>1. x \in Int /\ y \in Int /\ z = x - y
    BY <1>1, <1>2
  <2> HIDE DEF x, y, z
  <2>2. x = 1 * (y + z)
    BY <2>1
  <2> QED BY <2>2 DEF x, y, z
<1> QED BY <1>3, <1>4, <1>5, <1>6

\* Inside its pair, a blended value lies on the line between the two key frames.
LEMMA BlendIs ==
    ASSUME TypeOK, GapsRelatable, NEW t \in Timestamps, NEW m \in 2 .. num_frames,
           MillisDiff(t, Time(m - 1)) <= Gap(m)
    PROVE  LET b == Frame(m - 1).value
               c == Frame(m).value
               s == MillisDiff(t, Time(m - 1))
           IN  /\ Blend(m, t) \in [num : Int, den : Int]
               /\ Blend(m, t).num * Gap(m) = Blend(m, t).den * (b * Gap(m) + s * (c - b))
               /\ s = 0 => Blend(m, t) = Exactly(b)
<1> DEFINE b == Frame(m - 1).value
           c == Frame(m).value
           s == MillisDiff(t, Time(m - 1))
           g == Gap(m)
<1>1. /\ num_frames \in Nat /\ m - 1 \in 1 .. num_frames - 1 /\ (m - 1) + 1 = m
      /\ m \in 1 .. num_frames /\ m - 1 \in 1 .. num_frames
  BY OrderedFramesSeq
<1>2. b \in Int /\ c \in Int
  BY <1>1, OrderedFramesSeq, ValuesAssumption DEF KeyFrame
<1>3. Time(m) \in Timestamps /\ Time(m - 1) \in Timestamps
  BY <1>1, TimesAndGaps
<1>4. s \in Nat
  <2>1. s \in 0 .. MILLIS_PER_SECOND - 1
    BY <1>3, MillisDiffRange
  <2> HIDE DEF s
  <2> QED BY <2>1, TimeDiffAssumption
<1>5. g \in Nat \ {0}
  <2>1. g \in 1 .. MAX_INTERPOLATOR_FRAME_TIME_DIFF_MILLIS - 1
    BY DEF GapsRelatable
  <2> HIDE DEF g
  <2> QED BY <2>1, TimeDiffAssumption
<1>6. MillisBetween(m) = g
  BY <1>3, <1>5, TimeDiffAssumption DEF MillisBetween, Gap, MillisDiff, Timestamps
<1>7. s <= g
  OBVIOUS
<1>8. Blend(m, t) = CASE s <= 0 -> Exactly(b)
                      [] s >= g -> Exactly(c)
                      [] OTHER -> [num |-> b * g + s * (c - b), den |-> g]
  BY <1>6 DEF Blend
<1> HIDE DEF b, c, s, g
<1>9. /\ b * g = 1 * (b * g + 0 * (c - b))
      /\ c * g = 1 * (b * g + g * (c - b))
      /\ (b * g + s * (c - b)) * g = g * (b * g + s * (c - b))
      /\ b * g + s * (c - b) \in Int
  BY <1>2, <1>4, <1>5, OnLine
<1> DEFINE r == Blend(m, t)
<1>10. r \in [num : Int, den : Int] /\ r.num * g = r.den * (b * g + s * (c - b))
       /\ (s = 0 => r = Exactly(b))
  <2>1. CASE s = 0
    <3>1. r = Exactly(b)
      BY <1>5, <1>8, <2>1
    <3>2. r.num = b /\ r.den = 1 /\ r \in [num : Int, den : Int]
      BY <1>2, <3>1 DEF Exactly
    <3> HIDE DEF r
    <3> QED BY <1>9, <2>1, <3>1, <3>2
  <2>2. CASE s # 0 /\ s = g
    <3>1. ~(s <= 0) /\ s >= g
      BY <1>4, <1>5, <2>2
    <3>2. r = Exactly(c)
      BY <1>8, <3>1
    <3>3. r.num = c /\ r.den = 1 /\ r \in [num : Int, den : Int]
      BY <1>2, <3>2 DEF Exactly
    <3> HIDE DEF r
    <3> QED BY <1>9, <2>2, <3>3
  <2>3. CASE s # 0 /\ s # g
    <3>1. ~(s <= 0) /\ ~(s >= g)
      BY <1>4, <1>5, <1>7, <2>3
    <3>2. r = [num |-> b * g + s * (c - b), den |-> g]
      BY <1>8, <3>1
    <3>3. r.num = b * g + s * (c - b) /\ r.den = g /\ r \in [num : Int, den : Int]
      BY <1>5, <1>9, <3>2
    <3> HIDE DEF r
    <3> QED BY <1>9, <2>3, <3>3
  <2> QED BY <2>1, <2>2, <2>3
<1> QED BY <1>10 DEF b, c, s, g, r

\* A queried time does not lie behind the pair that the walk found.
LEMMA PairWithin ==
    ASSUME TypeOK, GapsRelatable, NEW t \in Timestamps, num_frames >= 2, Pairs(t) # {}
    PROVE  MillisDiff(t, Time(Max(Pairs(t)) - 1)) <= Gap(Max(Pairs(t)))
<1> DEFINE m == Max(Pairs(t))
           n == num_frames
<1>1. m \in 2 .. n /\ Behind(m) <= Age(t) /\ Age(t) <= Behind(m - 1)
  BY FoundPair
<1> HIDE DEF m
<1>2. n \in Nat /\ n # 0 /\ n \in 1 .. n
      /\ m - 1 \in 1 .. n - 1 /\ (m - 1) + 1 = m /\ m \in 1 .. n
  BY <1>1, OrderedFramesSeq
<1>3. MillisDiff(t, Time(m - 1)) = Behind(m - 1) - Age(t)
  BY <1>1, <1>2, SinceIs DEF Age
<1>4. Behind(m - 1) = Behind(m) + Gap(m)
  BY <1>2, BehindIs
<1>5. Gap(m) \in Int
  <2>1. Gap(m) \in 1 .. MAX_INTERPOLATOR_FRAME_TIME_DIFF_MILLIS - 1
    BY <1>1 DEF GapsRelatable
  <2> QED BY <2>1, TimeDiffAssumption
<1>6. Age(t) \in Int
  <2>1. Age(t) \in 0 .. MILLIS_PER_SECOND - 1
    BY <1>2, TimesAndGaps, MillisDiffRange DEF Age
  <2> QED BY <2>1
<1>7. Behind(m) \in Int
  BY <1>2, BehindOrder
<1>8. MillisDiff(t, Time(m - 1)) <= Gap(m)
  BY <1>1, <1>3, <1>4, <1>5, <1>6, <1>7
<1> QED BY <1>8 DEF m

\* The brackets of a query, in the terms of the ring.
LEMMA BracketsAre ==
    ASSUME TypeOK, GapsRelatable, NEW t \in Timestamps
    PROVE  /\ num_frames < 2 => Window!Brackets(OrderedFrames, t) = {}
           /\ num_frames >= 2 =>
                /\ Window!Elapsed(t, Window!Last(OrderedFrames).timestamp_millis_part) = Age(t)
                /\ Window!Brackets(OrderedFrames, t) =
                     {k \in 1 .. num_frames - 1 :
                        /\ Age(t) <= MAX_INTERPOLATOR_FRAME_TIME_DIFF_MILLIS
                        /\ Behind(k + 1) <= Age(t)
                        /\ Age(t) <= Behind(k)}
<1>1. Len(OrderedFrames) = num_frames /\ num_frames \in Nat
  BY OrderedFramesSeq
<1>2. ASSUME num_frames >= 2
      PROVE  Window!Elapsed(t, Window!Last(OrderedFrames).timestamp_millis_part) = Age(t)
  <2>1. num_frames # 0 /\ num_frames \in 1 .. num_frames
    BY <1>1, <1>2
  <2>2. Window!Last(OrderedFrames).timestamp_millis_part = Time(num_frames)
    BY <2>1, OrderedFramesSeq DEF Window!Last, Time
  <2>3. Time(num_frames) \in Timestamps
    BY <2>1, TimesAndGaps
  <2> QED BY <2>2, <2>3, ElapsedIsMillisDiff DEF Age
<1>3. num_frames < 2 => Window!Brackets(OrderedFrames, t) = {}
  BY <1>1 DEF Window!Brackets
<1>4. ASSUME num_frames >= 2
      PROVE  Window!Brackets(OrderedFrames, t) =
                     {k \in 1 .. num_frames - 1 :
                        /\ Age(t) <= MAX_INTERPOLATOR_FRAME_TIME_DIFF_MILLIS
                        /\ Behind(k + 1) <= Age(t)
                        /\ Age(t) <= Behind(k)}
  <2>1. ~(Len(OrderedFrames) < 2)
    BY <1>1, <1>4
  <2>2. Window!Brackets(OrderedFrames, t) =
          {k \in 1 .. Len(OrderedFrames) - 1 :
             /\ Age(t) <= MAX_INTERPOLATOR_FRAME_TIME_DIFF_MILLIS
             /\ Window!Behind(OrderedFrames, k + 1) <= Age(t)
             /\ Age(t) <= Window!Behind(OrderedFrames, k)}
    BY <1>2, <1>4, <2>1 DEF Window!Brackets
  <2> QED BY <1>1, <2>2 DEF Behind
<1> QED BY <1>2, <1>3, <1>4

\* The walk finds no pair exactly when no key frames surround the queried time.
LEMMA UnavailableIs ==
    ASSUME TypeOK, GapsRelatable, NEW t \in Timestamps
    PROVE  /\ (interpolator_calculate(t) = NAN) <=> (Window!Brackets(OrderedFrames, t) = {})
           /\ Window!Brackets(OrderedFrames, t) # {} =>
                /\ num_frames >= 2 /\ Pairs(t) # {}
                /\ interpolator_calculate(t) = Blend(Max(Pairs(t)), t)
<1> DEFINE n == num_frames
           brackets == Window!Brackets(OrderedFrames, t)
           limit == MAX_INTERPOLATOR_FRAME_TIME_DIFF_MILLIS
<1>1. n \in Nat /\ limit \in Int
  BY OrderedFramesSeq, TimeDiffAssumption
<1>2. CASE n < 2
  BY <1>2, BracketsAre, CalculateIs
<1>3. CASE n >= 2
  <2>1. /\ n # 0 /\ n \in 2 .. n /\ Behind(n) = 0
        /\ brackets = {k \in 1 .. n - 1 : Age(t) <= limit /\ Behind(k + 1) <= Age(t)
                                            /\ Age(t) <= Behind(k)}
    BY <1>1, <1>3, BehindIs, BracketsAre
  <2>2. Age(t) \in Int
    <3>1. Age(t) \in 0 .. MILLIS_PER_SECOND - 1
      BY <2>1, <1>1, TimesAndGaps, MillisDiffRange DEF Age
    <3> QED BY <3>1
  <2>3. ToTarget(t)[n] = Age(t)
    <3>1. ToTarget(t)[n] = Age(t) - Behind(n)
      BY <2>1, ToTargetIs
    <3> QED BY <2>1, <2>2, <3>1
  <2>4. interpolator_calculate(t) = IF Age(t) > limit \/ Pairs(t) = {}
                                    THEN NAN ELSE Blend(Max(Pairs(t)), t)
    BY <1>1, <1>3, <2>3, CalculateIs
  <2>5. ASSUME brackets # {}
        PROVE  Age(t) <= limit /\ Pairs(t) # {}
    <3>1. PICK k \in 1 .. n - 1 : Age(t) <= limit /\ Age(t) <= Behind(k)
      BY <2>1, <2>5
    <3>2. k + 1 \in 2 .. n /\ (k + 1) - 1 = k
      BY <1>1
    <3>3. k + 1 \in Pairs(t)
      BY <3>1, <3>2, PairsAre
    <3> QED BY <3>1, <3>3
  <2>6. ASSUME Pairs(t) # {}, Age(t) <= limit
        PROVE  /\ brackets # {}
               /\ Blend(Max(Pairs(t)), t) # NAN
    <3> DEFINE m == Max(Pairs(t))
    <3>1. m \in 2 .. n /\ Behind(m) <= Age(t) /\ Age(t) <= Behind(m - 1)
      BY <1>3, <2>6, FoundPair
    <3> HIDE DEF m
    <3>2. m - 1 \in 1 .. n - 1 /\ (m - 1) + 1 = m
      BY <1>1, <3>1
    <3>3. m - 1 \in brackets
      BY <2>1, <2>6, <3>1, <3>2
    <3>4. MillisDiff(t, Time(m - 1)) <= Gap(m)
      BY <1>3, <2>6, PairWithin DEF m
    <3>5. Blend(m, t) \in [num : Int, den : Int]
      BY <3>1, <3>4, BlendIs
    <3> QED BY <3>3, <3>5, NanAssumption DEF m
  <2> HIDE DEF brackets, n, limit
  <2>7. Age(t) > limit <=> ~(Age(t) <= limit)
    BY <1>1, <2>2
  <2> QED BY <1>3, <2>4, <2>5, <2>6, <2>7 DEF brackets, n
<1> QED BY <1>1, <1>2, <1>3

LEMMA CalculatedIsOnTimeline ==
    ASSUME TypeOK, GapsRelatable
    PROVE  CalculationOnTimeline
<1> SUFFICES ASSUME NEW t \in Timestamps
             PROVE  Window!IsInterpolation(OrderedFrames, t, interpolator_calculate(t))
  BY DEF CalculationOnTimeline, OrderedFrames
<1> DEFINE n == num_frames
           m == Max(Pairs(t))
           age == Age(t)
           result == interpolator_calculate(t)
           brackets == Window!Brackets(OrderedFrames, t)
<1> SUFFICES ASSUME NEW k \in brackets
             PROVE  LET since == Behind(k) - age
                        width == Behind(k) - Behind(k + 1)
                    IN  result.num * width
                          = result.den * (Frame(k).value * width
                                            + since * (Frame(k + 1).value - Frame(k).value))
  <2>1. (result = NAN) <=> (brackets = {})
    BY UnavailableIs
  <2>2. ASSUME NEW k \in brackets
        PROVE  /\ Window!Elapsed(t, Window!Last(OrderedFrames).timestamp_millis_part) = age
               /\ OrderedFrames[k] = Frame(k) /\ OrderedFrames[k + 1] = Frame(k + 1)
    <3>1. n \in Nat /\ n >= 2
      BY OrderedFramesSeq, UnavailableIs
    <3>2. k \in 1 .. n - 1
      BY <3>1, BracketsAre
    <3>3. k \in 1 .. n /\ k + 1 \in 1 .. n
      BY <3>1, <3>2
    <3> QED BY <3>1, <3>3, BracketsAre, OrderedFramesSeq
  <2> HIDE DEF result, age, n, brackets
  <2> QED BY <2>1, <2>2 DEF Window!IsInterpolation, Behind, brackets, result
<1>1. /\ n \in Nat /\ n >= 2 /\ n # 0 /\ Pairs(t) # {} /\ result = Blend(m, t)
      /\ n \in 1 .. n
  BY OrderedFramesSeq, UnavailableIs
<1>2. k \in 1 .. n - 1 /\ Behind(k + 1) <= age /\ age <= Behind(k)
  BY <1>1, BracketsAre
<1>3. /\ m \in 2 .. n /\ Behind(m) <= age /\ age <= Behind(m - 1)
      /\ k = m - 1 \/ (k = m - 2 /\ Behind(k + 1) = age)
  BY <1>1, <1>2, FoundPair
<1>4. age \in Int
  <2>1. age \in 0 .. MILLIS_PER_SECOND - 1
    BY <1>1, TimesAndGaps, MillisDiffRange DEF Age
  <2> HIDE DEF age
  <2> QED BY <2>1
<1> HIDE DEF m, result
<1>5. m - 1 \in 1 .. n - 1 /\ (m - 1) + 1 = m /\ m \in 1 .. n /\ m - 1 \in 1 .. n
      /\ k \in 1 .. n /\ k + 1 \in 1 .. n
  BY <1>1, <1>2, <1>3
<1>6. Behind(k) \in Int /\ Behind(k + 1) \in Int /\ Behind(m) \in Int /\ Behind(m - 1) \in Int
  BY <1>1, <1>5, BehindOrder
<1>7. Gap(m) = Behind(m - 1) - Behind(m) /\ Gap(m) \in Int
  <2>1. Behind(m - 1) = Behind(m) + Gap(m)
    BY <1>1, <1>5, BehindIs
  <2>2. Gap(m) \in 1 .. MAX_INTERPOLATOR_FRAME_TIME_DIFF_MILLIS - 1
    BY <1>3 DEF GapsRelatable
  <2>3. Gap(m) \in Int
    BY <2>2, TimeDiffAssumption
  <2> QED BY <1>6, <2>1, <2>3
<1>8. MillisDiff(t, Time(m - 1)) = Behind(m - 1) - age
  BY <1>3, <1>5, SinceIs DEF Age
<1>9. MillisDiff(t, Time(m - 1)) <= Gap(m)
  BY <1>3, <1>4, <1>6, <1>7, <1>8
<1>10. /\ Frame(k).value \in Int /\ Frame(k + 1).value \in Int
  BY <1>5, OrderedFramesSeq, ValuesAssumption DEF KeyFrame
<1>11. /\ result.num * Gap(m) = result.den * (Frame(m - 1).value * Gap(m)
             + MillisDiff(t, Time(m - 1)) * (Frame(m).value - Frame(m - 1).value))
       /\ MillisDiff(t, Time(m - 1)) = 0 => result = Exactly(Frame(m - 1).value)
  BY <1>1, <1>3, <1>9, BlendIs DEF m
<1>12. CASE k = m - 1
  <2>1. k + 1 = m
    BY <1>5, <1>12
  <2> HIDE DEF age
  <2> QED BY <1>7, <1>8, <1>11, <1>12, <2>1
<1>13. CASE k = m - 2 /\ Behind(k + 1) = age
  <2>1. k + 1 = m - 1
    BY <1>3, <1>13
  <2>2. MillisDiff(t, Time(m - 1)) = 0
    BY <1>4, <1>8, <1>13, <2>1
  <2>3. result.num = Frame(k + 1).value /\ result.den = 1
    BY <1>11, <2>1, <2>2 DEF Exactly
  <2> DEFINE b == Frame(k).value
             c == Frame(k + 1).value
             width == Behind(k) - Behind(k + 1)
  <2>4. b \in Int /\ c \in Int /\ width \in Int
    BY <1>6, <1>10
  <2> HIDE DEF b, c, width
  <2>5. c * width = 1 * (b * width + width * (c - b))
    BY <2>4, OnLine
  <2> QED BY <1>13, <2>3, <2>5 DEF b, c, width
<1> QED BY <1>3, <1>12, <1>13

\* interpolation.c: on a ring in whatever state the calls left it, a query is
\* answered exactly when two key frames surround its time, and the answer lies
\* on the line between them, although only milliseconds parts were compared.
THEOREM CalculationIsOnTimeline == Spec => []CalculationOnTimeline
<1>1. TypeOK /\ GapsRelatable => CalculationOnTimeline
  BY CalculatedIsOnTimeline
<1> QED BY <1>1, InterpolatorTypeCorrect, NeighboursRelatable, PTL
-----------------------------------------------------------------------------
\* Times on the absolute clock, less than a second apart, are told apart by their
\* milliseconds.
LEMMA RemainderOf ==
    ASSUME NEW d \in Nat \ {0}, NEW q \in Int, NEW r \in 0 .. d - 1
    PROVE  (d * q + r) % d = r
OBVIOUS

LEMMA MillisOf ==
    ASSUME NEW time \in Nat
    PROVE  /\ MILLIS_PER_SECOND \in Nat \ {0} /\ Timestamps = 0 .. MILLIS_PER_SECOND - 1
           /\ time % MILLIS_PER_SECOND \in Timestamps
           /\ \E q \in Int : time = MILLIS_PER_SECOND * q + (time % MILLIS_PER_SECOND)
<1> DEFINE second == MILLIS_PER_SECOND
<1>1. second \in Nat \ {0}
  BY TimeDiffAssumption
<1>2. /\ time % second \in 0 .. second - 1 /\ time \div second \in Int
      /\ time = second * (time \div second) + (time % second)
  <2> HIDE DEF second
  <2> QED BY <1>1
<1> QED BY <1>1, <1>2 DEF Timestamps

LEMMA SameMillis ==
    ASSUME NEW earlier \in Nat, NEW later \in Nat, later - earlier = MILLIS_PER_SECOND
    PROVE  earlier % MILLIS_PER_SECOND = later % MILLIS_PER_SECOND
<1> DEFINE second == MILLIS_PER_SECOND
           r == earlier % second
<1>1. second \in Nat \ {0} /\ r \in 0 .. second - 1
  BY MillisOf
<1>2. \E q \in Int : earlier = second * q + r
  BY MillisOf
<1>3. PICK q \in Int : earlier = second * q + r
  BY <1>2
<1> DEFINE p == q + 1
<1> HIDE DEF r, second
<1>4. p \in Int /\ second * p = second * q + second /\ second * q \in Int
  BY <1>1
<1>5. later = second * p + r
  BY <1>1, <1>3, <1>4 DEF second
<1> HIDE DEF p
<1>6. later % second = r
  BY <1>1, <1>4, <1>5, RemainderOf
<1> QED BY <1>6 DEF r, second

LEMMA MillisDiffExact ==
    ASSUME NEW earlier \in Nat, NEW later \in Nat, earlier <= later,
           later - earlier < MILLIS_PER_SECOND
    PROVE  /\ MillisDiff(later % MILLIS_PER_SECOND, earlier % MILLIS_PER_SECOND)
                = later - earlier
           /\ earlier # later =>
                MillisDiff(earlier % MILLIS_PER_SECOND, later % MILLIS_PER_SECOND)
                  = MILLIS_PER_SECOND - (later - earlier)
<1> DEFINE second == MILLIS_PER_SECOND
           m == earlier % second
           n == later % second
           d == later - earlier
<1>1. second \in Nat \ {0} /\ d \in 0 .. second - 1
  BY MillisOf
<1>2. m \in 0 .. second - 1 /\ \E q \in Int : earlier = second * q + m
  BY MillisOf
<1>3. PICK q \in Int : earlier = second * q + m
  BY <1>2
<1>4. n = IF m + d < second THEN m + d ELSE m + d - second
  <2> HIDE DEF m, second
  <2>1. CASE m + d < second
    <3>1. later = second * q + (m + d) /\ m + d \in 0 .. second - 1
      BY <1>1, <1>2, <1>3, <2>1
    <3> QED BY <1>1, <2>1, <3>1, RemainderOf
  <2>2. CASE m + d >= second
    <3> DEFINE p == q + 1
               r == m + d - second
    <3>1. p \in Int /\ r \in 0 .. second - 1 /\ later = second * p + r
      BY <1>1, <1>2, <1>3, <2>2
    <3>2. ~(m + d < second)
      BY <1>1, <1>2, <2>2
    <3> HIDE DEF p, r
    <3>3. later % second = r
      BY <1>1, <3>1, RemainderOf
    <3> QED BY <3>2, <3>3 DEF r
  <2> QED BY <1>1, <1>2, <2>1, <2>2
<1> HIDE DEF m, n, second, d
<1>5. /\ (IF n - m < 0 THEN n - m + second ELSE n - m) = d
      /\ d # 0 => (IF m - n < 0 THEN m - n + second ELSE m - n) = second - d
  BY <1>1, <1>2, <1>4
<1> QED BY <1>5 DEF MillisDiff, m, n, second, d

\* Queries reach back for less than a second, and PSX is never silent for so long
\* that the latest key frame seems to lie ahead of a query again.
SilenceShort == MaxSilence < MILLIS_PER_SECOND

LookBacksRelatable ==
    \A look_back \in LookBacks :
        /\ look_back < MILLIS_PER_SECOND
        /\ MaxSilence - look_back
             < MILLIS_PER_SECOND - MAX_INTERPOLATOR_FRAME_TIME_DIFF_MILLIS

\* The clock, the connection and how long it has been silent.
Clocked ==
    /\ now \in 0 .. Horizon
    /\ last_sent \in 0 .. now
    /\ connected \in BOOLEAN
    /\ connected => now - last_sent <= MaxSilence

\* Each key frame is at its place on the clock, the latest received one is the latest in
\* the ring, and there are none without a connection.
OnTheClock ==
    /\ \A i \in 1 .. num_frames :
         /\ Frame(i).value \in 0 .. last_sent
         /\ Time(i) = Frame(i).value % MILLIS_PER_SECOND
    /\ \A i \in 2 .. num_frames :
         Frame(i).value - Frame(i - 1).value \in 1 .. MILLIS_PER_SECOND - 1
    /\ num_frames # 0 => connected /\ Frame(num_frames).value = last_sent

TimelineInv == TypeOK /\ GapsRelatable /\ Clocked /\ OnTheClock

\* Every step of the timeline is a call that an interpolator may get, or none.
LEMMA TimelineStep ==
    ASSUME Clocked, [TimelineNext]_timelineVars
    PROVE  [Next]_vars
<1>1. \A sent \in last_sent .. now :
        sent \in Values /\ sent % MILLIS_PER_SECOND \in Timestamps
  <2>1. \A sent \in last_sent .. now : sent \in Nat /\ sent \in 0 .. Horizon
    BY TimelineAssumption DEF Clocked
  <2> QED BY <2>1, MillisOf, TimelineAssumption
<1>2. CASE ReceiveFrame
  BY <1>1, <1>2 DEF ReceiveFrame, Next
<1>3. CASE ReceiveNonFinite
  BY <1>1, <1>3 DEF ReceiveNonFinite, Next
<1> QED BY <1>2, <1>3 DEF TimelineNext, timelineVars, Connect, Disconnect, Tick, Next

LEMMA ClockedStep ==
    ASSUME Clocked, [TimelineNext]_timelineVars
    PROVE  Clocked'
<1> USE TimelineAssumption DEF Clocked
<1>1. CASE Connect
  BY <1>1 DEF Connect
<1>2. CASE Disconnect
  BY <1>2 DEF Disconnect
<1>3. CASE ReceiveFrame
  BY <1>3 DEF ReceiveFrame
<1>4. CASE ReceiveNonFinite
  BY <1>4 DEF ReceiveNonFinite
<1>5. CASE Tick
  BY <1>5 DEF Tick
<1>6. CASE UNCHANGED timelineVars
  BY <1>6 DEF timelineVars
<1> QED BY <1>1, <1>2, <1>3, <1>4, <1>5, <1>6 DEF TimelineNext

\* What is behind in the ring is as far behind on the clock.
LEMMA GapIsTime ==
    ASSUME TypeOK, OnTheClock, last_sent \in Nat, NEW i \in 2 .. num_frames
    PROVE  Gap(i) = Frame(i).value - Frame(i - 1).value
<1>1. i \in 1 .. num_frames /\ i - 1 \in 1 .. num_frames
  BY OrderedFramesSeq
<1> DEFINE a == Frame(i - 1).value
           b == Frame(i).value
<1>2. /\ a \in Nat /\ b \in Nat /\ b - a \in 1 .. MILLIS_PER_SECOND - 1
      /\ Time(i) = b % MILLIS_PER_SECOND /\ Time(i - 1) = a % MILLIS_PER_SECOND
  BY <1>1 DEF OnTheClock
<1> HIDE DEF a, b
<1>3. a <= b /\ b - a < MILLIS_PER_SECOND
  <2>1. a \in Nat /\ b \in Nat /\ MILLIS_PER_SECOND \in Nat
    BY <1>2, TimeDiffAssumption
  <2>2. b - a \in 1 .. MILLIS_PER_SECOND - 1
    BY <1>2
  <2> QED
    BY ONLY <2>1, <2>2
<1> QED BY <1>2, <1>3, MillisDiffExact DEF Gap, a, b

LEMMA BehindIsClock ==
    ASSUME TimelineInv, num_frames # 0, NEW k \in 1 .. num_frames
    PROVE  Behind(k) = last_sent - Frame(k).value
<1> DEFINE n == num_frames
           Good == {j \in 1 .. n : Behind(j) = last_sent - Frame(j).value}
<1>1. /\ TypeOK /\ GapsRelatable /\ OnTheClock /\ last_sent \in Nat /\ n \in Nat /\ n \in 1 .. n
      /\ \A j \in 1 .. n : Frame(j).value \in Nat
      /\ Frame(n).value = last_sent
  BY OrderedFramesSeq DEF TimelineInv, Clocked, OnTheClock
<1>2. n \in Good
  BY <1>1, BehindIs
<1>3. ASSUME NEW j \in 1 .. n - 1, j + 1 \in Good
      PROVE  j \in Good
  <2>1. j \in 1 .. n /\ j + 1 \in 2 .. n /\ j + 1 \in 1 .. n /\ (j + 1) - 1 = j
    BY <1>1
  <2>2. Behind(j) = Behind(j + 1) + Gap(j + 1)
    BY <1>1, BehindIs
  <2>3. Gap(j + 1) = Frame(j + 1).value - Frame(j).value
    BY <1>1, <2>1, GapIsTime
  <2>4. Behind(j + 1) = last_sent - Frame(j + 1).value
    BY <1>3
  <2>5. Frame(j).value \in Nat /\ Frame(j + 1).value \in Nat
    BY <1>1, <2>1
  <2> HIDE DEF n
  <2>6. Behind(j) = last_sent - Frame(j).value
    BY <1>1, <2>2, <2>3, <2>4, <2>5
  <2> QED BY <2>1, <2>6
<1>4. 1 .. n \subseteq Good
  <2> HIDE DEF Good, n
  <2> QED BY <1>1, <1>2, <1>3, Downwards
<1> QED BY <1>4

\* A received point continues the clock: it is behind the latest key frame, replaces all
\* of them, or is that key frame once more.
LEMMA ReceivedOnTheClock ==
    ASSUME SilenceShort, TimelineInv, connected, NEW sent \in last_sent .. now,
           interpolator_add_point(sent % MILLIS_PER_SECOND, sent),
           last_sent' = sent, connected' = connected
    PROVE  OnTheClock'
<1> DEFINE N == MAX_INTERPOLATOR_FRAMES
           n == num_frames
           t == sent % MILLIS_PER_SECOND
           new == [timestamp_millis_part |-> t, value |-> sent]
<1>1. /\ TypeOK /\ OnTheClock /\ N \in Nat \ {0} /\ n \in 0 .. N
      /\ last_sent \in Nat /\ now \in Nat /\ sent \in Nat /\ last_sent <= sent /\ sent <= now
      /\ now - last_sent <= MaxSilence /\ MaxSilence \in Nat /\ sent \in Values
  BY FramesAssumption, TimelineAssumption DEF TimelineInv, Clocked, TypeOK
<1>2. sent - last_sent < MILLIS_PER_SECOND /\ MILLIS_PER_SECOND \in Nat \ {0}
      /\ t \in Timestamps
  BY <1>1, MillisOf DEF SilenceShort
<1>3. new \in KeyFrame /\ sent # NonFinite /\ new.value = sent /\ new.timestamp_millis_part = t
  BY <1>1, <1>2, ValuesAssumption DEF KeyFrame
<1>4. ASSUME n # 0
      PROVE  /\ Frame(n).value = last_sent
             /\ Time(n) = t => sent = last_sent
  <2>1. n \in 1 .. n
    BY <1>1, <1>4
  <2>2. Frame(n).value = last_sent /\ Time(n) = last_sent % MILLIS_PER_SECOND
    BY <1>1, <1>4, <2>1 DEF OnTheClock
  <2>3. MillisDiff(t, Time(n)) = sent - last_sent
    BY <1>1, <1>2, <2>2, MillisDiffExact
  <2>4. Time(n) = t => MillisDiff(t, Time(n)) = 0
    BY <1>2, TimeDiffAssumption DEF MillisDiff, Timestamps
  <2> QED BY <1>1, <2>2, <2>3, <2>4
<1>5. Kept(t) = 0 \/ Kept(t) = n
  BY DEF Kept
<1>6. CASE Kept(t) # 0 /\ Time(Kept(t)) = t
  <2>1. num_frames' = n /\ UNCHANGED <<frames_start, frames>>
    BY <1>5, <1>6 DEF interpolator_add_point, Kept
  <2>2. last_sent' = last_sent
    BY <1>4, <1>5, <1>6
  <2> QED BY <1>1, <2>1, <2>2 DEF OnTheClock, Time, Frame, Slot
<1>7. CASE ~(Kept(t) # 0 /\ Time(Kept(t)) = t)
  <2>1. /\ frames' = [frames EXCEPT ![NewSlot(t)] = new]
        /\ num_frames' = IF IsFull(Kept(t)) THEN Kept(t) ELSE Kept(t) + 1
        /\ frames_start' = IF IsFull(Kept(t)) THEN ipmod(frames_start + 1, N)
                           ELSE frames_start
    BY <1>3, <1>7 DEF interpolator_add_point, Kept, NewSlot, IsFull
  <2>2. ASSUME NEW k \in 0 .. N - 1, NEW shift \in {0, 1},
               Kept(t) = k + shift,
               num_frames' = k + 1, Frame(k + 1)' = new,
               \A i \in 1 .. k : Frame(i)' = Frame(i + shift)
        PROVE  OnTheClock'
    <3>1. k \in Nat /\ (k # 0 => n = k + shift) /\ \A i \in 1 .. k : i + shift \in 1 .. n
      BY <1>1, <1>5, <2>2
    <3>2. \A i \in 1 .. k : /\ Frame(i)'.value \in 0 .. sent
                            /\ Time(i)' = Frame(i)'.value % MILLIS_PER_SECOND
      <4> SUFFICES ASSUME NEW i \in 1 .. k
                   PROVE  /\ Frame(i)'.value \in 0 .. sent
                          /\ Time(i)' = Frame(i)'.value % MILLIS_PER_SECOND
        OBVIOUS
      <4>1. Frame(i)' = Frame(i + shift) /\ Time(i)' = Time(i + shift) /\ i + shift \in 1 .. n
        BY <2>2, <3>1 DEF Time
      <4>2. /\ Frame(i + shift).value \in 0 .. last_sent
            /\ Time(i + shift) = Frame(i + shift).value % MILLIS_PER_SECOND
        BY <1>1, <4>1 DEF OnTheClock
      <4>3. Frame(i + shift).value \in 0 .. sent
        BY <1>1, <4>2
      <4> QED BY <4>1, <4>2, <4>3
    <3>3. \A i \in 1 .. k + 1 : /\ Frame(i)'.value \in 0 .. sent
                                /\ Time(i)' = Frame(i)'.value % MILLIS_PER_SECOND
      <4>1. Frame(k + 1)'.value \in 0 .. sent /\ Time(k + 1)' = t
        BY <1>1, <1>3, <2>2 DEF Time
      <4>2. \A i \in 1 .. k + 1 : i \in 1 .. k \/ i = k + 1
        BY <3>1
      <4> QED BY <1>3, <2>2, <3>2, <4>1, <4>2
    <3>4. \A i \in 2 .. k + 1 : Frame(i)'.value - Frame(i - 1)'.value
                                  \in 1 .. MILLIS_PER_SECOND - 1
      <4> SUFFICES ASSUME NEW i \in 2 .. k + 1
                   PROVE  Frame(i)'.value - Frame(i - 1)'.value \in 1 .. MILLIS_PER_SECOND - 1
        OBVIOUS
      <4>1. CASE i <= k
        <5>1. /\ i \in 1 .. k /\ i - 1 \in 1 .. k /\ i + shift \in 2 .. n
              /\ (i + shift) - 1 = (i - 1) + shift
          BY <3>1, <4>1
        <5>2. Frame(i)' = Frame(i + shift) /\ Frame(i - 1)' = Frame((i + shift) - 1)
          BY <2>2, <5>1
        <5> QED BY <1>1, <5>1, <5>2 DEF OnTheClock
      <4>2. CASE i = k + 1
        <5>1. k # 0 /\ k \in 1 .. k /\ n = k + shift /\ i - 1 = k /\ n # 0
          BY <3>1, <4>2
        <5>2. Frame(i - 1)'.value = last_sent /\ Frame(i)'.value = sent
          BY <1>3, <1>4, <2>2, <4>2, <5>1
        <5>3. sent # last_sent
          <6>1. Kept(t) = n /\ Time(n) # t
            BY <1>5, <1>7, <2>2, <5>1
          <6>2. MillisDiff(t, Time(n)) # 0
            <7>1. n \in 1 .. n
              BY <1>1, <5>1
            <7>2. Time(n) \in Timestamps
              BY <7>1, TimesAndGaps DEF TimelineInv
            <7> QED BY <1>2, <6>1, <7>2, MillisDiffRange
          <6>3. MillisDiff(t, Time(n)) = sent - last_sent
            <7>1. n \in 1 .. n
              BY <1>1, <5>1
            <7>2. Time(n) = last_sent % MILLIS_PER_SECOND
              BY <1>1, <1>4, <5>1, <7>1 DEF OnTheClock
            <7> QED BY <1>1, <1>2, <7>2, MillisDiffExact
          <6> QED BY <1>1, <6>2, <6>3
        <5> QED BY <1>1, <1>2, <5>2, <5>3
      <4> QED BY <3>1, <4>1, <4>2
    <3>5. k + 1 # 0 /\ Frame(k + 1)'.value = sent
      BY <1>3, <2>2, <3>1
    <3> HIDE DEF new
    <3> QED BY <2>2, <3>3, <3>4, <3>5 DEF OnTheClock
  <2>3. CASE Kept(t) < N
    <3>1. PICK k \in Nat : k = Kept(t)
      BY <1>1, <1>5
    <3>2. k \in 0 .. N - 1 /\ ~IsFull(k) /\ k < MAX_INTERPOLATOR_FRAMES
      BY <1>1, <2>3, <3>1 DEF IsFull
    <3>3. num_frames' = k + 1 /\ frames_start' = frames_start
      BY <2>1, <3>1, <3>2
    <3> HIDE DEF new
    <3>4. /\ \A i \in 1 .. k : Frame(i)' = Frame(i)
          /\ Frame(k + 1)' = new
      BY <1>1, <1>2, <1>3, <2>1, <3>1, <3>2, <3>3, AddedBehind
    <3>5. k + 0 = k /\ 0 \in {0, 1} /\ \A i \in 1 .. k : i + 0 = i
      BY <3>1
    <3> QED BY <2>2, <3>1, <3>2, <3>3, <3>4, <3>5
  <2>4. CASE Kept(t) = N
    <3> DEFINE k == N - 1
    <3>1. k \in 0 .. N - 1 /\ k + 1 = N /\ IsFull(Kept(t))
      BY <1>1, <2>4 DEF IsFull
    <3>2. num_frames' = N /\ frames_start' = ipmod(frames_start + 1, N)
      BY <2>1, <2>4, <3>1
    <3>3. /\ \A i \in 1 .. N - 1 : Frame(i)' = Frame(i + 1)
          /\ Frame(N)' = new
      BY <1>1, <1>2, <1>3, <2>1, <2>4, <3>2, AddedInPlace
    <3>4. \A i \in 1 .. k : Frame(i)' = Frame(i + 1)
      BY <3>3
    <3> HIDE DEF k, new, N
    <3> QED BY <2>2, <2>4, <3>1, <3>2, <3>3, <3>4
  <2> QED BY <1>1, <1>5, <2>3, <2>4
<1> QED BY <1>6, <1>7

LEMMA RelatableInit == Init => TypeOK /\ GapsRelatable
  BY InitTypeOK DEF Init, create_interpolator, GapsRelatable

LEMMA RelatableStep ==
    ASSUME TypeOK, GapsRelatable, [Next]_vars
    PROVE  TypeOK' /\ GapsRelatable'
<1>1. CASE interpolator_reset
  BY <1>1, NextTypeOK DEF interpolator_reset, GapsRelatable
<1>2. CASE \E t \in Timestamps : interpolator_maintain(t)
  BY <1>2, NextTypeOK DEF interpolator_maintain, interpolator_reset, GapsRelatable
<1>3. CASE \E t \in Timestamps, v \in Values \cup {NonFinite} : interpolator_add_point(t, v)
  BY <1>3, NextTypeOK, AddPointGaps DEF IInv
<1>4. CASE UNCHANGED vars
  BY <1>4, NextTypeOK DEF vars, GapsRelatable, Gap, Time, Frame, Slot
<1> QED BY <1>1, <1>2, <1>3, <1>4 DEF Next

LEMMA TimelineInvInit == TimelineInit => TimelineInv
<1> SUFFICES ASSUME TimelineInit
             PROVE  TimelineInv
  OBVIOUS
<1>1. Clocked
  <2>1. now = 0 /\ last_sent = 0 /\ connected = FALSE
    BY DEF TimelineInit
  <2>2. 0 \in 0 .. Horizon /\ 0 \in 0 .. 0
    BY TimelineAssumption
  <2> QED BY <2>1, <2>2, Zenon DEF Clocked
<1>2. num_frames = 0
  BY DEF TimelineInit, Init, create_interpolator
<1>3. OnTheClock
  BY <1>2 DEF OnTheClock
<1> QED BY <1>1, <1>3, RelatableInit DEF TimelineInit, TimelineInv

LEMMA TimelineInvStep ==
    ASSUME SilenceShort, TimelineInv, [TimelineNext]_timelineVars
    PROVE  TimelineInv'
<1>1. TypeOK' /\ GapsRelatable' /\ Clocked'
  BY TimelineStep, ClockedStep, RelatableStep DEF TimelineInv
<1>2. OnTheClock'
  <2> USE DEF TimelineInv
  <2>1. CASE Connect
    BY <2>1 DEF Connect, interpolator_reset, OnTheClock
  <2>2. CASE Disconnect
    BY <2>2 DEF Disconnect, interpolator_reset, OnTheClock
  <2>3. CASE ReceiveFrame
    <3>1. PICK sent \in last_sent .. now :
            /\ connected /\ interpolator_add_point(sent % MILLIS_PER_SECOND, sent)
            /\ last_sent' = sent /\ connected' = connected
      BY <2>3 DEF ReceiveFrame
    <3> QED BY <3>1, ReceivedOnTheClock
  <2>4. CASE ReceiveNonFinite
    <3>1. PICK t : interpolator_add_point(t, NonFinite) /\ UNCHANGED <<connected, last_sent>>
      BY <2>4 DEF ReceiveNonFinite
    <3>2. num_frames' \in {0, num_frames} /\ UNCHANGED <<frames_start, frames>>
      BY <3>1 DEF interpolator_add_point
    <3>3. CASE num_frames' = 0
      BY <3>3 DEF OnTheClock
    <3>4. CASE num_frames' = num_frames
      BY <3>1, <3>2, <3>4 DEF OnTheClock, Time, Frame, Slot
    <3> QED BY <3>2, <3>3, <3>4
  <2>5. CASE Tick
    BY <2>5 DEF Tick, vars, OnTheClock, Time, Frame, Slot
  <2>6. CASE UNCHANGED timelineVars
    BY <2>6 DEF timelineVars, vars, OnTheClock, Time, Frame, Slot
  <2> QED BY <2>1, <2>2, <2>3, <2>4, <2>5, <2>6 DEF TimelineNext
<1> QED BY <1>1, <1>2 DEF TimelineInv

\* plugin.c, 341-346 and 1177-1205: connection thread and flight loop together are one of
\* the users interpolation.h allows, so what holds for every sequence of calls holds here.
THEOREM TimelineIsCallSequence == TimelineSpec => Spec
<1>1. TimelineInit => Init /\ Clocked
  BY TimelineInvInit DEF TimelineInit, TimelineInv
<1>2. Clocked /\ [TimelineNext]_timelineVars => Clocked' /\ [Next]_vars
  BY TimelineStep, ClockedStep
<1> QED BY <1>1, <1>2, PTL DEF TimelineSpec, Spec

\* The time from a query to the latest key frame, on the clock and by milliseconds.
LEMMA AgeIsTime ==
    ASSUME TimelineInv, num_frames # 0, NEW query \in Nat,
           query - last_sent < MILLIS_PER_SECOND, last_sent - query < MILLIS_PER_SECOND
    PROVE  Age(query % MILLIS_PER_SECOND)
             = IF query <= last_sent THEN last_sent - query
               ELSE MILLIS_PER_SECOND - (query - last_sent)
<1>1. last_sent \in Nat /\ num_frames \in 1 .. num_frames
  BY OrderedFramesSeq DEF TimelineInv, Clocked
<1>2. Time(num_frames) = last_sent % MILLIS_PER_SECOND
  BY <1>1 DEF TimelineInv, OnTheClock
<1> QED BY <1>1, <1>2, MillisDiffExact DEF Age

\* What is on the line through a pair of points of a clock is the queried time.
LEMMA LineOfClock ==
    ASSUME NEW num \in Int, NEW den \in Int, NEW base \in Int, NEW width \in Int, width # 0,
           NEW query \in Int,
           num * width = den * (base * width + (query - base) * width)
    PROVE  num = query * den
<1>1. base * width + (query - base) * width = query * width
  <2>1. (query - base) * width = query * width - base * width
        /\ query * width \in Int /\ base * width \in Int
    OBVIOUS
  <2> QED BY <2>1
<1>2. num * width = (query * den) * width
  <2>1. den * (query * width) = (query * den) * width
    OBVIOUS
  <2> QED BY <1>1, <2>1
<1> DEFINE p == query * den
           e == num - p
<1>3. p \in Int /\ e \in Int /\ e * width = num * width - p * width
      /\ num * width \in Int /\ p * width \in Int
  OBVIOUS
<1> HIDE DEF p
<1>4. e * width = 0
  BY <1>2, <1>3 DEF p
<1> HIDE DEF e
<1>5. e = 0
  BY <1>3, <1>4
<1>6. num = p
  BY <1>3, <1>5 DEF e
<1> QED BY <1>6 DEF p

\* Whatever comes out for a time on the clock is the value of that time.
LEMMA PlaybackIsQuery ==
    ASSUME SilenceShort, LookBacksRelatable, TimelineInv,
           NEW look_back \in LookBacks, now >= look_back,
           Playback(look_back) # NAN
    PROVE  Playback(look_back).num = (now - look_back) * Playback(look_back).den
<1> DEFINE query == now - look_back
           t == query % MILLIS_PER_SECOND
           n == num_frames
           m == Max(Pairs(t))
           result == interpolator_calculate(t)
<1>1. /\ TypeOK /\ GapsRelatable /\ now \in Nat /\ last_sent \in Nat /\ last_sent <= now
      /\ look_back \in Nat /\ query \in Nat /\ query <= now
      /\ MILLIS_PER_SECOND \in Nat \ {0} /\ t \in Timestamps /\ MaxSilence \in Nat
  BY MillisOf, TimelineAssumption DEF TimelineInv, Clocked
<1>2. result # NAN /\ Playback(look_back) = result
  BY DEF Playback
<1>3. /\ Window!Brackets(OrderedFrames, t) # {}
      /\ n >= 2 /\ Pairs(t) # {} /\ n \in Nat /\ n # 0
  BY <1>1, <1>2, UnavailableIs, OrderedFramesSeq
<1>4. PICK k \in 1 .. n - 1 : /\ Age(t) <= MAX_INTERPOLATOR_FRAME_TIME_DIFF_MILLIS
                              /\ k \in Window!Brackets(OrderedFrames, t)
  BY <1>1, <1>3, BracketsAre
<1>5. now - last_sent <= MaxSilence
  BY <1>3 DEF TimelineInv, Clocked, OnTheClock
<1>6. /\ MaxSilence < MILLIS_PER_SECOND /\ look_back < MILLIS_PER_SECOND
      /\ MaxSilence - look_back < MILLIS_PER_SECOND - MAX_INTERPOLATOR_FRAME_TIME_DIFF_MILLIS
  BY DEF SilenceShort, LookBacksRelatable
<1>7. query - last_sent < MILLIS_PER_SECOND /\ last_sent - query < MILLIS_PER_SECOND
  BY <1>1, <1>5, <1>6
<1>8. query <= last_sent /\ Age(t) = last_sent - query
  <2>1. Age(t) = IF query <= last_sent THEN last_sent - query
                 ELSE MILLIS_PER_SECOND - (query - last_sent)
    <3> HIDE DEF query
    <3> QED BY <1>1, <1>3, <1>7, AgeIsTime
  <2>2. CASE ~(query <= last_sent)
    <3>1. query - last_sent <= MaxSilence - look_back
      BY <1>1, <1>5
    <3>2. Age(t) = MILLIS_PER_SECOND - (query - last_sent)
      BY <2>1, <2>2
    <3> HIDE DEF query, t
    <3>3. MAX_INTERPOLATOR_FRAME_TIME_DIFF_MILLIS \in Int
      BY TimeDiffAssumption
    <3>4. FALSE
      BY <1>1, <1>4, <1>6, <3>1, <3>2, <3>3
    <3> QED BY <3>4
  <2> QED BY <2>1, <2>2
<1>9. k \in 1 .. n /\ k + 1 \in 1 .. n /\ k + 1 \in 2 .. n /\ (k + 1) - 1 = k
  BY <1>3
<1> DEFINE base == Frame(k).value
           target == Frame(k + 1).value
           width == target - base
<1>10. /\ base \in Nat /\ target \in Nat /\ width \in 1 .. MILLIS_PER_SECOND - 1
       /\ Behind(k) = last_sent - base /\ Behind(k + 1) = last_sent - target
  BY <1>1, <1>3, <1>9, BehindIsClock DEF TimelineInv, OnTheClock
<1>11. result.num * width = result.den * (base * width + (query - base) * width)
  <2>1. Window!IsInterpolation(OrderedFrames, t, result)
    BY <1>1, CalculatedIsOnTimeline DEF CalculationOnTimeline, OrderedFrames
  <2>2. Window!Elapsed(t, Window!Last(OrderedFrames).timestamp_millis_part) = Age(t)
    BY <1>1, <1>3, BracketsAre
  <2>3. OrderedFrames[k] = Frame(k) /\ OrderedFrames[k + 1] = Frame(k + 1)
    BY <1>1, <1>9, OrderedFramesSeq
  <2> HIDE DEF result, t, n
  <2>4. LET since == Behind(k) - Age(t)
            w == Behind(k) - Behind(k + 1)
        IN  result.num * w = result.den * (Frame(k).value * w
                                  + since * (Frame(k + 1).value - Frame(k).value))
    BY <1>4, <2>1, <2>2, <2>3 DEF Window!IsInterpolation, Behind
  <2>5. Behind(k) - Behind(k + 1) = width /\ Behind(k) - Age(t) = query - base
    BY <1>1, <1>8, <1>10
  <2> QED BY <2>4, <2>5
<1>12. result \in [num : Int, den : Int]
  <2>1. m \in 2 .. n /\ Behind(m) <= Age(t) /\ Age(t) <= Behind(m - 1)
    BY <1>1, <1>3, FoundPair
  <2>2. result = Blend(m, t)
    BY <1>1, <1>3, UnavailableIs
  <2>3. MillisDiff(t, Time(m - 1)) <= Gap(m)
    BY <1>1, <1>3, <2>1, PairWithin
  <2> HIDE DEF m, t, n
  <2> QED BY <1>1, <2>1, <2>2, <2>3, BlendIs DEF n
<1>13. result.num \in Int /\ result.den \in Int
  <2> HIDE DEF result
  <2> QED BY <1>12
<1>14. query \in Int /\ base \in Int /\ width \in Int /\ width # 0
  BY <1>1, <1>10
<1>15. result.num = query * result.den
  <2> DEFINE num == result.num
             den == result.den
  <2>1. /\ num \in Int /\ den \in Int
        /\ num * width = den * (base * width + (query - base) * width)
    BY <1>11, <1>13
  <2> HIDE DEF result, query, base, width, num, den
  <2>2. num = query * den
    BY <1>14, <2>1, LineOfClock
  <2> QED BY <2>2 DEF num, den
<1> QED BY <1>2, <1>15

\* interpolation.h, 76-78: as long as PSX is never so silent that a query reaches the latest
\* key frame again in the next second, outdated values are never replayed, whatever was
\* received, ignored, dropped, reset or lost before.
THEOREM NothingReplayed ==
    ASSUME SilenceShort, LookBacksRelatable
    PROVE  TimelineSpec => []NoReplay
<1>1. TimelineInv => NoReplay
  BY PlaybackIsQuery DEF NoReplay
<1>2. TimelineInit => TimelineInv
  BY TimelineInvInit
<1>3. TimelineInv /\ [TimelineNext]_timelineVars => TimelineInv'
  BY TimelineInvStep
<1> QED BY <1>1, <1>2, <1>3, PTL DEF TimelineSpec

\* plugin.c, 1177-1205: a position that the ring surrounds is never withheld, as long as
\* PSX sends once in a second.
THEOREM PlaybackGiven ==
    ASSUME SilenceShort
    PROVE  TimelineSpec => []PlaybackAvailable
<1>1. ASSUME TimelineInv, NEW look_back \in LookBacks, num_frames >= 2,
             Frame(1).value <= now - look_back, now - look_back <= Frame(num_frames).value,
             Frame(num_frames).value - (now - look_back)
               <= MAX_INTERPOLATOR_FRAME_TIME_DIFF_MILLIS
      PROVE  Playback(look_back) # NAN
  <2> DEFINE query == now - look_back
             t == query % MILLIS_PER_SECOND
             n == num_frames
             limit == MAX_INTERPOLATOR_FRAME_TIME_DIFF_MILLIS
  <2>1. /\ TypeOK /\ GapsRelatable /\ now \in Nat /\ last_sent \in Nat /\ look_back \in Nat
        /\ MILLIS_PER_SECOND \in Nat \ {0} /\ n \in Nat /\ n >= 2 /\ n # 0
        /\ 1 \in 1 .. n /\ n \in 1 .. n
        /\ limit \in 1 .. MILLIS_PER_SECOND
    <3>1. /\ TypeOK /\ GapsRelatable /\ now \in Nat /\ last_sent \in Nat /\ look_back \in Nat
      BY <1>1, TimelineAssumption DEF TimelineInv, Clocked
    <3>2. n \in Nat /\ n >= 2 /\ n # 0 /\ 1 \in 1 .. n /\ n \in 1 .. n
      BY <1>1, <3>1, OrderedFramesSeq
    <3>3. MILLIS_PER_SECOND \in Nat \ {0} /\ limit \in 1 .. MILLIS_PER_SECOND
      BY <3>1, MillisOf, TimeDiffAssumption
    <3> QED BY <3>1, <3>2, <3>3
  <2>2. Frame(1).value \in Nat /\ Frame(n).value = last_sent
    BY <1>1, <2>1 DEF TimelineInv, OnTheClock
  <2>3. query \in Nat /\ query <= last_sent /\ last_sent - query <= limit
    BY <1>1, <2>1, <2>2
  <2>4. t \in Timestamps
    BY <2>3, MillisOf
  <2>5. Behind(1) = last_sent - Frame(1).value /\ Behind(n) = 0
        /\ \A k \in 1 .. n : Behind(k) \in Nat
    BY <1>1, <2>1, BehindIsClock, BehindIs, BehindOrder
  <2>6. Age(t) \in Nat /\ Age(t) <= limit /\ Age(t) <= Behind(1)
    <3>1. CASE last_sent - query < MILLIS_PER_SECOND
      <4>1. query - last_sent < MILLIS_PER_SECOND
        BY <2>1, <2>3
      <4>2. Age(t) = last_sent - query
        <5> HIDE DEF query
        <5> QED BY <1>1, <2>1, <2>3, <3>1, <4>1, AgeIsTime
      <4>3. last_sent - query <= Behind(1)
        BY <1>1, <2>1, <2>2, <2>5
      <4> HIDE DEF t, query
      <4> QED BY <2>1, <2>3, <4>2, <4>3
    <3>2. CASE last_sent - query = MILLIS_PER_SECOND
      <4>1. Time(n) = last_sent % MILLIS_PER_SECOND
        BY <1>1, <2>1, <2>2 DEF TimelineInv, OnTheClock
      <4>2. t = last_sent % MILLIS_PER_SECOND
        BY <2>1, <2>3, <3>2, SameMillis
      <4>3. Age(t) = 0
        <5>1. t \in Nat
          BY <2>4 DEF Timestamps
        <5>2. Age(t) = MillisDiff(t, t)
          BY <4>1, <4>2 DEF Age
        <5> HIDE DEF t
        <5> QED BY <5>1, <5>2 DEF MillisDiff
      <4> HIDE DEF t
      <4> QED BY <2>1, <2>5, <4>3
    <3> QED BY <2>1, <2>3, <3>1, <3>2
  <2>7. /\ n \in 2 .. n /\ 2 \in 2 .. n /\ 2 - 1 = 1
    BY <2>1
  <2>8. 2 \in Pairs(t)
    <3> HIDE DEF t
    <3> QED BY <2>1, <2>4, <2>6, <2>7, PairsAre
  <2>9. ToTarget(t)[n] = Age(t)
    <3> HIDE DEF t
    <3>1. ToTarget(t)[n] = Age(t) - Behind(n)
      BY <2>1, <2>4, <2>7, ToTargetIs
    <3> QED BY <2>5, <2>6, <3>1
  <2>10. interpolator_calculate(t) = Blend(Max(Pairs(t)), t)
    <3> HIDE DEF t
    <3> QED BY <2>1, <2>4, <2>6, <2>8, <2>9, CalculateIs
  <2>11. Blend(Max(Pairs(t)), t) \in [num : Int, den : Int]
    <3> DEFINE m == Max(Pairs(t))
    <3> HIDE DEF t
    <3>1. m \in 2 .. n /\ MillisDiff(t, Time(m - 1)) <= Gap(m)
      BY <2>1, <2>4, <2>8, FoundPair, PairWithin
    <3> HIDE DEF m
    <3>2. Blend(m, t) \in [num : Int, den : Int]
      BY <2>1, <2>4, <3>1, BlendIs
    <3> QED BY <3>2 DEF m
  <2> QED BY <2>10, <2>11, NanAssumption DEF Playback
<1>2. TimelineInv => PlaybackAvailable
  BY <1>1 DEF PlaybackAvailable
<1>3. TimelineInit => TimelineInv
  BY TimelineInvInit
<1>4. TimelineInv /\ [TimelineNext]_timelineVars => TimelineInv'
  BY TimelineInvStep
<1> QED BY <1>2, <1>3, <1>4, PTL DEF TimelineSpec
=============================================================================
