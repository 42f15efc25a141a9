------------------------- MODULE FrameHistoryProofs -------------------------
(***************************************************************************)
(* For every length of the second and of the ring, every age asked for and *)
(* every number of connections: the search returns the true age of a frame *)
(* and the oldest frame there is within the limits, and what it returned   *)
(* is not overwritten while it is in use.                                  *)
(*                                                                         *)
(* The code adds up milliseconds of neighbouring slots, and nothing in the *)
(* ring tells it where a connection ends.  The invariant IInv therefore    *)
(* orders all slots, counted back from the newest one, by connection and   *)
(* by time, bounds the time between neighbours of one connection, and says *)
(* how the flight loop's copy and the callback's frame continue that       *)
(* order; the walk is at the frame as far back as it made turns, and the   *)
(* age it has is right if that frame is of the copy's connection.          *)
(***************************************************************************)
EXTENDS FrameHistory, TLAPS

\* How a remainder is known.
LEMMA RemainderOf ==
    ASSUME NEW d \in Nat \ {0}, NEW q \in Int, NEW r \in 0 .. d - 1
    PROVE  (d * q + r) % d = r
OBVIOUS

\* Two times less than a second apart have their difference in their milliseconds.
LEMMA FrameDiffExact ==
    ASSUME NEW earlier \in Nat, NEW later \in Nat, earlier <= later,
           later - earlier < MILLIS_PER_SECOND
    PROVE  FrameDiff(MillisPart(later), MillisPart(earlier)) = later - earlier
<1> DEFINE second == MILLIS_PER_SECOND
           m == MillisPart(earlier)
           n == MillisPart(later)
           d == later - earlier
<1>1. second \in Nat \ {0} /\ d \in 0 .. second - 1
  BY HistoryAssumption
<1>2. PICK q \in Int : m \in 0 .. second - 1 /\ earlier = second * q + m
  <2>1. m = earlier % second
    BY DEF MillisPart
  <2> HIDE DEF second, m
  <2>2. m \in 0 .. second - 1 /\ earlier \div second \in Int
           /\ earlier = second * (earlier \div second) + m
    BY <1>1, <2>1
  <2> QED BY <2>2
<1>3. n = later % second
  BY DEF MillisPart
<1>4. n = IF m + d < second THEN m + d ELSE m + d - second
  <2> HIDE DEF m, n, second
  <2>1. CASE m + d < second
    <3>1. later = second * q + (m + d) /\ m + d \in 0 .. second - 1
      BY <1>1, <1>2, <2>1
    <3> QED BY <1>1, <1>3, <2>1, <3>1, RemainderOf
  <2>2. CASE m + d >= second
    <3>1. later = second * (q + 1) + (m + d - second) /\ m + d - second \in 0 .. second - 1
      BY <1>1, <1>2, <2>2
    <3>2. q + 1 \in Int
      OBVIOUS
    <3>3. later % second = m + d - second
      <4> DEFINE p == q + 1
                 r == m + d - second
      <4>1. p \in Int /\ r \in 0 .. second - 1 /\ later = second * p + r
        BY <3>1, <3>2
      <4> HIDE DEF p, r
      <4>2. later % second = r
        BY <1>1, <4>1, RemainderOf
      <4> QED BY <4>2 DEF r
    <3>4. ~(m + d < second)
      BY <1>1, <1>2, <2>2
    <3> QED BY <1>3, <3>3, <3>4
  <2> QED BY <1>1, <1>2, <2>1, <2>2
<1>5. m \in 0 .. second - 1
  BY <1>2
<1>6. (IF n - m < 0 THEN n - m + second ELSE n - m) = d
  <2> HIDE DEF m, n, second, d
  <2> QED BY <1>1, <1>4, <1>5
<1> QED BY <1>6 DEF FrameDiff

\* The search adds less than a second at each frame.
LEMMA FrameDiffBounded ==
    ASSUME NEW later \in 0 .. MILLIS_PER_SECOND - 1, NEW earlier \in 0 .. MILLIS_PER_SECOND - 1
    PROVE  FrameDiff(later, earlier) \in 0 .. MILLIS_PER_SECOND - 1
BY HistoryAssumption DEF FrameDiff

\* Milliseconds are less than a second.
LEMMA MillisPartType ==
    ASSUME NEW t \in Nat
    PROVE  MillisPart(t) \in 0 .. MILLIS_PER_SECOND - 1
BY HistoryAssumption DEF MillisPart

\* The ring closes: each slot has one before and one after it.
LEMMA RingCloses ==
    ASSUME NEW s \in Slots
    PROVE  /\ SlotBefore(s) \in Slots /\ SlotAfter(s) \in Slots
           /\ SlotAfter(SlotBefore(s)) = s /\ SlotBefore(SlotAfter(s)) = s
BY HistoryAssumption DEF Slots, SlotBefore, SlotAfter

\* The slot written last, and how many frames were recorded after the one in a slot.
Newest ==
    IF main = "count" THEN SlotAfter(previous_boost_frame_index) ELSE previous_boost_frame_index

Back(s) == IF s <= Newest THEN Newest - s ELSE Newest - s + MAX_NUM_PREVIOUS_BOOST_FRAMES

\* Two frames in the order X-Plane took them.
Follows(later, earlier) ==
    /\ earlier.connection <= later.connection
    /\ earlier.connection = later.connection => earlier.sent <= later.sent

\* X-Plane did not stall for longer than it may.
Close(later, earlier) ==
    earlier.connection = later.connection => later.sent - earlier.sent <= MaxStall

\* Two frames that X-Plane took in a row.
Successive(later, earlier) == Follows(later, earlier) /\ Close(later, earlier)

\* Going back from the newest slot, connections and times only decrease...
RingInOrder ==
    \A s, t \in Slots : Back(s) <= Back(t) =>
        Follows(previous_boost_frames[s], previous_boost_frames[t])

\* ...and two neighbours of one connection were taken in a row, except where the ring
\* closes.
RingClose ==
    \A s \in Slots : Back(s) # MAX_NUM_PREVIOUS_BOOST_FRAMES - 1 =>
        Close(previous_boost_frames[s], previous_boost_frames[SlotBefore(s)])

\* What the connection thread received last comes after what the flight loop took last.
LatestTaken ==
    /\ boost_frame.connection <= connection
    /\ Successive(boost_frame, LastTaken)
    /\ boost_frame_applied => boost_frame = LastTaken

\* The flight loop's copy comes after the newest slot until it is recorded there.
CopyTaken ==
    main # "idle" =>
        /\ Successive(boost_frame_copy, previous_boost_frames[Newest])
        /\ main \in {"count", "use"} \/ ~is_new_boost_frame =>
               boost_frame_copy = previous_boost_frames[Newest]
        /\ main \in {"record", "count"} => is_new_boost_frame

\* a is the age of the frame in slot s, if that is of the same connection as the copy.
Accurate(s, a) ==
    previous_boost_frames[s].connection = boost_frame_copy.connection =>
        a = boost_frame_copy.sent - previous_boost_frames[s].sent

\* The walk is as many slots back as it made turns, and what it knows of the last one
\* is right.
WalkOK ==
    main = "walk" =>
        /\ walk.i < MAX_NUM_PREVIOUS_BOOST_FRAMES => Back(walk.index) = walk.i
        /\ walk.i = 0 => /\ walk.current = NULL /\ walk.current_age = 0
                         /\ walk.millis = MillisPart(boost_frame_copy.sent)
        /\ walk.i > 0 => /\ walk.current \in Slots /\ Back(walk.current) = walk.i - 1
                         /\ walk.millis = MillisPart(previous_boost_frames[walk.current].sent)
                         /\ walk.current_age <= MAX_AGE
                         /\ Accurate(walk.current, walk.current_age)
        /\ walk.previous # NULL => walk.previous \in Slots
        /\ walk.previous_age <= walk.current_age
        /\ undisturbed => walk.i <= num_previous_boost_frames

\* The reference is only there from the end of the walk to its use.
FoundOK ==
    /\ main \in {"idle", "walk"} => reference = NULL
    /\ reference # NULL /\ main = "record" => found = previous_boost_frames[reference]

IInv ==
    /\ TypeOK
    /\ RingInOrder /\ RingClose
    /\ LatestTaken /\ CopyTaken
    /\ WalkOK /\ FoundOK
    /\ AgeAccurate

\* Frames of one connection are gap apart: those recorded, counted from the newest...
Spaced(gap) ==
    \A s \in Slots :
        /\ previous_boost_frames[s].connection = previous_boost_frames[Newest].connection
        /\ previous_boost_frames[s].connection # 0
        => previous_boost_frames[Newest].sent - previous_boost_frames[s].sent >= Back(s) * gap

\* ...and those about to be recorded.
NewSpaced(gap) ==
    /\ ~boost_frame_applied =>
         /\ boost_frame.connection # 0
         /\ boost_frame.connection = LastTaken.connection =>
              boost_frame.sent - LastTaken.sent >= gap
    /\ main \in {"walk", "record"} /\ is_new_boost_frame =>
         /\ boost_frame_copy.connection # 0
         /\ boost_frame_copy.connection = previous_boost_frames[Newest].connection =>
              boost_frame_copy.sent - previous_boost_frames[Newest].sent >= gap

\* Counting back reaches each slot once.
LEMMA BackRange ==
    ASSUME TypeOK
    PROVE  /\ Newest \in Slots
           /\ \A s \in Slots : Back(s) \in 0 .. MAX_NUM_PREVIOUS_BOOST_FRAMES - 1
           /\ Back(Newest) = 0
           /\ \A s, t \in Slots : Back(s) = Back(t) => s = t
           /\ \A s \in Slots : Back(s) # MAX_NUM_PREVIOUS_BOOST_FRAMES - 1 =>
                  Back(SlotBefore(s)) = Back(s) + 1
<1>1. Newest \in Slots
  BY RingCloses DEF TypeOK, Newest
<1> QED BY <1>1, HistoryAssumption DEF Back, Slots, SlotBefore

\* Frames that X-Plane takes in a row from one connection are less than a second apart;
\* the code cannot tell a longer pause from one that is shorter by a second.
StallsShort == MaxStall < MILLIS_PER_SECOND

\* All slots are zeroed.
LEMMA InitOK ==
    ASSUME Init
    PROVE  IInv
<1>1. 0 \in Slots /\ ZeroFrame \in Frame /\ MAX_AGE + MILLIS_PER_SECOND \in Nat
  BY HistoryAssumption DEF Slots, ZeroFrame, Frame
<1>2. NoWalk \in [i : 0 .. MAX_NUM_PREVIOUS_BOOST_FRAMES, index : Slots,
                   millis : 0 .. MILLIS_PER_SECOND - 1,
                   current : Slots \cup {NULL}, current_age : Ages,
                   previous : Slots \cup {NULL}, previous_age : Ages]
  BY <1>1, HistoryAssumption DEF NoWalk, Ages
<1>3. TypeOK
  <2>1. /\ 0 \in 0 .. MAX_NUM_PREVIOUS_BOOST_FRAMES /\ 0 \in 0 .. MaxConnections
        /\ -1 \in -1 .. MAX_AGE /\ "idle" \in {"idle", "walk", "record", "count", "use"}
    BY HistoryAssumption
  <2> QED BY <1>1, <1>2, <2>1 DEF Init, TypeOK
<1>4. \A s \in Slots : SlotBefore(s) \in Slots /\ previous_boost_frames[s] = ZeroFrame
  BY RingCloses DEF Init
<1>5. Follows(ZeroFrame, ZeroFrame) /\ Close(ZeroFrame, ZeroFrame)
  BY HistoryAssumption DEF Follows, Close, ZeroFrame
<1>6. RingInOrder /\ RingClose
  BY <1>4, <1>5 DEF RingInOrder, RingClose
<1>7. LatestTaken
  BY <1>1, <1>4, <1>5 DEF Init, LatestTaken, LastTaken, Successive, ZeroFrame
<1> QED BY <1>3, <1>6, <1>7 DEF IInv, Init, CopyTaken, WalkOK, FoundOK, AgeAccurate

\* As long as no frame is recorded, the order of the recorded ones stays.
LEMMA RingKept ==
    ASSUME IInv, UNCHANGED previous_boost_frames, Newest' = Newest
    PROVE  /\ RingInOrder' /\ RingClose'
           /\ \A s \in Slots : Back(s)' = Back(s)
<1>1. \A s \in Slots : Back(s)' = Back(s)
  BY DEF Back
<1> QED BY <1>1 DEF IInv, RingInOrder, RingClose

\* A reset only forgets how many frames there are.
LEMMA ResetKeeps ==
    ASSUME IInv, Reset, connection' \in 0 .. MaxConnections, connection <= connection'
    PROVE  IInv'
<1>1. TypeOK'
  <2>1. 0 \in 0 .. MAX_NUM_PREVIOUS_BOOST_FRAMES
    BY HistoryAssumption
  <2> QED BY <2>1 DEF IInv, Reset, TypeOK, ringVars, copyVars, foundVars
<1>2. Newest' = Newest /\ UNCHANGED previous_boost_frames
  BY DEF Reset, ringVars, Newest
<1>3. LatestTaken'
  <2>1. boost_frame.connection \in Nat /\ connection \in Nat /\ connection' \in Nat
    BY HistoryAssumption DEF IInv, TypeOK, Frame
  <2> QED BY <2>1 DEF IInv, LatestTaken, LastTaken, Reset, ringVars, copyVars
<1>4. CopyTaken'
  BY <1>2 DEF IInv, CopyTaken, Reset, copyVars
<1>5. WalkOK'
  <2>1. walk' = walk /\ undisturbed' = FALSE /\ main' = main
        /\ UNCHANGED <<previous_boost_frames, boost_frame_copy>>
    BY DEF Reset, ringVars, copyVars
  <2>2. main = "walk" => walk.index \in Slots
    BY DEF IInv, TypeOK
  <2> QED BY <1>2, <2>1, <2>2, RingKept DEF IInv, WalkOK, Accurate
<1> QED
  BY <1>1, <1>2, <1>3, <1>4, <1>5, RingKept
     DEF IInv, FoundOK, AgeAccurate, Reset, ringVars, copyVars, foundVars

\* A received frame continues what was taken last.
LEMMA ReceiveKeeps ==
    ASSUME IInv, Receive
    PROVE  IInv'
<1>1. PICK gap \in Nat : boost_frame' = [sent |-> boost_frame.sent + gap, connection |-> connection]
  BY HistoryAssumption DEF Receive
<1>2. /\ boost_frame \in Frame /\ boost_frame' \in Frame /\ LastTaken \in Frame
      /\ connection \in Nat
  BY <1>1, HistoryAssumption DEF IInv, TypeOK, Frame, LastTaken
<1>3. UNCHANGED <<ringVars, num_previous_boost_frames, connection, main, copyVars, walk,
                  undisturbed, foundVars, saved_num>> /\ boost_frame_applied' = FALSE
  BY DEF Receive
<1>4. TypeOK'
  BY <1>2, <1>3 DEF IInv, TypeOK, ringVars, copyVars, foundVars
<1>5. Newest' = Newest /\ UNCHANGED previous_boost_frames /\ LastTaken' = LastTaken
  BY <1>3 DEF ringVars, copyVars, Newest, LastTaken
<1>6. LatestTaken'
  <2>1. LastTaken.connection = connection => boost_frame'.sent - LastTaken.sent <= MaxStall
    BY DEF Receive
  <2>2. Follows(boost_frame, LastTaken) /\ boost_frame.connection <= connection
    BY DEF IInv, LatestTaken, Successive
  <2>3. Follows(boost_frame', LastTaken) /\ Close(boost_frame', LastTaken)
    BY <1>1, <1>2, <2>1, <2>2 DEF Follows, Close, Frame
  <2> QED BY <1>1, <1>2, <1>3, <1>5, <2>3 DEF LatestTaken, Successive, Frame
<1>7. CopyTaken'
  BY <1>3, <1>5 DEF IInv, CopyTaken, copyVars
<1>8. WalkOK'
  <2>1. main = "walk" => walk.index \in Slots
    BY DEF IInv, TypeOK
  <2> QED BY <1>3, <1>5, <2>1, RingKept DEF IInv, WalkOK, Accurate, copyVars
<1> QED
  BY <1>3, <1>4, <1>5, <1>6, <1>7, <1>8, RingKept
     DEF IInv, FoundOK, AgeAccurate, ringVars, copyVars, foundVars

\* The walk starts at the newest slot, with the frame just taken.
LEMMA SnapshotKeeps ==
    ASSUME IInv, Snapshot
    PROVE  IInv'
<1>1. /\ main = "idle" /\ main' = "walk"
      /\ boost_frame_copy' = boost_frame
      /\ is_new_boost_frame' = ~boost_frame_applied
      /\ boost_frame_applied' = TRUE
      /\ walk' = [NoWalk EXCEPT !.index = previous_boost_frame_index,
                                !.millis = MillisPart(boost_frame.sent)]
      /\ undisturbed' = TRUE
      /\ UNCHANGED <<ringVars, num_previous_boost_frames, callbackVars, foundVars, saved_num>>
  BY DEF Snapshot
<1>2. /\ walk'.i = 0 /\ walk'.index = previous_boost_frame_index
      /\ walk'.millis = MillisPart(boost_frame.sent) /\ walk'.current = NULL
      /\ walk'.current_age = 0 /\ walk'.previous = NULL /\ walk'.previous_age = 0
  BY <1>1 DEF NoWalk
<1>3. TypeOK'
  <2>1. MillisPart(boost_frame.sent) \in 0 .. MILLIS_PER_SECOND - 1
    BY MillisPartType DEF IInv, TypeOK, Frame
  <2>2. walk' \in [i : 0 .. MAX_NUM_PREVIOUS_BOOST_FRAMES, index : Slots,
                   millis : 0 .. MILLIS_PER_SECOND - 1,
                   current : Slots \cup {NULL}, current_age : Ages,
                   previous : Slots \cup {NULL}, previous_age : Ages]
    <3>1. 0 \in 0 .. MAX_NUM_PREVIOUS_BOOST_FRAMES /\ 0 \in Ages
      BY HistoryAssumption DEF Ages
    <3>2. previous_boost_frame_index \in Slots
      BY DEF IInv, TypeOK
    <3> QED BY <1>1, <2>1, <3>1, <3>2 DEF NoWalk
  <2> QED BY <1>1, <2>2 DEF IInv, TypeOK, ringVars, callbackVars, foundVars
<1>4. /\ Newest' = Newest /\ UNCHANGED previous_boost_frames
      /\ LastTaken = previous_boost_frames[Newest] /\ Newest = previous_boost_frame_index
      /\ LastTaken' = boost_frame
  BY <1>1 DEF ringVars, Newest, LastTaken
<1>5. LatestTaken'
  <2>1. Follows(boost_frame, boost_frame) /\ Close(boost_frame, boost_frame)
    BY HistoryAssumption DEF IInv, TypeOK, Frame, Follows, Close
  <2> QED BY <1>1, <1>4, <2>1 DEF IInv, LatestTaken, Successive, callbackVars
<1>6. CopyTaken'
  BY <1>1, <1>4 DEF IInv, CopyTaken, LatestTaken
<1>7. WalkOK'
  <2>1. Back(walk.index)' = 0
    BY <1>2, <1>4 DEF Back, IInv, TypeOK, Slots
  <2>2. num_previous_boost_frames' >= 0
    BY <1>3, HistoryAssumption DEF TypeOK
  <2> QED BY <1>1, <1>2, <2>1, <2>2 DEF WalkOK
<1> QED
  BY <1>1, <1>3, <1>4, <1>5, <1>6, <1>7, RingKept DEF IInv, FoundOK, AgeAccurate, foundVars

\* The locals of the search.
WalkType == [i : 0 .. MAX_NUM_PREVIOUS_BOOST_FRAMES, index : Slots,
             millis : 0 .. MILLIS_PER_SECOND - 1,
             current : Slots \cup {NULL}, current_age : Ages,
             previous : Slots \cup {NULL}, previous_age : Ages]

\* Where the walk is, in one place: the frame it comes to is the next older one, and
\* so far its age is right and within the limit.
LEMMA WalkPosition ==
    ASSUME IInv, main = "walk"
    PROVE  /\ walk \in WalkType /\ walk.i \in Nat /\ walk.index \in Slots
           /\ walk.current_age \in 0 .. MAX_AGE /\ walk.previous_age \in 0 .. walk.current_age
           /\ num_previous_boost_frames \in 0 .. MAX_NUM_PREVIOUS_BOOST_FRAMES
           /\ walk.i < num_previous_boost_frames => Back(walk.index) = walk.i
           /\ walk.i = 0 => walk.current = NULL /\ walk.current_age = 0
           /\ walk.i > 0 => /\ walk.current \in Slots /\ walk.current # NULL
                            /\ Back(walk.current) = walk.i - 1
                            /\ Accurate(walk.current, walk.current_age)
<1>1. walk \in WalkType /\ num_previous_boost_frames \in 0 .. MAX_NUM_PREVIOUS_BOOST_FRAMES
  BY DEF IInv, TypeOK, WalkType
<1>2. /\ walk.i \in 0 .. MAX_NUM_PREVIOUS_BOOST_FRAMES /\ walk.index \in Slots
      /\ walk.current_age \in Ages /\ walk.previous_age \in Ages
  BY <1>1 DEF WalkType
<1>3. \A a \in Ages : a \in Nat
  BY HistoryAssumption DEF Ages
<1>4. NULL \notin Slots
  BY HistoryAssumption DEF Slots
<1> QED BY <1>1, <1>2, <1>3, <1>4, HistoryAssumption DEF IInv, WalkOK

\* The next frame looked at is one further back, and its age is right as well.
LEMMA LookedRight ==
    ASSUME StallsShort, IInv, main = "walk", walk.i < num_previous_boost_frames
    PROVE  /\ Looked \in WalkType
           /\ Looked = [i |-> walk.i, index |-> walk.index, millis |-> walk.millis,
                        current |-> walk.index, current_age |-> Looked.current_age,
                        previous |-> walk.current, previous_age |-> walk.current_age]
           /\ Looked.current_age >= walk.current_age
           /\ Accurate(walk.index, Looked.current_age)
<1> DEFINE frame == previous_boost_frames[walk.index]
           millis == MillisPart(frame.sent)
           diff == FrameDiff(walk.millis, millis)
<1>1. /\ walk \in WalkType /\ walk.i \in Nat /\ walk.index \in Slots
      /\ walk.current_age \in 0 .. MAX_AGE /\ frame \in Frame
      /\ boost_frame_copy \in Frame
  BY WalkPosition DEF IInv, TypeOK
<1>2. Looked = [i |-> walk.i, index |-> walk.index, millis |-> walk.millis,
                current |-> walk.index, current_age |-> walk.current_age + diff,
                previous |-> walk.current, previous_age |-> walk.current_age]
  <2>1. walk = [i |-> walk.i, index |-> walk.index, millis |-> walk.millis,
                current |-> walk.current, current_age |-> walk.current_age,
                previous |-> walk.previous, previous_age |-> walk.previous_age]
    BY <1>1 DEF WalkType
  <2>2. Looked = [walk EXCEPT !.previous = walk.current, !.previous_age = walk.current_age,
                              !.current = walk.index,
                              !.current_age = walk.current_age + diff]
    BY DEF Looked
  <2> HIDE DEF diff
  <2> QED BY <2>1, <2>2, Zenon
<1>3. diff \in 0 .. MILLIS_PER_SECOND - 1
  BY <1>1, MillisPartType, FrameDiffBounded DEF Frame, WalkType
<1>4. walk.current_age + diff \in Ages /\ walk.current_age \in Ages
  BY <1>1, <1>3, HistoryAssumption DEF Ages
<1>5. ASSUME frame.connection = boost_frame_copy.connection
      PROVE  walk.current_age + diff = boost_frame_copy.sent - frame.sent
  <2>1. Back(walk.index) = walk.i
    BY WalkPosition
  <2>2. CASE walk.i = 0
    <3>1. walk.index = Newest
      BY <1>1, <2>1, <2>2, BackRange DEF IInv
    <3>2. Successive(boost_frame_copy, frame)
      BY <3>1 DEF IInv, CopyTaken
    <3>3. frame.sent <= boost_frame_copy.sent
          /\ boost_frame_copy.sent - frame.sent < MILLIS_PER_SECOND
      BY <1>1, <1>5, <3>2, HistoryAssumption
         DEF StallsShort, Successive, Follows, Close, Frame
    <3>4. walk.millis = MillisPart(boost_frame_copy.sent) /\ walk.current_age = 0
      BY <2>2 DEF IInv, WalkOK
    <3>5. diff = boost_frame_copy.sent - frame.sent
      BY <1>1, <3>3, <3>4, FrameDiffExact DEF Frame
    <3> QED BY <1>1, <3>4, <3>5 DEF Frame
  <2>3. CASE walk.i > 0
    <3> DEFINE current == previous_boost_frames[walk.current]
    <3>1. /\ walk.current \in Slots /\ Back(walk.current) = walk.i - 1
          /\ walk.millis = MillisPart(current.sent)
          /\ Accurate(walk.current, walk.current_age)
      BY <2>3 DEF IInv, WalkOK
    <3>2. /\ Back(walk.current) # MAX_NUM_PREVIOUS_BOOST_FRAMES - 1
          /\ Back(walk.current) <= Back(walk.index)
          /\ Back(walk.index) = Back(walk.current) + 1
      BY <1>1, <2>1, <2>3, <3>1, WalkPosition, HistoryAssumption
    <3>3. walk.index = SlotBefore(walk.current)
      BY <1>1, <3>1, <3>2, BackRange, RingCloses DEF IInv
    <3>4. Close(current, frame) /\ Follows(current, frame)
      BY <1>1, <3>1, <3>2, <3>3 DEF IInv, RingClose, RingInOrder
    <3>5. current \in Frame
      BY <3>1 DEF IInv, TypeOK
    <3>6. current.connection = frame.connection
      <4>1. Newest \in Slots /\ Back(Newest) = 0 /\ Back(walk.current) >= 0
        BY <2>3, <3>1, BackRange, HistoryAssumption DEF IInv
      <4>2. Back(Newest) <= Back(walk.current)
        BY <4>1
      <4>3. Follows(previous_boost_frames[Newest], current)
        BY <3>1, <4>1, <4>2 DEF IInv, RingInOrder
      <4>4. Follows(boost_frame_copy, previous_boost_frames[Newest])
        BY DEF IInv, CopyTaken, Successive
      <4>5. previous_boost_frames[Newest] \in Frame
        BY <4>1 DEF IInv, TypeOK
      <4> QED BY <1>1, <1>5, <3>4, <3>5, <4>3, <4>4, <4>5 DEF Follows, Frame
    <3>7. frame.sent <= current.sent /\ current.sent - frame.sent < MILLIS_PER_SECOND
      BY <1>1, <3>4, <3>5, <3>6, HistoryAssumption DEF StallsShort, Follows, Close, Frame
    <3>8. diff = current.sent - frame.sent
      BY <1>1, <3>1, <3>5, <3>7, FrameDiffExact DEF Frame
    <3>9. walk.current_age = boost_frame_copy.sent - current.sent
      BY <1>5, <3>1, <3>6 DEF Accurate
    <3> HIDE DEF frame, diff, current
    <3> QED BY <1>1, <3>5, <3>8, <3>9 DEF Frame
  <2> QED BY <1>1, <2>2, <2>3
<1>6. walk.current_age + diff >= walk.current_age
  BY <1>1, <1>3, HistoryAssumption
<1>7. Looked.current_age = walk.current_age + diff
  BY <1>2
<1>8. Accurate(walk.index, Looked.current_age)
  BY <1>5, <1>7 DEF Accurate
<1>9. Looked \in WalkType
  BY <1>1, <1>2, <1>4 DEF WalkType
<1> HIDE DEF diff
<1> QED BY <1>2, <1>6, <1>7, <1>8, <1>9

\* The end of the walk: it stopped at a frame that is too old, or ran out of frames.
Over(w) ==
    \/ walk.i < num_previous_boost_frames /\ Looked.current_age > MAX_AGE /\ w = Looked
    \/ walk.i >= num_previous_boost_frames /\ w = walk

\* What is returned is the last frame within the maximum age, unless it is too young.
LEMMA ReturnedIsLast ==
    ASSUME StallsShort, IInv, main = "walk", NEW w, Over(w)
    PROVE  Returned(w) = IF walk.i > 0 /\ walk.current_age >= MIN_AGE
                         THEN [slot |-> walk.current, age |-> walk.current_age]
                         ELSE [slot |-> NULL, age |-> -1]
<1>1. /\ walk.i \in Nat /\ walk.index \in Slots /\ NULL \notin Slots
      /\ walk.current_age \in 0 .. MAX_AGE /\ walk.previous_age \in 0 .. walk.current_age
      /\ walk.i = 0 => walk.current = NULL /\ walk.current_age = 0
      /\ walk.i > 0 => walk.current # NULL
      /\ MIN_AGE \in Nat \ {0} /\ MAX_AGE \in Nat
  BY WalkPosition, HistoryAssumption DEF Slots
<1>2. CASE walk.i < num_previous_boost_frames /\ Looked.current_age > MAX_AGE /\ w = Looked
  <2>1. /\ w.previous = walk.current /\ w.previous_age = walk.current_age
        /\ w.current_age > MAX_AGE /\ w.current_age \in Int
    BY <1>2, LookedRight, HistoryAssumption DEF WalkType, Ages
  <2>2. ~(w.current_age \in MIN_AGE .. MAX_AGE)
    BY <1>1, <2>1
  <2>3. Returned(w) = IF w.previous # NULL /\ w.previous_age >= MIN_AGE
                      THEN [slot |-> w.previous, age |-> w.previous_age]
                      ELSE [slot |-> NULL, age |-> -1]
    BY <2>2 DEF Returned
  <2> QED BY <1>1, <2>1, <2>3
<1>3. CASE walk.i >= num_previous_boost_frames /\ w = walk
  <2>1. CASE walk.i > 0 /\ walk.current_age >= MIN_AGE
    BY <1>1, <1>3, <2>1 DEF Returned
  <2>2. CASE ~(walk.i > 0 /\ walk.current_age >= MIN_AGE)
    <3>1. ~(w.current # NULL /\ w.current_age \in MIN_AGE .. MAX_AGE)
          /\ ~(w.previous_age >= MIN_AGE)
      BY <1>1, <1>3, <2>2
    <3> QED BY <2>2, <3>1 DEF Returned
  <2> QED BY <2>1, <2>2
<1> QED BY <1>2, <1>3 DEF Over

\* A turn of the walk that goes on.
Turned ==
    [Looked EXCEPT !.i = walk.i + 1, !.index = SlotBefore(walk.index),
                   !.millis = MillisPart(previous_boost_frames[walk.index].sent)]

LEMMA TurnKeeps ==
    ASSUME StallsShort, IInv, main = "walk", walk.i < num_previous_boost_frames,
           Looked.current_age <= MAX_AGE, walk' = Turned,
           UNCHANGED <<main, foundVars>>,
           UNCHANGED <<ringVars, num_previous_boost_frames, callbackVars, boost_frame_applied,
                       copyVars, undisturbed, saved_num>>
    PROVE  IInv'
<1> DEFINE millis == MillisPart(previous_boost_frames[walk.index].sent)
<1>1. /\ walk \in WalkType /\ walk.i \in Nat /\ walk.index \in Slots
      /\ walk.i + 1 \in 0 .. MAX_NUM_PREVIOUS_BOOST_FRAMES
      /\ walk.i + 1 <= num_previous_boost_frames
      /\ Back(walk.index) = walk.i
  BY WalkPosition, HistoryAssumption
<1>2. walk' = [i |-> walk.i + 1, index |-> SlotBefore(walk.index), millis |-> millis,
               current |-> walk.index, current_age |-> Looked.current_age,
               previous |-> walk.current, previous_age |-> walk.current_age]
  <2>1. Looked = [i |-> walk.i, index |-> walk.index, millis |-> walk.millis,
                  current |-> walk.index, current_age |-> Looked.current_age,
                  previous |-> walk.current, previous_age |-> walk.current_age]
    BY LookedRight
  <2>2. walk' = [Looked EXCEPT !.i = walk.i + 1, !.index = SlotBefore(walk.index),
                               !.millis = millis]
    BY DEF Turned
  <2> DEFINE seen == Looked.current_age
             looked == Looked
  <2>3. looked = [i |-> walk.i, index |-> walk.index, millis |-> walk.millis,
                  current |-> walk.index, current_age |-> seen,
                  previous |-> walk.current, previous_age |-> walk.current_age]
    BY <2>1
  <2>4. walk' = [looked EXCEPT !.i = walk.i + 1, !.index = SlotBefore(walk.index),
                               !.millis = millis]
    BY <2>2
  <2>5. looked.current_age = seen
    OBVIOUS
  <2> HIDE DEF millis, seen, looked
  <2>6. walk' = [i |-> walk.i + 1, index |-> SlotBefore(walk.index), millis |-> millis,
                 current |-> walk.index, current_age |-> seen,
                 previous |-> walk.current, previous_age |-> walk.current_age]
    BY <2>3, <2>4, Zenon
  <2> QED BY <2>6 DEF seen, millis
<1>3. millis \in 0 .. MILLIS_PER_SECOND - 1
  BY <1>1, MillisPartType DEF IInv, TypeOK, Frame
<1>4. walk' \in WalkType
  <2>1. Looked.current_age \in Ages /\ walk.current_age \in Ages
        /\ walk.current \in Slots \cup {NULL} /\ walk.index \in Slots \cup {NULL}
        /\ SlotBefore(walk.index) \in Slots
    BY <1>1, LookedRight, RingCloses DEF WalkType
  <2> HIDE DEF millis
  <2> QED BY <1>1, <1>2, <1>3, <2>1 DEF WalkType
<1>5. TypeOK'
  BY <1>4 DEF IInv, TypeOK, WalkType, ringVars, callbackVars, copyVars, foundVars
<1>6. Newest' = Newest /\ UNCHANGED previous_boost_frames /\ LastTaken' = LastTaken
  BY DEF ringVars, copyVars, Newest, LastTaken
<1>7. LatestTaken' /\ CopyTaken'
  BY <1>6 DEF IInv, LatestTaken, CopyTaken, callbackVars, copyVars
<1>8. WalkOK'
  <2>1. /\ walk'.i = walk.i + 1 /\ walk'.index = SlotBefore(walk.index) /\ walk'.millis = millis
        /\ walk'.current = walk.index /\ walk'.current_age = Looked.current_age
        /\ walk'.previous = walk.current /\ walk'.previous_age = walk.current_age
    <3> DEFINE seen == Looked.current_age
    <3>1. walk' = [i |-> walk.i + 1, index |-> SlotBefore(walk.index), millis |-> millis,
                   current |-> walk.index, current_age |-> seen,
                   previous |-> walk.current, previous_age |-> walk.current_age]
      BY <1>2
    <3> HIDE DEF millis, seen
    <3>2. /\ walk'.i = walk.i + 1 /\ walk'.index = SlotBefore(walk.index)
          /\ walk'.millis = millis
          /\ walk'.current = walk.index /\ walk'.current_age = seen
          /\ walk'.previous = walk.current /\ walk'.previous_age = walk.current_age
      BY <3>1
    <3> QED BY <3>2 DEF seen
  <2>2. Back(walk.current)' = walk'.i - 1
    BY <1>1, <1>6, <2>1 DEF Back
  <2>3. walk'.i < MAX_NUM_PREVIOUS_BOOST_FRAMES => Back(walk.index)' = walk'.i
    <3> SUFFICES ASSUME walk.i + 1 < MAX_NUM_PREVIOUS_BOOST_FRAMES
                 PROVE  Back(SlotBefore(walk.index)) = walk.i + 1
      BY <1>6, <2>1 DEF Back
    <3>1. Back(walk.index) # MAX_NUM_PREVIOUS_BOOST_FRAMES - 1
      BY <1>1, HistoryAssumption
    <3> QED BY <1>1, <3>1, BackRange DEF IInv
  <2>4. Accurate(walk.current, walk.current_age)'
    BY <1>6, <2>1, LookedRight DEF Accurate, copyVars
  <2>5. walk.current # NULL => walk.current \in Slots
    BY <1>1 DEF WalkType
  <2>6. /\ Looked.current_age >= walk.current_age
        /\ num_previous_boost_frames' = num_previous_boost_frames
    BY LookedRight
  <2>7. millis = MillisPart(previous_boost_frames'[walk'.current].sent)
    BY <1>6, <2>1
  <2>8. /\ ~(walk'.i = 0)
        /\ walk'.i <= num_previous_boost_frames'
        /\ walk'.current \in Slots
        /\ walk'.current_age <= MAX_AGE
        /\ walk'.previous_age <= walk'.current_age
        /\ walk'.previous # NULL => walk'.previous \in Slots
    BY <1>1, <2>1, <2>5, <2>6
  <2> HIDE DEF millis
  <2> QED BY <2>1, <2>2, <2>3, <2>4, <2>7, <2>8 DEF WalkOK
<1> QED
  BY <1>5, <1>6, <1>7, <1>8, RingKept
     DEF IInv, FoundOK, AgeAccurate, foundVars, copyVars

\* The end of the walk.
LEMMA EndKeeps ==
    ASSUME StallsShort, IInv, main = "walk", NEW w, Over(w), Return(w), walk' = NoWalk,
           UNCHANGED <<ringVars, num_previous_boost_frames, callbackVars, boost_frame_applied,
                       copyVars, undisturbed, saved_num>>
    PROVE  IInv'
<1>1. /\ main' = IF is_new_boost_frame THEN "record" ELSE "use"
      /\ main' \in {"record", "use"}
      /\ UNCHANGED <<previous_boost_frames, previous_boost_frame_index, boost_frame_copy,
                     is_new_boost_frame, boost_frame, connection>>
      /\ found' = IF reference' = NULL THEN ZeroFrame ELSE previous_boost_frames[reference']
  BY DEF Return, ringVars, copyVars, callbackVars
<1>2. \/ /\ reference' = walk.current /\ age' = walk.current_age
         /\ walk.i > 0 /\ walk.current_age >= MIN_AGE
      \/ reference' = NULL /\ age' = -1
  BY ReturnedIsLast DEF Return
<1>3. \/ /\ reference' \in Slots /\ age' \in MIN_AGE .. MAX_AGE /\ Accurate(reference', age')
      \/ reference' = NULL /\ age' = -1
  BY <1>2, WalkPosition, HistoryAssumption
<1>4. TypeOK'
  <2>1. /\ age' \in -1 .. MAX_AGE /\ reference' \in Slots \cup {NULL}
    BY <1>3, HistoryAssumption
  <2>2. found' \in Frame
    BY <1>1, <1>3, HistoryAssumption DEF IInv, TypeOK, ZeroFrame, Frame
  <2>3. walk' \in WalkType
    <3>1. 0 \in 0 .. MAX_NUM_PREVIOUS_BOOST_FRAMES /\ 0 \in Ages /\ 0 \in Slots
          /\ 0 \in 0 .. MILLIS_PER_SECOND - 1
      BY HistoryAssumption DEF Ages, Slots
    <3> QED BY <3>1 DEF NoWalk, WalkType
  <2> QED BY <1>1, <2>1, <2>2, <2>3 DEF IInv, TypeOK, WalkType
<1>5. Newest' = Newest /\ LastTaken' = LastTaken
  BY <1>1 DEF Newest, LastTaken
<1>6. LatestTaken'
  BY <1>1, <1>5 DEF IInv, LatestTaken
<1>7. CopyTaken'
  BY <1>1, <1>5 DEF IInv, CopyTaken
<1>8. WalkOK'
  BY <1>1 DEF WalkOK
<1>9. FoundOK'
  BY <1>1, <1>3 DEF FoundOK
<1>10. AgeAccurate'
  BY <1>1, <1>3 DEF AgeAccurate, Accurate
<1> QED BY <1>1, <1>4, <1>5, <1>6, <1>7, <1>8, <1>9, <1>10, RingKept DEF IInv

\* All ways a turn of the walk can go.
LEMMA WalkKeeps ==
    ASSUME StallsShort, IInv, Walk
    PROVE  IInv'
<1>1. CASE /\ walk.i < num_previous_boost_frames /\ Looked.current_age > MAX_AGE
           /\ Return(Looked) /\ walk' = NoWalk
  BY <1>1, EndKeeps DEF Walk, Over
<1>2. CASE walk.i >= num_previous_boost_frames /\ Return(walk) /\ walk' = NoWalk
  BY <1>2, EndKeeps DEF Walk, Over
<1>3. CASE /\ walk.i < num_previous_boost_frames
           /\ Looked.current_age <= MAX_AGE
           /\ walk' = [Looked EXCEPT !.i = walk.i + 1, !.index = SlotBefore(walk.index),
                          !.millis = MillisPart(previous_boost_frames[walk.index].sent)]
           /\ UNCHANGED <<main, foundVars>>
  BY <1>3, TurnKeeps DEF Walk, Turned
<1> QED BY <1>1, <1>2, <1>3 DEF Walk

\* The oldest slot is overwritten, everything else is one frame further back.
LEMMA RecordMoves ==
    ASSUME IInv, Record
    PROVE  /\ Newest' = SlotAfter(Newest) /\ Newest' \in Slots
           /\ previous_boost_frames' = [previous_boost_frames EXCEPT ![Newest'] = boost_frame_copy]
           /\ Back(Newest) = 0
           /\ Back(Newest') = MAX_NUM_PREVIOUS_BOOST_FRAMES - 1
           /\ \A s \in Slots : Back(s)' = IF s = Newest' THEN 0 ELSE Back(s) + 1
           /\ \A s \in Slots : Back(s) \in 0 .. MAX_NUM_PREVIOUS_BOOST_FRAMES - 1
<1>1. /\ Newest = previous_boost_frame_index /\ Newest \in Slots
      /\ Newest' = SlotAfter(previous_boost_frame_index)
  BY DEF Record, Newest, IInv, TypeOK
<1>2. Newest' \in Slots
  BY <1>1, RingCloses
<1>3. /\ Back(Newest) = 0
      /\ \A s \in Slots : Back(s) \in 0 .. MAX_NUM_PREVIOUS_BOOST_FRAMES - 1
  BY BackRange DEF IInv
<1>4. /\ Back(Newest') = MAX_NUM_PREVIOUS_BOOST_FRAMES - 1
      /\ \A s \in Slots : Back(s)' = IF s = Newest' THEN 0 ELSE Back(s) + 1
  BY <1>1, <1>2, HistoryAssumption DEF Back, Slots, SlotAfter
<1> QED BY <1>1, <1>2, <1>3, <1>4 DEF Record

\* The recorded frame is the newest, and the slot before it was.
LEMMA RecordKeeps ==
    ASSUME IInv, Record
    PROVE  IInv'
<1>1. /\ main = "record" /\ main' = "count" /\ saved_num' = num_previous_boost_frames
      /\ UNCHANGED <<previous_boost_frame_index, num_previous_boost_frames, callbackVars,
                     boost_frame_applied, copyVars, walk, undisturbed, foundVars>>
  BY DEF Record
<1>2. /\ Newest' = SlotAfter(Newest) /\ Newest \in Slots /\ Newest' \in Slots
      /\ Newest = previous_boost_frame_index
      /\ previous_boost_frames' = [previous_boost_frames EXCEPT ![Newest'] = boost_frame_copy]
      /\ \A s \in Slots : previous_boost_frames[s] \in Frame
      /\ boost_frame_copy \in Frame
      /\ previous_boost_frames \in [Slots -> Frame]
  BY <1>1, RecordMoves, BackRange DEF IInv, TypeOK, Newest
<1>3. TypeOK'
  BY <1>1, <1>2 DEF IInv, TypeOK, callbackVars, copyVars, foundVars
<1>4. \A s \in Slots : /\ Back(s)' = IF s = Newest' THEN 0 ELSE Back(s) + 1
                       /\ Back(s) \in 0 .. MAX_NUM_PREVIOUS_BOOST_FRAMES - 1
                       /\ previous_boost_frames'[s] = IF s = Newest' THEN boost_frame_copy
                                                      ELSE previous_boost_frames[s]
  BY <1>2, RecordMoves
<1>5. Successive(boost_frame_copy, previous_boost_frames[Newest]) /\ is_new_boost_frame
  BY <1>1 DEF IInv, CopyTaken
<1>6. RingInOrder'
  <2> SUFFICES ASSUME NEW s \in Slots, NEW t \in Slots, Back(s)' <= Back(t)'
               PROVE  Follows(previous_boost_frames'[s], previous_boost_frames'[t])
    BY DEF RingInOrder, Follows
  <2>1. CASE t = Newest'
    <3>1. s = Newest'
      BY <1>4, <2>1
    <3> QED BY <1>2, <1>4, <2>1, <3>1 DEF Follows, Frame
  <2>2. CASE t # Newest' /\ s = Newest'
    <3>1. Follows(previous_boost_frames[Newest], previous_boost_frames[t])
      BY <1>2, <1>4, BackRange DEF IInv, RingInOrder
    <3> QED BY <1>2, <1>4, <1>5, <2>2, <3>1 DEF Successive, Follows, Frame
  <2>3. CASE t # Newest' /\ s # Newest'
    <3>1. Back(s) <= Back(t)
      BY <1>4, <2>3
    <3> QED BY <1>4, <2>3, <3>1 DEF IInv, RingInOrder
  <2> QED BY <2>1, <2>2, <2>3
<1>7. RingClose'
  <2> SUFFICES ASSUME NEW s \in Slots, Back(s)' # MAX_NUM_PREVIOUS_BOOST_FRAMES - 1
               PROVE  Close(previous_boost_frames'[s], previous_boost_frames'[SlotBefore(s)])
    BY DEF RingClose, Close
  <2>1. SlotBefore(s) \in Slots /\ SlotBefore(Newest') = Newest
    BY <1>2, RingCloses
  <2>2. CASE s = Newest'
    <3>1. Newest # Newest'
      BY <1>2, <1>4, <2>2, HistoryAssumption DEF Slots, SlotAfter
    <3> QED BY <1>2, <1>4, <1>5, <2>1, <2>2, <3>1 DEF Successive
  <2>3. CASE s # Newest'
    <3>1. Back(s) # MAX_NUM_PREVIOUS_BOOST_FRAMES - 1
      BY <1>2, <2>3, RecordMoves, BackRange DEF IInv
    <3>2. SlotBefore(s) # Newest'
      <4>1. /\ Back(s) + 1 # MAX_NUM_PREVIOUS_BOOST_FRAMES - 1
            /\ Back(SlotBefore(s)) = Back(s) + 1
        BY <1>4, <2>3, <3>1, BackRange DEF IInv
      <4> QED BY <4>1, RecordMoves
    <3>3. Close(previous_boost_frames[s], previous_boost_frames[SlotBefore(s)])
      BY <3>1 DEF IInv, RingClose
    <3> QED BY <1>4, <2>1, <2>3, <3>2, <3>3
  <2> QED BY <2>2, <2>3
<1>8. LatestTaken'
  BY <1>1 DEF IInv, LatestTaken, LastTaken, callbackVars, copyVars
<1>9. CopyTaken'
  <2>1. Follows(boost_frame_copy, boost_frame_copy) /\ Close(boost_frame_copy, boost_frame_copy)
    BY <1>2, HistoryAssumption DEF Follows, Close, Frame
  <2> QED BY <1>1, <1>2, <1>5, <2>1 DEF CopyTaken, Successive, copyVars
<1> QED
  BY <1>1, <1>3, <1>6, <1>7, <1>8, <1>9
     DEF IInv, WalkOK, FoundOK, AgeAccurate, copyVars, foundVars

\* The index catches up with the slot written last.
LEMMA CountKeeps ==
    ASSUME IInv, Count
    PROVE  IInv'
<1>1. /\ main = "count" /\ main' = "use"
      /\ num_previous_boost_frames' = IF saved_num < MAX_NUM_PREVIOUS_BOOST_FRAMES
                                      THEN saved_num + 1 ELSE num_previous_boost_frames
      /\ previous_boost_frame_index' = SlotAfter(previous_boost_frame_index)
      /\ UNCHANGED <<previous_boost_frames, callbackVars, boost_frame_applied, copyVars, walk,
                     undisturbed, foundVars, saved_num>>
  BY DEF Count
<1>2. TypeOK'
  <2>1. num_previous_boost_frames' \in 0 .. MAX_NUM_PREVIOUS_BOOST_FRAMES
    BY <1>1, HistoryAssumption DEF IInv, TypeOK
  <2>2. previous_boost_frame_index' \in Slots
    BY <1>1, RingCloses DEF IInv, TypeOK
  <2> QED BY <1>1, <2>1, <2>2 DEF IInv, TypeOK, callbackVars, copyVars, foundVars
<1>3. Newest' = Newest /\ LastTaken' = LastTaken
  BY <1>1 DEF Newest, LastTaken, copyVars
<1>4. LatestTaken' /\ CopyTaken'
  BY <1>1, <1>3 DEF IInv, LatestTaken, CopyTaken, callbackVars, copyVars
<1> QED
  BY <1>1, <1>2, <1>3, <1>4, RingKept
     DEF IInv, WalkOK, FoundOK, AgeAccurate, copyVars, foundVars

\* The last frame taken is the newest slot from here on.
LEMMA UseReferenceKeeps ==
    ASSUME IInv, UseReference
    PROVE  IInv'
<1>1. /\ main = "use" /\ main' = "idle" /\ reference' = NULL /\ age' = -1 /\ found' = ZeroFrame
      /\ UNCHANGED <<ringVars, num_previous_boost_frames, callbackVars, boost_frame_applied,
                     copyVars, walk, undisturbed, saved_num>>
  BY DEF UseReference
<1>2. TypeOK'
  <2>1. -1 \in -1 .. MAX_AGE /\ ZeroFrame \in Frame
    BY HistoryAssumption DEF ZeroFrame, Frame
  <2> QED BY <1>1, <2>1 DEF IInv, TypeOK, ringVars, callbackVars, copyVars
<1>3. Newest' = Newest /\ UNCHANGED previous_boost_frames
  BY <1>1 DEF Newest, ringVars
<1>4. LatestTaken'
  <2>1. LastTaken' = previous_boost_frames[Newest]
    BY <1>1 DEF LastTaken, Newest, ringVars
  <2>2. LastTaken = previous_boost_frames[Newest]
    BY <1>1 DEF IInv, CopyTaken, LastTaken
  <2> QED BY <1>1, <2>1, <2>2 DEF IInv, LatestTaken, callbackVars
<1> QED
  BY <1>1, <1>2, <1>3, <1>4, RingKept DEF IInv, CopyTaken, WalkOK, FoundOK, AgeAccurate

\* Every step keeps the invariant.
LEMMA NextKeeps ==
    ASSUME StallsShort, IInv, [Next]_vars
    PROVE  IInv'
<1>1. CASE Disconnect
  BY <1>1, ResetKeeps, HistoryAssumption DEF Disconnect, IInv, TypeOK
<1>2. CASE Connect
  <2>1. connection' \in 0 .. MaxConnections /\ connection <= connection'
    BY <1>2, HistoryAssumption DEF Connect, IInv, TypeOK
  <2> QED BY <1>2, <2>1, ResetKeeps DEF Connect
<1>3. CASE Receive
  BY <1>3, ReceiveKeeps
<1>4. CASE Snapshot
  BY <1>4, SnapshotKeeps
<1>5. CASE Walk
  BY <1>5, WalkKeeps
<1>6. CASE Record
  BY <1>6, RecordKeeps
<1>7. CASE Count
  BY <1>7, CountKeeps
<1>8. CASE UseReference
  BY <1>8, UseReferenceKeeps
<1>9. CASE UNCHANGED vars
  BY <1>9 DEF vars, ringVars, callbackVars, copyVars, foundVars, IInv, TypeOK, Newest, Back,
     RingInOrder, RingClose, LastTaken, LatestTaken, CopyTaken, Accurate, WalkOK, FoundOK,
     AgeAccurate
<1> QED
  BY <1>1, <1>2, <1>3, <1>4, <1>5, <1>6, <1>7, <1>8, <1>9
     DEF Next, ConnectionNext, FlightLoopNext

\* The invariant holds throughout, for whatever connections come and go.
LEMMA HistoryInvariant ==
    ASSUME StallsShort
    PROVE  Spec => []IInv
BY InitOK, NextKeeps, PTL DEF Spec

\* plugin.c, 1233-1241 and 1284: speed and motion are only computed over an age within
\* the limits, and it is the true age of a frame of the same connection, however often
\* the connection thread resets the history during the search.
THEOREM AgesAreAccurate ==
    ASSUME StallsShort
    PROVE  Spec => []AgeAccurate
<1>1. IInv => AgeAccurate
  BY DEF IInv
<1> QED BY <1>1, HistoryInvariant, PTL

\* The recorded slots are those not too far back.
LEMMA RecordedAreRecent ==
    ASSUME TypeOK, main # "count"
    PROVE  RecordedSlots = {s \in Slots : Back(s) < num_previous_boost_frames}
<1> SUFFICES ASSUME NEW s \in Slots
             PROVE  (previous_boost_frame_index - s) % MAX_NUM_PREVIOUS_BOOST_FRAMES = Back(s)
  BY DEF RecordedSlots
<1> DEFINE size == MAX_NUM_PREVIOUS_BOOST_FRAMES
           p == previous_boost_frame_index
           back == Back(s)
<1>1. /\ size \in Nat \ {0} /\ p \in Int /\ s \in Int
      /\ back \in 0 .. size - 1
  <2>1. size \in Nat \ {0}
    BY HistoryAssumption
  <2>2. p \in Int
    BY DEF TypeOK, Slots
  <2>3. s \in Int
    BY <2>1 DEF Slots
  <2>4. back \in 0 .. size - 1
    BY BackRange
  <2> QED
    BY <2>1, <2>2, <2>3, <2>4
<1>2. back = IF s <= p THEN p - s ELSE p - s + size
  BY DEF Back, Newest
<1>3. (p - s) % size = back
  <2> HIDE DEF size, p, back
  <2>1. CASE s <= p
    <3>1. p - s = size * 0 + back
      BY <1>1, <1>2, <2>1
    <3> QED BY <1>1, <3>1, RemainderOf
  <2>2. CASE ~(s <= p)
    <3>1. p - s = size * (0 - 1) + back /\ 0 - 1 \in Int
      BY <1>1, <1>2, <2>2
    <3> DEFINE q == 0 - 1
    <3>2. q \in Int /\ p - s = size * q + back
      BY <3>1
    <3> HIDE DEF q
    <3> QED BY <1>1, <3>2, RemainderOf
  <2> QED BY <2>1, <2>2
<1> QED BY <1>3

\* At its end the search has passed every frame within the limits, the oldest one last.
LEMMA EndFindsOldest ==
    ASSUME StallsShort, IInv, main = "walk", NEW w, Over(w), Return(w),
           UNCHANGED <<ringVars, num_previous_boost_frames, copyVars, undisturbed>>
    PROVE  FindsOldest'
<1> SUFFICES ASSUME undisturbed,
                    \A s \in RecordedSlots :
                       previous_boost_frames[s].connection = boost_frame_copy.connection
             PROVE  IF Suitable = {} THEN reference' = NULL
                    ELSE /\ reference' \in Suitable
                         /\ \A s \in Suitable :
                              previous_boost_frames[reference'].sent <= previous_boost_frames[s].sent
  <2>1. /\ RecordedSlots' = RecordedSlots /\ Suitable' = Suitable
        /\ UNCHANGED <<previous_boost_frames, boost_frame_copy, undisturbed>>
    BY DEF RecordedSlots, Suitable, ringVars, copyVars
  <2>2. NULL \notin Suitable
    BY HistoryAssumption DEF Suitable, RecordedSlots, Slots
  <2>3. reference' \in Suitable => found' = previous_boost_frames[reference']
    BY <2>1, <2>2 DEF Return
  <2> QED BY <2>1, <2>3 DEF FindsOldest
<1> DEFINE Age(s) == boost_frame_copy.sent - previous_boost_frames[s].sent
<1>1. /\ RecordedSlots = {s \in Slots : Back(s) < num_previous_boost_frames}
      /\ Suitable = {s \in RecordedSlots : Age(s) \in MIN_AGE .. MAX_AGE}
  BY RecordedAreRecent DEF IInv, Suitable
<1>2. /\ \A s \in Slots : Back(s) \in Nat /\ Age(s) \in Int /\ previous_boost_frames[s].sent \in Nat
      /\ boost_frame_copy.sent \in Nat
      /\ MIN_AGE \in Nat /\ MAX_AGE \in Nat
      /\ num_previous_boost_frames \in Nat /\ walk.i \in Nat
      /\ walk.i <= num_previous_boost_frames
      /\ walk.current_age \in 0 .. MAX_AGE
  <2>1. /\ boost_frame_copy \in Frame /\ \A s \in Slots : previous_boost_frames[s] \in Frame
        /\ \A s \in Slots : Back(s) \in Nat
        /\ num_previous_boost_frames \in Nat
    BY BackRange, HistoryAssumption DEF IInv, TypeOK
  <2>2. walk.i <= num_previous_boost_frames
    BY DEF IInv, WalkOK
  <2> QED BY <2>1, <2>2, WalkPosition, HistoryAssumption DEF Frame
\* Frames further back are as old or older.
<1>3. ASSUME NEW s \in RecordedSlots, NEW t \in RecordedSlots, Back(s) <= Back(t)
      PROVE  /\ Age(s) <= Age(t)
             /\ previous_boost_frames[t].sent <= previous_boost_frames[s].sent
  <2>1. s \in Slots /\ t \in Slots
        /\ previous_boost_frames[s].connection = previous_boost_frames[t].connection
    BY <1>1
  <2>2. previous_boost_frames[t].sent <= previous_boost_frames[s].sent
    BY <1>3, <2>1 DEF IInv, RingInOrder, Follows
  <2> QED BY <1>2, <2>1, <2>2
\* None of the frames that the walk did not pass is within the limits.
<1>4. ASSUME NEW s \in Suitable
      PROVE  Back(s) < walk.i
  <2>1. s \in RecordedSlots /\ s \in Slots /\ Back(s) < num_previous_boost_frames
    BY <1>1
  <2>2. CASE walk.i >= num_previous_boost_frames
    BY <1>2, <2>1, <2>2
  <2>3. CASE walk.i < num_previous_boost_frames /\ Looked.current_age > MAX_AGE
    <3>1. walk.index \in RecordedSlots /\ Back(walk.index) = walk.i /\ walk.index \in Slots
      BY <1>1, <2>3, WalkPosition
    <3>2. Age(walk.index) = Looked.current_age
      BY <2>3, <3>1, LookedRight DEF Accurate
    <3>3. Age(s) <= MAX_AGE
      BY <1>1, <1>2, <2>1
    <3>4. ~(Age(walk.index) <= Age(s))
      BY <1>2, <2>1, <2>3, <3>1, <3>2, <3>3
    <3>5. ~(Back(walk.index) <= Back(s))
      BY <1>3, <2>1, <3>1, <3>4
    <3> QED BY <1>2, <2>1, <3>1, <3>5
  <2> QED BY <2>2, <2>3 DEF Over
<1>5. ASSUME walk.i > 0
      PROVE  /\ walk.current \in RecordedSlots /\ Back(walk.current) = walk.i - 1
             /\ Age(walk.current) = walk.current_age
  BY <1>1, <1>2, <1>5, WalkPosition DEF Accurate
<1>6. CASE walk.i > 0 /\ walk.current_age >= MIN_AGE
  <2>1. reference' = walk.current
    BY <1>6, ReturnedIsLast DEF Return
  <2>2. walk.current \in Suitable
    BY <1>1, <1>2, <1>5, <1>6
  <2>3. ASSUME NEW s \in Suitable
        PROVE  previous_boost_frames[walk.current].sent <= previous_boost_frames[s].sent
    BY <1>1, <1>2, <1>3, <1>4, <1>5, <1>6
  <2> QED BY <2>1, <2>2, <2>3
<1>7. CASE ~(walk.i > 0 /\ walk.current_age >= MIN_AGE)
  <2>1. reference' = NULL
    BY <1>7, ReturnedIsLast DEF Return
  <2>2. ASSUME NEW s \in Suitable
        PROVE  FALSE
    <3>1. s \in RecordedSlots /\ s \in Slots /\ Back(s) < walk.i /\ Age(s) >= MIN_AGE
      BY <1>1, <1>2, <1>4
    <3>2. walk.i > 0 /\ Back(s) <= walk.i - 1
      BY <1>2, <3>1
    <3>3. Age(s) <= walk.current_age
      BY <1>3, <1>5, <3>1, <3>2
    <3> QED BY <1>2, <1>7, <3>1, <3>2, <3>3
  <2> QED BY <2>1, <2>2
<1> QED BY <1>6, <1>7

\* No step makes a finished search wrong.
LEMMA OldestKept ==
    ASSUME StallsShort, IInv, FindsOldest, [Next]_vars
    PROVE  FindsOldest'
<1>1. CASE Disconnect \/ Connect
  BY <1>1 DEF Disconnect, Connect, Reset, FindsOldest
<1>2. CASE Receive \/ UNCHANGED vars
  BY <1>2 DEF Receive, vars, FindsOldest, RecordedSlots, Suitable, ringVars, copyVars, foundVars
<1>3. CASE Walk
  <2>1. CASE main' = "walk"
    BY <2>1 DEF FindsOldest
  <2>2. CASE main' # "walk"
    <3>1. \E w \in {walk, Looked} : Over(w) /\ Return(w)
      BY <1>3, <2>2 DEF Walk, Over
    <3> QED BY <1>3, <3>1, EndFindsOldest DEF Walk
  <2> QED BY <2>1, <2>2
<1>4. CASE Snapshot \/ Record \/ UseReference
  BY <1>4 DEF Snapshot, Record, UseReference, FindsOldest
<1>5. CASE Count
  BY <1>5 DEF Count, FindsOldest, IInv, CopyTaken, copyVars
<1> QED
  BY <1>1, <1>2, <1>3, <1>4, <1>5 DEF Next, ConnectionNext, FlightLoopNext

\* plugin.c, 912-978: a search that no reset disturbed returns the oldest recorded frame
\* within the limits, and none only if there is none.
THEOREM OldestIsFound ==
    ASSUME StallsShort
    PROVE  Spec => []FindsOldest
<1>1. Init => FindsOldest
  BY DEF Init, FindsOldest
<1> QED BY <1>1, OldestKept, HistoryInvariant, PTL DEF Spec

\* As many frames as fit into the ring, sent at least gap apart, exceed the maximum age.
RingSpansMaxAge(gap) ==
    /\ gap \in Nat
    /\ \A g \in Gaps : g >= gap
    /\ MAX_NUM_PREVIOUS_BOOST_FRAMES * gap > MAX_AGE

\* What the survival of the reference rests on.
SpacedInv(gap) == Spaced(gap) /\ NewSpaced(gap) /\ ReferenceSurvives

\* A received frame is a gap after the one taken before.
LEMMA ReceiveSpaced ==
    ASSUME NEW gap, RingSpansMaxAge(gap), IInv, SpacedInv(gap), Receive
    PROVE  SpacedInv(gap)'
<1>1. PICK g : /\ g \in IF boost_frame.connection = connection THEN Gaps ELSE Interruptions
               /\ boost_frame' = [sent |-> boost_frame.sent + g, connection |-> connection]
  BY DEF Receive
<1>2. /\ g \in Nat /\ gap \in Nat
      /\ boost_frame.connection = connection => g >= gap
  BY <1>1, HistoryAssumption DEF RingSpansMaxAge
<1>3. /\ connection \in Nat /\ connection > 0
      /\ UNCHANGED <<ringVars, num_previous_boost_frames, connection, main, copyVars, walk,
                     undisturbed, foundVars, saved_num>>
      /\ boost_frame_applied' = FALSE
  BY HistoryAssumption DEF Receive, IInv, TypeOK
<1>4. LastTaken' = LastTaken /\ Newest' = Newest /\ UNCHANGED previous_boost_frames
      /\ UNCHANGED boost_frame_copy
  BY <1>3 DEF LastTaken, Newest, ringVars, copyVars
<1>5. boost_frame.sent \in Nat /\ boost_frame.connection \in Nat
      /\ LastTaken.sent \in Nat /\ LastTaken.connection \in Nat
  BY DEF IInv, TypeOK, LastTaken, Frame
<1>6. /\ boost_frame.connection <= connection
      /\ LastTaken.connection <= boost_frame.connection
      /\ LastTaken.connection = boost_frame.connection => LastTaken.sent <= boost_frame.sent
  BY DEF IInv, LatestTaken, Successive, Follows
<1>7. /\ boost_frame'.connection = connection /\ boost_frame'.sent = boost_frame.sent + g
  BY <1>1
<1>8. boost_frame'.connection = LastTaken'.connection =>
          boost_frame'.sent - LastTaken'.sent >= gap
  BY <1>2, <1>3, <1>4, <1>5, <1>6, <1>7
<1>9. Spaced(gap)'
  BY <1>4 DEF SpacedInv, Spaced, Back
<1>10. NewSpaced(gap)'
  BY <1>3, <1>4, <1>7, <1>8 DEF SpacedInv, NewSpaced, copyVars
<1> QED BY <1>3, <1>4, <1>9, <1>10 DEF SpacedInv, ReferenceSurvives, foundVars

\* Recording overwrites a frame that is too old to be the reference.
LEMMA RecordSpaced ==
    ASSUME NEW gap, RingSpansMaxAge(gap), IInv, SpacedInv(gap), Record
    PROVE  SpacedInv(gap)'
<1>1. /\ main = "record" /\ main' = "count" /\ is_new_boost_frame
      /\ UNCHANGED <<boost_frame, boost_frame_applied, boost_frame_copy, is_new_boost_frame,
                     reference, age, found>>
  BY DEF Record, callbackVars, copyVars, foundVars, IInv, CopyTaken
<1>2. /\ Newest \in Slots /\ Newest' \in Slots /\ Back(Newest) = 0
      /\ previous_boost_frames \in [Slots -> Frame] /\ boost_frame_copy \in Frame
      /\ previous_boost_frames' = [previous_boost_frames EXCEPT ![Newest'] = boost_frame_copy]
      /\ Back(Newest') = MAX_NUM_PREVIOUS_BOOST_FRAMES - 1
      /\ \A s \in Slots : Back(s)' = IF s = Newest' THEN 0 ELSE Back(s) + 1
      /\ \A s \in Slots : Back(s) \in Nat
  BY RecordMoves, BackRange, HistoryAssumption DEF IInv, TypeOK
<1>3. gap \in Nat /\ boost_frame_copy.connection # 0
  BY <1>1 DEF RingSpansMaxAge, SpacedInv, NewSpaced
\* The frame to be recorded is one gap younger than the ring.
<1>4. ASSUME NEW s \in Slots,
             previous_boost_frames[s].connection = boost_frame_copy.connection
      PROVE  boost_frame_copy.sent - previous_boost_frames[s].sent >= (Back(s) + 1) * gap
  <2> DEFINE newest == previous_boost_frames[Newest]
             frame == previous_boost_frames[s]
             back == Back(s)
  <2>1. /\ newest \in Frame /\ frame \in Frame /\ back \in Nat
    BY <1>2
  <2>2. Follows(boost_frame_copy, newest) /\ Follows(newest, frame)
    BY <1>1, <1>2, <2>1 DEF IInv, CopyTaken, Successive, RingInOrder
  <2>3. newest.connection = boost_frame_copy.connection
    BY <1>2, <1>4, <2>1, <2>2 DEF Follows, Frame
  <2>4. boost_frame_copy.sent - newest.sent >= gap
    BY <1>1, <2>3 DEF SpacedInv, NewSpaced
  <2>5. newest.sent - frame.sent >= back * gap
    BY <1>3, <1>4, <2>3 DEF SpacedInv, Spaced
  <2>6. /\ newest.sent \in Int /\ frame.sent \in Int /\ boost_frame_copy.sent \in Int
        /\ back * gap \in Int /\ (back + 1) * gap = back * gap + gap
    BY <1>2, <1>3, <2>1 DEF Frame
  <2> DEFINE turns == back * gap
  <2>7. boost_frame_copy.sent - frame.sent >= turns + gap
    <3>1. turns \in Int /\ newest.sent - frame.sent >= turns
      BY <2>5, <2>6
    <3> HIDE DEF newest, frame, turns
    <3> QED BY <1>3, <2>4, <2>6, <3>1
  <2> HIDE DEF newest, turns
  <2> QED BY <2>6, <2>7 DEF turns
<1>5. Spaced(gap)'
  <2> SUFFICES ASSUME NEW s \in Slots,
                      previous_boost_frames'[s].connection = previous_boost_frames'[Newest'].connection
               PROVE  previous_boost_frames'[Newest'].sent - previous_boost_frames'[s].sent
                          >= Back(s)' * gap
    BY DEF Spaced
  <2>1. previous_boost_frames'[Newest'] = boost_frame_copy
    BY <1>2
  <2>2. CASE s = Newest'
    <3>1. /\ Back(s)' = 0 /\ previous_boost_frames'[Newest'].sent \in Nat
      BY <1>2, <2>1, <2>2 DEF Frame
    <3> QED BY <1>3, <2>2, <3>1
  <2>3. CASE s # Newest'
    BY <1>2, <1>4, <2>1, <2>3
  <2> QED BY <2>2, <2>3
<1>6. NewSpaced(gap)'
  <2>1. LastTaken' = LastTaken
    BY <1>1 DEF LastTaken
  <2> QED BY <1>1, <2>1 DEF SpacedInv, NewSpaced
<1>7. ReferenceSurvives'
  <2> SUFFICES ASSUME reference # NULL, found.connection = boost_frame_copy.connection
               PROVE  previous_boost_frames'[reference] = found
    BY <1>1 DEF ReferenceSurvives
  <2>1. /\ found = previous_boost_frames[reference] /\ reference \in Slots
        /\ age <= MAX_AGE /\ age = boost_frame_copy.sent - found.sent
    BY <1>1, HistoryAssumption DEF IInv, TypeOK, FoundOK, AgeAccurate
  <2>2. reference # Newest'
    <3> SUFFICES ASSUME reference = Newest'
                 PROVE  FALSE
      OBVIOUS
    <3>1. age >= (Back(reference) + 1) * gap
      BY <1>4, <2>1
    <3>2. Back(reference) + 1 = MAX_NUM_PREVIOUS_BOOST_FRAMES
      BY <1>2, HistoryAssumption
    <3> DEFINE span == MAX_NUM_PREVIOUS_BOOST_FRAMES * gap
    <3>3. age >= span /\ span > MAX_AGE /\ span \in Int
      BY <1>3, <3>1, <3>2, HistoryAssumption DEF RingSpansMaxAge
    <3>4. age \in Int /\ MAX_AGE \in Int
      BY HistoryAssumption DEF IInv, TypeOK
    <3> HIDE DEF span
    <3> QED BY <2>1, <3>3, <3>4
  <2> QED BY <1>2, <2>1, <2>2
<1> QED BY <1>5, <1>6, <1>7 DEF SpacedInv

\* Every step keeps the gaps.
LEMMA NextSpaced ==
    ASSUME NEW gap, RingSpansMaxAge(gap), StallsShort, IInv, SpacedInv(gap), [Next]_vars
    PROVE  SpacedInv(gap)'
<1>1. CASE Disconnect \/ Connect
  BY <1>1 DEF Disconnect, Connect, Reset, SpacedInv, Spaced, NewSpaced, ReferenceSurvives, Back,
     Newest, LastTaken, ringVars, copyVars, foundVars
<1>2. CASE Receive
  BY <1>2, ReceiveSpaced
<1>3. CASE Snapshot
  <2>1. /\ main = "idle" /\ main' = "walk" /\ boost_frame_applied'
        /\ boost_frame_copy' = boost_frame /\ is_new_boost_frame' = ~boost_frame_applied
        /\ UNCHANGED <<previous_boost_frames, previous_boost_frame_index, reference>>
        /\ reference = NULL
    BY <1>3 DEF Snapshot, ringVars, foundVars, IInv, FoundOK
  <2>2. Newest' = Newest /\ LastTaken = previous_boost_frames[Newest]
    BY <2>1 DEF Newest, LastTaken
  <2> QED BY <2>1, <2>2 DEF SpacedInv, Spaced, NewSpaced, ReferenceSurvives, Back
<1>4. CASE Walk
  <2>1. /\ main = "walk" /\ main' \in {"walk", "record", "use"}
        /\ UNCHANGED <<previous_boost_frames, previous_boost_frame_index, boost_frame_applied,
                       boost_frame, boost_frame_copy, is_new_boost_frame>>
        /\ reference' # NULL => found' = previous_boost_frames[reference']
    BY <1>4 DEF Walk, Return, ringVars, callbackVars, copyVars, foundVars, IInv, FoundOK
  <2>2. Newest' = Newest /\ LastTaken' = LastTaken
    BY <2>1 DEF Newest, LastTaken
  <2>3. Spaced(gap)' /\ NewSpaced(gap)'
    BY <2>1, <2>2 DEF SpacedInv, Spaced, NewSpaced, Back
  <2> QED BY <2>1, <2>3 DEF SpacedInv, ReferenceSurvives
<1>5. CASE Record
  BY <1>5, RecordSpaced
<1>6. CASE Count
  <2>1. /\ main = "count" /\ main' = "use"
        /\ previous_boost_frame_index' = SlotAfter(previous_boost_frame_index)
        /\ UNCHANGED <<previous_boost_frames, boost_frame, boost_frame_applied,
                       boost_frame_copy, reference, found>>
    BY <1>6 DEF Count, callbackVars, copyVars, foundVars
  <2>2. Newest' = Newest /\ LastTaken' = LastTaken
    BY <2>1 DEF Newest, LastTaken
  <2> QED BY <2>1, <2>2 DEF SpacedInv, Spaced, NewSpaced, ReferenceSurvives, Back
<1>7. CASE UseReference
  <2>1. /\ main = "use" /\ main' = "idle" /\ reference' = NULL
        /\ UNCHANGED <<previous_boost_frames, previous_boost_frame_index, boost_frame,
                       boost_frame_applied, boost_frame_copy>>
    BY <1>7 DEF UseReference, ringVars, callbackVars, copyVars
  <2>2. Newest' = Newest /\ LastTaken' = LastTaken
    BY <2>1 DEF Newest, LastTaken, IInv, CopyTaken
  <2> QED BY <2>1, <2>2 DEF SpacedInv, Spaced, NewSpaced, ReferenceSurvives, Back
<1>8. CASE UNCHANGED vars
  BY <1>8 DEF vars, ringVars, callbackVars, copyVars, foundVars, SpacedInv, Spaced, NewSpaced,
     ReferenceSurvives, Back, Newest, LastTaken
<1> QED
  BY <1>1, <1>2, <1>3, <1>4, <1>5, <1>6, <1>7, <1>8 DEF Next, ConnectionNext, FlightLoopNext

\* plugin.c, 1250 and 1283: recording the current frame never overwrites the one that
\* the motion vector is computed from afterwards, provided a full ring exceeds the
\* maximum age: 154 frames at least 10 ms apart span more than 1500 ms.
THEOREM ReferenceIsKept ==
    ASSUME StallsShort, NEW gap, RingSpansMaxAge(gap)
    PROVE  Spec => []ReferenceSurvives
<1>1. Init => SpacedInv(gap)
  <2>1. \A s \in Slots : Init => previous_boost_frames[s].connection = 0
    BY DEF Init, ZeroFrame
  <2> QED BY <2>1 DEF Init, SpacedInv, Spaced, NewSpaced, ReferenceSurvives
<1>2. IInv /\ SpacedInv(gap) /\ [Next]_vars => SpacedInv(gap)'
  BY NextSpaced
<1>3. SpacedInv(gap) => ReferenceSurvives
  BY DEF SpacedInv
<1> QED BY <1>1, <1>2, <1>3, HistoryInvariant, PTL DEF Spec
=============================================================================
