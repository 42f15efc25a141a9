---------------------------- MODULE FrameHistory ----------------------------
(***************************************************************************)
(* The ring of recorded boost frames (plugin.c) and the search in it for a *)
(* frame of a given age, from which the flight loop computes ground speed  *)
(* and motion vector.  The search adds up differences of milliseconds from *)
(* frame to frame; here a frame also has the absolute time it was sent at, *)
(* which the code does not know.  Search and recording happen after the    *)
(* mutex was released, one step per access to what a callback may change:  *)
(* the connection thread resets num_previous_boost_frames in between.      *)
(***************************************************************************)
EXTENDS Integers

CONSTANTS
    MILLIS_PER_SECOND,
    MAX_NUM_PREVIOUS_BOOST_FRAMES,
    MIN_AGE, MAX_AGE,   \* 800 and 1500 ms
    Gaps,               \* times between two boost frames of a connection
    MaxStall,           \* longest time between two frames that X-Plane takes
    Interruptions,      \* times between frames of two connections
    NULL,
    Horizon, MaxConnections     \* bounds on time and connections, for TLC

ASSUME HistoryAssumption ==
    /\ MILLIS_PER_SECOND \in Nat \ {0}
    /\ MAX_NUM_PREVIOUS_BOOST_FRAMES \in Nat \ {0}
    /\ MIN_AGE \in Nat \ {0}
    /\ MAX_AGE \in Nat /\ MIN_AGE <= MAX_AGE
    /\ Gaps \subseteq Nat
    /\ MaxStall \in Nat
    /\ Interruptions \subseteq Nat
    /\ Horizon \in Nat
    /\ MaxConnections \in Nat
    /\ NULL \notin Nat

VARIABLES
    previous_boost_frames, previous_boost_frame_index, num_previous_boost_frames,
    boost_frame, boost_frame_applied,
    connection,         \* number of the connection to PSX
    main,               \* where the flight loop is
    boost_frame_copy, is_new_boost_frame,
    walk,               \* locals of find_previous_boost_frame_by_age
    undisturbed,        \* history: no reset since the search began
    reference,          \* ground_speed_reference_boost_frame, a pointer into the ring
    age,                \* ground_speed_reference_boost_frame_age_millis
    found,              \* history: the frame in that slot when it was found
    saved_num           \* num_previous_boost_frames as record_boost_frame read it

ringVars == <<previous_boost_frames, previous_boost_frame_index>>
callbackVars == <<boost_frame, connection>>
copyVars == <<boost_frame_copy, is_new_boost_frame>>
foundVars == <<reference, age, found>>
vars == <<ringVars, num_previous_boost_frames, callbackVars, boost_frame_applied, main,
          copyVars, walk, undisturbed, foundVars, saved_num>>

Slots == 0 .. MAX_NUM_PREVIOUS_BOOST_FRAMES - 1
Frame == [sent : Nat, connection : Nat]
ZeroFrame == [sent |-> 0, connection |-> 0]
Ages == 0 .. MAX_AGE + MILLIS_PER_SECOND
NoWalk == [i |-> 0, index |-> 0, millis |-> 0, current |-> NULL, current_age |-> 0,
           previous |-> NULL, previous_age |-> 0]

TypeOK ==
    /\ previous_boost_frames \in [Slots -> Frame]
    /\ previous_boost_frame_index \in Slots
    /\ num_previous_boost_frames \in 0 .. MAX_NUM_PREVIOUS_BOOST_FRAMES
    /\ boost_frame \in Frame
    /\ boost_frame_applied \in BOOLEAN
    /\ connection \in 0 .. MaxConnections
    /\ main \in {"idle", "walk", "record", "count", "use"}
    /\ boost_frame_copy \in Frame
    /\ is_new_boost_frame \in BOOLEAN
    /\ walk \in [i : 0 .. MAX_NUM_PREVIOUS_BOOST_FRAMES, index : Slots,
                 millis : 0 .. MILLIS_PER_SECOND - 1,
                 current : Slots \cup {NULL}, current_age : Ages,
                 previous : Slots \cup {NULL}, previous_age : Ages]
    /\ undisturbed \in BOOLEAN
    /\ reference \in Slots \cup {NULL}
    /\ age \in -1 .. MAX_AGE
    /\ found \in Frame
    /\ saved_num \in 0 .. MAX_NUM_PREVIOUS_BOOST_FRAMES

Init ==
    /\ previous_boost_frames = [s \in Slots |-> ZeroFrame]
    /\ previous_boost_frame_index = 0
    /\ num_previous_boost_frames = 0
    /\ boost_frame = ZeroFrame
    /\ boost_frame_applied = TRUE
    /\ connection = 0
    /\ main = "idle"
    /\ boost_frame_copy = ZeroFrame
    /\ is_new_boost_frame = FALSE
    /\ walk = NoWalk
    /\ undisturbed = TRUE
    /\ reference = NULL
    /\ age = -1
    /\ found = ZeroFrame
    /\ saved_num = 0
-----------------------------------------------------------------------------
\* The connection thread.  reset_psx_data on losing and on making a connection.
Reset ==
    /\ num_previous_boost_frames' = 0
    /\ undisturbed' = FALSE
    /\ UNCHANGED <<ringVars, boost_frame, boost_frame_applied, main, copyVars, walk,
                   foundVars, saved_num>>

Disconnect == Reset /\ UNCHANGED connection

Connect == connection < MaxConnections /\ connection' = connection + 1 /\ Reset

\* The frame before the received one that the flight loop has taken, or will take.
LastTaken == IF main # "idle" THEN boost_frame_copy
             ELSE previous_boost_frames[previous_boost_frame_index]

\* on_boost_frame_received.  X-Plane may skip frames, for MaxStall at most.
Receive ==
    /\ connection > 0
    /\ \E gap \in IF boost_frame.connection = connection THEN Gaps ELSE Interruptions :
         boost_frame' = [sent |-> boost_frame.sent + gap, connection |-> connection]
    /\ boost_frame'.sent <= Horizon
    /\ LastTaken.connection = connection => boost_frame'.sent - LastTaken.sent <= MaxStall
    /\ boost_frame_applied' = FALSE
    /\ UNCHANGED <<ringVars, num_previous_boost_frames, connection, main, copyVars, walk,
                   undisturbed, foundVars, saved_num>>
-----------------------------------------------------------------------------
MillisPart(t) == t % MILLIS_PER_SECOND

\* The locked section of the flight loop.  With interpolation on it goes on without
\* a new frame as well.
Snapshot ==
    /\ main = "idle"
    /\ boost_frame_copy' = boost_frame
    /\ is_new_boost_frame' = ~boost_frame_applied
    /\ boost_frame_applied' = TRUE
    /\ main' = "walk"
    /\ walk' = [NoWalk EXCEPT !.index = previous_boost_frame_index,
                              !.millis = MillisPart(boost_frame.sent)]
    /\ undisturbed' = TRUE
    /\ UNCHANGED <<ringVars, num_previous_boost_frames, callbackVars, foundVars, saved_num>>

\* Mutant: a difference of 0 is taken for a second.
FrameDiffPositive(later, earlier) ==
    IF later - earlier <= 0 THEN later - earlier + MILLIS_PER_SECOND ELSE later - earlier

FrameDiff(later, earlier) ==
    IF later - earlier < 0 THEN later - earlier + MILLIS_PER_SECOND ELSE later - earlier

SlotBefore(s) == IF s = 0 THEN MAX_NUM_PREVIOUS_BOOST_FRAMES - 1 ELSE s - 1

SlotAfter(s) == IF s + 1 = MAX_NUM_PREVIOUS_BOOST_FRAMES THEN 0 ELSE s + 1

\* The frame looked at last, its age included, and the one before become current
\* and previous.
Looked ==
    LET millis == MillisPart(previous_boost_frames[walk.index].sent)
    IN  [walk EXCEPT !.previous = walk.current, !.previous_age = walk.current_age,
                     !.current = walk.index,
                     !.current_age = walk.current_age + FrameDiff(walk.millis, millis)]

\* Mutant: the latest frame looked at, even if it is too old.
ReturnedOverAge(w) ==
    IF w.current # NULL /\ w.current_age >= MIN_AGE
    THEN [slot |-> w.current, age |-> w.current_age]
    ELSE [slot |-> NULL, age |-> -1]

\* What is returned, once the walk is over with w.
Returned(w) ==
    IF w.current # NULL /\ w.current_age \in MIN_AGE .. MAX_AGE
    THEN [slot |-> w.current, age |-> w.current_age]
    ELSE IF w.previous # NULL /\ w.previous_age >= MIN_AGE
    THEN [slot |-> w.previous, age |-> w.previous_age]
    ELSE [slot |-> NULL, age |-> -1]

Return(w) ==
    /\ main' = IF is_new_boost_frame THEN "record" ELSE "use"
    /\ reference' = Returned(w).slot
    /\ age' = Returned(w).age
    /\ found' = IF reference' = NULL THEN ZeroFrame ELSE previous_boost_frames[reference']

\* One turn of the loop in find_previous_boost_frame_by_age, or its end.
Walk ==
    /\ main = "walk"
    /\ \/ /\ walk.i < num_previous_boost_frames
          /\ Looked.current_age <= MAX_AGE
          /\ walk' = [Looked EXCEPT !.i = walk.i + 1, !.index = SlotBefore(walk.index),
                                    !.millis = MillisPart(previous_boost_frames[walk.index].sent)]
          /\ UNCHANGED <<main, foundVars>>
       \/ /\ walk.i < num_previous_boost_frames
          /\ Looked.current_age > MAX_AGE
          /\ Return(Looked)
          /\ walk' = NoWalk
       \/ /\ walk.i >= num_previous_boost_frames
          /\ Return(walk)
          /\ walk' = NoWalk
    /\ UNCHANGED <<ringVars, num_previous_boost_frames, callbackVars, boost_frame_applied,
                   copyVars, undisturbed, saved_num>>

\* Mutant: the frame is written one slot too far.
RecordFar ==
    /\ main = "record"
    /\ previous_boost_frames' =
         [previous_boost_frames EXCEPT ![SlotAfter(SlotAfter(previous_boost_frame_index))] =
            boost_frame_copy]
    /\ saved_num' = num_previous_boost_frames
    /\ main' = "count"
    /\ UNCHANGED <<previous_boost_frame_index, num_previous_boost_frames, callbackVars,
                   boost_frame_applied, copyVars, walk, undisturbed, foundVars>>

\* record_boost_frame, to its read of the number of frames and from there.
Record ==
    /\ main = "record"
    /\ previous_boost_frames' =
         [previous_boost_frames EXCEPT ![SlotAfter(previous_boost_frame_index)] = boost_frame_copy]
    /\ saved_num' = num_previous_boost_frames
    /\ main' = "count"
    /\ UNCHANGED <<previous_boost_frame_index, num_previous_boost_frames, callbackVars,
                   boost_frame_applied, copyVars, walk, undisturbed, foundVars>>

Count ==
    /\ main = "count"
    /\ num_previous_boost_frames' =
         IF saved_num < MAX_NUM_PREVIOUS_BOOST_FRAMES THEN saved_num + 1
         ELSE num_previous_boost_frames
    /\ previous_boost_frame_index' = SlotAfter(previous_boost_frame_index)
    /\ main' = "use"
    /\ UNCHANGED <<previous_boost_frames, callbackVars, boost_frame_applied, copyVars, walk,
                   undisturbed, foundVars, saved_num>>

\* The motion vector is computed from the slot the pointer refers to.
UseReference ==
    /\ main = "use"
    /\ main' = "idle"
    /\ reference' = NULL
    /\ age' = -1
    /\ found' = ZeroFrame
    /\ UNCHANGED <<ringVars, num_previous_boost_frames, callbackVars, boost_frame_applied,
                   copyVars, walk, undisturbed, saved_num>>

ConnectionNext == Disconnect \/ Connect \/ Receive

FlightLoopNext == Snapshot \/ Walk \/ Record \/ Count \/ UseReference

Next == ConnectionNext \/ FlightLoopNext

Spec == Init /\ [][Next]_vars
-----------------------------------------------------------------------------
\* plugin.c, 1233-1241 and 1284: a frame is only divided by an age within the limits,
\* and if the frame is of the same connection, by its true age, although the search
\* only adds up milliseconds while resets come in between.
AgeAccurate ==
    reference # NULL =>
        /\ age \in MIN_AGE .. MAX_AGE
        /\ found.connection = boost_frame_copy.connection =>
             age = boost_frame_copy.sent - found.sent

\* The recorded frames: the latest ones, as many as are counted.
RecordedSlots ==
    {s \in Slots : (previous_boost_frame_index - s) % MAX_NUM_PREVIOUS_BOOST_FRAMES
                      < num_previous_boost_frames}

Suitable == {s \in RecordedSlots :
               boost_frame_copy.sent - previous_boost_frames[s].sent \in MIN_AGE .. MAX_AGE}

\* plugin.c, 912-978: undisturbed, the search finds the oldest frame within the limits,
\* whenever there is one, over duplicates, turns of the second and of the ring.
FindsOldest ==
    (/\ main = "record" \/ (main = "use" /\ ~is_new_boost_frame)
     /\ undisturbed
     /\ \A s \in RecordedSlots : previous_boost_frames[s].connection = boost_frame_copy.connection)
    => IF Suitable = {} THEN reference = NULL
       ELSE /\ reference \in Suitable
            /\ \A s \in Suitable : found.sent <= previous_boost_frames[s].sent

\* plugin.c, 1250 and 1283: recording the current frame does not overwrite the one
\* the pointer refers to, which is used once more afterwards: 154 frames at 77 per
\* second span more than the maximum age.  Frames left by an earlier connection do
\* not count, their ages are arbitrary.
ReferenceSurvives ==
    (reference # NULL /\ found.connection = boost_frame_copy.connection)
    => previous_boost_frames[reference] = found
=============================================================================
