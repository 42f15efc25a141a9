---------------------------- MODULE ClockOffset -----------------------------
(***************************************************************************)
(* The estimated difference between the local clock and that of PSX        *)
(* (plugin.c): the connection thread records a difference per boost frame  *)
(* and averages the recorded ones, the flight loop subtracts the average   *)
(* from the time it queries, and in the mode SIM_RUN overwrites it with    *)
(* the difference between two local clocks.                                *)
(*                                                                         *)
(* PSX sends only the milliseconds of a second.  Whole milliseconds are    *)
(* kept; an average is a fraction.  offset is what is to be estimated, the *)
(* time a frame takes to arrive adds to the difference that is measured.   *)
(***************************************************************************)
EXTENDS Integers, Functions

CONSTANTS
    HALF_SECOND,                        \* 500 ms
    MAX_NUM_TIME_DIFFERENCE_RECORDS,
    INIT_CYCLES_TO_UPDATE_SIM_TIME_DIFF,
    Sources,        \* values somebody writes to the time source dataref
    Offsets,        \* differences between the clocks that occur
    Latencies,      \* how long a frame may be under way
    Failures,       \* "timespec_get", "mtx_lock": calls that may fail
    NAN

RTC == 1
SIM_RUN == 2
SECOND == 2 * HALF_SECOND

ASSUME ClockAssumption ==
    /\ HALF_SECOND \in Nat \ {0}
    /\ MAX_NUM_TIME_DIFFERENCE_RECORDS \in Nat \ {0}
    /\ INIT_CYCLES_TO_UPDATE_SIM_TIME_DIFF \in Nat
    /\ Sources \subseteq Int
    /\ Offsets \subseteq Int
    /\ Latencies \subseteq Nat

VARIABLES
    interpolation_time_source,
    diff_receive_timestamp_millis,
    num_diff_receive_timestamp_millis,
    next_diff_receive_timestamp_millis,
    average_psx_time_difference,
    cycles_to_update_sim_time_diff,
    callback,               \* where the connection thread is in a frame's callback
    avg_time_diff_millis,   \* its local variable
    main,                   \* where the flight loop is; "idle" between two cycles
    offset,                 \* local clock minus clock of the PSX connected to
    actual,                 \* history: offset and latency behind each record
    average_of              \* history: what the average was computed from

ringVars == <<diff_receive_timestamp_millis, num_diff_receive_timestamp_millis,
              next_diff_receive_timestamp_millis, actual>>
averageVars == <<average_psx_time_difference, average_of>>
vars == <<interpolation_time_source, ringVars, averageVars,
          cycles_to_update_sim_time_diff, callback, avg_time_diff_millis, main, offset>>

Millis == 0 .. SECOND - 1
Records == 0 .. MAX_NUM_TIME_DIFFERENCE_RECORDS - 1
Recorded == 0 .. num_diff_receive_timestamp_millis - 1
Average == [sum : Int, num : Nat \ {0}]
Zero == [sum |-> 0, num |-> 1]

TypeOK ==
    /\ interpolation_time_source \in Sources \cup {RTC}
    /\ diff_receive_timestamp_millis \in [Records -> 1 - HALF_SECOND .. SECOND - 1]
    /\ num_diff_receive_timestamp_millis \in 0 .. MAX_NUM_TIME_DIFFERENCE_RECORDS
    /\ next_diff_receive_timestamp_millis \in Records
    /\ average_psx_time_difference \in Average
    /\ cycles_to_update_sim_time_diff \in 0 .. INIT_CYCLES_TO_UPDATE_SIM_TIME_DIFF
    /\ callback \in {"none", "lock", "write"}
    /\ avg_time_diff_millis \in Average \cup {NAN}
    /\ main \in {"idle", "lock"}
    /\ offset \in Offsets
    /\ actual \in [Records -> [offset : Offsets, latency : Latencies]]
    /\ average_of \in {"nothing", "ring", "earlier ring", "sim run"}

Init ==
    /\ interpolation_time_source = RTC
    /\ diff_receive_timestamp_millis = [r \in Records |-> 0]
    /\ num_diff_receive_timestamp_millis = 0
    /\ next_diff_receive_timestamp_millis = 0
    /\ average_psx_time_difference = Zero
    /\ cycles_to_update_sim_time_diff = INIT_CYCLES_TO_UPDATE_SIM_TIME_DIFF
    /\ callback = "none"
    /\ avg_time_diff_millis = NAN
    /\ main = "idle"
    /\ offset \in Offsets
    /\ \E l \in Latencies : actual = [r \in Records |-> [offset |-> offset, latency |-> l]]
    /\ average_of = "nothing"
-----------------------------------------------------------------------------
\* The milliseconds of a second that a clock shows at time t.
MillisPart(t) == t % SECOND

\* Mutant: wraps only below half of a second.
DiffStrict(local, psx) == IF local - psx < -HALF_SECOND THEN local - psx + SECOND ELSE local - psx

\* diff_millis: only a difference towards the past is taken across a second.
Diff(local, psx) == IF local - psx <= -HALF_SECOND THEN local - psx + SECOND ELSE local - psx

\* Mutant: divides by the capacity.
MeanOfAll(diffs, num) ==
    [sum |-> FoldFunctionOnSet(+, 0, diffs, 0 .. num - 1), num |-> MAX_NUM_TIME_DIFFERENCE_RECORDS]

Mean(diffs, num) ==
    [sum |-> FoldFunctionOnSet(+, 0, diffs, 0 .. num - 1), num |-> num]

MoreRecords(num) == IF num < MAX_NUM_TIME_DIFFERENCE_RECORDS THEN num + 1 ELSE num

NextRecord(next) == IF next + 1 = MAX_NUM_TIME_DIFFERENCE_RECORDS THEN 0 ELSE next + 1

RecordDiff(psx, latency) ==
    LET local == MillisPart(psx + offset + latency) IN
    /\ diff_receive_timestamp_millis' =
         [diff_receive_timestamp_millis EXCEPT ![next_diff_receive_timestamp_millis] = Diff(local, psx)]
    /\ actual' = [actual EXCEPT ![next_diff_receive_timestamp_millis] =
                    [offset |-> offset, latency |-> latency]]
    /\ num_diff_receive_timestamp_millis' = MoreRecords(num_diff_receive_timestamp_millis)
    /\ next_diff_receive_timestamp_millis' = NextRecord(next_diff_receive_timestamp_millis)
    /\ avg_time_diff_millis' = Mean(diff_receive_timestamp_millis', num_diff_receive_timestamp_millis')
    /\ average_of' = IF average_of = "ring" THEN "earlier ring" ELSE average_of

\* on_boost_frame_received until it locks: the first read of the time source.
FrameReceived ==
    /\ callback = "none"
    /\ callback' = "lock"
    /\ \/ /\ interpolation_time_source = RTC
          /\ \E psx \in Millis, latency \in Latencies : RecordDiff(psx, latency)
       \/ /\ interpolation_time_source = RTC => "timespec_get" \in Failures
          /\ avg_time_diff_millis' = NAN
          /\ UNCHANGED <<ringVars, average_of>>
    /\ UNCHANGED <<interpolation_time_source, average_psx_time_difference,
                   cycles_to_update_sim_time_diff, main, offset>>

\* Mutant: the source is not looked at again.
CallbackLockUnchecked ==
    /\ callback = "lock"
    /\ callback' = "write"
    /\ UNCHANGED <<interpolation_time_source, ringVars, averageVars,
                   cycles_to_update_sim_time_diff, avg_time_diff_millis, main, offset>>

\* Its second read, with the mutex held or failed to lock.  A callback that is done
\* forgets its local variable.
CallbackLock ==
    /\ callback = "lock"
    /\ \/ /\ interpolation_time_source = RTC
          /\ callback' = "write"
          /\ UNCHANGED avg_time_diff_millis
       \/ /\ interpolation_time_source = RTC => "mtx_lock" \in Failures
          /\ callback' = "none"
          /\ avg_time_diff_millis' = NAN
    /\ UNCHANGED <<interpolation_time_source, ringVars, averageVars,
                   cycles_to_update_sim_time_diff, main, offset>>

\* average_psx_time_difference is assigned, then the mutex is unlocked.
CallbackWrite ==
    /\ callback = "write"
    /\ callback' = "none"
    /\ IF avg_time_diff_millis = NAN
       THEN average_psx_time_difference' = Zero /\ average_of' = "nothing"
       ELSE average_psx_time_difference' = avg_time_diff_millis /\ average_of' = "ring"
    /\ avg_time_diff_millis' = NAN
    /\ UNCHANGED <<interpolation_time_source, ringVars, cycles_to_update_sim_time_diff,
                   main, offset>>
-----------------------------------------------------------------------------
\* A write to the dataref; set_int checks nothing.
SetTimeSource ==
    /\ main = "idle"
    /\ interpolation_time_source' \in Sources
    /\ UNCHANGED <<ringVars, averageVars, cycles_to_update_sim_time_diff, callback,
                   avg_time_diff_millis, main, offset>>

\* The difference between both local clocks, not wrapped; 0 if one cannot be read.
SimTimeDiffs ==
    {rtc - sim : rtc, sim \in Millis} \cup (IF "timespec_get" \in Failures THEN {0} ELSE {})

\* The part of flight_loop_callback before the mutex.  No lock protects the average.
FlightLoopBegin ==
    /\ main = "idle"
    /\ main' = "lock"
    /\ \/ /\ interpolation_time_source # SIM_RUN
          /\ UNCHANGED <<averageVars, cycles_to_update_sim_time_diff>>
       \/ /\ interpolation_time_source = SIM_RUN
          /\ cycles_to_update_sim_time_diff > 0
          /\ cycles_to_update_sim_time_diff' = cycles_to_update_sim_time_diff - 1
          /\ UNCHANGED averageVars
       \/ /\ interpolation_time_source = SIM_RUN
          /\ cycles_to_update_sim_time_diff = 0
          /\ cycles_to_update_sim_time_diff' = INIT_CYCLES_TO_UPDATE_SIM_TIME_DIFF
          /\ \E diff \in SimTimeDiffs : average_psx_time_difference' = [sum |-> diff, num |-> 1]
          /\ average_of' = "sim run"
    /\ UNCHANGED <<interpolation_time_source, ringVars, callback, avg_time_diff_millis, offset>>

\* get_millis under the mutex corrects an invalid source, if interpolation is on.
FlightLoopQuery ==
    /\ main = "lock"
    /\ callback # "write"
    /\ main' = "idle"
    /\ \E queries \in BOOLEAN :
         interpolation_time_source' =
           IF queries /\ interpolation_time_source \notin {RTC, SIM_RUN}
           THEN RTC ELSE interpolation_time_source
    /\ UNCHANGED <<ringVars, averageVars, cycles_to_update_sim_time_diff, callback,
                   avg_time_diff_millis, offset>>

\* Another PSX is connected to, between two frames.  Records and average stay.
ChangeHost ==
    /\ callback = "none"
    /\ offset' \in Offsets
    /\ UNCHANGED <<interpolation_time_source, ringVars, averageVars,
                   cycles_to_update_sim_time_diff, callback, avg_time_diff_millis, main>>

CallbackNext == FrameReceived \/ CallbackLock \/ CallbackWrite

Next == CallbackNext \/ SetTimeSource \/ FlightLoopBegin \/ FlightLoopQuery \/ ChangeHost

Spec == Init /\ [][Next]_vars

\* PSX sends continuously and its thread is scheduled, and the mutex cannot always
\* fail to be locked; X-Plane runs flight loops between any writes to datarefs.
Fairness ==
    /\ WF_vars(CallbackNext)
    /\ SF_vars(CallbackLock /\ callback' = "write")
    /\ SF_vars(FlightLoopBegin)
    /\ SF_vars(FlightLoopQuery)

FairSpec == Spec /\ Fairness
-----------------------------------------------------------------------------
\* interpolation_timestamp_millis_part after both loops that bring it into the
\* second, times the denominator of the average.
Query(now, buffer) ==
    LET avg == average_psx_time_difference
    IN  ((now - buffer) * avg.num - avg.sum) % (SECOND * avg.num)

\* plugin.c, 345-356: a recorded difference is that of the clocks plus the time the
\* frame was under way, wherever in a second frame and clocks are.  It is what makes
\* a mean of such differences meaningful.
DiffsExact ==
    \A r \in Recorded :
        diff_receive_timestamp_millis[r] = actual[r].offset + actual[r].latency

Settled ==
    /\ average_of = "ring"
    /\ \A r \in Recorded : actual[r].offset = offset

\* plugin.c, 1177-1192: with records of the connected PSX only, the flight loop asks
\* for the state of PSX as old as the buffer, and older at most by the latency.
QueryTrailsPsx ==
    Settled =>
        \A psx, buffer \in Millis :
            LET num == average_psx_time_difference.num
                lag == (psx * num - Query(MillisPart(psx + offset), buffer)) % (SECOND * num)
            IN  (\A l \in Latencies : buffer + l < SECOND) =>
                    \E low, high \in Latencies :
                        (buffer + low) * num <= lag /\ lag <= (buffer + high) * num

\* README.md, 203, and plugin.c, 267: the average is negative while the local clock
\* is behind that of PSX.
BehindIsNegative ==
    Settled /\ (\A l \in Latencies : offset + l < 0) => average_psx_time_difference.sum < 0

\* plugin.c, 341, 387, 1134: a thread may find another source at its second read, or
\* write the average of a source that was just left.  Once the source stays, the
\* average in the end is that of this source, or none if the clock cannot be read.
SettlesOnSource ==
    /\ <>[](interpolation_time_source = RTC) => <>[](average_of # "sim run")
    /\ <>[](interpolation_time_source = SIM_RUN) => <>[](average_of = "sim run")
=============================================================================
