------------------------ MODULE InterpolatorTimeline ------------------------
(***************************************************************************)
(* An interpolator between its two users, on an absolute clock that the    *)
(* code does not have: the connection thread adds a point per boost frame  *)
(* (plugin.c, on_boost_frame_received) and resets when a connection is     *)
(* established or lost, the flight loop asks for the position a fixed      *)
(* delay ago (flight_loop_callback).  A boost frame's value is the time it *)
(* was sent, so the interpolated value must be the queried time itself.    *)
(***************************************************************************)
EXTENDS Interpolator

CONSTANTS
    LookBacks,      \* delays the flight loop may query: interpolation_buffer_millis
                    \* and the error of the estimated clock difference
    MaxSilence,     \* longest time an established connection brings no finite frame
    Horizon         \* bound on the absolute clock, for TLC

ASSUME TimelineAssumption ==
    /\ LookBacks \subseteq Nat
    /\ MaxSilence \in Nat
    /\ Horizon \in Nat
    /\ 0 .. Horizon \subseteq Values

VARIABLES
    now,            \* absolute time in milliseconds
    connected,
    last_sent       \* when the latest received frame was sent, or when connected

timelineVars == <<vars, now, connected, last_sent>>

TimelineInit ==
    /\ Init
    /\ now = 0
    /\ connected = FALSE
    /\ last_sent = 0

\* on_psx_connected, whose reset_psx_data resets every interpolator
Connect ==
    /\ ~connected
    /\ connected' = TRUE
    /\ last_sent' = now
    /\ interpolator_reset
    /\ UNCHANGED now

\* on_psx_disconnected
Disconnect ==
    /\ connected
    /\ connected' = FALSE
    /\ interpolator_reset
    /\ UNCHANGED <<now, last_sent>>

\* TCP may delay a frame but keeps the order of frames; two may have been sent at
\* the same time.
ReceiveFrame ==
    /\ connected
    /\ \E sent \in last_sent .. now :
         /\ interpolator_add_point(sent % MILLIS_PER_SECOND, sent)
         /\ last_sent' = sent
    /\ UNCHANGED <<now, connected>>

\* A frame whose coordinate parses as not a number breaks no silence.
ReceiveNonFinite ==
    /\ connected
    /\ \E sent \in last_sent .. now :
         interpolator_add_point(sent % MILLIS_PER_SECOND, NonFinite)
    /\ UNCHANGED <<now, connected, last_sent>>

Tick ==
    /\ now < Horizon
    /\ connected => now - last_sent < MaxSilence
    /\ now' = now + 1
    /\ UNCHANGED <<vars, connected, last_sent>>

TimelineNext == Connect \/ Disconnect \/ ReceiveFrame \/ ReceiveNonFinite \/ Tick

TimelineSpec == TimelineInit /\ [][TimelineNext]_timelineVars
-----------------------------------------------------------------------------
\* What the flight loop gets from interpolator_calculate at this moment.
Playback(look_back) == interpolator_calculate((now - look_back) % MILLIS_PER_SECOND)

\* interpolation.h: outdated values must never be replayed.  Whatever the flight
\* loop gets is the position at the time it asked for, or nothing: not one of
\* another second, of an earlier connection or of a wrong pair of key frames.
NoReplay ==
    \A look_back \in LookBacks :
        now >= look_back =>
            \/ Playback(look_back) = NAN
            \/ Playback(look_back).num = (now - look_back) * Playback(look_back).den

\* plugin.c, 1177-1205: the flight loop gets a position whenever the time it asks for
\* lies between the oldest and the latest frame the ring holds, and not further back
\* from the latest one than milliseconds can be related.
PlaybackAvailable ==
    \A look_back \in LookBacks :
        LET query == now - look_back IN
        (/\ num_frames >= 2
         /\ Frame(1).value <= query
         /\ query <= Frame(num_frames).value
         /\ Frame(num_frames).value - query <= MAX_INTERPOLATOR_FRAME_TIME_DIFF_MILLIS)
        => Playback(look_back) # NAN
=============================================================================
