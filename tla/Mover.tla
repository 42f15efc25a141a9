------------------------------- MODULE Mover --------------------------------
(***************************************************************************)
(* The plugin (plugin.c) around its PSX client: X-Plane's main thread,     *)
(* which enables and disables the plugin, changes the host and runs the    *)
(* flight loop, and the client's connection thread, whose callbacks feed   *)
(* boost frames into shared state that boost_frame_mutex protects.         *)
(*                                                                         *)
(* Abstracted: a boost frame is its number and that of its connection, its *)
(* six interpolated fields are NumChannels channels; an interpolator is    *)
(* its window of key frames (KeyFrameWindow), and both the time gap before *)
(* a frame and the queried time are chosen, once for all channels, as they *)
(* all get the same timestamps.  Everything the flight loop computes from  *)
(* a pose is left out: the pose it injects is the frames it was made from. *)
(***************************************************************************)
EXTENDS Integers, Sequences

CONSTANTS
    Hosts, DEFAULT_HOSTNAME, NULL,
    MaxAddresses, MaxLinesPerRecv,  \* bounds of PsxClient
    NumChannels,
    MAX_INTERPOLATOR_FRAMES,
    MAX_NUM_PREVIOUS_BOOST_FRAMES,
    MaxFrames, MaxConnections,      \* bounds on what PSX sends, for TLC
    Failures,       \* the calls that may fail in this instance
    MaxFaults       \* how often those of plugin.c do

ASSUME MoverAssumption ==
    /\ DEFAULT_HOSTNAME \in Hosts
    /\ NULL \notin Hosts
    /\ NumChannels \in Nat \ {0}
    /\ MAX_INTERPOLATOR_FRAMES \in Nat \ {0}
    /\ MAX_NUM_PREVIOUS_BOOST_FRAMES \in Nat \ {0}

ASSUME BoundsAssumption ==
    /\ MaxAddresses \in Nat /\ MaxLinesPerRecv \in Nat
    /\ MaxFrames \in Nat /\ MaxConnections \in Nat /\ MaxFaults \in Nat

ClientFailures == Failures \cap {"mtx_lock", "thrd_join", "thrd_sleep"}

VARIABLES \* of PsxClient
    psx_client, owner, should_shutdown, thread, first_connection,
    resolved_addresses, untried, open_sockets, lines, told, late_connections

clientVars == <<psx_client, owner, should_shutdown, thread, first_connection,
                resolved_addresses, untried, open_sockets, lines, told,
                late_connections>>

Client == INSTANCE PsxClient WITH Failures <- ClientFailures

VARIABLES
    main,                   \* where the main thread is; "idle" outside the plugin
    enabled,                \* X-Plane's view: XPluginEnable succeeded last
    connection,             \* connection_hostname and connection_port
    new_host,               \* local to recreate_psx_client
    connection_established,
    has_boost_frame_mutex,
    has_probe,              \* probe or probe_info
    flight_loop,            \* "none", "scheduled", or "deactivated" by X-Plane
    datarefs_initialized,
    faults                  \* failures of plugin.c's calls so far

pluginVars == <<enabled, connection, new_host, connection_established,
                has_boost_frame_mutex, has_probe, flight_loop,
                datarefs_initialized, faults>>

VARIABLES
    lock,                   \* holder of boost_frame_mutex
    boost_frame,            \* per channel; the struct is copied field by field
    boost_frame_applied,
    interpolators,          \* window per channel; NULL if not created

    callback, channel,      \* where the connection thread is in a callback
    received, connections,  \* frames and connections so far; the latest frame
    is_outdated,            \* the received frame comes after too long a gap

    previous_boost_frames, previous_boost_frame_index, num_previous_boost_frames,

    snapshot,               \* the flight loop's locals: copied frame and pose
    saved_num,              \* num_previous_boost_frames as record_boost_frame read it
    injected                \* the pose X-Plane was given last since it was enabled

sharedVars == <<lock, boost_frame, boost_frame_applied, interpolators>>
callbackVars == <<callback, channel, received, connections, is_outdated>>
historyVars == <<previous_boost_frames, previous_boost_frame_index,
                 num_previous_boost_frames>>
flightVars == <<snapshot, saved_num, injected>>

vars == <<clientVars, main, pluginVars, sharedVars, callbackVars, historyVars, flightVars>>

Channels == 1 .. NumChannels
Frame == [id : 0 .. MaxFrames, connection : 0 .. MaxConnections]
ZeroFrame == [id |-> 0, connection |-> 0]
ReceivedFrame == [id |-> received, connection |-> connections]

\* A channel of a pose is a frame's value, or one between two frames' values.
Source == {<<f>> : f \in Frame} \cup (Frame \X Frame)
Pose == [Channels -> Source]

\* NULL interpolators are not created ones.
ASSUME NullAssumption == NULL \notin [Channels -> Seq(Frame)]

HistorySlots == 0 .. MAX_NUM_PREVIOUS_BOOST_FRAMES - 1

FlightLoopSteps == {"fl_lock", "fl_locked", "fl_record", "fl_count", "fl_inject"}
RehostSteps == {"rehost_join", "rehost_create", "rehost_restore"}
EnableSteps == {"enable_create", "enable_probe", "enable_reset", "enable_locked", "rollback"}
DisableSteps == {"disable_join", "disable_cleanup"}

TypeOK ==
    /\ main \in {"idle"} \cup FlightLoopSteps \cup RehostSteps \cup EnableSteps
                 \cup DisableSteps
    /\ enabled \in BOOLEAN
    /\ connection \in Hosts \cup {NULL}
    /\ new_host \in Hosts \cup {NULL}
    /\ connection_established \in BOOLEAN
    /\ has_boost_frame_mutex \in BOOLEAN
    /\ has_probe \in BOOLEAN
    /\ flight_loop \in {"none", "scheduled", "deactivated"}
    /\ datarefs_initialized \in BOOLEAN
    /\ faults \in 0 .. MaxFaults
    /\ lock \in {"free", "main", "connection"}
    /\ boost_frame \in [Channels -> Frame]
    /\ boost_frame_applied \in BOOLEAN
    /\ \/ interpolators = NULL
       \/ /\ interpolators \in [Channels -> Seq(Frame)]
          /\ \A c \in Channels : Len(interpolators[c]) <= MAX_INTERPOLATOR_FRAMES
    /\ callback \in {"entry", "lock", "clear", "reset", "copy", "add", "unlock", "return"}
    /\ channel \in Channels
    /\ received \in 0 .. MaxFrames
    /\ connections \in 0 .. MaxConnections
    /\ is_outdated \in BOOLEAN
    /\ previous_boost_frames \in [HistorySlots -> Frame]
    /\ previous_boost_frame_index \in HistorySlots
    /\ num_previous_boost_frames \in 0 .. MAX_NUM_PREVIOUS_BOOST_FRAMES
    /\ snapshot \in [frame : [Channels -> Frame], pose : Pose]
    /\ saved_num \in 0 .. MAX_NUM_PREVIOUS_BOOST_FRAMES
    /\ injected \in Pose \cup {NULL}

NoSnapshot ==
    [frame |-> [c \in Channels |-> ZeroFrame], pose |-> [c \in Channels |-> <<ZeroFrame>>]]

Init ==
    /\ Client!Init
    /\ main = "idle"
    /\ enabled = FALSE
    /\ connection = NULL
    /\ new_host = NULL
    /\ connection_established = FALSE
    /\ has_boost_frame_mutex = FALSE
    /\ has_probe = FALSE
    /\ flight_loop = "none"
    /\ datarefs_initialized = FALSE
    /\ faults = 0
    /\ lock = "free"
    /\ boost_frame = [c \in Channels |-> ZeroFrame]
    /\ boost_frame_applied = TRUE
    /\ interpolators = NULL
    /\ callback = "entry"
    /\ channel = 1
    /\ received = 0
    /\ connections = 0
    /\ is_outdated = FALSE
    /\ previous_boost_frames = [s \in HistorySlots |-> ZeroFrame]
    /\ previous_boost_frame_index = 0
    /\ num_previous_boost_frames = 0
    /\ snapshot = NoSnapshot
    /\ saved_num = 0
    /\ injected = NULL

Fault(call) ==
    /\ call \in Failures
    /\ faults < MaxFaults
    /\ faults' = faults + 1

EmptyWindows == [c \in Channels |-> <<>>]

\* The interpolator functions ignore a NULL instance.
SetWindow(c, w) ==
    IF interpolators = NULL THEN NULL ELSE [interpolators EXCEPT ![c] = w]
-----------------------------------------------------------------------------
\* XPluginEnable.  Any variable an earlier instance left set makes it refuse.
Leftovers ==
    \/ datarefs_initialized \/ psx_client # NULL \/ has_probe
    \/ interpolators # NULL \/ connection # NULL \/ connection_established

\* Up to and with the part of recreate_psx_client that precedes its create.
EnableBegin ==
    /\ main = "idle" /\ ~enabled /\ ~Leftovers
    /\ boost_frame_applied' = TRUE
    /\ injected' = NULL
    /\ \/ /\ Fault("mtx_init")
          /\ UNCHANGED <<main, has_boost_frame_mutex, interpolators>>
       \/ /\ Fault("create_interpolator")
          /\ has_boost_frame_mutex' = TRUE
          /\ main' = "rollback"
          /\ UNCHANGED interpolators
       \/ /\ has_boost_frame_mutex' = TRUE
          /\ interpolators' = EmptyWindows
          /\ main' = "enable_create"
          /\ UNCHANGED faults
    /\ UNCHANGED <<clientVars, enabled, connection, new_host, connection_established,
                   has_probe, flight_loop, datarefs_initialized, lock, boost_frame,
                   callbackVars, historyVars, snapshot, saved_num>>

EnableCreate ==
    /\ main = "enable_create"
    /\ \/ /\ Client!create_psx_client(DEFAULT_HOSTNAME)
          /\ connection' = DEFAULT_HOSTNAME
          /\ main' = "enable_probe"
          /\ UNCHANGED faults
       \/ /\ Fault("create_psx_client")
          /\ main' = "rollback"
          /\ UNCHANGED <<clientVars, connection>>
    /\ UNCHANGED <<enabled, new_host, connection_established, has_boost_frame_mutex,
                   has_probe, flight_loop, datarefs_initialized, sharedVars,
                   callbackVars, historyVars, flightVars>>

\* Mutant: no rollback.
EnableProbeAlone ==
    /\ main = "enable_probe"
    /\ \/ has_probe' = TRUE /\ main' = "enable_reset" /\ UNCHANGED faults
       \/ Fault("probe") /\ has_probe' \in BOOLEAN /\ main' = "idle"
    /\ UNCHANGED <<clientVars, enabled, connection, new_host, connection_established,
                   has_boost_frame_mutex, flight_loop, datarefs_initialized, sharedVars,
                   callbackVars, historyVars, flightVars>>

EnableProbe ==
    /\ main = "enable_probe"
    /\ \/ has_probe' = TRUE /\ main' = "enable_reset" /\ UNCHANGED faults
       \/ Fault("probe") /\ has_probe' \in BOOLEAN /\ main' = "rollback"
    /\ UNCHANGED <<clientVars, enabled, connection, new_host, connection_established,
                   has_boost_frame_mutex, flight_loop, datarefs_initialized, sharedVars,
                   callbackVars, historyVars, flightVars>>

\* reset_psx_data on the main thread, then the flight loop is scheduled.
EnableLock ==
    /\ main = "enable_reset"
    /\ lock = "free" /\ lock' = "main"
    /\ main' = "enable_locked"
    /\ UNCHANGED <<clientVars, pluginVars, boost_frame, boost_frame_applied, interpolators,
                   callbackVars, historyVars, flightVars>>

EnableFinish ==
    /\ \/ /\ main = "enable_locked"
          /\ lock' = "free"
          /\ interpolators' = EmptyWindows
          /\ num_previous_boost_frames' = 0
          /\ UNCHANGED faults
       \/ /\ main = "enable_reset"
          /\ Fault("boost_lock")
          /\ UNCHANGED <<lock, interpolators, num_previous_boost_frames>>
    /\ main' = "idle"
    /\ enabled' = TRUE
    /\ flight_loop' = "scheduled"
    /\ UNCHANGED <<clientVars, connection, new_host, connection_established,
                   has_boost_frame_mutex, has_probe, datarefs_initialized,
                   boost_frame, boost_frame_applied, callbackVars,
                   previous_boost_frames, previous_boost_frame_index, flightVars>>

\* XPluginDisable, called by X-Plane or by a failed XPluginEnable.
DisableBegin ==
    /\ (main = "idle" /\ enabled) \/ main = "rollback"
    /\ enabled' = FALSE
    /\ flight_loop' = "none"
    /\ datarefs_initialized' = FALSE
    /\ \/ /\ psx_client = NULL
          /\ main' = "disable_cleanup"
          /\ UNCHANGED clientVars
       \/ /\ Client!SignalShutdown
          /\ main' = IF owner' = "joining" THEN "disable_join" ELSE "disable_cleanup"
    /\ UNCHANGED <<connection, new_host, connection_established, has_boost_frame_mutex,
                   has_probe, faults, sharedVars, callbackVars, historyVars, flightVars>>

DisableJoin ==
    /\ main = "disable_join"
    /\ \/ Client!JoinThread /\ connection' = NULL
       \/ Client!JoinFails /\ UNCHANGED connection
    /\ main' = "disable_cleanup"
    /\ UNCHANGED <<enabled, new_host, connection_established, has_boost_frame_mutex,
                   has_probe, flight_loop, datarefs_initialized, faults, sharedVars,
                   callbackVars, historyVars, flightVars>>

\* All of this happens too if the client could not be destroyed.
DisableCleanup ==
    /\ main = "disable_cleanup"
    /\ main' = "idle"
    /\ connection_established' = FALSE
    /\ has_probe' = FALSE
    /\ has_boost_frame_mutex' = FALSE
    /\ interpolators' = NULL
    /\ UNCHANGED <<clientVars, enabled, connection, new_host, flight_loop,
                   datarefs_initialized, faults, lock, boost_frame, boost_frame_applied,
                   callbackVars, historyVars, flightVars>>
-----------------------------------------------------------------------------
\* A write to the hostname or port dataref that passes its validation:
\* recreate_psx_client, one step for each create and for the join.
Rehost ==
    /\ main = "idle" /\ datarefs_initialized /\ connection # NULL
    /\ \/ /\ psx_client = NULL
          /\ new_host' \in Hosts
          /\ main' = "rehost_create"
          /\ connection_established' = FALSE
          /\ UNCHANGED clientVars
       \/ /\ Client!SignalShutdown
          /\ \/ owner' = "joining" /\ new_host' \in Hosts /\ main' = "rehost_join"
             \/ owner' = "idle" /\ UNCHANGED <<new_host, main>>
          /\ UNCHANGED connection_established
    /\ UNCHANGED <<enabled, connection, has_boost_frame_mutex, has_probe, flight_loop,
                   datarefs_initialized, faults, sharedVars, callbackVars, historyVars,
                   flightVars>>

RehostJoin ==
    /\ main = "rehost_join"
    /\ \/ /\ Client!JoinThread
          /\ connection_established' = FALSE
          /\ main' = "rehost_create"
          /\ UNCHANGED new_host
       \/ /\ Client!JoinFails
          /\ main' = "idle"
          /\ new_host' = NULL
          /\ UNCHANGED connection_established
    /\ UNCHANGED <<enabled, connection, has_boost_frame_mutex, has_probe,
                   flight_loop, datarefs_initialized, faults, sharedVars, callbackVars,
                   historyVars, flightVars>>

\* Mutant: the previous client is not restored.
RehostCreateAlone ==
    /\ main = "rehost_create"
    /\ main' = "idle"
    /\ new_host' = NULL
    /\ \/ /\ Client!create_psx_client(new_host)
          /\ connection' = new_host
          /\ UNCHANGED faults
       \/ Fault("create_psx_client") /\ UNCHANGED <<clientVars, connection>>
    /\ UNCHANGED <<enabled, connection_established, has_boost_frame_mutex,
                   has_probe, flight_loop, datarefs_initialized, sharedVars, callbackVars,
                   historyVars, flightVars>>

RehostCreate ==
    /\ main = "rehost_create"
    /\ \/ /\ Client!create_psx_client(new_host)
          /\ connection' = new_host
          /\ main' = "idle"
          /\ UNCHANGED faults
       \/ /\ Fault("create_psx_client")
          /\ main' = "rehost_restore"
          /\ UNCHANGED <<clientVars, connection>>
    /\ new_host' = NULL
    /\ UNCHANGED <<enabled, connection_established, has_boost_frame_mutex,
                   has_probe, flight_loop, datarefs_initialized, sharedVars, callbackVars,
                   historyVars, flightVars>>

\* Mutant: the default host in place of the previous one.
RehostRestoreDefault ==
    /\ main = "rehost_restore"
    /\ main' = "idle"
    /\ Client!create_psx_client(DEFAULT_HOSTNAME)
    /\ UNCHANGED <<pluginVars, sharedVars, callbackVars, historyVars, flightVars>>

RehostRestore ==
    /\ main = "rehost_restore"
    /\ main' = "idle"
    /\ \/ Client!create_psx_client(connection) /\ UNCHANGED faults
       \/ Fault("create_psx_client") /\ UNCHANGED clientVars
    /\ UNCHANGED <<enabled, connection, new_host, connection_established,
                   has_boost_frame_mutex, has_probe, flight_loop, datarefs_initialized,
                   sharedVars, callbackVars, historyVars, flightVars>>
-----------------------------------------------------------------------------
\* flight_loop_callback.  Returning 0 makes X-Plane stop calling it.
FlightLoopBegin ==
    /\ main = "idle" /\ flight_loop = "scheduled"
    /\ \/ /\ ~datarefs_initialized
          /\ Fault("find_dataref")
          /\ flight_loop' = "deactivated"
          /\ UNCHANGED <<main, datarefs_initialized>>
       \/ /\ datarefs_initialized' = TRUE
          /\ main' = "fl_lock"
          /\ UNCHANGED <<flight_loop, faults>>
    /\ UNCHANGED <<clientVars, enabled, connection, new_host, connection_established,
                   has_boost_frame_mutex, has_probe, sharedVars, callbackVars,
                   historyVars, flightVars>>

FlightLoopLock ==
    /\ main = "fl_lock"
    /\ lock = "free" /\ lock' = "main"
    /\ main' = "fl_locked"
    /\ UNCHANGED <<clientVars, pluginVars, boost_frame, boost_frame_applied, interpolators,
                   callbackVars, historyVars, flightVars>>

\* Mutant: the cycle goes on without the mutex.
FlightLoopLockIgnored ==
    /\ main = "fl_lock"
    /\ Fault("boost_lock")
    /\ main' = "fl_locked"
    /\ UNCHANGED <<clientVars, enabled, connection, new_host, connection_established,
                   has_boost_frame_mutex, has_probe, flight_loop, datarefs_initialized,
                   sharedVars, callbackVars, historyVars, flightVars>>

FlightLoopLockFails ==
    /\ main = "fl_lock"
    /\ Fault("boost_lock")
    /\ main' = "idle"
    /\ UNCHANGED <<clientVars, enabled, connection, new_host, connection_established,
                   has_boost_frame_mutex, has_probe, flight_loop, datarefs_initialized,
                   sharedVars, callbackVars, historyVars, flightVars>>

\* interpolator_calculate for a time that lies look_back frames before the latest
\* frame of a window; NULL stands for NAN.
Interpolated(w, look_back) ==
    IF look_back \in 1 .. Len(w) - 1
    THEN <<w[Len(w) - look_back], w[Len(w) - look_back + 1]>> ELSE NULL

\* Each channel falls back to the received value on its own.
Blended(look_back) ==
    [c \in Channels |->
        IF Interpolated(interpolators[c], look_back) = NULL THEN <<boost_frame[c]>>
        ELSE Interpolated(interpolators[c], look_back)]

Received == [c \in Channels |-> <<boost_frame[c]>>]

\* The section under boost_frame_mutex.  With interpolation, a pose is new in
\* every cycle; a clock that cannot be read or the debug override turn it off.
FlightLoopSnapshot ==
    /\ main = "fl_locked"
    /\ \E pose \in {Received} \cup {Blended(n) : n \in 0 .. MAX_INTERPOLATOR_FRAMES - 1},
          is_interpolating, has_debug_override \in BOOLEAN :
         /\ is_interpolating => ~has_debug_override
         /\ ~is_interpolating => pose = Received
         /\ IF ~boost_frame_applied \/ has_debug_override \/ is_interpolating
            THEN /\ main' = IF boost_frame_applied THEN "fl_inject" ELSE "fl_record"
                 /\ snapshot' = [frame |-> boost_frame, pose |-> pose]
            ELSE main' = "idle" /\ UNCHANGED snapshot
    /\ boost_frame_applied' = TRUE
    /\ lock' = "free"
    /\ UNCHANGED <<clientVars, pluginVars, boost_frame, interpolators, callbackVars,
                   historyVars, saved_num, injected>>

\* The k-th latest recorded frame.
Previous(k) ==
    previous_boost_frames[(previous_boost_frame_index - (k - 1))
                             % MAX_NUM_PREVIOUS_BOOST_FRAMES]

\* From here on the flight loop no longer holds the mutex.  record_boost_frame reads
\* and writes num_previous_boost_frames, which callbacks may clear in between.
FlightLoopRecord ==
    /\ main = "fl_record"
    /\ previous_boost_frames' =
          [previous_boost_frames EXCEPT
              ![(previous_boost_frame_index + 1) % MAX_NUM_PREVIOUS_BOOST_FRAMES]
                  = snapshot.frame[1]]
    /\ saved_num' = num_previous_boost_frames
    /\ main' = "fl_count"
    /\ UNCHANGED <<clientVars, pluginVars, sharedVars, callbackVars,
                   previous_boost_frame_index, num_previous_boost_frames, snapshot,
                   injected>>

\* Mutant: the index of the latest frame is not advanced.
FlightLoopCountOnly ==
    /\ main = "fl_count"
    /\ num_previous_boost_frames' = IF saved_num < MAX_NUM_PREVIOUS_BOOST_FRAMES
                                    THEN saved_num + 1 ELSE num_previous_boost_frames
    /\ main' = "fl_inject"
    /\ UNCHANGED <<clientVars, pluginVars, sharedVars, callbackVars, previous_boost_frames,
                   previous_boost_frame_index, flightVars>>

FlightLoopCount ==
    /\ main = "fl_count"
    /\ num_previous_boost_frames' = IF saved_num < MAX_NUM_PREVIOUS_BOOST_FRAMES
                                    THEN saved_num + 1 ELSE num_previous_boost_frames
    /\ previous_boost_frame_index' =
          (previous_boost_frame_index + 1) % MAX_NUM_PREVIOUS_BOOST_FRAMES
    /\ main' = "fl_inject"
    /\ UNCHANGED <<clientVars, pluginVars, sharedVars, callbackVars, previous_boost_frames,
                   flightVars>>

\* Mutant: the frame is marked at the end of the cycle, without the mutex.
FlightLoopInjectMarking ==
    /\ main = "fl_inject"
    /\ injected' \in {snapshot.pose, injected}
    /\ boost_frame_applied' = TRUE
    /\ main' = "idle"
    /\ snapshot' = NoSnapshot /\ saved_num' = 0
    /\ UNCHANGED <<clientVars, pluginVars, lock, boost_frame, interpolators, callbackVars,
                   historyVars>>

\* The rest of the cycle ends in the datarefs of the pose, unless suspended, and
\* forgets the local variables.
FlightLoopInject ==
    /\ main = "fl_inject"
    /\ injected' \in {snapshot.pose, injected}
    /\ main' = "idle"
    /\ snapshot' = NoSnapshot /\ saved_num' = 0
    /\ UNCHANGED <<clientVars, pluginVars, sharedVars, callbackVars, historyVars>>
-----------------------------------------------------------------------------
\* The connection thread outside of callbacks, with the bounds on what PSX sends.
ConnectionStep ==
    /\ Client!ThreadStep
    /\ thread' = "on_connected" => connections < MaxConnections
    /\ thread' = "on_boost_frame" => received < MaxFrames
    /\ UNCHANGED <<main, pluginVars, sharedVars, callbackVars, historyVars, flightVars>>

InSessionCallback == thread \in {"on_connected", "on_disconnected"}

\* Mutant: the flag is not cleared when a connection is lost.
SessionCallbackBeginTrue ==
    /\ InSessionCallback /\ callback = "entry"
    /\ connection_established' = TRUE
    /\ connections' = connections + (IF thread = "on_connected" THEN 1 ELSE 0)
    /\ callback' = "lock"
    /\ UNCHANGED <<clientVars, main, enabled, connection, new_host, has_boost_frame_mutex,
                   has_probe, flight_loop, datarefs_initialized, faults, sharedVars,
                   channel, received, is_outdated, historyVars, flightVars>>

\* on_psx_connected, on_psx_disconnected: the flag is set before the reset.
SessionCallbackBegin ==
    /\ InSessionCallback /\ callback = "entry"
    /\ connection_established' = (thread = "on_connected")
    /\ connections' = connections + (IF thread = "on_connected" THEN 1 ELSE 0)
    /\ callback' = "lock"
    /\ UNCHANGED <<clientVars, main, enabled, connection, new_host, has_boost_frame_mutex,
                   has_probe, flight_loop, datarefs_initialized, faults, sharedVars,
                   channel, received, is_outdated, historyVars, flightVars>>

\* on_boost_frame_received until it locks; the clock difference is left out.
FrameCallbackBegin ==
    /\ thread = "on_boost_frame" /\ callback = "entry"
    /\ received' = received + 1
    /\ is_outdated' \in BOOLEAN
    /\ callback' = "lock"
    /\ UNCHANGED <<clientVars, main, pluginVars, sharedVars, channel, connections,
                   historyVars, flightVars>>

CallbackLock ==
    /\ callback = "lock"
    /\ lock = "free" /\ lock' = "connection"
    /\ callback' = IF InSessionCallback THEN "clear" ELSE "copy"
    /\ channel' = 1
    /\ UNCHANGED <<clientVars, main, pluginVars, boost_frame, boost_frame_applied,
                   interpolators, received, connections, is_outdated, historyVars,
                   flightVars>>

\* Mutant: a failed lock is ignored.
CallbackLockIgnored ==
    /\ callback = "lock"
    /\ Fault("boost_lock")
    /\ callback' = IF InSessionCallback THEN "clear" ELSE "copy"
    /\ UNCHANGED <<clientVars, main, enabled, connection, new_host, connection_established,
                   has_boost_frame_mutex, has_probe, flight_loop, datarefs_initialized,
                   sharedVars, channel, received, connections, is_outdated, historyVars,
                   flightVars>>

\* Locking a destroyed mutex may do either.
CallbackLockFails ==
    /\ callback = "lock"
    /\ Fault("boost_lock") \/ (~has_boost_frame_mutex /\ UNCHANGED faults)
    /\ callback' = "return"
    /\ UNCHANGED <<clientVars, main, enabled, connection, new_host, connection_established,
                   has_boost_frame_mutex, has_probe, flight_loop, datarefs_initialized,
                   sharedVars, channel, received, connections, is_outdated, historyVars,
                   flightVars>>

NextChannel(step, next_step) ==
    /\ callback' = IF channel = NumChannels THEN next_step ELSE step
    /\ channel' = IF channel = NumChannels THEN 1 ELSE channel + 1

\* reset_psx_data
ClearHistory ==
    /\ callback = "clear"
    /\ num_previous_boost_frames' = 0
    /\ callback' = "reset"
    /\ UNCHANGED <<clientVars, main, pluginVars, sharedVars, channel, received, connections,
                   is_outdated, previous_boost_frames, previous_boost_frame_index,
                   flightVars>>

\* Mutant: nothing is reset.
ResetChannelMissing ==
    /\ callback = "reset"
    /\ callback' = "unlock"
    /\ UNCHANGED <<clientVars, main, pluginVars, sharedVars, channel, received,
                   connections, is_outdated, historyVars, flightVars>>

ResetChannel ==
    /\ callback = "reset"
    /\ interpolators' = SetWindow(channel, <<>>)
    /\ NextChannel("reset", "unlock")
    /\ UNCHANGED <<clientVars, main, pluginVars, lock, boost_frame, boost_frame_applied,
                   received, connections, is_outdated, historyVars, flightVars>>

\* The received struct becomes the current boost frame, field by field.
CopyChannel ==
    /\ callback = "copy"
    /\ boost_frame' = [boost_frame EXCEPT ![channel] = ReceivedFrame]
    /\ boost_frame_applied' = (boost_frame_applied /\ channel # NumChannels)
    /\ NextChannel("copy", "add")
    /\ UNCHANGED <<clientVars, main, pluginVars, lock, interpolators, received, connections,
                   is_outdated, historyVars, flightVars>>

\* interpolator_add_point: a gap that is too long empties the window first.
Added(w, frame) ==
    LET appended == Append(IF is_outdated THEN <<>> ELSE w, frame) IN
    IF Len(appended) > MAX_INTERPOLATOR_FRAMES THEN Tail(appended) ELSE appended

AddChannel ==
    /\ callback = "add"
    /\ interpolators' = IF interpolators = NULL THEN NULL
                        ELSE SetWindow(channel, Added(interpolators[channel],
                                                      boost_frame[channel]))
    /\ NextChannel("add", "unlock")
    /\ UNCHANGED <<clientVars, main, pluginVars, lock, boost_frame, boost_frame_applied,
                   received, connections, is_outdated, historyVars, flightVars>>

\* Mutant: an exit that forgets to unlock.
CallbackUnlockMissing ==
    /\ callback = "unlock"
    /\ callback' = "return"
    /\ UNCHANGED <<clientVars, main, pluginVars, sharedVars, channel, received,
                   connections, is_outdated, historyVars, flightVars>>

CallbackUnlock ==
    /\ callback = "unlock"
    /\ lock' = "free"
    /\ callback' = "return"
    /\ UNCHANGED <<clientVars, main, pluginVars, boost_frame, boost_frame_applied,
                   interpolators, channel, received, connections, is_outdated, historyVars,
                   flightVars>>

CallbackReturn ==
    /\ callback = "return"
    /\ Client!CallbackReturns
    /\ callback' = "entry"
    /\ UNCHANGED <<main, pluginVars, sharedVars, channel, received, connections,
                   is_outdated, historyVars, flightVars>>
-----------------------------------------------------------------------------
EnableNext == EnableBegin \/ EnableCreate \/ EnableProbe \/ EnableLock \/ EnableFinish

DisableNext == DisableBegin \/ DisableJoin \/ DisableCleanup

RehostNext == Rehost \/ RehostJoin \/ RehostCreate \/ RehostRestore

FlightLoopNext ==
    \/ FlightLoopBegin \/ FlightLoopLock \/ FlightLoopLockFails \/ FlightLoopSnapshot
    \/ FlightLoopRecord \/ FlightLoopCount \/ FlightLoopInject

CallbackNext ==
    \/ SessionCallbackBegin \/ FrameCallbackBegin \/ CallbackLock \/ CallbackLockFails
    \/ ClearHistory \/ ResetChannel \/ CopyChannel \/ AddChannel
    \/ CallbackUnlock \/ CallbackReturn

MainNext == EnableNext \/ DisableNext \/ RehostNext \/ FlightLoopNext

ConnectionNext == ConnectionStep \/ CallbackNext

Next == MainNext \/ ConnectionNext

Spec == Init /\ [][Next]_vars

\* Both threads are scheduled, and the network lets the connection thread get on
\* (see PsxClient).  X-Plane keeps running its flight loop, also if other plugins
\* write datarefs all the time.  The mutex is not always taken just when the main
\* thread tries: between two callbacks the connection thread waits for the network.
Fairness ==
    /\ WF_vars(ConnectionNext)
    /\ WF_vars(main # "idle" /\ MainNext)
    /\ SF_vars(FlightLoopLock \/ EnableLock)
    /\ SF_vars(FlightLoopBegin)

FairSpec == Spec /\ Fairness
-----------------------------------------------------------------------------
\* All channels of a pose come from the same frame, or from between the same two
\* frames, although they are copied, reset, added and interpolated one by one and
\* each falls back to the received value on its own (plugin.c, 1368-1373).
PoseConsistent ==
    injected # NULL => \A c, d \in Channels : injected[c] = injected[d]

\* Whenever nobody holds boost_frame_mutex all interpolators keep the same frames.
InterpolatorsAgree ==
    lock = "free" /\ interpolators # NULL
    => \A c, d \in Channels : interpolators[c] = interpolators[d]

\* No position is made up between frames of two connections: a lost connection or
\* another host resets the interpolators before the next frame is added, unless
\* boost_frame_mutex could not be locked, which skips the reset.
PoseWithinConnection ==
    injected # NULL /\ faults = 0 =>
        \A c \in Channels : \A i, j \in DOMAIN injected[c] :
            injected[c][i].connection = injected[c][j].connection

\* Walking back the recorded frames meets each frame once, later ones first, and
\* no slot that was never written, wherever the connection thread clears their
\* number.  While record_boost_frame is half done nobody walks.
HistoryInOrder ==
    main # "fl_count" =>
        \A k \in 1 .. num_previous_boost_frames :
            /\ Previous(k) # ZeroFrame
            /\ k > 1 => Previous(k).id < Previous(k - 1).id

\* The dataref connection_established is what its readers expect, on both sides
\* of every callback and through every host change.
EstablishedAccurate ==
    /\ connection_established => thread \in Client!Connected \cup {"on_disconnected"}
    /\ thread \in Client!Connected \ {"on_connected"} => connection_established

\* A callback never runs without the mutex and the interpolators it uses, however
\* the plugin is enabled, rolled back and disabled around it.
CallbackHasResources ==
    thread \in Client!InCallback => has_boost_frame_mutex /\ interpolators # NULL

\* Outside of the plugin's code the host and port datarefs name the running client.
ReportedHost == main = "idle" /\ psx_client # NULL => connection = psx_client

\* X-Plane can enable a disabled plugin again, and one whose enabling failed.
RestartPossible == main = "idle" /\ ~enabled => ~Leftovers

\* An enabled plugin has a client, also after a host change that failed.
ClientRestored == main = "idle" /\ enabled => psx_client # NULL

\* X-Plane's main thread always gets out of the plugin.
MainThreadReturns == main # "idle" ~> main = "idle"

\* Every frame copied by a callback, or a later one, is taken by a flight loop, unless
\* the plugin is disabled or X-Plane is told to call it no more as a dataref is missing.
FrameApplied ==
    \A n \in 1 .. MaxFrames :
        flight_loop = "scheduled" /\ ~boost_frame_applied /\ boost_frame[NumChannels].id = n
        ~> snapshot.frame[NumChannels].id >= n \/ flight_loop # "scheduled"
=============================================================================
