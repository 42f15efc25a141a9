----------------------------- MODULE MoverProofs ------------------------------
(***************************************************************************)
(* Theorems about Mover for every number of channels, key frames, recorded *)
(* frames, hosts and connections, and for every set of failing calls.  The *)
(* inductive invariant is built in layers, each of which takes the ones    *)
(* before it for granted: where both threads can be, which resources there *)
(* are, then the data they share.                                          *)
(***************************************************************************)
EXTENDS Mover, TLAPS

\* Where a callback holds boost_frame_mutex.
InSection == {"clear", "reset", "copy", "add", "unlock"}

ControlTypeOK ==
    /\ main \in {"idle"} \cup FlightLoopSteps \cup RehostSteps \cup EnableSteps
                 \cup DisableSteps
    /\ flight_loop \in {"none", "scheduled", "deactivated"}
    /\ lock \in {"free", "main", "connection"}
    /\ callback \in {"entry", "lock", "return"} \cup InSection
    /\ channel \in Channels
    /\ thread \in Client!Running \cup {"none", "terminated"}
    /\ owner \in {"idle", "joining"}

\* Who holds boost_frame_mutex can be told from where the threads are.
LockHeld ==
    /\ lock = "main" <=> main \in {"fl_locked", "enable_locked"}
    /\ lock = "connection" <=> callback \in InSection

CallbackPlace ==
    /\ callback # "entry" => thread \in Client!InCallback
    /\ callback \in {"clear", "reset"} => InSessionCallback
    /\ callback \in {"copy", "add"} => thread = "on_boost_frame"
    /\ callback \notin {"reset", "copy", "add"} => channel = 1

OwnerPlace ==
    /\ thread # "none" <=> psx_client # NULL
    /\ owner = "joining" <=> main \in {"disable_join", "rehost_join"}
    /\ owner = "joining" => psx_client # NULL
    /\ main \in {"enable_create", "rehost_create", "rehost_restore"} => psx_client = NULL
    /\ main \in {"rehost_join", "rehost_create"} => new_host # NULL
    /\ main \in RehostSteps => connection # NULL

\* The first layer.
Control == ControlTypeOK /\ LockHeld /\ CallbackPlace /\ OwnerPlace

\* The second layer: the bounds on what PSX sends.
Bounded ==
    /\ received \in 0 .. MaxFrames
    /\ connections \in 0 .. MaxConnections
    /\ thread = "on_boost_frame" /\ callback = "entry" => received < MaxFrames
    /\ thread = "on_connected" /\ callback = "entry" => connections < MaxConnections
    /\ boost_frame \in [Channels -> Frame]

Window == {w \in Seq(Frame) : Len(w) <= MAX_INTERPOLATOR_FRAMES}

\* The third layer: what there is while the plugin is enabled, or about to be.
Resources ==
    /\ interpolators = NULL \/ interpolators \in [Channels -> Window]
    /\ enabled \/ main \in EnableSteps \ {"rollback"} => interpolators # NULL
    /\ interpolators # NULL => has_boost_frame_mutex
    /\ main \in FlightLoopSteps \cup RehostSteps => enabled
    /\ main \in EnableSteps \cup DisableSteps => ~enabled
    /\ flight_loop # "none" \/ datarefs_initialized => enabled

\* A frame is copied channel by channel, from the first one on.
FrameCopied ==
    /\ callback = "copy" => \A c \in 1 .. channel - 1 : boost_frame[c] = ReceivedFrame
    /\ callback = "copy" =>
           \A c, d \in channel .. NumChannels : boost_frame[c] = boost_frame[d]
    /\ callback = "add" => \A c \in Channels : boost_frame[c] = ReceivedFrame
    /\ callback # "copy" => \A c, d \in Channels : boost_frame[c] = boost_frame[d]

\* So are interpolators reset, or given the frame.
WindowsChanged ==
    interpolators # NULL =>
        /\ callback \in {"reset", "add"} =>
             \A c, d \in channel .. NumChannels : interpolators[c] = interpolators[d]
        /\ callback = "reset" => \A c \in 1 .. channel - 1 : interpolators[c] = <<>>
        /\ callback = "add" =>
             \A c \in 1 .. channel - 1 :
                interpolators[c] = Added(interpolators[NumChannels], ReceivedFrame)
        /\ callback \notin {"reset", "add"} =>
             \A c, d \in Channels : interpolators[c] = interpolators[d]

Uniform(pose) == \A c, d \in Channels : pose[c] = pose[d]

\* The fourth layer.
Data ==
    /\ FrameCopied /\ WindowsChanged
    /\ Uniform(snapshot.pose)
    /\ injected # NULL => Uniform(injected)
-----------------------------------------------------------------------------
\* destroy_psx_client does its work.  Otherwise XPluginDisable frees what the
\* connection thread goes on using.
ClientCanBeDestroyed == Failures \cap {"mtx_lock", "thrd_join"} = {}

\* What a client that can be destroyed leaves behind and finds.
ClientLife ==
    /\ psx_client # NULL => interpolators # NULL
    /\ psx_client # NULL => enabled \/ main \in EnableSteps \cup {"disable_join"}

\* The flag, told from where the connection thread is.
Established ==
    connection_established <=>
        \/ thread \in Client!Connected \ {"on_connected"}
        \/ thread = "on_connected" /\ callback # "entry"
        \/ thread = "on_disconnected" /\ callback = "entry"

HostOfClient == psx_client # NULL => connection = psx_client

\* What is left behind takes a failed create, and a failed restore after it.
Restored ==
    /\ faults \in Nat
    /\ main = "rehost_restore" => faults >= 1
    /\ faults <= 1 /\ (enabled \/ connection # NULL) =>
           psx_client # NULL \/ main \in {"rehost_create", "rehost_restore"}
    /\ main \in {"enable_probe", "enable_reset", "enable_locked"} => psx_client # NULL
    /\ has_probe =>
           enabled \/ main \in {"enable_reset", "enable_locked", "rollback"} \cup DisableSteps
    /\ interpolators # NULL => enabled \/ main \in EnableSteps \cup DisableSteps
-----------------------------------------------------------------------------
\* All frames in a window are of one connection, and of the current one from the
\* reset on, as long as nothing failed.
WindowsOfConnection ==
    faults = 0 /\ interpolators # NULL =>
        /\ \A c \in Channels : \A i, j \in DOMAIN interpolators[c] :
               interpolators[c][i].connection = interpolators[c][j].connection
        /\ \/ thread \in Client!Connected \ {"on_connected"}
           \/ thread = "on_connected" /\ callback \in {"unlock", "return"}
           => \A c \in Channels : \A i \in DOMAIN interpolators[c] :
                  interpolators[c][i].connection = connections

OfOneConnection(pose) ==
    \A c \in Channels : \A i, j \in DOMAIN pose[c] :
        pose[c][i].connection = pose[c][j].connection

Connections ==
    /\ faults \in Nat
    /\ WindowsOfConnection
    /\ faults = 0 => OfOneConnection(snapshot.pose)
    /\ faults = 0 /\ injected # NULL => OfOneConnection(injected)
-----------------------------------------------------------------------------
LatestId == previous_boost_frames[previous_boost_frame_index].id

NextSlot == (previous_boost_frame_index + 1) % MAX_NUM_PREVIOUS_BOOST_FRAMES

\* A frame is numbered when it arrives, later than all before.
Numbered ==
    /\ received \in Nat
    /\ boost_frame[1].id <= received
    /\ thread = "on_boost_frame" /\ (callback = "lock" \/ (callback = "copy" /\ channel = 1))
           => boost_frame[1].id < received
    /\ snapshot.frame[1].id <= boost_frame[1].id

\* A frame that was not applied yet, or is just being copied, is later than what was
\* recorded or is being recorded.
Pending ==
    ~boost_frame_applied \/ (callback = "copy" /\ channel > 1) =>
        /\ LatestId < boost_frame[1].id
        /\ main \in {"fl_record", "fl_count"} => snapshot.frame[1].id < boost_frame[1].id

Ordered(n) ==
    \A k \in 1 .. n : /\ Previous(k).id >= 1
                      /\ k > 1 => Previous(k).id < Previous(k - 1).id

\* While record_boost_frame is half done, all but the oldest frame are left of those it
\* counted.
Recording ==
    /\ main = "fl_record" => LatestId < snapshot.frame[1].id
    /\ main = "fl_count" =>
           /\ previous_boost_frames[NextSlot] = snapshot.frame[1]
           /\ snapshot.frame[1].id >= 1
           /\ MAX_NUM_PREVIOUS_BOOST_FRAMES > 1 => LatestId < snapshot.frame[1].id
           /\ num_previous_boost_frames <= saved_num
           /\ \A n \in 0 .. MAX_NUM_PREVIOUS_BOOST_FRAMES - 1 : n <= saved_num => Ordered(n)

HistoryTypeOK ==
    /\ previous_boost_frames \in [HistorySlots -> Frame]
    /\ previous_boost_frame_index \in HistorySlots
    /\ num_previous_boost_frames \in 0 .. MAX_NUM_PREVIOUS_BOOST_FRAMES
    /\ saved_num \in 0 .. MAX_NUM_PREVIOUS_BOOST_FRAMES
    /\ snapshot.frame \in [Channels -> Frame]

History ==
    /\ HistoryTypeOK /\ Numbered /\ Pending /\ Recording
    /\ LatestId <= boost_frame[1].id
    /\ main # "fl_count" => Ordered(num_previous_boost_frames)
-----------------------------------------------------------------------------
LEMMA ControlInit == Init => Control
<1> SUFFICES ASSUME Init PROVE Control
  OBVIOUS
<1>1. channel \in Channels
  BY MoverAssumption DEF Init, Channels
<1> QED
  BY <1>1 DEF Init, Client!Init, Control, ControlTypeOK, LockHeld, CallbackPlace, OwnerPlace,
     FlightLoopSteps, RehostSteps, EnableSteps, DisableSteps, InSection

LEMMA ControlStep == Control /\ [Next]_vars => Control'
<1> SUFFICES ASSUME Control, [Next]_vars PROVE Control'
  OBVIOUS
<1> USE MoverAssumption
    DEF Control, ControlTypeOK, LockHeld, CallbackPlace, OwnerPlace, InSection,
        InSessionCallback, Channels, FlightLoopSteps, RehostSteps, EnableSteps, DisableSteps,
        clientVars, pluginVars, sharedVars, callbackVars, historyVars, flightVars,
        Client!Running, Client!InCallback, Client!InConnectTcpClient, Client!ownerVars,
        Client!networkVars, Client!historyVars
<1>1. CASE EnableBegin
  BY <1>1 DEF EnableBegin, Fault, Leftovers
<1>2. CASE EnableCreate
  BY <1>2 DEF EnableCreate, Fault, Client!create_psx_client
<1>3. CASE EnableProbe
  BY <1>3 DEF EnableProbe, Fault
<1>4. CASE EnableLock
  BY <1>4 DEF EnableLock
<1>5. CASE EnableFinish
  BY <1>5 DEF EnableFinish, Fault
<1>6. CASE DisableBegin
  BY <1>6 DEF DisableBegin, Client!SignalShutdown
<1>7. CASE DisableJoin
  BY <1>7 DEF DisableJoin, Client!JoinThread, Client!JoinFails
<1>8. CASE DisableCleanup
  BY <1>8 DEF DisableCleanup
<1>9. CASE Rehost
  BY <1>9 DEF Rehost, Client!SignalShutdown
<1>10. CASE RehostJoin
  BY <1>10 DEF RehostJoin, Client!JoinThread, Client!JoinFails
<1>11. CASE RehostCreate
  BY <1>11 DEF RehostCreate, Fault, Client!create_psx_client
<1>12. CASE RehostRestore
  BY <1>12 DEF RehostRestore, Fault, Client!create_psx_client
<1>13. CASE FlightLoopBegin
  BY <1>13 DEF FlightLoopBegin, Fault
<1>14. CASE FlightLoopLock
  BY <1>14 DEF FlightLoopLock
<1>15. CASE FlightLoopLockFails
  BY <1>15 DEF FlightLoopLockFails, Fault
<1>16. CASE FlightLoopSnapshot
  BY <1>16 DEF FlightLoopSnapshot
<1>17. CASE FlightLoopRecord
  BY <1>17 DEF FlightLoopRecord
<1>18. CASE FlightLoopCount
  BY <1>18 DEF FlightLoopCount
<1>19. CASE FlightLoopInject
  BY <1>19 DEF FlightLoopInject
<1>20. CASE ConnectionStep
  BY <1>20 DEF ConnectionStep, Client!ThreadStep, Client!CheckLoop, Client!SleepReturns,
         Client!LookupReturns, Client!TryNextAddress, Client!ConnectReturns,
         Client!CheckReceiveLoop, Client!ReceiveReturns, Client!ProcessChunk,
         Client!CloseConnection
<1>21. CASE SessionCallbackBegin
  BY <1>21 DEF SessionCallbackBegin
<1>22. CASE FrameCallbackBegin
  BY <1>22 DEF FrameCallbackBegin
<1>23. CASE CallbackLock
  BY <1>23 DEF CallbackLock
<1>24. CASE CallbackLockFails
  BY <1>24 DEF CallbackLockFails, Fault
<1>25. CASE ClearHistory
  BY <1>25 DEF ClearHistory
<1>26. CASE ResetChannel
  BY <1>26 DEF ResetChannel, NextChannel, SetWindow
<1>27. CASE CopyChannel
  BY <1>27 DEF CopyChannel, NextChannel
<1>28. CASE AddChannel
  BY <1>28 DEF AddChannel, NextChannel, SetWindow
<1>29. CASE CallbackUnlock
  BY <1>29 DEF CallbackUnlock
<1>30. CASE CallbackReturn
  BY <1>30 DEF CallbackReturn, Client!CallbackReturns, Client!OnConnectedReturns,
         Client!OnBoostFrameReturns, Client!OnDisconnectedReturns
<1>31. CASE UNCHANGED vars
  BY <1>31 DEF vars
<1> QED
  BY <1>1, <1>2, <1>3, <1>4, <1>5, <1>6, <1>7, <1>8, <1>9, <1>10, <1>11, <1>12, <1>13,
         <1>14, <1>15, <1>16, <1>17, <1>18, <1>19, <1>20, <1>21, <1>22, <1>23, <1>24,
         <1>25, <1>26, <1>27, <1>28, <1>29, <1>30, <1>31 DEF Next, MainNext, EnableNext,
         DisableNext, RehostNext, FlightLoopNext, ConnectionNext, CallbackNext

LEMMA FrameFields ==
    /\ ZeroFrame \in Frame
    /\ \A n \in 0 .. MaxFrames, c \in 0 .. MaxConnections :
           [id |-> n, connection |-> c] \in Frame
BY BoundsAssumption DEF ZeroFrame, Frame

LEMMA BoundedInit == Init => Bounded
<1> SUFFICES ASSUME Init PROVE Bounded
  OBVIOUS
<1>1. boost_frame \in [Channels -> Frame]
  BY FrameFields DEF Init
<1> QED
  BY <1>1, BoundsAssumption DEF Init, Client!Init, Bounded

LEMMA BoundedStep == Control /\ Bounded /\ [Next]_vars => Bounded'
<1> SUFFICES ASSUME Control, Bounded, [Next]_vars PROVE Bounded'
  OBVIOUS
<1> USE BoundsAssumption
    DEF Control, ControlTypeOK, CallbackPlace, OwnerPlace, Bounded, InSessionCallback,
        clientVars, pluginVars, sharedVars, callbackVars, historyVars, flightVars,
        Client!ownerVars, Client!networkVars, Client!historyVars, Client!InCallback
<1>1. CASE EnableBegin
  BY <1>1 DEF EnableBegin, Fault
<1>2. CASE EnableCreate
  BY <1>2 DEF EnableCreate, Fault, Client!create_psx_client
<1>3. CASE EnableProbe
  BY <1>3 DEF EnableProbe, Fault
<1>4. CASE EnableLock
  BY <1>4 DEF EnableLock
<1>5. CASE EnableFinish
  BY <1>5 DEF EnableFinish, Fault
<1>6. CASE DisableBegin
  BY <1>6 DEF DisableBegin, Client!SignalShutdown
<1>7. CASE DisableJoin
  BY <1>7 DEF DisableJoin, Client!JoinThread, Client!JoinFails
<1>8. CASE DisableCleanup
  BY <1>8 DEF DisableCleanup
<1>9. CASE Rehost
  BY <1>9 DEF Rehost, Client!SignalShutdown
<1>10. CASE RehostJoin
  BY <1>10 DEF RehostJoin, Client!JoinThread, Client!JoinFails
<1>11. CASE RehostCreate
  BY <1>11 DEF RehostCreate, Fault, Client!create_psx_client
<1>12. CASE RehostRestore
  BY <1>12 DEF RehostRestore, Fault, Client!create_psx_client
<1>13. CASE FlightLoopBegin
  BY <1>13 DEF FlightLoopBegin, Fault
<1>14. CASE FlightLoopLock
  BY <1>14 DEF FlightLoopLock
<1>15. CASE FlightLoopLockFails
  BY <1>15 DEF FlightLoopLockFails, Fault
<1>16. CASE FlightLoopSnapshot
  BY <1>16 DEF FlightLoopSnapshot
<1>17. CASE FlightLoopRecord
  BY <1>17 DEF FlightLoopRecord
<1>18. CASE FlightLoopCount
  BY <1>18 DEF FlightLoopCount
<1>19. CASE FlightLoopInject
  BY <1>19 DEF FlightLoopInject
<1>20. CASE ConnectionStep
  BY <1>20 DEF ConnectionStep, Client!ThreadStep, Client!CheckLoop, Client!SleepReturns,
         Client!LookupReturns, Client!TryNextAddress, Client!ConnectReturns,
         Client!CheckReceiveLoop, Client!ReceiveReturns, Client!ProcessChunk,
         Client!CloseConnection
<1>21. CASE SessionCallbackBegin
  BY <1>21 DEF SessionCallbackBegin
<1>22. CASE FrameCallbackBegin
  BY <1>22 DEF FrameCallbackBegin
<1>23. CASE CallbackLock
  BY <1>23 DEF CallbackLock
<1>24. CASE CallbackLockFails
  BY <1>24 DEF CallbackLockFails, Fault
<1>25. CASE ClearHistory
  BY <1>25 DEF ClearHistory
<1>26. CASE ResetChannel
  BY <1>26 DEF ResetChannel, NextChannel, SetWindow
<1>27. CASE CopyChannel
  <2>1. ReceivedFrame \in Frame
    BY FrameFields DEF ReceivedFrame
  <2> QED
    BY <1>27, <2>1 DEF CopyChannel, NextChannel
<1>28. CASE AddChannel
  BY <1>28 DEF AddChannel, NextChannel, SetWindow
<1>29. CASE CallbackUnlock
  BY <1>29 DEF CallbackUnlock
<1>30. CASE CallbackReturn
  BY <1>30 DEF CallbackReturn, Client!CallbackReturns, Client!OnConnectedReturns,
         Client!OnBoostFrameReturns, Client!OnDisconnectedReturns
<1>31. CASE UNCHANGED vars
  BY <1>31 DEF vars
<1> QED
  BY <1>1, <1>2, <1>3, <1>4, <1>5, <1>6, <1>7, <1>8, <1>9, <1>10, <1>11, <1>12, <1>13,
         <1>14, <1>15, <1>16, <1>17, <1>18, <1>19, <1>20, <1>21, <1>22, <1>23, <1>24,
         <1>25, <1>26, <1>27, <1>28, <1>29, <1>30, <1>31 DEF Next, MainNext, EnableNext,
         DisableNext, RehostNext, FlightLoopNext, ConnectionNext, CallbackNext

\* Windows are sequences of frames, and are not NULL.
LEMMA Windows ==
    /\ <<>> \in Window
    /\ EmptyWindows \in [Channels -> Window]
    /\ \A w \in [Channels -> Window] : w # NULL
<1>1. <<>> \in Window
  BY MoverAssumption DEF Window
<1>2. [Channels -> Window] \subseteq [Channels -> Seq(Frame)]
  BY DEF Window
<1> QED
  BY <1>1, <1>2, NullAssumption DEF EmptyWindows

\* A window with an added frame, which holds that frame and some of those it held.
LEMMA AddedWindow ==
    ASSUME NEW w \in Window, NEW frame \in Frame
    PROVE  /\ Added(w, frame) \in Window
           /\ \A i \in DOMAIN Added(w, frame) :
                 \/ Added(w, frame)[i] = frame
                 \/ \E j \in DOMAIN w : Added(w, frame)[i] = w[j]
<1> DEFINE appended == Append(IF is_outdated THEN <<>> ELSE w, frame)
<1>1. /\ appended \in Seq(Frame) /\ Len(appended) <= MAX_INTERPOLATOR_FRAMES + 1
      /\ Len(appended) # 0
      /\ \A i \in 1 .. Len(appended) :
            appended[i] = frame \/ \E j \in DOMAIN w : appended[i] = w[j]
  <2>1. CASE is_outdated
    BY <2>1, MoverAssumption DEF Window
  <2>2. CASE ~is_outdated
    BY <2>2, MoverAssumption DEF Window
  <2> QED
    BY <2>1, <2>2
<1> HIDE DEF appended
<1>2. CASE Len(appended) > MAX_INTERPOLATOR_FRAMES
  <2>1. /\ Tail(appended) \in Seq(Frame) /\ Len(Tail(appended)) = Len(appended) - 1
        /\ \A i \in 1 .. Len(Tail(appended)) :
              /\ i + 1 \in 1 .. Len(appended)
              /\ Tail(appended)[i] = appended[i + 1]
    BY <1>1
  <2>2. Added(w, frame) = Tail(appended)
    BY <1>2 DEF Added, appended
  <2> QED
    BY <1>1, <1>2, <2>1, <2>2, MoverAssumption DEF Window
<1>3. CASE ~(Len(appended) > MAX_INTERPOLATOR_FRAMES)
  <2>1. Added(w, frame) = appended
    BY <1>3 DEF Added, appended
  <2> QED
    BY <1>1, <1>3, <2>1, MoverAssumption DEF Window
<1> QED
  BY <1>2, <1>3

LEMMA ResourcesInit == Init => Resources
BY DEF Init, Resources, FlightLoopSteps, RehostSteps, EnableSteps, DisableSteps

LEMMA CallbackKeepsWindows ==
    ASSUME Control, Bounded, Resources, ResetChannel \/ AddChannel, interpolators # NULL
    PROVE  interpolators' \in [Channels -> Window] /\ interpolators' # NULL
<1>1. interpolators \in [Channels -> Window] /\ channel \in Channels
  BY DEF Control, ControlTypeOK, Resources
<1>2. Added(interpolators[channel], boost_frame[channel]) \in Window
  BY <1>1, AddedWindow DEF Bounded
<1>3. \A w \in Window : [interpolators EXCEPT ![channel] = w] \in [Channels -> Window]
  BY <1>1
<1> QED
  BY <1>2, <1>3, Windows DEF ResetChannel, AddChannel, SetWindow

LEMMA ResourcesStep == Control /\ Bounded /\ Resources /\ [Next]_vars => Resources'
<1> SUFFICES ASSUME Control, Bounded, Resources, [Next]_vars PROVE Resources'
  OBVIOUS
<1> USE DEF Control, ControlTypeOK, Resources, FlightLoopSteps, RehostSteps, EnableSteps,
            DisableSteps, clientVars, pluginVars, sharedVars, callbackVars, historyVars,
            flightVars
<1>1. CASE EnableBegin
  BY <1>1, Windows DEF EnableBegin, Fault, Leftovers
<1>2. CASE EnableCreate
  BY <1>2 DEF EnableCreate, Fault, Client!create_psx_client
<1>3. CASE EnableProbe
  BY <1>3 DEF EnableProbe, Fault
<1>4. CASE EnableLock
  BY <1>4 DEF EnableLock
<1>5. CASE EnableFinish
  BY <1>5, Windows DEF EnableFinish, Fault
<1>6. CASE DisableBegin
  BY <1>6 DEF DisableBegin, Client!SignalShutdown
<1>7. CASE DisableJoin
  BY <1>7 DEF DisableJoin, Client!JoinThread, Client!JoinFails
<1>8. CASE DisableCleanup
  BY <1>8 DEF DisableCleanup
<1>9. CASE Rehost
  BY <1>9 DEF Rehost, Client!SignalShutdown
<1>10. CASE RehostJoin
  BY <1>10 DEF RehostJoin, Client!JoinThread, Client!JoinFails
<1>11. CASE RehostCreate
  BY <1>11 DEF RehostCreate, Fault, Client!create_psx_client
<1>12. CASE RehostRestore
  BY <1>12 DEF RehostRestore, Fault, Client!create_psx_client
<1>13. CASE FlightLoopBegin
  BY <1>13 DEF FlightLoopBegin, Fault
<1>14. CASE FlightLoopLock
  BY <1>14 DEF FlightLoopLock
<1>15. CASE FlightLoopLockFails
  BY <1>15 DEF FlightLoopLockFails, Fault
<1>16. CASE FlightLoopSnapshot
  BY <1>16 DEF FlightLoopSnapshot
<1>17. CASE FlightLoopRecord
  BY <1>17 DEF FlightLoopRecord
<1>18. CASE FlightLoopCount
  BY <1>18 DEF FlightLoopCount
<1>19. CASE FlightLoopInject
  BY <1>19 DEF FlightLoopInject
<1>20. CASE ConnectionStep
  BY <1>20 DEF ConnectionStep, Client!ThreadStep, Client!CheckLoop, Client!SleepReturns,
         Client!LookupReturns, Client!TryNextAddress, Client!ConnectReturns,
         Client!CheckReceiveLoop, Client!ReceiveReturns, Client!ProcessChunk,
         Client!CloseConnection
<1>21. CASE SessionCallbackBegin
  BY <1>21 DEF SessionCallbackBegin
<1>22. CASE FrameCallbackBegin
  BY <1>22 DEF FrameCallbackBegin
<1>23. CASE CallbackLock
  BY <1>23 DEF CallbackLock
<1>24. CASE CallbackLockFails
  BY <1>24 DEF CallbackLockFails, Fault
<1>25. CASE ClearHistory
  BY <1>25 DEF ClearHistory
<1>26. CASE ResetChannel
  BY <1>26, Windows, CallbackKeepsWindows DEF ResetChannel, NextChannel, SetWindow
<1>27. CASE CopyChannel
  BY <1>27 DEF CopyChannel, NextChannel
<1>28. CASE AddChannel
  BY <1>28, CallbackKeepsWindows DEF AddChannel, NextChannel, SetWindow
<1>29. CASE CallbackUnlock
  BY <1>29 DEF CallbackUnlock
<1>30. CASE CallbackReturn
  BY <1>30 DEF CallbackReturn, Client!CallbackReturns, Client!OnConnectedReturns,
         Client!OnBoostFrameReturns, Client!OnDisconnectedReturns
<1>31. CASE UNCHANGED vars
  BY <1>31 DEF vars
<1> QED
  BY <1>1, <1>2, <1>3, <1>4, <1>5, <1>6, <1>7, <1>8, <1>9, <1>10, <1>11, <1>12, <1>13,
         <1>14, <1>15, <1>16, <1>17, <1>18, <1>19, <1>20, <1>21, <1>22, <1>23, <1>24,
         <1>25, <1>26, <1>27, <1>28, <1>29, <1>30, <1>31 DEF Next, MainNext, EnableNext,
         DisableNext, RehostNext, FlightLoopNext, ConnectionNext, CallbackNext
-----------------------------------------------------------------------------
LEMMA DataInit == Init => Data
<1> SUFFICES ASSUME Init PROVE Data
  OBVIOUS
<1>1. FrameCopied
  BY DEF Init, FrameCopied
<1>2. WindowsChanged
  BY DEF Init, WindowsChanged
<1>3. Uniform(snapshot.pose) /\ injected = NULL
  BY DEF Init, NoSnapshot, Uniform
<1> QED
  BY <1>1, <1>2, <1>3 DEF Data

LEMMA FrameCopiedStep ==
    Control /\ Bounded /\ FrameCopied /\ [Next]_vars => FrameCopied'
<1> SUFFICES ASSUME Control, Bounded, FrameCopied, [Next]_vars PROVE FrameCopied'
  OBVIOUS
<1> USE MoverAssumption
    DEF Control, ControlTypeOK, CallbackPlace, Bounded, FrameCopied, Channels, ReceivedFrame,
        clientVars, pluginVars, sharedVars, callbackVars, historyVars, flightVars
<1>1. CASE SessionCallbackBegin
  BY <1>1 DEF SessionCallbackBegin
<1>2. CASE FrameCallbackBegin
  BY <1>2 DEF FrameCallbackBegin
<1>3. CASE CallbackLock
  BY <1>3 DEF CallbackLock
<1>4. CASE CallbackLockFails
  BY <1>4 DEF CallbackLockFails, Fault
<1>5. CASE ClearHistory
  BY <1>5 DEF ClearHistory
<1>6. CASE ResetChannel
  BY <1>6 DEF ResetChannel, NextChannel, SetWindow
<1>7. CASE CopyChannel
  BY <1>7 DEF CopyChannel, NextChannel
<1>8. CASE AddChannel
  BY <1>8 DEF AddChannel, NextChannel, SetWindow
<1>9. CASE CallbackUnlock
  BY <1>9 DEF CallbackUnlock
<1>10. CASE CallbackReturn
  BY <1>10 DEF CallbackReturn, Client!CallbackReturns, Client!OnConnectedReturns,
         Client!OnBoostFrameReturns, Client!OnDisconnectedReturns
<1>11. CASE EnableBegin \/ EnableCreate \/ EnableProbe \/ EnableLock \/ EnableFinish \/
         DisableBegin \/ DisableJoin \/ DisableCleanup \/ Rehost \/ RehostJoin \/
         RehostCreate \/ RehostRestore \/ FlightLoopBegin \/ FlightLoopLock \/
         FlightLoopLockFails \/ FlightLoopSnapshot \/ FlightLoopRecord \/
         FlightLoopCount \/ FlightLoopInject \/ ConnectionStep
  BY <1>11 DEF EnableBegin, Fault, EnableCreate, Client!create_psx_client, EnableProbe,
         EnableLock, EnableFinish, DisableBegin, Client!SignalShutdown, DisableJoin,
         Client!JoinThread, Client!JoinFails, DisableCleanup, Rehost, RehostJoin,
         RehostCreate, RehostRestore, FlightLoopBegin, FlightLoopLock,
         FlightLoopLockFails, FlightLoopSnapshot, FlightLoopRecord, FlightLoopCount,
         FlightLoopInject, ConnectionStep, Client!ThreadStep, Client!CheckLoop,
         Client!SleepReturns, Client!LookupReturns, Client!TryNextAddress,
         Client!ConnectReturns, Client!CheckReceiveLoop, Client!ReceiveReturns,
         Client!ProcessChunk, Client!CloseConnection
<1>12. CASE UNCHANGED vars
  BY <1>12 DEF vars
<1> QED
  BY <1>1, <1>2, <1>3, <1>4, <1>5, <1>6, <1>7, <1>8, <1>9, <1>10, <1>11, <1>12 DEF Next,
         MainNext, EnableNext, DisableNext, RehostNext, FlightLoopNext, ConnectionNext,
         CallbackNext

LEMMA WindowsChangedStep ==
    /\ Control /\ Bounded /\ Resources /\ FrameCopied /\ WindowsChanged /\ [Next]_vars
    => WindowsChanged'
<1> SUFFICES ASSUME Control, Bounded, Resources, FrameCopied, WindowsChanged, [Next]_vars
             PROVE  WindowsChanged'
  OBVIOUS
<1> USE MoverAssumption
    DEF Control, ControlTypeOK, CallbackPlace, LockHeld, WindowsChanged, Channels, Added,
        ReceivedFrame,
        clientVars, pluginVars, sharedVars, callbackVars, historyVars, flightVars
<1>1. CASE EnableBegin
  BY <1>1 DEF EnableBegin, Fault, EmptyWindows, Leftovers, OwnerPlace, Client!InCallback
<1>2. CASE EnableFinish
  BY <1>2 DEF EnableFinish, Fault, EmptyWindows, InSection
<1>3. CASE DisableCleanup
  BY <1>3 DEF DisableCleanup
<1>4. CASE SessionCallbackBegin
  BY <1>4 DEF SessionCallbackBegin
<1>5. CASE FrameCallbackBegin
  BY <1>5 DEF FrameCallbackBegin
<1>6. CASE CallbackLock
  BY <1>6 DEF CallbackLock
<1>7. CASE CallbackLockFails
  BY <1>7 DEF CallbackLockFails, Fault
<1>8. CASE ClearHistory
  BY <1>8 DEF ClearHistory
<1>9. CASE ResetChannel
  <2> SUFFICES ASSUME interpolators # NULL
               PROVE  WindowsChanged'
    BY <1>9 DEF ResetChannel, SetWindow
  <2>1. interpolators' = [interpolators EXCEPT ![channel] = <<>>] /\ callback = "reset"
    BY <1>9 DEF ResetChannel, SetWindow
  <2>2. interpolators \in [Channels -> Window]
    BY DEF Resources
  <2>3. \A c \in Channels :
            interpolators'[c] = IF c = channel THEN <<>> ELSE interpolators[c]
    BY <2>1, <2>2
  <2> QED
    BY <1>9, <2>1, <2>3 DEF ResetChannel, NextChannel
<1>10. CASE CopyChannel
  BY <1>10 DEF CopyChannel, NextChannel
<1>11. CASE AddChannel
  <2> SUFFICES ASSUME interpolators # NULL
               PROVE  WindowsChanged'
    BY <1>11 DEF AddChannel, SetWindow
  <2> DEFINE added == Added(interpolators[NumChannels], ReceivedFrame)
  <2>1. /\ callback = "add"
        /\ interpolators[channel] = interpolators[NumChannels]
        /\ boost_frame[channel] = ReceivedFrame
    BY <1>11 DEF AddChannel, FrameCopied
  <2>2. interpolators' = [interpolators EXCEPT ![channel] = added]
    BY <1>11, <2>1 DEF AddChannel, SetWindow
  <2>3. \A c \in Channels :
            interpolators'[c] = IF c = channel THEN added ELSE interpolators[c]
    BY <2>2 DEF Resources
  <2> HIDE DEF added
  <2>4. CASE channel = NumChannels
    BY <1>11, <2>1, <2>3, <2>4 DEF AddChannel, NextChannel, added
  <2>5. CASE channel # NumChannels
    BY <1>11, <2>1, <2>3, <2>5 DEF AddChannel, NextChannel, added
  <2> QED
    BY <2>4, <2>5
<1>12. CASE CallbackUnlock
  BY <1>12 DEF CallbackUnlock
<1>13. CASE CallbackReturn
  BY <1>13 DEF CallbackReturn, Client!CallbackReturns, Client!OnConnectedReturns,
         Client!OnBoostFrameReturns, Client!OnDisconnectedReturns
<1>14. CASE EnableCreate \/ EnableProbe \/ EnableLock \/ DisableBegin \/ DisableJoin \/
         Rehost \/ RehostJoin \/ RehostCreate \/ RehostRestore \/ FlightLoopBegin \/
         FlightLoopLock \/ FlightLoopLockFails \/ FlightLoopSnapshot \/ FlightLoopRecord
         \/ FlightLoopCount \/ FlightLoopInject \/ ConnectionStep
  BY <1>14 DEF EnableCreate, Fault, Client!create_psx_client, EnableProbe, EnableLock,
         DisableBegin, Client!SignalShutdown, DisableJoin, Client!JoinThread,
         Client!JoinFails, Rehost, RehostJoin, RehostCreate, RehostRestore,
         FlightLoopBegin, FlightLoopLock, FlightLoopLockFails, FlightLoopSnapshot,
         FlightLoopRecord, FlightLoopCount, FlightLoopInject, ConnectionStep,
         Client!ThreadStep, Client!CheckLoop, Client!SleepReturns, Client!LookupReturns,
         Client!TryNextAddress, Client!ConnectReturns, Client!CheckReceiveLoop,
         Client!ReceiveReturns, Client!ProcessChunk, Client!CloseConnection
<1>15. CASE UNCHANGED vars
  BY <1>15 DEF vars
<1> QED
  BY <1>1, <1>2, <1>3, <1>4, <1>5, <1>6, <1>7, <1>8, <1>9, <1>10, <1>11, <1>12, <1>13,
         <1>14, <1>15 DEF Next, MainNext, EnableNext, DisableNext, RehostNext,
         FlightLoopNext, ConnectionNext, CallbackNext


\* Frames and windows that agree give poses that agree, also where a channel falls
\* back to the received value.
LEMMA PosesUniform ==
    ASSUME \A c, d \in Channels : boost_frame[c] = boost_frame[d],
           \A c, d \in Channels : interpolators[c] = interpolators[d]
    PROVE  Uniform(Received) /\ \A n : Uniform(Blended(n))
<1>1. \A n : \A c, d \in Channels :
          Interpolated(interpolators[c], n) = Interpolated(interpolators[d], n)
  OBVIOUS
<1> QED
  BY <1>1 DEF Uniform, Received, Blended

LEMMA PosesStep ==
    Control /\ Resources /\ Data /\ [Next]_vars
    => Uniform(snapshot.pose)' /\ (injected # NULL => Uniform(injected))'
<1> SUFFICES ASSUME Control, Resources, Data, [Next]_vars
             PROVE  Uniform(snapshot.pose)' /\ (injected # NULL => Uniform(injected))'
  OBVIOUS
<1> USE DEF Data, Uniform, clientVars, pluginVars, sharedVars, callbackVars, historyVars,
            flightVars
<1>1. CASE EnableBegin
  BY <1>1 DEF EnableBegin, Fault
<1>2. CASE FlightLoopSnapshot
  <2>1. \A c, d \in Channels : boost_frame[c] = boost_frame[d]
    BY <1>2 DEF FlightLoopSnapshot, Control, LockHeld, InSection, FrameCopied
  <2>2. \A c, d \in Channels : interpolators[c] = interpolators[d]
    <3>1. interpolators # NULL
      BY <1>2 DEF FlightLoopSnapshot, Resources, FlightLoopSteps
    <3> QED
      BY <1>2, <3>1 DEF FlightLoopSnapshot, Control, LockHeld, InSection, WindowsChanged
  <2>3. PICK pose \in {Received}
                          \cup {Blended(n) : n \in 0 .. MAX_INTERPOLATOR_FRAMES - 1} :
            snapshot' \in {[frame |-> boost_frame, pose |-> pose], snapshot}
    BY <1>2, Zenon DEF FlightLoopSnapshot
  <2>4. Uniform(pose)
    BY <2>1, <2>2, PosesUniform
  <2>5. injected' = injected
    BY <1>2 DEF FlightLoopSnapshot
  <2> QED
    BY <2>3, <2>4, <2>5
<1>3. CASE FlightLoopInject
  BY <1>3 DEF FlightLoopInject, NoSnapshot
<1>4. CASE EnableCreate \/ EnableProbe \/ EnableLock \/ EnableFinish \/ DisableBegin \/
         DisableJoin \/ DisableCleanup \/ Rehost \/ RehostJoin \/ RehostCreate \/
         RehostRestore \/ FlightLoopBegin \/ FlightLoopLock \/ FlightLoopLockFails \/
         FlightLoopRecord \/ FlightLoopCount \/ ConnectionStep \/ SessionCallbackBegin
         \/ FrameCallbackBegin \/ CallbackLock \/ CallbackLockFails \/ ClearHistory \/
         ResetChannel \/ CopyChannel \/ AddChannel \/ CallbackUnlock \/ CallbackReturn
  BY <1>4 DEF EnableCreate, Fault, Client!create_psx_client, EnableProbe, EnableLock,
         EnableFinish, DisableBegin, Client!SignalShutdown, DisableJoin,
         Client!JoinThread, Client!JoinFails, DisableCleanup, Rehost, RehostJoin,
         RehostCreate, RehostRestore, FlightLoopBegin, FlightLoopLock,
         FlightLoopLockFails, FlightLoopRecord, FlightLoopCount, ConnectionStep,
         Client!ThreadStep, Client!CheckLoop, Client!SleepReturns, Client!LookupReturns,
         Client!TryNextAddress, Client!ConnectReturns, Client!CheckReceiveLoop,
         Client!ReceiveReturns, Client!ProcessChunk, Client!CloseConnection,
         SessionCallbackBegin, FrameCallbackBegin, CallbackLock, CallbackLockFails,
         ClearHistory, ResetChannel, NextChannel, SetWindow, CopyChannel, AddChannel,
         CallbackUnlock, CallbackReturn, Client!CallbackReturns,
         Client!OnConnectedReturns, Client!OnBoostFrameReturns,
         Client!OnDisconnectedReturns
<1>5. CASE UNCHANGED vars
  BY <1>5 DEF vars
<1> QED
  BY <1>1, <1>2, <1>3, <1>4, <1>5 DEF Next, MainNext, EnableNext, DisableNext,
         RehostNext, FlightLoopNext, ConnectionNext, CallbackNext

\* All of this together is inductive.
Core == Control /\ Bounded /\ Resources /\ Data

LEMMA CoreInvariant == Spec => []Core
<1>1. Init => Core
  BY ControlInit, BoundedInit, ResourcesInit, DataInit DEF Core
<1>2. Core /\ [Next]_vars => Core'
  <2> SUFFICES ASSUME Core, [Next]_vars PROVE Core'
    OBVIOUS
  <2>1. Control' /\ Bounded' /\ Resources'
    BY ControlStep, BoundedStep, ResourcesStep DEF Core
  <2>2. FrameCopied' /\ WindowsChanged'
    BY FrameCopiedStep, WindowsChangedStep DEF Core, Data
  <2>3. Uniform(snapshot.pose)' /\ (injected # NULL => Uniform(injected))'
    BY PosesStep DEF Core
  <2> QED
    BY <2>1, <2>2, <2>3 DEF Core, Data
<1> QED
  BY <1>1, <1>2, PTL DEF Spec

\* plugin.c, 337-399 and 770-787: whoever takes boost_frame_mutex finds all
\* interpolators with the same frames, whatever fails, also on the way.
THEOREM InterpolatorsInStep == Spec => []InterpolatorsAgree
<1>1. Core => InterpolatorsAgree
  BY DEF Core, Control, LockHeld, InSection, Data, WindowsChanged, InterpolatorsAgree
<1> QED
  BY <1>1, CoreInvariant, PTL

\* plugin.c, 1368-1373: X-Plane is never given a pose whose channels come from
\* different frames.
THEOREM PosesNeverTorn == Spec => []PoseConsistent
<1>1. Core => PoseConsistent
  BY DEF Core, Data, Uniform, PoseConsistent
<1> QED
  BY <1>1, CoreInvariant, PTL
-----------------------------------------------------------------------------
LEMMA HostOfClientInvariant == Spec => []HostOfClient
<1>1. Init => HostOfClient
  BY DEF Init, Client!Init, HostOfClient
<1>2. HostOfClient /\ [Next]_vars => HostOfClient'
  <2> SUFFICES ASSUME HostOfClient, [Next]_vars PROVE HostOfClient'
    OBVIOUS
  <2> USE DEF HostOfClient, clientVars, pluginVars, sharedVars, callbackVars, historyVars,
              flightVars, Client!ownerVars, Client!networkVars, Client!historyVars
  <2>1. CASE EnableCreate
    BY <2>1 DEF EnableCreate, Fault, Client!create_psx_client
  <2>2. CASE DisableBegin
    BY <2>2 DEF DisableBegin, Client!SignalShutdown
  <2>3. CASE DisableJoin
    BY <2>3 DEF DisableJoin, Client!JoinThread, Client!JoinFails
  <2>4. CASE Rehost
    BY <2>4 DEF Rehost, Client!SignalShutdown
  <2>5. CASE RehostJoin
    BY <2>5 DEF RehostJoin, Client!JoinThread, Client!JoinFails
  <2>6. CASE RehostCreate
    BY <2>6 DEF RehostCreate, Fault, Client!create_psx_client
  <2>7. CASE RehostRestore
    BY <2>7 DEF RehostRestore, Fault, Client!create_psx_client
  <2>8. CASE ConnectionStep \/ SessionCallbackBegin \/ FrameCallbackBegin \/ CallbackLock
           \/ CallbackLockFails \/ ClearHistory \/ ResetChannel \/ CopyChannel \/
           AddChannel \/ CallbackUnlock \/ CallbackReturn \/ EnableBegin \/ EnableProbe \/
           EnableLock \/ EnableFinish \/ DisableCleanup \/ FlightLoopBegin \/
           FlightLoopLock \/ FlightLoopLockFails \/ FlightLoopSnapshot \/ FlightLoopRecord
           \/ FlightLoopCount \/ FlightLoopInject
    BY <2>8 DEF ConnectionStep, Client!ThreadStep, Client!CheckLoop, Client!SleepReturns,
           Client!LookupReturns, Client!TryNextAddress, Client!ConnectReturns,
           Client!CheckReceiveLoop, Client!ReceiveReturns, Client!ProcessChunk,
           Client!CloseConnection, SessionCallbackBegin, FrameCallbackBegin, CallbackLock,
           CallbackLockFails, Fault, ClearHistory, ResetChannel, NextChannel, SetWindow,
           CopyChannel, AddChannel, CallbackUnlock, CallbackReturn,
           Client!CallbackReturns, Client!OnConnectedReturns, Client!OnBoostFrameReturns,
           Client!OnDisconnectedReturns, EnableBegin, EnableProbe, EnableLock,
           EnableFinish, DisableCleanup, FlightLoopBegin, FlightLoopLock,
           FlightLoopLockFails, FlightLoopSnapshot, FlightLoopRecord, FlightLoopCount,
           FlightLoopInject
  <2>9. CASE UNCHANGED vars
    BY <2>9 DEF vars
  <2> QED
    BY <2>1, <2>2, <2>3, <2>4, <2>5, <2>6, <2>7, <2>8, <2>9 DEF Next, MainNext,
           EnableNext, DisableNext, RehostNext, FlightLoopNext, ConnectionNext,
           CallbackNext
<1> QED
  BY <1>1, <1>2, PTL DEF Spec

\* plugin.c, 799-910: the host and port datarefs name the client there is, through
\* every change of host that fails half way and is undone.
THEOREM DatarefsNameClient == Spec => []ReportedHost
<1>1. HostOfClient => ReportedHost
  BY DEF HostOfClient, ReportedHost
<1> QED
  BY <1>1, HostOfClientInvariant, PTL

LEMMA RestoredInit == Init => Restored
BY DEF Init, Client!Init, Restored, FlightLoopSteps, RehostSteps, EnableSteps, DisableSteps

LEMMA RestoredStep == Core /\ Restored /\ [Next]_vars => Restored'
<1> SUFFICES ASSUME Core, Restored, [Next]_vars PROVE Restored'
  OBVIOUS
<1> USE MoverAssumption
    DEF Core, Control, ControlTypeOK, OwnerPlace, Resources, Restored, FlightLoopSteps,
        RehostSteps, EnableSteps, DisableSteps, clientVars, pluginVars, sharedVars,
        callbackVars, historyVars, flightVars, Client!ownerVars, Client!networkVars,
        Client!historyVars
<1>1. CASE EnableBegin
  BY <1>1 DEF EnableBegin, Fault, Leftovers
<1>2. CASE EnableCreate
  BY <1>2 DEF EnableCreate, Fault, Client!create_psx_client
<1>3. CASE EnableProbe
  BY <1>3 DEF EnableProbe, Fault
<1>4. CASE EnableLock
  BY <1>4 DEF EnableLock
<1>5. CASE EnableFinish
  BY <1>5 DEF EnableFinish, Fault
<1>6. CASE DisableBegin
  BY <1>6 DEF DisableBegin, Client!SignalShutdown
<1>7. CASE DisableJoin
  BY <1>7 DEF DisableJoin, Client!JoinThread, Client!JoinFails
<1>8. CASE DisableCleanup
  BY <1>8 DEF DisableCleanup
<1>9. CASE Rehost
  BY <1>9 DEF Rehost, Client!SignalShutdown
<1>10. CASE RehostJoin
  BY <1>10 DEF RehostJoin, Client!JoinThread, Client!JoinFails
<1>11. CASE RehostCreate
  BY <1>11 DEF RehostCreate, Fault, Client!create_psx_client
<1>12. CASE RehostRestore
  BY <1>12 DEF RehostRestore, Fault, Client!create_psx_client
<1>13. CASE FlightLoopBegin
  BY <1>13 DEF FlightLoopBegin, Fault
<1>14. CASE FlightLoopLock
  BY <1>14 DEF FlightLoopLock
<1>15. CASE FlightLoopLockFails
  BY <1>15 DEF FlightLoopLockFails, Fault
<1>16. CASE FlightLoopSnapshot
  BY <1>16 DEF FlightLoopSnapshot
<1>17. CASE FlightLoopRecord
  BY <1>17 DEF FlightLoopRecord
<1>18. CASE FlightLoopCount
  BY <1>18 DEF FlightLoopCount
<1>19. CASE FlightLoopInject
  BY <1>19 DEF FlightLoopInject
<1>20. CASE ConnectionStep \/ SessionCallbackBegin \/ FrameCallbackBegin \/ CallbackLock
         \/ CallbackLockFails \/ ClearHistory \/ ResetChannel \/ CopyChannel \/
         AddChannel \/ CallbackUnlock \/ CallbackReturn
  BY <1>20 DEF ConnectionStep, Client!ThreadStep, Client!CheckLoop, Client!SleepReturns,
         Client!LookupReturns, Client!TryNextAddress, Client!ConnectReturns,
         Client!CheckReceiveLoop, Client!ReceiveReturns, Client!ProcessChunk,
         Client!CloseConnection, SessionCallbackBegin, FrameCallbackBegin, CallbackLock,
         CallbackLockFails, Fault, ClearHistory, ResetChannel, NextChannel, SetWindow,
         CopyChannel, AddChannel, CallbackUnlock, CallbackReturn,
         Client!CallbackReturns, Client!OnConnectedReturns, Client!OnBoostFrameReturns,
         Client!OnDisconnectedReturns
<1>21. CASE UNCHANGED vars
  BY <1>21 DEF vars
<1> QED
  BY <1>1, <1>2, <1>3, <1>4, <1>5, <1>6, <1>7, <1>8, <1>9, <1>10, <1>11, <1>12, <1>13,
         <1>14, <1>15, <1>16, <1>17, <1>18, <1>19, <1>20, <1>21 DEF Next, MainNext,
         EnableNext, DisableNext, RehostNext, FlightLoopNext, ConnectionNext,
         CallbackNext

LEMMA RestoredInvariant == Spec => []Restored
BY RestoredInit, RestoredStep, CoreInvariant, PTL DEF Spec

\* plugin.c, 799-848 and 1486-1558: a plugin that is enabled has a client, unless two of
\* its calls have failed.
THEOREM ClientIsRestored == Spec => [](faults <= 1 => ClientRestored)
<1>1. Restored => (faults <= 1 => ClientRestored)
  BY DEF Restored, ClientRestored
<1> QED
  BY <1>1, RestoredInvariant, PTL

LEMMA ClientLifeStep ==
    ASSUME ClientCanBeDestroyed, Core, ClientLife, [Next]_vars
    PROVE  ClientLife'
<1>1. "mtx_lock" \notin ClientFailures /\ "thrd_join" \notin ClientFailures
  BY DEF ClientCanBeDestroyed, ClientFailures
<1> USE DEF Core, Control, ControlTypeOK, OwnerPlace, Resources, ClientLife, FlightLoopSteps,
            RehostSteps, EnableSteps, DisableSteps, clientVars, pluginVars, sharedVars,
            callbackVars, historyVars, flightVars, Client!ownerVars, Client!networkVars,
            Client!historyVars
<1>2. CASE EnableBegin
  BY <1>2, Windows DEF EnableBegin, Fault, Leftovers
<1>3. CASE EnableCreate
  BY <1>3 DEF EnableCreate, Fault, Client!create_psx_client
<1>4. CASE EnableProbe
  BY <1>4 DEF EnableProbe, Fault
<1>5. CASE EnableLock
  BY <1>5 DEF EnableLock
<1>6. CASE EnableFinish
  BY <1>6, Windows DEF EnableFinish, Fault
<1>7. CASE DisableBegin
  BY <1>7, <1>1 DEF DisableBegin, Client!SignalShutdown, Client!MayFail
<1>8. CASE DisableJoin
  BY <1>8, <1>1 DEF DisableJoin, Client!JoinThread, Client!JoinFails, Client!MayFail
<1>9. CASE DisableCleanup
  BY <1>9 DEF DisableCleanup
<1>10. CASE Rehost
  BY <1>10, <1>1 DEF Rehost, Client!SignalShutdown, Client!MayFail
<1>11. CASE RehostJoin
  BY <1>11, <1>1 DEF RehostJoin, Client!JoinThread, Client!JoinFails, Client!MayFail
<1>12. CASE RehostCreate
  BY <1>12 DEF RehostCreate, Fault, Client!create_psx_client
<1>13. CASE RehostRestore
  BY <1>13 DEF RehostRestore, Fault, Client!create_psx_client
<1>14. CASE FlightLoopBegin
  BY <1>14 DEF FlightLoopBegin, Fault
<1>15. CASE FlightLoopLock
  BY <1>15 DEF FlightLoopLock
<1>16. CASE FlightLoopLockFails
  BY <1>16 DEF FlightLoopLockFails, Fault
<1>17. CASE FlightLoopSnapshot
  BY <1>17 DEF FlightLoopSnapshot
<1>18. CASE FlightLoopRecord
  BY <1>18 DEF FlightLoopRecord
<1>19. CASE FlightLoopCount
  BY <1>19 DEF FlightLoopCount
<1>20. CASE FlightLoopInject
  BY <1>20 DEF FlightLoopInject
<1>21. CASE ConnectionStep \/ SessionCallbackBegin \/ FrameCallbackBegin \/ CallbackLock
         \/ CallbackLockFails \/ ClearHistory \/ ResetChannel \/ CopyChannel \/
         AddChannel \/ CallbackUnlock \/ CallbackReturn
  BY <1>21, CallbackKeepsWindows DEF ConnectionStep, Client!ThreadStep, Client!CheckLoop,
         Client!SleepReturns,
         Client!LookupReturns, Client!TryNextAddress, Client!ConnectReturns,
         Client!CheckReceiveLoop, Client!ReceiveReturns, Client!ProcessChunk,
         Client!CloseConnection, SessionCallbackBegin, FrameCallbackBegin, CallbackLock,
         CallbackLockFails, Fault, ClearHistory, ResetChannel, NextChannel, SetWindow,
         CopyChannel, AddChannel, CallbackUnlock, CallbackReturn,
         Client!CallbackReturns, Client!OnConnectedReturns, Client!OnBoostFrameReturns,
         Client!OnDisconnectedReturns
<1>22. CASE UNCHANGED vars
  BY <1>22 DEF vars
<1> QED
  BY <1>2, <1>3, <1>4, <1>5, <1>6, <1>7, <1>8, <1>9, <1>10, <1>11, <1>12, <1>13, <1>14,
         <1>15, <1>16, <1>17, <1>18, <1>19, <1>20, <1>21, <1>22 DEF Next, MainNext,
         EnableNext, DisableNext, RehostNext, FlightLoopNext, ConnectionNext,
         CallbackNext

LEMMA EstablishedStep ==
    ASSUME ClientCanBeDestroyed, Core, ClientLife, Established, [Next]_vars
    PROVE  Established'
<1>1. "mtx_lock" \notin ClientFailures /\ "thrd_join" \notin ClientFailures
  BY DEF ClientCanBeDestroyed, ClientFailures
<1> USE DEF Core, Control, ControlTypeOK, CallbackPlace, OwnerPlace, Resources, ClientLife,
            Established, InSection, InSessionCallback, FlightLoopSteps,
            RehostSteps, EnableSteps, DisableSteps, clientVars, pluginVars, sharedVars,
            callbackVars, historyVars, flightVars, Client!ownerVars, Client!networkVars,
            Client!historyVars, Client!Connected, Client!InCallback,
            Client!Running, Client!InConnectTcpClient
<1>2. CASE EnableBegin
  BY <1>2 DEF EnableBegin, Fault, Leftovers
<1>3. CASE EnableCreate
  BY <1>3 DEF EnableCreate, Fault, Client!create_psx_client
<1>4. CASE EnableProbe
  BY <1>4 DEF EnableProbe, Fault
<1>5. CASE EnableLock
  BY <1>5 DEF EnableLock
<1>6. CASE EnableFinish
  BY <1>6 DEF EnableFinish, Fault
<1>7. CASE DisableBegin
  BY <1>7, <1>1 DEF DisableBegin, Client!SignalShutdown, Client!MayFail
<1>8. CASE DisableJoin
  BY <1>8, <1>1 DEF DisableJoin, Client!JoinThread, Client!JoinFails, Client!MayFail
<1>9. CASE DisableCleanup
  BY <1>9 DEF DisableCleanup
<1>10. CASE Rehost
  BY <1>10, <1>1 DEF Rehost, Client!SignalShutdown, Client!MayFail
<1>11. CASE RehostJoin
  BY <1>11, <1>1 DEF RehostJoin, Client!JoinThread, Client!JoinFails, Client!MayFail
<1>12. CASE RehostCreate
  BY <1>12 DEF RehostCreate, Fault, Client!create_psx_client
<1>13. CASE RehostRestore
  BY <1>13 DEF RehostRestore, Fault, Client!create_psx_client
<1>14. CASE FlightLoopBegin
  BY <1>14 DEF FlightLoopBegin, Fault
<1>15. CASE FlightLoopLock
  BY <1>15 DEF FlightLoopLock
<1>16. CASE FlightLoopLockFails
  BY <1>16 DEF FlightLoopLockFails, Fault
<1>17. CASE FlightLoopSnapshot
  BY <1>17 DEF FlightLoopSnapshot
<1>18. CASE FlightLoopRecord
  BY <1>18 DEF FlightLoopRecord
<1>19. CASE FlightLoopCount
  BY <1>19 DEF FlightLoopCount
<1>20. CASE FlightLoopInject
  BY <1>20 DEF FlightLoopInject
<1>21. CASE ConnectionStep
  BY <1>21 DEF ConnectionStep, Client!ThreadStep, Client!CheckLoop, Client!SleepReturns,
         Client!LookupReturns, Client!TryNextAddress, Client!ConnectReturns,
         Client!CheckReceiveLoop, Client!ReceiveReturns, Client!ProcessChunk,
         Client!CloseConnection
<1>22. CASE SessionCallbackBegin
  BY <1>22 DEF SessionCallbackBegin
<1>23. CASE FrameCallbackBegin
  BY <1>23 DEF FrameCallbackBegin
<1>24. CASE CallbackLock
  BY <1>24 DEF CallbackLock
<1>25. CASE CallbackLockFails
  BY <1>25 DEF CallbackLockFails, Fault
<1>26. CASE ClearHistory
  BY <1>26 DEF ClearHistory
<1>27. CASE ResetChannel
  BY <1>27 DEF ResetChannel, NextChannel, SetWindow
<1>28. CASE CopyChannel
  BY <1>28 DEF CopyChannel, NextChannel
<1>29. CASE AddChannel
  BY <1>29 DEF AddChannel, NextChannel, SetWindow
<1>30. CASE CallbackUnlock
  BY <1>30 DEF CallbackUnlock
<1>31. CASE CallbackReturn
  BY <1>31 DEF CallbackReturn, Client!CallbackReturns, Client!OnConnectedReturns,
         Client!OnBoostFrameReturns, Client!OnDisconnectedReturns
<1>32. CASE UNCHANGED vars
  BY <1>32 DEF vars
<1> QED
  BY <1>2, <1>3, <1>4, <1>5, <1>6, <1>7, <1>8, <1>9, <1>10, <1>11, <1>12, <1>13, <1>14,
         <1>15, <1>16, <1>17, <1>18, <1>19, <1>20, <1>21, <1>22, <1>23, <1>24, <1>25,
         <1>26, <1>27, <1>28, <1>29, <1>30, <1>31, <1>32 DEF Next, MainNext, EnableNext,
         DisableNext, RehostNext, FlightLoopNext, ConnectionNext, CallbackNext

LEMMA ClientLifeInvariant ==
    ASSUME ClientCanBeDestroyed
    PROVE  Spec => [](Core /\ ClientLife /\ Established)
<1>1. Init => ClientLife /\ Established
  BY DEF Init, Client!Init, ClientLife, Established, Client!Connected
<1>2. Core /\ ClientLife /\ Established /\ [Next]_vars => ClientLife' /\ Established'
  BY ClientLifeStep, EstablishedStep
<1> QED
  BY <1>1, <1>2, CoreInvariant, PTL DEF Spec

\* plugin.c, 789-820 and 1580: the dataref connection_established is right while the connection
\* thread is in none of its callbacks, and in them from the side it is written on.
THEOREM EstablishedIsAccurate ==
    ASSUME ClientCanBeDestroyed
    PROVE  Spec => []EstablishedAccurate
<1>1. Established => EstablishedAccurate
  BY DEF Established, EstablishedAccurate, Client!Connected
<1> QED
  BY <1>1, ClientLifeInvariant, PTL

\* plugin.c, 1486-1647: enabling creates what callbacks use before the client, disabling
\* and rolling back free it after the client.
THEOREM CallbacksHaveResources ==
    ASSUME ClientCanBeDestroyed
    PROVE  Spec => []CallbackHasResources
<1>1. Core /\ ClientLife => CallbackHasResources
  BY DEF Core, Control, OwnerPlace, Resources, ClientLife, CallbackHasResources,
         Client!InCallback
<1> QED
  BY <1>1, ClientLifeInvariant, PTL

\* plugin.c, 1496-1502 and 1560-1647: nothing is left that makes XPluginEnable refuse,
\* unless two of the plugin's calls have failed.
THEOREM PluginCanRestart ==
    ASSUME ClientCanBeDestroyed
    PROVE  Spec => [](faults <= 1 => RestartPossible)
<1>1. Core /\ ClientLife /\ Established /\ Restored => (faults <= 1 => RestartPossible)
  BY DEF Core, Control, OwnerPlace, Resources, ClientLife, Established, Restored,
         RestartPossible, Leftovers, Client!Connected, FlightLoopSteps, RehostSteps,
         EnableSteps, DisableSteps
<1> QED
  BY <1>1, ClientLifeInvariant, RestoredInvariant, PTL
-----------------------------------------------------------------------------
LEMMA WindowsOfConnectionStep ==
    ASSUME Core, faults \in Nat, WindowsOfConnection, [Next]_vars
    PROVE  faults' \in Nat /\ WindowsOfConnection'
<1> USE MoverAssumption, BoundsAssumption
    DEF Core, Control, ControlTypeOK, LockHeld, CallbackPlace, OwnerPlace, Resources,
        WindowsOfConnection, InSection, InSessionCallback, FlightLoopSteps, RehostSteps,
        EnableSteps, DisableSteps, clientVars, pluginVars, sharedVars,
        callbackVars, historyVars, flightVars, Client!ownerVars, Client!networkVars,
        Client!historyVars, Client!Connected, Client!InCallback, Client!InConnectTcpClient
<1>1. CASE EnableBegin
  BY <1>1 DEF EnableBegin, Fault, Leftovers, EmptyWindows
<1>2. CASE EnableFinish
  BY <1>2 DEF EnableFinish, Fault, EmptyWindows
<1>3. CASE DisableCleanup
  BY <1>3 DEF DisableCleanup
<1>4. CASE EnableCreate
  BY <1>4 DEF EnableCreate, Fault, Client!create_psx_client
<1>5. CASE DisableJoin
  BY <1>5 DEF DisableJoin, Client!JoinThread, Client!JoinFails
<1>6. CASE RehostJoin
  BY <1>6 DEF RehostJoin, Client!JoinThread, Client!JoinFails
<1>7. CASE RehostCreate
  BY <1>7 DEF RehostCreate, Fault, Client!create_psx_client
<1>8. CASE RehostRestore
  BY <1>8 DEF RehostRestore, Fault, Client!create_psx_client
<1>9. CASE ConnectionStep
  BY <1>9 DEF ConnectionStep, Client!ThreadStep, Client!CheckLoop, Client!SleepReturns,
         Client!LookupReturns, Client!TryNextAddress, Client!ConnectReturns,
         Client!CheckReceiveLoop, Client!ReceiveReturns, Client!ProcessChunk,
         Client!CloseConnection
<1>10. CASE SessionCallbackBegin
  BY <1>10 DEF SessionCallbackBegin
<1>11. CASE FrameCallbackBegin
  BY <1>11 DEF FrameCallbackBegin
<1>12. CASE CallbackLock
  BY <1>12 DEF CallbackLock
<1>13. CASE CallbackLockFails
  BY <1>13 DEF CallbackLockFails, Fault
<1>14. CASE ClearHistory
  BY <1>14 DEF ClearHistory
<1>15. CASE ResetChannel
  <2> SUFFICES ASSUME interpolators # NULL
               PROVE  faults' \in Nat /\ WindowsOfConnection'
    BY <1>15 DEF ResetChannel, SetWindow
  <2>1. /\ interpolators \in [Channels -> Window] /\ callback = "reset" /\ faults' = faults
        /\ interpolators' = [interpolators EXCEPT ![channel] = <<>>]
        /\ thread' = thread /\ connections' = connections
    BY <1>15 DEF ResetChannel, SetWindow
  <2>2. \A c \in Channels :
            interpolators'[c] = IF c = channel THEN <<>> ELSE interpolators[c]
    BY <2>1
  <2>3. callback' # "reset" => \A c \in Channels : interpolators'[c] = <<>>
    BY <1>15, <2>1, <2>2 DEF ResetChannel, NextChannel, Data, WindowsChanged, Channels
  <2>4. callback' \in {"reset", "unlock"} /\ thread \in {"on_connected", "on_disconnected"}
    BY <1>15 DEF ResetChannel, NextChannel
  <2> QED
    BY <2>1, <2>2, <2>3, <2>4
<1>16. CASE CopyChannel
  BY <1>16 DEF CopyChannel, NextChannel
<1>17. CASE AddChannel
  <2> SUFFICES ASSUME interpolators # NULL, faults = 0
               PROVE  faults' \in Nat /\ WindowsOfConnection'
    BY <1>17 DEF AddChannel, SetWindow
  <2> DEFINE added == Added(interpolators[channel], boost_frame[channel])
  <2>1. /\ thread = "on_boost_frame" /\ callback' \in {"add", "unlock"}
        /\ interpolators \in [Channels -> Window] /\ faults' = faults
        /\ interpolators' = [interpolators EXCEPT ![channel] = added]
        /\ thread' = thread /\ connections' = connections
    BY <1>17 DEF AddChannel, NextChannel, SetWindow
  <2>2. \A c \in Channels :
            interpolators'[c] = IF c = channel THEN added ELSE interpolators[c]
    BY <2>1
  <2>3. boost_frame[channel] \in Frame /\ boost_frame[channel].connection = connections
    BY <1>17 DEF AddChannel, Data, FrameCopied, ReceivedFrame, Bounded
  <2>4. \A i \in DOMAIN added : added[i].connection = connections
    BY <2>1, <2>3, AddedWindow
  <2> HIDE DEF added
  <2> QED
    BY <2>1, <2>2, <2>4
<1>18. CASE CallbackUnlock
  BY <1>18 DEF CallbackUnlock
<1>19. CASE CallbackReturn
  BY <1>19 DEF CallbackReturn, Client!CallbackReturns, Client!OnConnectedReturns,
         Client!OnBoostFrameReturns, Client!OnDisconnectedReturns
<1>20. CASE EnableProbe \/ EnableLock \/ DisableBegin \/ Rehost \/ FlightLoopBegin \/
         FlightLoopLock \/ FlightLoopLockFails \/ FlightLoopSnapshot \/ FlightLoopRecord
         \/ FlightLoopCount \/ FlightLoopInject
  BY <1>20 DEF EnableProbe, Fault, EnableLock, DisableBegin, Client!SignalShutdown,
         Rehost, FlightLoopBegin, FlightLoopLock, FlightLoopLockFails,
         FlightLoopSnapshot, FlightLoopRecord, FlightLoopCount, FlightLoopInject
<1>21. CASE UNCHANGED vars
  BY <1>21 DEF vars
<1> QED
  BY <1>1, <1>2, <1>3, <1>4, <1>5, <1>6, <1>7, <1>8, <1>9, <1>10, <1>11, <1>12, <1>13,
         <1>14, <1>15, <1>16, <1>17, <1>18, <1>19, <1>20, <1>21 DEF Next, MainNext,
         EnableNext, DisableNext, RehostNext, FlightLoopNext, ConnectionNext,
         CallbackNext

\* What is blended from a window, and what a channel falls back to.
LEMMA PosesOfConnection ==
    ASSUME interpolators \in [Channels -> Window],
           \A c \in Channels : \A i, j \in DOMAIN interpolators[c] :
               interpolators[c][i].connection = interpolators[c][j].connection
    PROVE  /\ OfOneConnection(Received)
           /\ \A n \in Nat : OfOneConnection(Blended(n))
<1>1. OfOneConnection(Received)
  BY DEF OfOneConnection, Received
<1>2. ASSUME NEW n \in Nat
      PROVE  OfOneConnection(Blended(n))
  <2> SUFFICES ASSUME NEW c \in Channels
               PROVE  \A i, j \in DOMAIN Blended(n)[c] :
                          Blended(n)[c][i].connection = Blended(n)[c][j].connection
    BY DEF OfOneConnection
  <2>1. CASE Blended(n)[c] = <<boost_frame[c]>>
    BY <2>1
  <2>2. CASE Blended(n)[c] # <<boost_frame[c]>>
    <3> DEFINE w == interpolators[c]
    <3>1. w \in Seq(Frame) /\ DOMAIN w = 1 .. Len(w)
      BY DEF Window
    <3>2. /\ Blended(n)[c] = Interpolated(w, n)
          /\ Interpolated(w, n) # NULL
      BY <2>2 DEF Blended
    <3> HIDE DEF w
    <3>3. /\ n \in 1 .. Len(w) - 1
          /\ Interpolated(w, n) = <<w[Len(w) - n], w[Len(w) - n + 1]>>
      BY <3>2 DEF Interpolated
    <3>4. Len(w) - n \in DOMAIN w /\ Len(w) - n + 1 \in DOMAIN w
      <4>1. Len(w) \in Nat
        BY <3>1
      <4> QED
        BY <3>1, <3>3, <4>1
    <3> DEFINE older == w[Len(w) - n]
               newer == w[Len(w) - n + 1]
    <3>5. older.connection = newer.connection
      BY <3>4, Zenon DEF w
    <3>6. Blended(n)[c] = <<older, newer>>
      BY <3>2, <3>3
    <3> HIDE DEF older, newer
    <3> QED
      BY <3>5, <3>6
  <2> QED
    BY <2>1, <2>2
<1> QED
  BY <1>1, <1>2

LEMMA PosesOfConnectionStep ==
    ASSUME Core, Connections, [Next]_vars
    PROVE  /\ faults' = 0 => OfOneConnection(snapshot.pose)'
           /\ faults' = 0 /\ injected' # NULL => OfOneConnection(injected)'
<1> USE BoundsAssumption
    DEF Core, Connections, OfOneConnection, clientVars, pluginVars, sharedVars, callbackVars,
        historyVars, flightVars
<1>1. CASE EnableBegin
  BY <1>1 DEF EnableBegin, Fault
<1>2. CASE FlightLoopSnapshot
  <2>1. interpolators \in [Channels -> Window] /\ interpolators # NULL
    BY <1>2 DEF FlightLoopSnapshot, Resources, FlightLoopSteps
  <2>2. PICK pose \in {Received}
                          \cup {Blended(n) : n \in 0 .. MAX_INTERPOLATOR_FRAMES - 1} :
            snapshot' \in {[frame |-> boost_frame, pose |-> pose], snapshot}
    BY <1>2, Zenon DEF FlightLoopSnapshot
  <2>3. faults' = faults /\ injected' = injected
    BY <1>2 DEF FlightLoopSnapshot
  <2>4. faults = 0 => OfOneConnection(pose)
    BY <2>1, <2>2, PosesOfConnection DEF WindowsOfConnection
  <2> QED
    BY <2>2, <2>3, <2>4
<1>3. CASE FlightLoopInject
  BY <1>3 DEF FlightLoopInject, NoSnapshot
<1>4. CASE EnableCreate \/ EnableProbe \/ EnableLock \/ EnableFinish \/ DisableBegin \/
         DisableJoin \/ DisableCleanup \/ Rehost \/ RehostJoin \/ RehostCreate \/
         RehostRestore \/ FlightLoopBegin \/ FlightLoopLock \/ FlightLoopLockFails \/
         FlightLoopRecord \/ FlightLoopCount \/ ConnectionStep \/ SessionCallbackBegin
         \/ FrameCallbackBegin \/ CallbackLock \/ CallbackLockFails \/ ClearHistory \/
         ResetChannel \/ CopyChannel \/ AddChannel \/ CallbackUnlock \/ CallbackReturn
  BY <1>4 DEF EnableCreate, Fault, Client!create_psx_client, EnableProbe, EnableLock,
         EnableFinish, DisableBegin, Client!SignalShutdown, DisableJoin,
         Client!JoinThread, Client!JoinFails, DisableCleanup, Rehost, RehostJoin,
         RehostCreate, RehostRestore, FlightLoopBegin, FlightLoopLock,
         FlightLoopLockFails, FlightLoopRecord, FlightLoopCount, ConnectionStep,
         Client!ThreadStep, Client!CheckLoop, Client!SleepReturns, Client!LookupReturns,
         Client!TryNextAddress, Client!ConnectReturns, Client!CheckReceiveLoop,
         Client!ReceiveReturns, Client!ProcessChunk, Client!CloseConnection,
         SessionCallbackBegin, FrameCallbackBegin, CallbackLock, CallbackLockFails,
         ClearHistory, ResetChannel, NextChannel, SetWindow, CopyChannel, AddChannel,
         CallbackUnlock, CallbackReturn, Client!CallbackReturns,
         Client!OnConnectedReturns, Client!OnBoostFrameReturns,
         Client!OnDisconnectedReturns
<1>5. CASE UNCHANGED vars
  BY <1>5 DEF vars
<1> QED
  BY <1>1, <1>2, <1>3, <1>4, <1>5 DEF Next, MainNext, EnableNext, DisableNext,
         RehostNext, FlightLoopNext, ConnectionNext, CallbackNext

LEMMA ConnectionsInvariant == Spec => [](Core /\ Connections)
<1>1. Init => Connections
  BY DEF Init, Connections, WindowsOfConnection, OfOneConnection, NoSnapshot
<1>2. Core /\ Connections /\ [Next]_vars => Connections'
  BY WindowsOfConnectionStep, PosesOfConnectionStep DEF Connections
<1> QED
  BY <1>1, <1>2, CoreInvariant, PTL DEF Spec

\* plugin.c, 770-797 and 1200-1205: the interpolators are reset between the frames of two
\* connections, so no pose lies between them, as long as the mutex can be locked.
THEOREM PosesOfOneConnection == Spec => []PoseWithinConnection
<1>1. Connections => PoseWithinConnection
  BY DEF Connections, OfOneConnection, PoseWithinConnection
<1> QED
  BY <1>1, ConnectionsInvariant, PTL
-----------------------------------------------------------------------------
\* The slots that Previous walks through, before and after the index is advanced.
LEMMA WalkedSlots ==
    ASSUME HistoryTypeOK,
           NEW k \in 1 .. MAX_NUM_PREVIOUS_BOOST_FRAMES
    PROVE  /\ NextSlot \in HistorySlots
           /\ Previous(1) = previous_boost_frames[previous_boost_frame_index]
           /\ (previous_boost_frame_index - (k - 1)) % MAX_NUM_PREVIOUS_BOOST_FRAMES
                  \in HistorySlots
           /\ k < MAX_NUM_PREVIOUS_BOOST_FRAMES =>
                /\ (previous_boost_frame_index - (k - 1)) % MAX_NUM_PREVIOUS_BOOST_FRAMES
                       # NextSlot
                /\ (NextSlot - k) % MAX_NUM_PREVIOUS_BOOST_FRAMES
                       = (previous_boost_frame_index - (k - 1))
                             % MAX_NUM_PREVIOUS_BOOST_FRAMES
<1> DEFINE index == previous_boost_frame_index
           size == MAX_NUM_PREVIOUS_BOOST_FRAMES
<1>1. size \in Nat \ {0} /\ index \in 0 .. size - 1 /\ HistorySlots = 0 .. size - 1
  BY MoverAssumption DEF HistoryTypeOK, HistorySlots
<1>2. /\ NextSlot = (index + 1) % size
      /\ Previous(1) = previous_boost_frames[(index - (1 - 1)) % size]
  BY DEF NextSlot, Previous
<1> HIDE DEF index, size
<1>3. NextSlot = IF index + 1 < size THEN index + 1 ELSE 0
  <2>1. (index + 1 < size => index + 1 \in 0 .. size - 1)
        /\ (~(index + 1 < size) => index + 1 \in size .. 2 * size - 1 /\ index + 1 = size)
    BY <1>1
  <2> QED
    BY <1>1, <1>2, <2>1
<1>4. (index - (k - 1)) % size
          = IF index >= k - 1 THEN index - (k - 1) ELSE index - (k - 1) + size
  <2>1. /\ k \in 1 .. size
        /\ index >= k - 1 => index - (k - 1) \in 0 .. size - 1
        /\ ~(index >= k - 1) => index - (k - 1) \in -size .. -1
    BY <1>1 DEF size
  <2> QED
    BY <1>1, <2>1
<1>5. k < size =>
          (NextSlot - k) % size = IF NextSlot >= k THEN NextSlot - k ELSE NextSlot - k + size
  <2>1. /\ k \in 1 .. size
        /\ NextSlot >= k => NextSlot - k \in 0 .. size - 1
        /\ k < size /\ ~(NextSlot >= k) => NextSlot - k \in -size .. -1
    BY <1>1, <1>3 DEF size
  <2> QED
    BY <1>1, <1>3, <2>1
<1>6. (index - (1 - 1)) % size = index
  BY <1>1
<1>7. k \in 1 .. size
  BY DEF size
<1>8. Previous(1) = previous_boost_frames[index]
  BY <1>2, <1>6
<1>9. NextSlot \in HistorySlots /\ (index - (k - 1)) % size \in HistorySlots
  BY <1>1, <1>3, <1>4, <1>7
<1>10. k < size => /\ (index - (k - 1)) % size # NextSlot
                   /\ (NextSlot - k) % size = (index - (k - 1)) % size
  BY <1>1, <1>3, <1>4, <1>5, <1>7
<1> QED
  BY <1>8, <1>9, <1>10 DEF index, size

\* Recording a frame leaves all but the oldest of those recorded before.
LEMMA RecordedFrames ==
    ASSUME Core, History, FlightLoopRecord
    PROVE  /\ previous_boost_frames' \in [HistorySlots -> Frame]
           /\ previous_boost_frames'[NextSlot] = snapshot.frame[1]
           /\ NextSlot' = NextSlot
           /\ LatestId' = IF MAX_NUM_PREVIOUS_BOOST_FRAMES = 1 THEN snapshot.frame[1].id
                                                               ELSE LatestId
           /\ \A n \in 0 .. MAX_NUM_PREVIOUS_BOOST_FRAMES - 1 : Ordered(n) => Ordered(n)'
<1> USE MoverAssumption DEF History
<1>1. /\ previous_boost_frames \in [HistorySlots -> Frame]
      /\ previous_boost_frame_index' = previous_boost_frame_index
      /\ previous_boost_frame_index \in HistorySlots
      /\ previous_boost_frames' = [previous_boost_frames EXCEPT ![NextSlot] = snapshot.frame[1]]
  BY DEF FlightLoopRecord, HistoryTypeOK, NextSlot
<1>2. NextSlot \in HistorySlots /\ snapshot.frame[1] \in Frame
  BY WalkedSlots DEF HistoryTypeOK, Channels
<1>3. /\ previous_boost_frames' \in [HistorySlots -> Frame]
      /\ \A s \in HistorySlots :
            previous_boost_frames'[s] = IF s = NextSlot THEN snapshot.frame[1]
                                        ELSE previous_boost_frames[s]
  BY <1>1, <1>2
<1>4. NextSlot' = NextSlot
  BY <1>1 DEF NextSlot
<1>5. previous_boost_frame_index = NextSlot <=> MAX_NUM_PREVIOUS_BOOST_FRAMES = 1
  BY <1>1 DEF NextSlot, HistorySlots
<1>6. LatestId' = IF MAX_NUM_PREVIOUS_BOOST_FRAMES = 1 THEN snapshot.frame[1].id ELSE LatestId
  BY <1>1, <1>3, <1>5 DEF LatestId
<1>7. ASSUME NEW k \in 1 .. MAX_NUM_PREVIOUS_BOOST_FRAMES - 1
      PROVE  Previous(k)' = Previous(k)
  <2>1. /\ k \in 1 .. MAX_NUM_PREVIOUS_BOOST_FRAMES /\ k < MAX_NUM_PREVIOUS_BOOST_FRAMES
    OBVIOUS
  <2> QED
    BY <1>1, <1>3, <2>1, WalkedSlots DEF Previous
<1>8. ASSUME NEW n \in 0 .. MAX_NUM_PREVIOUS_BOOST_FRAMES - 1, Ordered(n)
      PROVE  Ordered(n)'
  <2> SUFFICES ASSUME NEW k \in 1 .. n
               PROVE  /\ Previous(k)'.id >= 1
                      /\ k > 1 => Previous(k)'.id < Previous(k - 1)'.id
    BY DEF Ordered
  <2>1. Previous(k)' = Previous(k) /\ (k > 1 => Previous(k - 1)' = Previous(k - 1))
    BY <1>7
  <2> QED
    BY <1>8, <2>1 DEF Ordered
<1> QED
  BY <1>2, <1>3, <1>4, <1>6, <1>8

\* Advancing the index makes it the latest of them.
LEMMA CountedFrames ==
    ASSUME Core, History, FlightLoopCount
    PROVE  /\ previous_boost_frame_index' \in HistorySlots
           /\ num_previous_boost_frames' \in 0 .. MAX_NUM_PREVIOUS_BOOST_FRAMES
           /\ LatestId' = snapshot.frame[1].id
           /\ Ordered(num_previous_boost_frames)'
<1> USE MoverAssumption DEF History
<1>1. /\ previous_boost_frames' = previous_boost_frames
      /\ previous_boost_frame_index' = NextSlot
      /\ snapshot.frame[1].id >= 1
      /\ previous_boost_frames[NextSlot] = snapshot.frame[1]
      /\ MAX_NUM_PREVIOUS_BOOST_FRAMES > 1 => LatestId < snapshot.frame[1].id
  BY DEF FlightLoopCount, NextSlot, Recording
<1>2. NextSlot \in HistorySlots
  BY WalkedSlots
<1>3. /\ num_previous_boost_frames' \in 0 .. MAX_NUM_PREVIOUS_BOOST_FRAMES
      /\ num_previous_boost_frames' <= saved_num + 1
      /\ saved_num \in Nat
  BY DEF FlightLoopCount, HistoryTypeOK, Recording
<1>4. LatestId' = snapshot.frame[1].id
  BY <1>1 DEF LatestId
<1>5. Previous(1)' = snapshot.frame[1]
  <2>1. NextSlot - (1 - 1) = NextSlot /\ NextSlot % MAX_NUM_PREVIOUS_BOOST_FRAMES = NextSlot
    BY <1>2 DEF HistorySlots
  <2> QED
    BY <1>1, <2>1 DEF Previous
<1>6. ASSUME NEW k \in 2 .. MAX_NUM_PREVIOUS_BOOST_FRAMES
      PROVE  Previous(k)' = Previous(k - 1)
  <2>1. /\ k - 1 \in 1 .. MAX_NUM_PREVIOUS_BOOST_FRAMES /\ k - 1 < MAX_NUM_PREVIOUS_BOOST_FRAMES
    OBVIOUS
  <2>2. (NextSlot - (k - 1)) % MAX_NUM_PREVIOUS_BOOST_FRAMES
            = (previous_boost_frame_index - ((k - 1) - 1)) % MAX_NUM_PREVIOUS_BOOST_FRAMES
    BY <2>1, WalkedSlots
  <2> QED
    BY <1>1, <2>2 DEF Previous
<1>7. ASSUME NEW n \in 0 .. MAX_NUM_PREVIOUS_BOOST_FRAMES, n <= saved_num + 1
      PROVE  Ordered(n)'
  <2> SUFFICES ASSUME NEW k \in 1 .. n
               PROVE  /\ Previous(k)'.id >= 1
                      /\ k > 1 => Previous(k)'.id < Previous(k - 1)'.id
    BY DEF Ordered
  <2>1. CASE k = 1
    BY <1>1, <1>5, <2>1
  <2>2. CASE k > 1
    <3>1. Previous(k)' = Previous(k - 1)
      BY <1>6, <2>2
    <3>2. n - 1 \in 0 .. MAX_NUM_PREVIOUS_BOOST_FRAMES - 1 /\ n - 1 <= saved_num
      BY <1>3, <1>7, <2>2
    <3>3. Ordered(n - 1)
      BY <3>2 DEF FlightLoopCount, Recording
    <3>4. /\ Previous(k - 1).id >= 1
          /\ k - 1 > 1 => Previous(k - 1).id < Previous((k - 1) - 1).id
      BY <2>2, <3>3 DEF Ordered
    <3>5. CASE k = 2
      <4>1. Previous(1).id = LatestId
        BY WalkedSlots DEF LatestId
      <4> QED
        BY <1>1, <1>5, <3>1, <3>4, <3>5, <4>1
    <3>6. CASE k > 2
      <4>1. Previous(k - 1)' = Previous((k - 1) - 1)
        BY <1>6, <3>6
      <4> QED
        BY <3>1, <3>4, <3>6, <4>1
    <3> QED
      BY <2>2, <3>5, <3>6
  <2> QED
    BY <2>1, <2>2
<1> QED
  BY <1>1, <1>2, <1>3, <1>4, <1>7

LEMMA HistoryInit == Init => History
<1> SUFFICES ASSUME Init PROVE History
  OBVIOUS
<1> USE MoverAssumption DEF Init
<1>1. ZeroFrame \in Frame /\ ZeroFrame.id = 0 /\ 1 \in Channels /\ 0 \in HistorySlots
  BY FrameFields DEF ZeroFrame, Channels, HistorySlots
<1>2. snapshot.frame = [c \in Channels |-> ZeroFrame]
  BY DEF NoSnapshot
<1>3. boost_frame[1].id = 0 /\ snapshot.frame[1].id = 0 /\ LatestId = 0
  BY <1>1, <1>2 DEF LatestId
<1>4. HistoryTypeOK
  BY <1>1, <1>2 DEF HistoryTypeOK
<1>5. Ordered(num_previous_boost_frames)
  BY DEF Ordered
<1> QED
  BY <1>3, <1>4, <1>5 DEF History, Numbered, Pending, Recording

LEMMA HistoryStep ==
    ASSUME Core, History, [Next]_vars
    PROVE  History'
<1>1. /\ 1 \in Channels /\ boost_frame[1] \in Frame /\ boost_frame[1].id \in Nat
      /\ snapshot.frame[1] \in Frame /\ snapshot.frame[1].id \in Nat
      /\ LatestId \in Nat
  <2>1. /\ 1 \in Channels /\ boost_frame[1] \in Frame /\ snapshot.frame[1] \in Frame
        /\ previous_boost_frames[previous_boost_frame_index] \in Frame
    BY MoverAssumption DEF Core, Bounded, History, HistoryTypeOK, Channels
  <2> QED
    BY <2>1, BoundsAssumption DEF Frame, LatestId
<1>2. ASSUME UNCHANGED <<previous_boost_frames, previous_boost_frame_index>>
      PROVE  /\ LatestId' = LatestId /\ NextSlot' = NextSlot
             /\ \A n : Ordered(n)' <=> Ordered(n)
  BY <1>2 DEF LatestId, NextSlot, Ordered, Previous
<1>3. num_previous_boost_frames' = 0 => Ordered(num_previous_boost_frames)'
  BY DEF Ordered
<1> USE DEF Core, Control, ControlTypeOK, LockHeld, CallbackPlace, Bounded, InSection,
            InSessionCallback, History, HistoryTypeOK, Numbered, Pending, Recording,
            FlightLoopSteps, RehostSteps, EnableSteps, DisableSteps,
            clientVars, pluginVars, sharedVars, callbackVars, historyVars, flightVars,
            Client!ownerVars, Client!networkVars, Client!historyVars, Client!InCallback
<1>4. CASE EnableBegin
  BY <1>4, <1>1, <1>2 DEF EnableBegin, Fault
<1>5. CASE EnableCreate
  BY <1>5, <1>1, <1>2 DEF EnableCreate, Fault, Client!create_psx_client
<1>6. CASE EnableProbe
  BY <1>6, <1>1, <1>2 DEF EnableProbe, Fault
<1>7. CASE EnableLock
  BY <1>7, <1>1, <1>2 DEF EnableLock
<1>8. CASE EnableFinish
  BY <1>8, <1>1, <1>2, <1>3, MoverAssumption DEF EnableFinish, Fault
<1>9. CASE DisableBegin
  BY <1>9, <1>1, <1>2 DEF DisableBegin, Client!SignalShutdown
<1>10. CASE DisableJoin
  BY <1>10, <1>1, <1>2 DEF DisableJoin, Client!JoinThread, Client!JoinFails
<1>11. CASE DisableCleanup
  BY <1>11, <1>1, <1>2 DEF DisableCleanup
<1>12. CASE Rehost
  BY <1>12, <1>1, <1>2 DEF Rehost, Client!SignalShutdown
<1>13. CASE RehostJoin
  BY <1>13, <1>1, <1>2 DEF RehostJoin, Client!JoinThread, Client!JoinFails
<1>14. CASE RehostCreate
  BY <1>14, <1>1, <1>2 DEF RehostCreate, Fault, Client!create_psx_client
<1>15. CASE RehostRestore
  BY <1>15, <1>1, <1>2 DEF RehostRestore, Fault, Client!create_psx_client
<1>16. CASE FlightLoopBegin
  BY <1>16, <1>1, <1>2 DEF FlightLoopBegin, Fault
<1>17. CASE FlightLoopLock
  BY <1>17, <1>1, <1>2 DEF FlightLoopLock
<1>18. CASE FlightLoopLockFails
  BY <1>18, <1>1, <1>2 DEF FlightLoopLockFails, Fault
<1>19. CASE FlightLoopSnapshot
  BY <1>19, <1>1, <1>2 DEF FlightLoopSnapshot
<1>20. CASE FlightLoopRecord
  <2>1. /\ main = "fl_record" /\ main' = "fl_count"
        /\ saved_num' = num_previous_boost_frames
        /\ UNCHANGED <<clientVars, pluginVars, sharedVars, callbackVars,
                       previous_boost_frame_index, num_previous_boost_frames, snapshot>>
    BY <1>20 DEF FlightLoopRecord
  <2>2. /\ LatestId < snapshot.frame[1].id /\ LatestId' <= snapshot.frame[1].id
        /\ MAX_NUM_PREVIOUS_BOOST_FRAMES > 1 => LatestId' < snapshot.frame[1].id
        /\ LatestId' = LatestId \/ LatestId' = snapshot.frame[1].id
    BY <1>20, <1>1, <2>1, RecordedFrames, MoverAssumption
  <2>3. Recording'
    <3>1. \A n \in 0 .. MAX_NUM_PREVIOUS_BOOST_FRAMES - 1 : n <= saved_num' => Ordered(n)'
      <4> SUFFICES ASSUME NEW n \in 0 .. MAX_NUM_PREVIOUS_BOOST_FRAMES - 1, n <= saved_num'
                   PROVE  Ordered(n)'
        OBVIOUS
      <4>1. Ordered(n)
        BY <2>1, MoverAssumption DEF Ordered
      <4> QED
        BY <1>20, <4>1, RecordedFrames
    <3>2. previous_boost_frames'[NextSlot'] = snapshot'.frame[1]
      BY <1>20, <2>1, RecordedFrames
    <3> QED
      BY <1>1, <2>1, <2>2, <3>1, <3>2
  <2>4. previous_boost_frames' \in [HistorySlots -> Frame]
    BY <1>20, RecordedFrames
  <2> QED
    BY <1>1, <2>1, <2>2, <2>3, <2>4
<1>21. CASE FlightLoopCount
  BY <1>21, <1>1, CountedFrames DEF FlightLoopCount
<1>22. CASE FlightLoopInject
  <2>1. snapshot'.frame \in [Channels -> Frame] /\ snapshot'.frame[1].id = 0
    BY <1>22, <1>1, FrameFields DEF FlightLoopInject, NoSnapshot, ZeroFrame
  <2> QED
    BY <1>22, <1>1, <1>2, <2>1, MoverAssumption DEF FlightLoopInject
<1>23. CASE ConnectionStep
  BY <1>23, <1>1, <1>2 DEF ConnectionStep, Client!ThreadStep, Client!CheckLoop,
         Client!SleepReturns, Client!LookupReturns, Client!TryNextAddress,
         Client!ConnectReturns, Client!CheckReceiveLoop, Client!ReceiveReturns,
         Client!ProcessChunk, Client!CloseConnection
<1>24. CASE SessionCallbackBegin
  BY <1>24, <1>1, <1>2 DEF SessionCallbackBegin
<1>25. CASE FrameCallbackBegin
  BY <1>25, <1>1, <1>2 DEF FrameCallbackBegin
<1>26. CASE CallbackLock
  BY <1>26, <1>1, <1>2 DEF CallbackLock
<1>27. CASE CallbackLockFails
  BY <1>27, <1>1, <1>2 DEF CallbackLockFails, Fault
<1>28. CASE ClearHistory
  BY <1>28, <1>1, <1>2, <1>3, MoverAssumption DEF ClearHistory
<1>29. CASE ResetChannel
  BY <1>29, <1>1, <1>2 DEF ResetChannel, NextChannel, SetWindow
<1>30. CASE CopyChannel
  <2>1. /\ callback = "copy" /\ channel \in Channels /\ boost_frame \in [Channels -> Frame]
        /\ boost_frame' = [boost_frame EXCEPT ![channel] = ReceivedFrame]
        /\ boost_frame_applied' = (boost_frame_applied /\ channel # NumChannels)
        /\ callback' = IF channel = NumChannels THEN "add" ELSE "copy"
        /\ channel' = IF channel = NumChannels THEN 1 ELSE channel + 1
        /\ UNCHANGED <<clientVars, main, pluginVars, received, historyVars, flightVars>>
    BY <1>30 DEF CopyChannel, NextChannel
  <2>2. /\ boost_frame'[1].id \in Nat /\ received \in Nat
        /\ boost_frame[1].id <= boost_frame'[1].id /\ boost_frame'[1].id <= received
    BY <1>1, <2>1 DEF ReceivedFrame
  <2>3. channel = 1 => boost_frame[1].id < boost_frame'[1].id
    BY <1>1, <2>1 DEF ReceivedFrame
  <2>4. channel # 1 => boost_frame'[1] = boost_frame[1] /\ channel > 1
    BY <1>1, <2>1 DEF Channels
  <2>5. Numbered'
    BY <1>1, <2>1, <2>2, <2>4, MoverAssumption DEF Channels
  <2>6. Pending'
    BY <1>1, <1>2, <2>1, <2>2, <2>3, <2>4
  <2> QED
    BY <1>1, <1>2, <2>1, <2>2, <2>5, <2>6
<1>31. CASE AddChannel
  BY <1>31, <1>1, <1>2 DEF AddChannel, NextChannel, SetWindow
<1>32. CASE CallbackUnlock
  BY <1>32, <1>1, <1>2 DEF CallbackUnlock
<1>33. CASE CallbackReturn
  BY <1>33, <1>1, <1>2 DEF CallbackReturn, Client!CallbackReturns,
         Client!OnConnectedReturns, Client!OnBoostFrameReturns,
         Client!OnDisconnectedReturns
<1>34. CASE UNCHANGED vars
  BY <1>34, <1>1, <1>2 DEF vars
<1> QED
  BY <1>4, <1>5, <1>6, <1>7, <1>8, <1>9, <1>10, <1>11, <1>12, <1>13, <1>14, <1>15,
         <1>16, <1>17, <1>18, <1>19, <1>20, <1>21, <1>22, <1>23, <1>24, <1>25, <1>26,
         <1>27, <1>28, <1>29, <1>30, <1>31, <1>32, <1>33, <1>34 DEF Next, MainNext,
         EnableNext, DisableNext, RehostNext, FlightLoopNext, ConnectionNext,
         CallbackNext

LEMMA HistoryInvariant == Spec => [](Core /\ History)
BY HistoryInit, HistoryStep, CoreInvariant, PTL DEF Spec

\* plugin.c, 980-987 and 757-759: the recorded frames are in order wherever the
\* connection thread clears their number, which the flight loop changes without the mutex.
THEOREM HistoryKeepsOrder == Spec => []HistoryInOrder
<1>1. Core /\ History => HistoryInOrder
  <2> SUFFICES ASSUME History, main # "fl_count",
                      NEW k \in 1 .. num_previous_boost_frames
               PROVE  /\ Previous(k) # ZeroFrame
                      /\ k > 1 => Previous(k).id < Previous(k - 1).id
    BY DEF HistoryInOrder
  <2>1. /\ Previous(k).id >= 1
        /\ k > 1 => Previous(k).id < Previous(k - 1).id
    BY DEF History, Ordered
  <2> QED
    BY <2>1 DEF ZeroFrame
<1> QED
  BY <1>1, HistoryInvariant, PTL
-----------------------------------------------------------------------------
\* The rest of TypeOK.
FlagsTypeOK ==
    /\ enabled \in BOOLEAN
    /\ connection \in Hosts \cup {NULL}
    /\ new_host \in Hosts \cup {NULL}
    /\ connection_established \in BOOLEAN
    /\ has_boost_frame_mutex \in BOOLEAN
    /\ has_probe \in BOOLEAN
    /\ datarefs_initialized \in BOOLEAN
    /\ faults \in 0 .. MaxFaults
    /\ boost_frame_applied \in BOOLEAN
    /\ is_outdated \in BOOLEAN

PosesTypeOK ==
    /\ snapshot \in [frame : [Channels -> Frame], pose : Pose]
    /\ injected \in Pose \cup {NULL}

LEMMA FlagsTypeStep ==
    ASSUME Core, FlagsTypeOK, [Next]_vars
    PROVE  FlagsTypeOK'
<1> USE MoverAssumption, BoundsAssumption
    DEF Core, Control, OwnerPlace, FlagsTypeOK, clientVars, pluginVars, sharedVars,
        callbackVars, historyVars, flightVars
<1>1. CASE EnableBegin
  <2>1. faults' \in 0 .. MaxFaults
    BY <1>1 DEF EnableBegin, Fault
  <2>2. /\ boost_frame_applied' \in BOOLEAN /\ has_boost_frame_mutex' \in BOOLEAN
        /\ UNCHANGED <<enabled, connection, new_host, connection_established, has_probe,
                       datarefs_initialized, is_outdated>>
    BY <1>1 DEF EnableBegin
  <2> QED
    BY <2>1, <2>2
<1>2. CASE EnableCreate
  BY <1>2 DEF EnableCreate, Fault, Client!create_psx_client
<1>3. CASE EnableProbe
  <2>1. faults' \in 0 .. MaxFaults
    BY <1>3 DEF EnableProbe, Fault
  <2>2. /\ has_probe' \in BOOLEAN
        /\ UNCHANGED <<enabled, connection, new_host, connection_established,
                       has_boost_frame_mutex, datarefs_initialized, boost_frame_applied, is_outdated>>
    BY <1>3 DEF EnableProbe
  <2> QED
    BY <2>1, <2>2
<1>4. CASE EnableLock
  BY <1>4 DEF EnableLock
<1>5. CASE EnableFinish
  BY <1>5 DEF EnableFinish, Fault
<1>6. CASE DisableBegin
  BY <1>6 DEF DisableBegin, Client!SignalShutdown
<1>7. CASE DisableJoin
  BY <1>7 DEF DisableJoin, Client!JoinThread, Client!JoinFails
<1>8. CASE DisableCleanup
  BY <1>8 DEF DisableCleanup
<1>9. CASE Rehost
  BY <1>9 DEF Rehost, Client!SignalShutdown
<1>10. CASE RehostJoin
  BY <1>10 DEF RehostJoin, Client!JoinThread, Client!JoinFails
<1>11. CASE RehostCreate
  BY <1>11 DEF RehostCreate, Fault, Client!create_psx_client
<1>12. CASE RehostRestore
  BY <1>12 DEF RehostRestore, Fault, Client!create_psx_client
<1>13. CASE FlightLoopBegin
  <2>1. faults' \in 0 .. MaxFaults
    BY <1>13 DEF FlightLoopBegin, Fault
  <2>2. /\ datarefs_initialized' \in BOOLEAN
        /\ UNCHANGED <<enabled, connection, new_host, connection_established,
                       has_boost_frame_mutex, has_probe, boost_frame_applied, is_outdated>>
    BY <1>13 DEF FlightLoopBegin
  <2> QED
    BY <2>1, <2>2
<1>14. CASE FlightLoopLock
  BY <1>14 DEF FlightLoopLock
<1>15. CASE FlightLoopLockFails
  BY <1>15 DEF FlightLoopLockFails, Fault
<1>16. CASE FlightLoopSnapshot
  BY <1>16 DEF FlightLoopSnapshot
<1>17. CASE FlightLoopRecord
  BY <1>17 DEF FlightLoopRecord
<1>18. CASE FlightLoopCount
  BY <1>18 DEF FlightLoopCount
<1>19. CASE FlightLoopInject
  BY <1>19 DEF FlightLoopInject
<1>20. CASE ConnectionStep
  BY <1>20 DEF ConnectionStep, Client!ThreadStep, Client!CheckLoop, Client!SleepReturns,
         Client!LookupReturns, Client!TryNextAddress, Client!ConnectReturns,
         Client!CheckReceiveLoop, Client!ReceiveReturns, Client!ProcessChunk,
         Client!CloseConnection
<1>21. CASE SessionCallbackBegin
  BY <1>21 DEF SessionCallbackBegin
<1>22. CASE FrameCallbackBegin
  BY <1>22 DEF FrameCallbackBegin
<1>23. CASE CallbackLock
  BY <1>23 DEF CallbackLock
<1>24. CASE CallbackLockFails
  BY <1>24 DEF CallbackLockFails, Fault
<1>25. CASE ClearHistory
  BY <1>25 DEF ClearHistory
<1>26. CASE ResetChannel
  BY <1>26 DEF ResetChannel, NextChannel, SetWindow
<1>27. CASE CopyChannel
  BY <1>27 DEF CopyChannel, NextChannel
<1>28. CASE AddChannel
  BY <1>28 DEF AddChannel, NextChannel, SetWindow
<1>29. CASE CallbackUnlock
  BY <1>29 DEF CallbackUnlock
<1>30. CASE CallbackReturn
  BY <1>30 DEF CallbackReturn, Client!CallbackReturns, Client!OnConnectedReturns,
         Client!OnBoostFrameReturns, Client!OnDisconnectedReturns
<1>31. CASE UNCHANGED vars
  BY <1>31 DEF vars
<1> QED
  BY <1>1, <1>2, <1>3, <1>4, <1>5, <1>6, <1>7, <1>8, <1>9, <1>10, <1>11, <1>12, <1>13,
         <1>14, <1>15, <1>16, <1>17, <1>18, <1>19, <1>20, <1>21, <1>22, <1>23, <1>24,
         <1>25, <1>26, <1>27, <1>28, <1>29, <1>30, <1>31 DEF Next, MainNext, EnableNext,
         DisableNext, RehostNext, FlightLoopNext, ConnectionNext, CallbackNext

LEMMA PosesOfFrames ==
    ASSUME Core, interpolators # NULL
    PROVE  Received \in Pose /\ \A n \in Nat : Blended(n) \in Pose
<1>1. /\ boost_frame \in [Channels -> Frame]
      /\ interpolators \in [Channels -> Window]
  BY DEF Core, Bounded, Resources
<1>2. \A f, g \in Frame : <<f>> \in Source /\ <<f, g>> \in Source
  BY DEF Source
<1>3. Received \in Pose
  BY <1>1, <1>2 DEF Received, Pose
<1>4. ASSUME NEW n \in Nat, NEW c \in Channels, Interpolated(interpolators[c], n) # NULL
      PROVE  Interpolated(interpolators[c], n) \in Source
  <2> DEFINE w == interpolators[c]
  <2>1. w \in Seq(Frame)
    BY <1>1 DEF Window
  <2>2. Interpolated(w, n) # NULL
    BY <1>4
  <2> HIDE DEF w
  <2>3. /\ n \in 1 .. Len(w) - 1
        /\ Interpolated(w, n) = <<w[Len(w) - n], w[Len(w) - n + 1]>>
    BY <2>2 DEF Interpolated
  <2>4. w[Len(w) - n] \in Frame /\ w[Len(w) - n + 1] \in Frame
    BY <2>1, <2>3
  <2>5. Interpolated(w, n) \in Source
    BY <1>2, <2>3, <2>4
  <2> QED
    BY <2>5 DEF w
<1>5. ASSUME NEW n \in Nat
      PROVE  Blended(n) \in Pose
  BY <1>1, <1>2, <1>4 DEF Blended, Pose
<1> QED
  BY <1>3, <1>5

LEMMA PosesTypeStep ==
    ASSUME Core, PosesTypeOK, [Next]_vars
    PROVE  PosesTypeOK'
<1> USE DEF PosesTypeOK, clientVars, pluginVars, sharedVars, callbackVars, historyVars,
            flightVars
<1>1. NoSnapshot \in [frame : [Channels -> Frame], pose : Pose]
  BY FrameFields DEF NoSnapshot, Pose, Source
<1>2. CASE EnableBegin
  BY <1>2 DEF EnableBegin, Fault
<1>3. CASE FlightLoopSnapshot
  <2>1. interpolators # NULL /\ boost_frame \in [Channels -> Frame]
    BY <1>3 DEF FlightLoopSnapshot, Core, Bounded, Resources, FlightLoopSteps
  <2>2. PICK pose \in {Received}
                          \cup {Blended(n) : n \in 0 .. MAX_INTERPOLATOR_FRAMES - 1} :
            snapshot' \in {[frame |-> boost_frame, pose |-> pose], snapshot}
    BY <1>3, Zenon DEF FlightLoopSnapshot
  <2>3. injected' = injected
    BY <1>3 DEF FlightLoopSnapshot
  <2>4. pose \in Pose
    BY <2>1, <2>2, PosesOfFrames, MoverAssumption
  <2> QED
    BY <2>1, <2>2, <2>3, <2>4
<1>4. CASE FlightLoopInject
  BY <1>4, <1>1 DEF FlightLoopInject
<1>5. CASE EnableCreate \/ EnableProbe \/ EnableLock \/ EnableFinish \/ DisableBegin \/
         DisableJoin \/ DisableCleanup \/ Rehost \/ RehostJoin \/ RehostCreate \/
         RehostRestore \/ FlightLoopBegin \/ FlightLoopLock \/ FlightLoopLockFails \/
         FlightLoopRecord \/ FlightLoopCount \/ ConnectionStep \/ SessionCallbackBegin
         \/ FrameCallbackBegin \/ CallbackLock \/ CallbackLockFails \/ ClearHistory \/
         ResetChannel \/ CopyChannel \/ AddChannel \/ CallbackUnlock \/ CallbackReturn
  BY <1>5 DEF EnableCreate, Fault, Client!create_psx_client, EnableProbe, EnableLock,
         EnableFinish, DisableBegin, Client!SignalShutdown, DisableJoin,
         Client!JoinThread, Client!JoinFails, DisableCleanup, Rehost, RehostJoin,
         RehostCreate, RehostRestore, FlightLoopBegin, FlightLoopLock,
         FlightLoopLockFails, FlightLoopRecord, FlightLoopCount, ConnectionStep,
         Client!ThreadStep, Client!CheckLoop, Client!SleepReturns, Client!LookupReturns,
         Client!TryNextAddress, Client!ConnectReturns, Client!CheckReceiveLoop,
         Client!ReceiveReturns, Client!ProcessChunk, Client!CloseConnection,
         SessionCallbackBegin, FrameCallbackBegin, CallbackLock, CallbackLockFails,
         ClearHistory, ResetChannel, NextChannel, SetWindow, CopyChannel, AddChannel,
         CallbackUnlock, CallbackReturn, Client!CallbackReturns,
         Client!OnConnectedReturns, Client!OnBoostFrameReturns,
         Client!OnDisconnectedReturns
<1>6. CASE UNCHANGED vars
  BY <1>6 DEF vars
<1> QED
  BY <1>2, <1>3, <1>4, <1>5, <1>6 DEF Next, MainNext, EnableNext, DisableNext,
         RehostNext, FlightLoopNext, ConnectionNext, CallbackNext

LEMMA TypesInvariant == Spec => [](Core /\ History /\ FlagsTypeOK /\ PosesTypeOK)
<1>1. Init => FlagsTypeOK /\ PosesTypeOK
  <2> SUFFICES ASSUME Init PROVE FlagsTypeOK /\ PosesTypeOK
    OBVIOUS
  <2>1. FlagsTypeOK
    <3>1. DEFAULT_HOSTNAME \in Hosts /\ 0 \in 0 .. MaxFaults
      BY MoverAssumption, BoundsAssumption
    <3> QED
      BY <3>1 DEF Init, FlagsTypeOK
  <2>2. NoSnapshot \in [frame : [Channels -> Frame], pose : Pose]
    BY FrameFields DEF NoSnapshot, Pose, Source
  <2> QED
    BY <2>1, <2>2 DEF Init, PosesTypeOK
<1>2. Core /\ FlagsTypeOK /\ PosesTypeOK /\ [Next]_vars => FlagsTypeOK' /\ PosesTypeOK'
  BY FlagsTypeStep, PosesTypeStep
<1> QED
  BY <1>1, <1>2, HistoryInvariant, PTL DEF Spec

\* Every variable of plugin.c keeps its type.
THEOREM MoverTypeCorrect == Spec => []TypeOK
<1>1. ASSUME Core, History, FlagsTypeOK, PosesTypeOK
      PROVE  TypeOK
  <2>1. interpolators = NULL \/
            /\ interpolators \in [Channels -> Seq(Frame)]
            /\ \A c \in Channels : Len(interpolators[c]) <= MAX_INTERPOLATOR_FRAMES
    BY <1>1 DEF Core, Resources, Window
  <2> QED
    BY <1>1, <2>1 DEF Core, Control, ControlTypeOK, Bounded, History, HistoryTypeOK,
       FlagsTypeOK, PosesTypeOK, InSection, TypeOK
<1> QED
  BY <1>1, TypesInvariant, PTL
-----------------------------------------------------------------------------
\* Every step of the plugin is one of its client's owner, of its connection thread, or
\* none of the client's.
LEMMA ClientStep ==
    ASSUME Core, FlagsTypeOK, [Next]_vars
    PROVE  [Client!Next]_(Client!vars)
<1> USE DEF clientVars, Client!vars, Client!ownerVars, Client!networkVars,
            Client!historyVars
<1>1. CASE EnableCreate
  BY <1>1, MoverAssumption DEF EnableCreate, Client!Next, Client!OwnerNext

<1>2. CASE DisableBegin
  BY <1>2 DEF DisableBegin, Client!Next, Client!OwnerNext
<1>3. CASE DisableJoin
  BY <1>3 DEF DisableJoin, Client!Next, Client!OwnerNext
<1>4. CASE Rehost
  BY <1>4 DEF Rehost, Client!Next, Client!OwnerNext
<1>5. CASE RehostJoin
  BY <1>5 DEF RehostJoin, Client!Next, Client!OwnerNext
<1>6. CASE RehostCreate
  <2>1. new_host \in Hosts
    BY <1>6 DEF RehostCreate, Core, Control, OwnerPlace, FlagsTypeOK
  <2> QED
    BY <1>6, <2>1 DEF RehostCreate, Client!Next, Client!OwnerNext

<1>7. CASE RehostRestore
  <2>1. connection \in Hosts
    BY <1>7 DEF RehostRestore, Core, Control, OwnerPlace, FlagsTypeOK, RehostSteps
  <2> QED
    BY <1>7, <2>1 DEF RehostRestore, Client!Next, Client!OwnerNext

<1>8. CASE ConnectionStep
  BY <1>8 DEF ConnectionStep, Client!Next
<1>9. CASE CallbackReturn
  BY <1>9 DEF CallbackReturn, Client!Next
<1>10. CASE EnableBegin \/ EnableProbe \/ EnableLock \/ EnableFinish \/ DisableCleanup
         \/ FlightLoopBegin \/ FlightLoopLock \/ FlightLoopLockFails \/
         FlightLoopSnapshot \/ FlightLoopRecord \/ FlightLoopCount \/ FlightLoopInject
         \/ SessionCallbackBegin \/ FrameCallbackBegin \/ CallbackLock \/
         CallbackLockFails \/ ClearHistory \/ ResetChannel \/ CopyChannel \/ AddChannel
         \/ CallbackUnlock
  BY <1>10 DEF EnableBegin, EnableProbe, EnableLock, EnableFinish, DisableCleanup,
         FlightLoopBegin, FlightLoopLock, FlightLoopLockFails, FlightLoopSnapshot,
         FlightLoopRecord, FlightLoopCount, FlightLoopInject, SessionCallbackBegin,
         FrameCallbackBegin, CallbackLock, CallbackLockFails, ClearHistory,
         ResetChannel, CopyChannel, AddChannel, CallbackUnlock
<1>11. CASE UNCHANGED vars
  BY <1>11 DEF vars
<1> QED
  BY <1>1, <1>2, <1>3, <1>4, <1>5, <1>6, <1>7, <1>8, <1>9, <1>10, <1>11 DEF Next,
         MainNext, EnableNext, DisableNext, RehostNext, FlightLoopNext, ConnectionNext,
         CallbackNext

\* plugin.c and psx.c: the plugin creates and destroys its client only as psx.c is written
\* for, so that all that holds for the client alone holds within the plugin.
THEOREM PluginDrivesClient == Spec => Client!Spec
<1>1. Init => Client!Init
  BY DEF Init
<1>2. Core /\ FlagsTypeOK /\ [Next]_vars => [Client!Next]_(Client!vars)
  BY ClientStep
<1> QED
  BY <1>1, <1>2, TypesInvariant, PTL DEF Spec, Client!Spec
=============================================================================
