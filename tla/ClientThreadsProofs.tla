------------------------- MODULE ClientThreadsProofs -------------------------
(***************************************************************************)
(* The PSX client, the C11 threads of macOS below it, and both together:   *)
(* for every set of hosts and of threads, every number of addresses and    *)
(* lines and every set of failing calls.                                   *)
(*                                                                         *)
(* Each step of the composition is one of the client, one of the layer or  *)
(* one of both, so that what is proved of either holds for both together,  *)
(* and the thread runs with the client it was created for.                 *)
(***************************************************************************)
EXTENDS ClientThreads, TLAPS

-----------------------------------------------------------------------------
(* The client, PsxClient.                                                  *)

\* Where a connection is announced and its end is not.
InSession == (Connected \ {"on_connected"}) \cup {"on_disconnected"}

\* Where the thread is on its way to announce a connection.
OnItsWay == InConnectTcpClient \cup {"sleep", "on_connected"}

SessionTold ==
    /\ told \in {"connected", "frame"} <=> thread \in InSession
    /\ psx_client = NULL => told = "nothing"

OwnerJoins == owner = "joining" => psx_client # NULL /\ should_shutdown

\* Once a connection was announced too late, the next look at should_shutdown
\* ends the thread.
LateConnections ==
    /\ late_connections <= 1
    /\ ~should_shutdown \/ thread \in OnItsWay => late_connections = 0

IInv == /\ TypeOK
        /\ SocketsClosed
        /\ AddressesFreed
        /\ ThreadHasClient
        /\ SessionTold
        /\ LateConnections
        /\ OwnerJoins

LEMMA InitIInv == Init => IInv
<1> SUFFICES ASSUME Init PROVE IInv
  OBVIOUS
<1>1. TypeOK
  <2>1. should_shutdown \in BOOLEAN /\ first_connection \in BOOLEAN
    BY Zenon DEF Init
  <2>2. untried \in 0 .. MaxAddresses /\ lines \in 0 .. MaxLinesPerRecv
    BY BoundsAssumption DEF Init
  <2>3. resolved_addresses \in Nat /\ open_sockets \in Nat /\ late_connections \in Nat
    BY DEF Init
  <2>4. /\ psx_client \in Hosts \cup {NULL}
        /\ owner \in {"idle", "joining"}
        /\ thread \in Running \cup {"none", "terminated"}
        /\ told \in {"nothing", "connected", "frame", "disconnected"}
    BY Zenon DEF Init
  <2> QED BY <2>1, <2>2, <2>3, <2>4 DEF TypeOK
<1>2. SocketsClosed /\ AddressesFreed /\ ThreadHasClient
  BY DEF Init, SocketsClosed, AddressesFreed, ThreadHasClient, Connected
<1>3. SessionTold
  BY DEF Init, SessionTold, InSession, Connected
<1>4. LateConnections /\ OwnerJoins
  BY DEF Init, LateConnections, OwnerJoins
<1> QED BY <1>1, <1>2, <1>3, <1>4 DEF IInv

LEMMA OwnerStep == ASSUME IInv, OwnerNext PROVE IInv'
<1> USE HostsAssumption, BoundsAssumption
    DEF IInv, TypeOK, SocketsClosed, AddressesFreed, ThreadHasClient, SessionTold,
        LateConnections, OwnerJoins, Connected, InSession, OnItsWay, InConnectTcpClient,
        InCallback, Running, ownerVars, networkVars, historyVars
<1>1. ASSUME NEW host \in Hosts, create_psx_client(host) PROVE IInv'
  BY <1>1 DEF create_psx_client
<1>2. CASE SignalShutdown
  BY <1>2 DEF SignalShutdown
<1>3. CASE JoinThread
  BY <1>3 DEF JoinThread, free_addresses
<1>4. CASE JoinFails
  BY <1>4 DEF JoinFails
<1> QED BY <1>1, <1>2, <1>3, <1>4 DEF OwnerNext

LEMMA ThreadStepIInv == ASSUME IInv, ThreadStep \/ CallbackReturns PROVE IInv'
<1> USE HostsAssumption, BoundsAssumption
    DEF IInv, TypeOK, SocketsClosed, AddressesFreed, ThreadHasClient, SessionTold,
        LateConnections, OwnerJoins, Connected, InSession, OnItsWay, InConnectTcpClient,
        InCallback, Running, ownerVars, networkVars, historyVars
<1>1. CASE CheckLoop
  BY <1>1 DEF CheckLoop
<1>2. CASE SleepReturns
  BY <1>2 DEF SleepReturns
<1>3. CASE LookupReturns
  BY <1>3 DEF LookupReturns, free_addresses
<1>4. CASE TryNextAddress
  BY <1>4 DEF TryNextAddress
<1>5. CASE ConnectReturns
  BY <1>5 DEF ConnectReturns
<1>6. CASE OnConnectedReturns
  BY <1>6 DEF OnConnectedReturns
<1>7. CASE CheckReceiveLoop
  BY <1>7 DEF CheckReceiveLoop
<1>8. CASE ReceiveReturns
  BY <1>8 DEF ReceiveReturns
<1>9. CASE ProcessChunk
  BY <1>9 DEF ProcessChunk
<1>10. CASE OnBoostFrameReturns
  BY <1>10 DEF OnBoostFrameReturns
<1>11. CASE CloseConnection
  BY <1>11 DEF CloseConnection
<1>12. CASE OnDisconnectedReturns
  BY <1>12 DEF OnDisconnectedReturns
<1> QED BY <1>1, <1>2, <1>3, <1>4, <1>5, <1>6, <1>7, <1>8, <1>9, <1>10, <1>11, <1>12
        DEF ThreadStep, CallbackReturns

LEMMA NextIInv == IInv /\ [Next]_vars => IInv'
<1> SUFFICES ASSUME IInv, [Next]_vars PROVE IInv'
  OBVIOUS
<1>1. CASE Next
  BY <1>1, OwnerStep, ThreadStepIInv DEF Next
<1>2. CASE UNCHANGED vars
  BY <1>2 DEF vars, ownerVars, networkVars, historyVars, IInv, TypeOK, SocketsClosed,
              AddressesFreed, ThreadHasClient, SessionTold, LateConnections, OwnerJoins
<1> QED BY <1>1, <1>2

LEMMA Invariance == Spec => []IInv
  BY InitIInv, NextIInv, PTL DEF Spec

\* The fields of the client and of its thread keep their types under every
\* sequence of calls and failures (psx.h, psx_client_t).
THEOREM ClientTypeCorrect == Spec => []TypeOK
<1>1. IInv => TypeOK
  BY DEF IInv
<1> QED BY <1>1, Invariance, PTL

\* network.c, psx.c: however connecting, receiving or shutting down ends, no
\* socket and no address list is leaked or closed twice.
THEOREM ResourcesReleased == Spec => []NothingLeaks
<1>1. IInv => NothingLeaks
  BY DEF IInv, NothingLeaks
<1> QED BY <1>1, Invariance, PTL

\* psx.c, destroy_psx_client: the connection thread never uses a freed client.
THEOREM ClientOutlivesThread == Spec => []ThreadHasClient
<1>1. IInv => ThreadHasClient
  BY DEF IInv
<1> QED BY <1>1, Invariance, PTL

\* psx.c, run_connection_loop: a shutdown comes after at most one connection that
\* was already on its way.
THEOREM PromptShutdown == Spec => []ShutdownIsPrompt
<1>1. IInv => ShutdownIsPrompt
  BY DEF IInv, LateConnections, ShutdownIsPrompt
<1> QED BY <1>1, Invariance, PTL

LEMMA SessionStep ==
    ASSUME IInv, [Next]_vars
    PROVE  [Session!Next]_<<psx_client, told>>
<1> USE DEF IInv, Session!Next, Session!InSession
<1>1. ASSUME NEW host \in Hosts, create_psx_client(host)
      PROVE  Session!Create
  BY <1>1 DEF create_psx_client, Session!Create, SessionTold
<1>2. CASE SignalShutdown \/ JoinFails \/ ThreadStep \/ UNCHANGED vars
  BY <1>2 DEF SignalShutdown, JoinFails, ThreadStep, CheckLoop, SleepReturns,
              LookupReturns, TryNextAddress, ConnectReturns, CheckReceiveLoop,
              ReceiveReturns, ProcessChunk, CloseConnection, vars, ownerVars, historyVars
<1>3. ASSUME JoinThread PROVE Session!Destroy
  BY <1>3 DEF JoinThread, Session!Destroy, ThreadHasClient, SessionTold, InSession,
              Connected
<1>4. ASSUME OnConnectedReturns PROVE Session!Connected
  BY <1>4 DEF OnConnectedReturns, Session!Connected, ThreadHasClient, SessionTold,
              InSession, Connected, ownerVars
<1>5. ASSUME OnBoostFrameReturns PROVE Session!Frame
  BY <1>5 DEF OnBoostFrameReturns, Session!Frame, ThreadHasClient, SessionTold,
              InSession, Connected, ownerVars
<1>6. ASSUME OnDisconnectedReturns PROVE Session!Disconnected
  BY <1>6 DEF OnDisconnectedReturns, Session!Disconnected, ThreadHasClient, SessionTold,
              InSession, Connected, ownerVars
<1> QED BY <1>1, <1>2, <1>3, <1>4, <1>5, <1>6 DEF Next, OwnerNext, CallbackReturns

\* psx.c: the owner of a client sees callbacks in the order of PsxSession only,
\* and a client destroyed between connections, whatever fails.
THEOREM ClientImplementsSession == Spec => ImplementsSession
<1>1. Init => Session!Init
  BY DEF Init, Session!Init
<1>2. IInv /\ [Next]_vars => [Session!Next]_<<psx_client, told>>
  BY SessionStep
<1> QED BY <1>1, <1>2, Invariance, PTL DEF Spec, Session!Spec, ImplementsSession
-----------------------------------------------------------------------------
(* The threads, ThreadsMacos: wrappers are neither leaked nor used after    *)
(* they were freed, and programs see C11 threads.                           *)

\* How far the thread and its joiner can be for its creator.
Phases(t) ==
    /\ pthread[t] = "none" <=> creator[t] # "created"
    /\ joiner[t] # "idle" => creator[t] = "created"
    /\ pthread[t] = "gone" <=> joiner[t] \in {"freeing", "joined"}

\* Who is responsible for a wrapper, and what it carries.
Carried(t) ==
    /\ wrapped[t] \in Wrapper <=>
        \/ creator[t] \in {"assigning", "creating", "freeing"}
        \/ creator[t] = "created" /\ joiner[t] # "joined"
    /\ creator[t] \notin {"idle", "failed"} => requested[t] \in Funcs
    /\ creator[t] = "creating" => wrapped[t].actual_func = requested[t]
    /\ pthread[t] = "wrapper" => wrapped[t].actual_func = requested[t]
    /\ pthread[t] \in {"function", "storing", "ended", "gone"} => called[t] = requested[t]
    /\ pthread[t] \in {"storing", "ended", "gone"} => returned[t] \in Results
    /\ pthread[t] \in {"none", "wrapper", "function"} => returned[t] = ZEROED
    /\ pthread[t] = "ended" => wrapped[t].res = returned[t]
    /\ pthread[t] = "gone" => delivered[t] = returned[t]

WrappersInv == ThreadsTypeOK /\ \A t \in Threads : Phases(t) /\ Carried(t)

\* Changing one field of a wrapper leaves a wrapper with the other one as it was.
LEMMA WrapperFields ==
    ASSUME NEW w \in Wrapper, NEW func \in Funcs \cup {ZEROED}, NEW r \in Results \cup {ZEROED}
    PROVE  /\ [w EXCEPT !.actual_func = func] \in Wrapper
           /\ [w EXCEPT !.actual_func = func].actual_func = func
           /\ [w EXCEPT !.res = r] \in Wrapper
           /\ [w EXCEPT !.res = r].res = r
           /\ w.actual_func \in Funcs \cup {ZEROED} /\ w.res \in Results \cup {ZEROED}
BY DEF Wrapper

\* A fresh wrapper is zeroed.
LEMMA FreshWrapper == [actual_func |-> ZEROED, res |-> ZEROED] \in Wrapper
BY DEF Wrapper

\* Memory that is not there is no wrapper.
LEMMA NoWrapper == UNALLOCATED \notin Wrapper /\ FREED \notin Wrapper
BY ThreadsAssumption

LEMMA AllocateKeeps ==
    ASSUME WrappersInv, NEW t \in Threads, Allocate(t)
    PROVE  WrappersInv'
<1> USE DEF WrappersInv, Allocate
<1>1. ThreadsTypeOK'
  BY WrapperFields, FreshWrapper, NoWrapper DEF ThreadsTypeOK, Phases, Carried
<1>2. ASSUME NEW u \in Threads
      PROVE  Phases(u)' /\ Carried(u)'
  <2>1. Phases(u)'
    BY DEF ThreadsTypeOK, Phases
  <2>2. Carried(u)'
    BY WrapperFields, FreshWrapper, NoWrapper DEF ThreadsTypeOK, Phases, Carried
  <2> QED
    BY <2>1, <2>2
<1> QED
  BY <1>1, <1>2

LEMMA AssignKeeps ==
    ASSUME WrappersInv, NEW t \in Threads, Assign(t)
    PROVE  WrappersInv'
<1> USE DEF WrappersInv, Assign
<1>1. ThreadsTypeOK'
  BY WrapperFields, FreshWrapper, NoWrapper DEF ThreadsTypeOK, Phases, Carried
<1>2. ASSUME NEW u \in Threads
      PROVE  Phases(u)' /\ Carried(u)'
  <2>1. Phases(u)'
    BY DEF ThreadsTypeOK, Phases
  <2> DEFINE w == [wrapped[t] EXCEPT !.actual_func = requested[t]]
  <2>2. /\ w \in Wrapper /\ w.actual_func = requested[t]
        /\ wrapped' = [wrapped EXCEPT ![t] = w]
    <3>1. wrapped[t] \in Wrapper /\ requested[t] \in Funcs
      BY DEF ThreadsTypeOK, Phases, Carried
    <3>2. w \in Wrapper /\ w.actual_func = requested[t]
      BY <3>1, WrapperFields
    <3>3. wrapped' = [wrapped EXCEPT ![t] = w]
      OBVIOUS
    <3> QED
      BY <3>2, <3>3
  <2> HIDE DEF w
  <2>3. CASE u = t
    BY <2>2, <2>3 DEF ThreadsTypeOK, Phases, Carried
  <2>4. CASE u # t
    BY <2>2, <2>4 DEF ThreadsTypeOK, Phases, Carried
  <2> QED
    BY <2>1, <2>3, <2>4
<1> QED
  BY <1>1, <1>2

LEMMA pthread_createKeeps ==
    ASSUME WrappersInv, NEW t \in Threads, pthread_create(t)
    PROVE  WrappersInv'
<1> USE DEF WrappersInv, pthread_create
<1>1. ThreadsTypeOK'
  BY WrapperFields, FreshWrapper, NoWrapper DEF ThreadsTypeOK, Phases, Carried
<1>2. ASSUME NEW u \in Threads
      PROVE  Phases(u)' /\ Carried(u)'
  <2>1. Phases(u)'
    BY DEF ThreadsTypeOK, Phases
  <2>2. Carried(u)'
    BY WrapperFields, FreshWrapper, NoWrapper DEF ThreadsTypeOK, Phases, Carried
  <2> QED
    BY <2>1, <2>2
<1> QED
  BY <1>1, <1>2

LEMMA pthread_create_failsKeeps ==
    ASSUME WrappersInv, NEW t \in Threads, pthread_create_fails(t)
    PROVE  WrappersInv'
<1> USE DEF WrappersInv, pthread_create_fails
<1>1. ThreadsTypeOK'
  BY WrapperFields, FreshWrapper, NoWrapper DEF ThreadsTypeOK, Phases, Carried
<1>2. ASSUME NEW u \in Threads
      PROVE  Phases(u)' /\ Carried(u)'
  <2>1. Phases(u)'
    BY DEF ThreadsTypeOK, Phases
  <2>2. Carried(u)'
    BY WrapperFields, FreshWrapper, NoWrapper DEF ThreadsTypeOK, Phases, Carried
  <2> QED
    BY <2>1, <2>2
<1> QED
  BY <1>1, <1>2

LEMMA FreeUncreatedKeeps ==
    ASSUME WrappersInv, NEW t \in Threads, FreeUncreated(t)
    PROVE  WrappersInv'
<1> USE DEF WrappersInv, FreeUncreated
<1>1. ThreadsTypeOK'
  BY WrapperFields, FreshWrapper, NoWrapper DEF ThreadsTypeOK, Phases, Carried
<1>2. ASSUME NEW u \in Threads
      PROVE  Phases(u)' /\ Carried(u)'
  <2>1. Phases(u)'
    BY DEF ThreadsTypeOK, Phases
  <2>2. Carried(u)'
    BY WrapperFields, FreshWrapper, NoWrapper DEF ThreadsTypeOK, Phases, Carried
  <2> QED
    BY <2>1, <2>2
<1> QED
  BY <1>1, <1>2

LEMMA CallFunctionKeeps ==
    ASSUME WrappersInv, NEW t \in Threads, CallFunction(t)
    PROVE  WrappersInv'
<1> USE DEF WrappersInv, CallFunction
<1>1. ThreadsTypeOK'
  BY WrapperFields, FreshWrapper, NoWrapper DEF ThreadsTypeOK, Phases, Carried
<1>2. ASSUME NEW u \in Threads
      PROVE  Phases(u)' /\ Carried(u)'
  <2>1. Phases(u)'
    BY DEF ThreadsTypeOK, Phases
  <2>2. Carried(u)'
    BY WrapperFields, FreshWrapper, NoWrapper DEF ThreadsTypeOK, Phases, Carried
  <2> QED
    BY <2>1, <2>2
<1> QED
  BY <1>1, <1>2

LEMMA FunctionReturnsKeeps ==
    ASSUME WrappersInv, NEW t \in Threads, FunctionReturns(t)
    PROVE  WrappersInv'
<1> USE DEF WrappersInv, FunctionReturns
<1>1. ThreadsTypeOK'
  BY WrapperFields, FreshWrapper, NoWrapper DEF ThreadsTypeOK, Phases, Carried
<1>2. ASSUME NEW u \in Threads
      PROVE  Phases(u)' /\ Carried(u)'
  <2>1. Phases(u)'
    BY DEF ThreadsTypeOK, Phases
  <2>2. Carried(u)'
    BY WrapperFields, FreshWrapper, NoWrapper DEF ThreadsTypeOK, Phases, Carried
  <2> QED
    BY <2>1, <2>2
<1> QED
  BY <1>1, <1>2

LEMMA StoreResultKeeps ==
    ASSUME WrappersInv, NEW t \in Threads, StoreResult(t)
    PROVE  WrappersInv'
<1> USE DEF WrappersInv, StoreResult
<1>1. ThreadsTypeOK'
  BY WrapperFields, FreshWrapper, NoWrapper DEF ThreadsTypeOK, Phases, Carried
<1>2. ASSUME NEW u \in Threads
      PROVE  Phases(u)' /\ Carried(u)'
  <2>1. Phases(u)'
    BY DEF ThreadsTypeOK, Phases
  <2> DEFINE w == [wrapped[t] EXCEPT !.res = returned[t]]
  <2>2. /\ w \in Wrapper /\ w.res = returned[t]
        /\ wrapped' = [wrapped EXCEPT ![t] = w]
    <3>1. wrapped[t] \in Wrapper /\ returned[t] \in Results
      BY DEF ThreadsTypeOK, Phases, Carried
    <3>2. w \in Wrapper /\ w.res = returned[t]
      BY <3>1, WrapperFields
    <3>3. wrapped' = [wrapped EXCEPT ![t] = w]
      OBVIOUS
    <3> QED
      BY <3>2, <3>3
  <2> HIDE DEF w
  <2>3. CASE u = t
    BY <2>2, <2>3 DEF ThreadsTypeOK, Phases, Carried
  <2>4. CASE u # t
    BY <2>2, <2>4 DEF ThreadsTypeOK, Phases, Carried
  <2> QED
    BY <2>1, <2>3, <2>4
<1> QED
  BY <1>1, <1>2

LEMMA JoinKeeps ==
    ASSUME WrappersInv, NEW t \in Threads, Join(t)
    PROVE  WrappersInv'
<1> USE DEF WrappersInv, Join
<1>1. ThreadsTypeOK'
  BY WrapperFields, FreshWrapper, NoWrapper DEF ThreadsTypeOK, Phases, Carried
<1>2. ASSUME NEW u \in Threads
      PROVE  Phases(u)' /\ Carried(u)'
  <2>1. Phases(u)'
    BY DEF ThreadsTypeOK, Phases
  <2>2. Carried(u)'
    BY WrapperFields, FreshWrapper, NoWrapper DEF ThreadsTypeOK, Phases, Carried
  <2> QED
    BY <2>1, <2>2
<1> QED
  BY <1>1, <1>2

LEMMA pthread_join_failsKeeps ==
    ASSUME WrappersInv, NEW t \in Threads, pthread_join_fails(t)
    PROVE  WrappersInv'
<1> USE DEF WrappersInv, pthread_join_fails
<1>1. ThreadsTypeOK'
  BY WrapperFields, FreshWrapper, NoWrapper DEF ThreadsTypeOK, Phases, Carried
<1>2. ASSUME NEW u \in Threads
      PROVE  Phases(u)' /\ Carried(u)'
  <2>1. Phases(u)'
    BY DEF ThreadsTypeOK, Phases
  <2>2. Carried(u)'
    BY WrapperFields, FreshWrapper, NoWrapper DEF ThreadsTypeOK, Phases, Carried
  <2> QED
    BY <2>1, <2>2
<1> QED
  BY <1>1, <1>2

LEMMA pthread_joinKeeps ==
    ASSUME WrappersInv, NEW t \in Threads, pthread_join(t)
    PROVE  WrappersInv'
<1> USE DEF WrappersInv, pthread_join
<1>1. ThreadsTypeOK'
  BY WrapperFields, FreshWrapper, NoWrapper DEF ThreadsTypeOK, Phases, Carried
<1>2. ASSUME NEW u \in Threads
      PROVE  Phases(u)' /\ Carried(u)'
  <2>1. Phases(u)'
    BY DEF ThreadsTypeOK, Phases
  <2>2. Carried(u)'
    BY WrapperFields, FreshWrapper, NoWrapper DEF ThreadsTypeOK, Phases, Carried
  <2> QED
    BY <2>1, <2>2
<1> QED
  BY <1>1, <1>2

LEMMA FreeJoinedKeeps ==
    ASSUME WrappersInv, NEW t \in Threads, FreeJoined(t)
    PROVE  WrappersInv'
<1> USE DEF WrappersInv, FreeJoined
<1>1. ThreadsTypeOK'
  BY WrapperFields, FreshWrapper, NoWrapper DEF ThreadsTypeOK, Phases, Carried
<1>2. ASSUME NEW u \in Threads
      PROVE  Phases(u)' /\ Carried(u)'
  <2>1. Phases(u)'
    BY DEF ThreadsTypeOK, Phases
  <2>2. Carried(u)'
    BY WrapperFields, FreshWrapper, NoWrapper DEF ThreadsTypeOK, Phases, Carried
  <2> QED
    BY <2>1, <2>2
<1> QED
  BY <1>1, <1>2

-----------------------------------------------------------------------------
LEMMA InitOK == ThreadsInit => WrappersInv
BY NoWrapper DEF ThreadsInit, WrappersInv, ThreadsTypeOK, Phases, Carried

LEMMA StepKeeps == WrappersInv /\ [ThreadsNext]_threadsVars => WrappersInv'
<1> SUFFICES ASSUME WrappersInv, [ThreadsNext]_threadsVars
             PROVE  WrappersInv'
  OBVIOUS
<1>1. ASSUME NEW t \in Threads,
             \/ Allocate(t)
             \/ Assign(t)
             \/ pthread_create(t)
             \/ pthread_create_fails(t)
             \/ FreeUncreated(t)
             \/ CallFunction(t)
             \/ FunctionReturns(t)
             \/ StoreResult(t)
             \/ Join(t)
             \/ pthread_join_fails(t)
             \/ pthread_join(t)
             \/ FreeJoined(t)
      PROVE  WrappersInv'
  <2>1. CASE Allocate(t)
    BY <2>1, AllocateKeeps
  <2>2. CASE Assign(t)
    BY <2>2, AssignKeeps
  <2>3. CASE pthread_create(t)
    BY <2>3, pthread_createKeeps
  <2>4. CASE pthread_create_fails(t)
    BY <2>4, pthread_create_failsKeeps
  <2>5. CASE FreeUncreated(t)
    BY <2>5, FreeUncreatedKeeps
  <2>6. CASE CallFunction(t)
    BY <2>6, CallFunctionKeeps
  <2>7. CASE FunctionReturns(t)
    BY <2>7, FunctionReturnsKeeps
  <2>8. CASE StoreResult(t)
    BY <2>8, StoreResultKeeps
  <2>9. CASE Join(t)
    BY <2>9, JoinKeeps
  <2>10. CASE pthread_join_fails(t)
    BY <2>10, pthread_join_failsKeeps
  <2>11. CASE pthread_join(t)
    BY <2>11, pthread_joinKeeps
  <2>12. CASE FreeJoined(t)
    BY <2>12, FreeJoinedKeeps
  <2> QED
    BY <1>1, <2>1, <2>2, <2>3, <2>4, <2>5, <2>6, <2>7, <2>8, <2>9, <2>10, <2>11, <2>12
<1>2. CASE UNCHANGED threadsVars
  BY <1>2 DEF threadsVars, WrappersInv, ThreadsTypeOK, Phases, Carried
<1> QED
  BY <1>1, <1>2 DEF ThreadsNext

\* What is needed of the inductive invariant outside.
LEMMA WrapperInvariants == WrappersInv => ThreadsTypeOK /\ WrapperOutlivesUse /\ NoWrapperLeaked
<1> SUFFICES ASSUME WrappersInv
             PROVE  WrapperOutlivesUse /\ NoWrapperLeaked
  BY DEF WrappersInv
<1>1. ASSUME NEW t \in Threads
      PROVE  HasWrapper(t) <=> wrapped[t] \in Wrapper
  BY NoWrapper DEF WrappersInv, ThreadsTypeOK, HasWrapper
<1>2. ASSUME NEW t \in Threads
      PROVE  /\ joiner[t] = "freeing" => creator[t] = "created"
             /\ pthread[t] \in {"wrapper", "function", "storing", "ended"} =>
                    creator[t] = "created" /\ joiner[t] # "joined"
  BY DEF WrappersInv, ThreadsTypeOK, Phases
<1>3. WrapperOutlivesUse
  BY <1>1, <1>2 DEF WrappersInv, Carried, WrapperOutlivesUse
<1>4. NoWrapperLeaked
  BY <1>1 DEF WrappersInv, Carried, NoWrapperLeaked
<1> QED
  BY <1>3, <1>4

\* For any number of threads: a wrapper is there while thread or joiner need it, and is freed
\* by whoever is left (thrd_create, wrap_thread_func, thrd_join).
THEOREM WrappersFreedOnce == ThreadsSpec => [](ThreadsTypeOK /\ WrappersOwned)
<1>1. ThreadsInit => WrappersInv
  BY InitOK
<1>2. WrappersInv /\ [ThreadsNext]_threadsVars => WrappersInv'
  BY StepKeeps
<1>3. WrappersInv => ThreadsTypeOK /\ WrappersOwned
  BY WrapperInvariants DEF WrappersInv, WrappersOwned
<1> QED
  BY <1>1, <1>2, <1>3, PTL DEF ThreadsSpec

-----------------------------------------------------------------------------
C11Vars == <<C11State, C11Function, C11Result>>

\* A step that changes nothing a program can see of any thread.
LEMMA Invisible ==
    ASSUME \A u \in Threads : C11State'[u] = C11State[u] /\ C11Function'[u] = C11Function[u]
                              /\ C11Result'[u] = C11Result[u]
    PROVE  UNCHANGED C11Vars
BY DEF C11Vars, C11State, C11Function,
   C11Result

\* The three steps a program sees: a thread begins, its function returns, it was joined.
LEMMA CreateStep ==
    ASSUME WrappersInv, NEW t \in Threads, pthread_create(t)
    PROVE  C11!Create(t)
<1> USE DEF WrappersInv, pthread_create, IsJoined
<1>1. C11State[t] = "none"
  BY DEF ThreadsTypeOK, Phases, C11State
<1>2. C11State' = [C11State EXCEPT ![t] = "running"]
  BY DEF ThreadsTypeOK, Phases, C11State
<1>3. C11Function' = [C11Function EXCEPT ![t] = requested[t]] /\ requested[t] \in Funcs
  BY DEF ThreadsTypeOK, Phases, Carried, C11Function
<1>4. UNCHANGED C11Result
  BY DEF ThreadsTypeOK, C11Result
<1> QED
  BY <1>1, <1>2, <1>3, <1>4 DEF C11!Create

LEMMA ReturnStep ==
    ASSUME WrappersInv, NEW t \in Threads, FunctionReturns(t)
    PROVE  C11!Return(t)
<1> USE DEF WrappersInv, FunctionReturns, IsJoined
<1>1. C11State[t] = "running"
  BY DEF ThreadsTypeOK, Phases, C11State
<1>2. C11State' = [C11State EXCEPT ![t] = "ended"]
  BY DEF ThreadsTypeOK, Phases, C11State
<1>3. UNCHANGED C11Function
  BY DEF ThreadsTypeOK, C11Function
<1>4. PICK r \in Results : returned' = [returned EXCEPT ![t] = r]
  OBVIOUS
<1>5. C11Result' = [C11Result EXCEPT ![t] = r]
  BY <1>4 DEF ThreadsTypeOK, Phases, C11Result
<1> QED
  BY <1>1, <1>2, <1>3, <1>5 DEF C11!Return

LEMMA JoinStep ==
    ASSUME WrappersInv, NEW t \in Threads, pthread_join(t)
    PROVE  C11!Join(t)
<1> USE DEF WrappersInv, pthread_join, IsJoined
<1>1. C11State[t] = "ended"
  BY DEF ThreadsTypeOK, Phases, C11State
<1>2. C11State' = [C11State EXCEPT ![t] = "joined"]
  BY DEF ThreadsTypeOK, Phases, C11State
<1>3. UNCHANGED C11Function
  BY DEF ThreadsTypeOK, C11Function
<1>4. wrapped[t].res = returned[t]
  BY DEF Carried
<1>5. UNCHANGED C11Result
  <2>1. ASSUME NEW u \in Threads
        PROVE  C11Result'[u] = C11Result[u]
    BY <1>4 DEF ThreadsTypeOK, C11Result
  <2> QED
    BY <2>1 DEF C11Result
<1> QED
  BY <1>1, <1>2, <1>3, <1>5 DEF C11!Join

\* All others are inside the layer.
LEMMA AllocateStutters ==
    ASSUME WrappersInv, NEW t \in Threads, Allocate(t)
    PROVE  UNCHANGED C11Vars
BY Invisible DEF WrappersInv, Allocate, ThreadsTypeOK, Phases, Carried, IsJoined, C11State,
   C11Function, C11Result

LEMMA AssignStutters ==
    ASSUME WrappersInv, NEW t \in Threads, Assign(t)
    PROVE  UNCHANGED C11Vars
BY Invisible DEF WrappersInv, Assign, ThreadsTypeOK, Phases, Carried, IsJoined, C11State,
   C11Function, C11Result

LEMMA pthread_create_failsStutters ==
    ASSUME WrappersInv, NEW t \in Threads, pthread_create_fails(t)
    PROVE  UNCHANGED C11Vars
BY Invisible DEF WrappersInv, pthread_create_fails, ThreadsTypeOK, Phases, Carried, IsJoined,
   C11State, C11Function,
   C11Result

LEMMA FreeUncreatedStutters ==
    ASSUME WrappersInv, NEW t \in Threads, FreeUncreated(t)
    PROVE  UNCHANGED C11Vars
BY Invisible DEF WrappersInv, FreeUncreated, ThreadsTypeOK, Phases, Carried, IsJoined,
   C11State, C11Function,
   C11Result

LEMMA CallFunctionStutters ==
    ASSUME WrappersInv, NEW t \in Threads, CallFunction(t)
    PROVE  UNCHANGED C11Vars
BY Invisible DEF WrappersInv, CallFunction, ThreadsTypeOK, Phases, Carried, IsJoined,
   C11State, C11Function,
   C11Result

LEMMA StoreResultStutters ==
    ASSUME WrappersInv, NEW t \in Threads, StoreResult(t)
    PROVE  UNCHANGED C11Vars
BY Invisible DEF WrappersInv, StoreResult, ThreadsTypeOK, Phases, Carried, IsJoined, C11State,
   C11Function, C11Result

LEMMA JoinStutters ==
    ASSUME WrappersInv, NEW t \in Threads, Join(t)
    PROVE  UNCHANGED C11Vars
BY Invisible DEF WrappersInv, Join, ThreadsTypeOK, Phases, Carried, IsJoined, C11State, C11Function,
   C11Result

LEMMA pthread_join_failsStutters ==
    ASSUME WrappersInv, NEW t \in Threads, pthread_join_fails(t)
    PROVE  UNCHANGED C11Vars
BY Invisible DEF WrappersInv, pthread_join_fails, ThreadsTypeOK, Phases, Carried, IsJoined,
   C11State, C11Function,
   C11Result

LEMMA FreeJoinedStutters ==
    ASSUME WrappersInv, NEW t \in Threads, FreeJoined(t)
    PROVE  UNCHANGED C11Vars
BY Invisible DEF WrappersInv, FreeJoined, ThreadsTypeOK, Phases, Carried, IsJoined, C11State,
   C11Function, C11Result

\* For any number of threads: wrappers are invisible to the program, a thread calls the
\* function it was created for and a join delivers what that function returned.
THEOREM ThreadsImplementC11 == ThreadsSpec => ImplementsC11
<1>1. ThreadsInit => C11!Init
  BY DEF ThreadsInit, C11!Init, IsJoined, C11State, C11Function, C11Result
<1>2. WrappersInv /\ [ThreadsNext]_threadsVars => [C11!Next]_C11Vars
  <2> SUFFICES ASSUME WrappersInv, [ThreadsNext]_threadsVars
               PROVE  [C11!Next]_C11Vars
    OBVIOUS
  <2>1. ASSUME NEW t \in Threads,
             \/ pthread_create(t)
             \/ FunctionReturns(t)
             \/ pthread_join(t)
             \/ Allocate(t)
             \/ Assign(t)
             \/ pthread_create_fails(t)
             \/ FreeUncreated(t)
             \/ CallFunction(t)
             \/ StoreResult(t)
             \/ Join(t)
             \/ pthread_join_fails(t)
             \/ FreeJoined(t)
        PROVE  [C11!Next]_C11Vars
    <3>1. CASE pthread_create(t)
      BY <3>1, CreateStep DEF C11!Next
    <3>2. CASE FunctionReturns(t)
      BY <3>2, ReturnStep DEF C11!Next
    <3>3. CASE pthread_join(t)
      BY <3>3, JoinStep DEF C11!Next
    <3>4. CASE Allocate(t)
      BY <3>4, AllocateStutters
    <3>5. CASE Assign(t)
      BY <3>5, AssignStutters
    <3>6. CASE pthread_create_fails(t)
      BY <3>6, pthread_create_failsStutters
    <3>7. CASE FreeUncreated(t)
      BY <3>7, FreeUncreatedStutters
    <3>8. CASE CallFunction(t)
      BY <3>8, CallFunctionStutters
    <3>9. CASE StoreResult(t)
      BY <3>9, StoreResultStutters
    <3>10. CASE Join(t)
      BY <3>10, JoinStutters
    <3>11. CASE pthread_join_fails(t)
      BY <3>11, pthread_join_failsStutters
    <3>12. CASE FreeJoined(t)
      BY <3>12, FreeJoinedStutters
    <3> QED
      BY <2>1, <3>1, <3>2, <3>3, <3>4, <3>5, <3>6, <3>7, <3>8, <3>9, <3>10, <3>11, <3>12
  <2>2. CASE UNCHANGED threadsVars
    BY <2>2 DEF threadsVars, C11Vars, IsJoined, C11State, C11Function, C11Result
  <2> QED
    BY <2>1, <2>2 DEF ThreadsNext
<1> QED
  BY InitOK, StepKeeps, <1>1, <1>2, PTL DEF ThreadsSpec, ImplementsC11, C11!Spec, C11Vars
-----------------------------------------------------------------------------
(* Both, ClientThreads.                                                     *)

\* The owner is in thrd_create.
InProgress(t) == creator[t] \in {"assigning", "creating", "freeing"}

\* How far the layer is for the client: a client has the one thread there is to be
\* joined, and none while one is created; the owner is inside thrd_join as long as it
\* joins; a thread that left the loop has terminated.
Linked ==
    /\ psx_thread \in Threads \cup {NULL}
    /\ psx_client = NULL <=> psx_thread = NULL
    /\ \A t \in Threads :
        /\ creator[t] = "created" /\ joiner[t] # "joined" <=> psx_thread = t
        /\ psx_thread = t => requested[t] = psx_client
        /\ InProgress(t) => psx_client = NULL
        /\ owner = "joining" /\ psx_thread = t <=> joiner[t] \in {"joining", "freeing"}
        /\ pthread[t] \in {"wrapper", "function"} => wrapped[t].actual_func = requested[t]
        /\ psx_thread = t /\ pthread[t] \in {"storing", "ended", "gone"} => thread = "terminated"
    /\ \A t, u \in Threads : InProgress(t) /\ InProgress(u) => t = u

CompositionInv == IInv /\ WrappersInv /\ Linked

\* Nothing is created and nothing joined.
LEMMA CompositionInitOK == CompositionInit => CompositionInv
<1> SUFFICES ASSUME CompositionInit
             PROVE  CompositionInv
  OBVIOUS
<1>1. IInv /\ WrappersInv
  BY InitIInv, InitOK DEF CompositionInit
<1>2. Linked
  BY CompositionAssumption DEF CompositionInit, Init, ThreadsInit, Linked, InProgress
<1> QED BY <1>1, <1>2 DEF CompositionInv

\* A step of the client alone, of the layer alone or of both.
ClientStep == [Next]_vars
LayerStep == [ThreadsNext]_threadsVars

\* What the layer's functions are made of.
LEMMA LayerTypes ==
    ASSUME WrappersInv
    PROVE  /\ creator \in [Threads -> {"idle", "assigning", "creating",
                                       "freeing", "created", "failed"}]
           /\ requested \in [Threads -> Funcs \cup {ZEROED}]
           /\ pthread \in [Threads -> {"none", "wrapper", "function", "storing", "ended", "gone"}]
           /\ joiner \in [Threads -> {"idle", "joining", "freeing", "joined"}]
           /\ \A t \in Threads : Phases(t) /\ Carried(t)
BY DEF WrappersInv, ThreadsTypeOK

LEMMA BeginCreateKeeps ==
    ASSUME CompositionInv, NEW t \in Threads, BeginCreate(t)
    PROVE  ClientStep /\ LayerStep /\ Linked'
<1> USE DEF CompositionInv
<1>1. ClientStep /\ LayerStep
  BY DEF BeginCreate, ClientStep, LayerStep, clientVars, ThreadsNext
<1>2. Linked'
  BY LayerTypes, CompositionAssumption
     DEF BeginCreate, Allocate, Creating, Linked, InProgress, clientVars, vars, ownerVars,
         Phases, Carried
<1> QED BY <1>1, <1>2

LEMMA GiveUpCreateKeeps ==
    ASSUME CompositionInv, NEW t \in Threads, GiveUpCreate(t)
    PROVE  ClientStep /\ LayerStep /\ Linked'
<1> USE DEF CompositionInv
<1>1. ClientStep /\ LayerStep
  BY DEF GiveUpCreate, ClientStep, LayerStep, clientVars, ThreadsNext
<1>2. Linked'
  BY LayerTypes, CompositionAssumption
     DEF GiveUpCreate, pthread_create_fails, FreeUncreated, Linked, InProgress, clientVars,
         vars, ownerVars, Phases, Carried
<1> QED BY <1>1, <1>2

LEMMA FillWrapperKeeps ==
    ASSUME CompositionInv, NEW t \in Threads, FillWrapper(t)
    PROVE  ClientStep /\ LayerStep /\ Linked'
<1> USE DEF CompositionInv
<1>1. ClientStep /\ LayerStep
  BY DEF FillWrapper, ClientStep, LayerStep, clientVars, ThreadsNext
<1>2. Linked'
  BY LayerTypes, CompositionAssumption
     DEF FillWrapper, Assign, Linked, InProgress, clientVars, vars, ownerVars, Phases, Carried
<1> QED BY <1>1, <1>2

\* The thread starts with the client that is created for it.
LEMMA StartThreadKeeps ==
    ASSUME CompositionInv, NEW t \in Threads, StartThread(t)
    PROVE  ClientStep /\ LayerStep /\ Linked'
<1> USE DEF CompositionInv
<1>1. requested[t] \in Hosts /\ psx_client = NULL /\ InProgress(t)
  BY LayerTypes, CompositionAssumption
     DEF StartThread, pthread_create, create_psx_client, Carried, InProgress
<1>2. ClientStep /\ LayerStep
  BY <1>1 DEF StartThread, ClientStep, LayerStep, Next, OwnerNext, ThreadsNext
<1>3. Linked'
  BY <1>1, LayerTypes, CompositionAssumption, HostsAssumption
     DEF StartThread, pthread_create, create_psx_client, Linked, InProgress, Phases, Carried
<1> QED BY <1>2, <1>3

LEMMA ShutdownKeeps ==
    ASSUME CompositionInv, Shutdown
    PROVE  ClientStep /\ LayerStep /\ Linked'
<1> USE DEF CompositionInv
<1>1. psx_thread \in Threads
  BY DEF Shutdown, SignalShutdown, Linked
<1>2. ClientStep /\ LayerStep
  BY <1>1 DEF Shutdown, ClientStep, LayerStep, Next, OwnerNext, ThreadsNext
<1>3. Linked'
  BY <1>1, LayerTypes, CompositionAssumption
     DEF Shutdown, SignalShutdown, Join, Linked, InProgress, threadsVars, Phases, Carried
<1> QED BY <1>2, <1>3

LEMMA GiveUpJoinKeeps ==
    ASSUME CompositionInv, GiveUpJoin
    PROVE  ClientStep /\ LayerStep /\ Linked'
<1> USE DEF CompositionInv
<1>1. psx_thread \in Threads
  BY DEF GiveUpJoin, JoinFails, Linked, IInv, OwnerJoins
<1>2. ClientStep /\ LayerStep
  BY <1>1 DEF GiveUpJoin, ClientStep, LayerStep, Next, OwnerNext, ThreadsNext
<1>3. Linked'
  BY <1>1, LayerTypes, CompositionAssumption
     DEF GiveUpJoin, JoinFails, pthread_join_fails, Linked, InProgress, Phases, Carried
<1> QED BY <1>2, <1>3

LEMMA ThreadEndsKeeps ==
    ASSUME CompositionInv, ThreadEnds
    PROVE  ClientStep /\ LayerStep /\ Linked'
<1> USE DEF CompositionInv
<1>1. psx_thread \in Threads
  BY DEF ThreadEnds, Linked, IInv, OwnerJoins
<1>2. ClientStep /\ LayerStep
  BY <1>1 DEF ThreadEnds, ClientStep, LayerStep, clientVars, ThreadsNext
<1>3. Linked'
  BY <1>1, LayerTypes, CompositionAssumption
     DEF ThreadEnds, pthread_join, Linked, InProgress, clientVars, vars, ownerVars, Phases,
         Carried
<1> QED BY <1>2, <1>3

\* The client goes with its thread.
LEMMA FreeClientKeeps ==
    ASSUME CompositionInv, FreeClient
    PROVE  ClientStep /\ LayerStep /\ Linked'
<1> USE DEF CompositionInv
<1>1. psx_thread \in Threads
  BY DEF FreeClient, JoinThread, Linked, IInv, OwnerJoins
<1>2. ClientStep /\ LayerStep
  BY <1>1 DEF FreeClient, ClientStep, LayerStep, Next, OwnerNext, ThreadsNext
<1>3. Linked'
  BY <1>1, LayerTypes, CompositionAssumption
     DEF FreeClient, JoinThread, FreeJoined, Linked, InProgress, Phases, Carried
<1> QED BY <1>2, <1>3

LEMMA EnterLoopKeeps ==
    ASSUME CompositionInv, NEW t \in Threads, EnterLoop(t)
    PROVE  ClientStep /\ LayerStep /\ Linked'
<1> USE DEF CompositionInv
<1>1. ClientStep /\ LayerStep
  BY DEF EnterLoop, ClientStep, LayerStep, clientVars, ThreadsNext
<1>2. Linked'
  BY LayerTypes, CompositionAssumption
     DEF EnterLoop, CallFunction, Linked, InProgress, clientVars, vars, ownerVars, Phases,
         Carried
<1> QED BY <1>1, <1>2

\* Only the loop of the running thread moves.
LEMMA InLoopKeeps ==
    ASSUME CompositionInv, NEW t \in Threads, InLoop(t)
    PROVE  ClientStep /\ LayerStep /\ Linked'
<1> USE DEF CompositionInv
<1>1. ClientStep /\ LayerStep
  BY DEF InLoop, ClientStep, LayerStep, Next
<1>2. UNCHANGED <<psx_client, owner>>
  BY DEF InLoop, ThreadStep, CallbackReturns, CheckLoop, SleepReturns, LookupReturns,
         TryNextAddress, ConnectReturns, CheckReceiveLoop, ReceiveReturns, ProcessChunk,
         CloseConnection, OnConnectedReturns, OnBoostFrameReturns, OnDisconnectedReturns,
         ownerVars
<1>3. Linked'
  BY <1>2, LayerTypes, CompositionAssumption
     DEF InLoop, Linked, InProgress, threadsVars, Phases, Carried
<1> QED BY <1>1, <1>3

LEMMA LeaveLoopKeeps ==
    ASSUME CompositionInv, NEW t \in Threads, LeaveLoop(t)
    PROVE  ClientStep /\ LayerStep /\ Linked'
<1> USE DEF CompositionInv
<1>1. ClientStep /\ LayerStep
  BY DEF LeaveLoop, ClientStep, LayerStep, clientVars, ThreadsNext
<1>2. Linked'
  BY LayerTypes, CompositionAssumption
     DEF LeaveLoop, FunctionReturns, Linked, InProgress, clientVars, vars, ownerVars, Phases,
         Carried
<1> QED BY <1>1, <1>2

LEMMA LeaveWrapperKeeps ==
    ASSUME CompositionInv, NEW t \in Threads, LeaveWrapper(t)
    PROVE  ClientStep /\ LayerStep /\ Linked'
<1> USE DEF CompositionInv
<1>1. ClientStep /\ LayerStep
  BY DEF LeaveWrapper, ClientStep, LayerStep, clientVars, ThreadsNext
<1>2. Linked'
  BY LayerTypes, CompositionAssumption
     DEF LeaveWrapper, StoreResult, Linked, InProgress, clientVars, vars, ownerVars, Phases,
         Carried
<1> QED BY <1>1, <1>2

\* Each step of the composition is one of each part, and keeps them linked.
LEMMA CompositionSteps ==
    ASSUME CompositionInv, [CompositionNext]_compositionVars
    PROVE  ClientStep /\ LayerStep /\ CompositionInv'
<1>1. ClientStep /\ LayerStep /\ Linked'
  <2>1. CASE OwnerInDestroy
    BY <2>1, ShutdownKeeps, GiveUpJoinKeeps, ThreadEndsKeeps, FreeClientKeeps
       DEF OwnerInDestroy
  <2>2. ASSUME NEW t \in Threads, OwnerInCreate(t)
        PROVE  ClientStep /\ LayerStep /\ Linked'
    BY <2>2, BeginCreateKeeps, FillWrapperKeeps, StartThreadKeeps, GiveUpCreateKeeps
       DEF OwnerInCreate
  <2>3. ASSUME NEW t \in Threads, ConnectionThread(t)
        PROVE  ClientStep /\ LayerStep /\ Linked'
    BY <2>3, EnterLoopKeeps, InLoopKeeps, LeaveLoopKeeps, LeaveWrapperKeeps
       DEF ConnectionThread
  <2>4. CASE UNCHANGED compositionVars
    BY <2>4 DEF CompositionInv, compositionVars, clientVars, vars, ownerVars, threadsVars,
       ClientStep, LayerStep, Linked, InProgress
  <2> QED BY <2>1, <2>2, <2>3, <2>4 DEF CompositionNext
<1>2. IInv' /\ WrappersInv'
  BY <1>1, NextIInv, StepKeeps DEF CompositionInv, ClientStep, LayerStep
<1> QED BY <1>1, <1>2 DEF CompositionInv

LEMMA CompositionInvariance == CompositionSpec => []CompositionInv
BY CompositionInitOK, CompositionSteps, PTL DEF CompositionSpec

\* psx.c, 266 and 308, with threads_macos_compat.c: the client keeps the promises of
\* PsxClient and the layer those of ThreadsMacos when the two run together, although
\* creating and joining take several steps during which the thread goes on.
THEOREM CompositionIsBoth == CompositionSpec => Spec /\ ThreadsSpec
<1>1. CompositionInit => Init /\ ThreadsInit
  BY DEF CompositionInit
<1>2. CompositionInv /\ [CompositionNext]_compositionVars
        => [Next]_vars /\ [ThreadsNext]_threadsVars
  BY CompositionSteps DEF ClientStep, LayerStep
<1> QED BY <1>1, <1>2, CompositionInvariance, PTL DEF CompositionSpec, Spec, ThreadsSpec

\* psx.c, destroy_psx_client: whoever is about to run or runs the loop has the client it
\* was created for, and no thread is forgotten without a join, whatever calls fail.
THEOREM ThreadsRunTheirClients == CompositionSpec => []ThreadRunsItsClient
<1>1. CompositionInv => ThreadRunsItsClient
  <2> SUFFICES ASSUME CompositionInv, NEW t \in Threads
               PROVE  /\ pthread[t] \in {"wrapper", "function"} =>
                            psx_client = wrapped[t].actual_func /\ psx_client # NULL
                      /\ creator[t] = "created" /\ joiner[t] # "joined" => psx_thread = t
    BY DEF ThreadRunsItsClient
  <2>1. pthread[t] \in {"wrapper", "function"} => psx_thread = t
    BY LayerTypes DEF CompositionInv, Linked, Phases
  <2> QED BY <2>1, CompositionAssumption DEF CompositionInv, Linked
<1> QED BY <1>1, CompositionInvariance, PTL

\* What is proved of the client and of the layer alone therefore holds of both together:
\* nothing leaks, callbacks keep their order and a join returns what the loop returned.
THEOREM CompositionKeepsPromises ==
    CompositionSpec =>
        /\ [](NothingLeaks /\ ThreadHasClient /\ ShutdownIsPrompt /\ WrappersOwned)
        /\ ImplementsSession /\ ImplementsC11
BY CompositionIsBoth, ResourcesReleased, ClientOutlivesThread, PromptShutdown,
   WrappersFreedOnce, ClientImplementsSession, ThreadsImplementC11, PTL
=============================================================================
