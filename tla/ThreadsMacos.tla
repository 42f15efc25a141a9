---------------------------- MODULE ThreadsMacos -----------------------------
(***************************************************************************)
(* C11 threads on top of pthreads (threads_macos_compat.c, 120-178): a     *)
(* wrapper on the heap carries function and argument to the new thread and *)
(* its result back to the one who joins it.  Memory given to one thread is *)
(* freed by another, or by its creator if there is no other.  A thread is  *)
(* joined by one thread at a time, as psx.c does.                          *)
(***************************************************************************)
EXTENDS FiniteSets

CONSTANTS
    Threads,
    Funcs,          \* with their arguments
    Results,
    ZEROED,         \* what zeroed memory holds
    UNALLOCATED, FREED

Wrapper == [actual_func : Funcs \cup {ZEROED}, res : Results \cup {ZEROED}]

ASSUME ThreadsAssumption ==
    /\ UNALLOCATED \notin Wrapper /\ FREED \notin Wrapper

VARIABLES
    creator,            \* where in thrd_create the creator of a thread is
    requested,          \* the function it was called with
    pthread,            \* where the thread is
    called,             \* the function it called
    wrapped,            \* the memory of wrapped_thread_t, or where it went
    joiner,             \* where in thrd_join its owner is
    returned,           \* history: what the function really returned
    delivered           \* *res of thrd_join

threadsVars == <<creator, requested, pthread, called, wrapped, joiner, returned, delivered>>

ThreadsTypeOK ==
    /\ creator \in [Threads -> {"idle", "assigning", "creating", "freeing", "created", "failed"}]
    /\ requested \in [Threads -> Funcs \cup {ZEROED}]
    /\ pthread \in [Threads -> {"none", "wrapper", "function", "storing", "ended", "gone"}]
    /\ called \in [Threads -> Funcs \cup {ZEROED}]
    /\ wrapped \in [Threads -> Wrapper \cup {UNALLOCATED, FREED}]
    /\ joiner \in [Threads -> {"idle", "joining", "freeing", "joined"}]
    /\ returned \in [Threads -> Results \cup {ZEROED}]
    /\ delivered \in [Threads -> Results \cup {ZEROED}]
    /\ \A t \in Threads : joiner[t] \in {"freeing", "joined"} => delivered[t] \in Results

ThreadsInit ==
    /\ creator = [t \in Threads |-> "idle"]
    /\ requested = [t \in Threads |-> ZEROED]
    /\ pthread = [t \in Threads |-> "none"]
    /\ called = [t \in Threads |-> ZEROED]
    /\ wrapped = [t \in Threads |-> UNALLOCATED]
    /\ joiner = [t \in Threads |-> "idle"]
    /\ returned = [t \in Threads |-> ZEROED]
    /\ delivered = [t \in Threads |-> ZEROED]
-----------------------------------------------------------------------------
(* thrd_create *)

Allocate(t) ==
    /\ creator[t] = "idle"
    /\ \E func \in Funcs : requested' = [requested EXCEPT ![t] = func]
    /\ \/ /\ wrapped' = [wrapped EXCEPT ![t] = [actual_func |-> ZEROED, res |-> ZEROED]]
          /\ creator' = [creator EXCEPT ![t] = "assigning"]
       \/ /\ creator' = [creator EXCEPT ![t] = "failed"]
          /\ UNCHANGED wrapped
    /\ UNCHANGED <<pthread, called, joiner, returned, delivered>>

\* Mutant: the wrapper is not filled.
AssignNothing(t) ==
    /\ creator[t] = "assigning"
    /\ wrapped' = wrapped
    /\ creator' = [creator EXCEPT ![t] = "creating"]
    /\ UNCHANGED <<requested, pthread, called, joiner, returned, delivered>>

Assign(t) ==
    /\ creator[t] = "assigning"
    /\ wrapped' = [wrapped EXCEPT ![t].actual_func = requested[t]]
    /\ creator' = [creator EXCEPT ![t] = "creating"]
    /\ UNCHANGED <<requested, pthread, called, joiner, returned, delivered>>

pthread_create(t) ==
    /\ creator[t] = "creating"
    /\ creator' = [creator EXCEPT ![t] = "created"]
    /\ pthread' = [pthread EXCEPT ![t] = "wrapper"]
    /\ UNCHANGED <<requested, called, wrapped, joiner, returned, delivered>>

pthread_create_fails(t) ==
    /\ creator[t] = "creating"
    /\ creator' = [creator EXCEPT ![t] = "freeing"]
    /\ UNCHANGED <<requested, pthread, called, wrapped, joiner, returned, delivered>>

FreeUncreated(t) ==
    /\ creator[t] = "freeing"
    /\ wrapped' = [wrapped EXCEPT ![t] = FREED]
    /\ creator' = [creator EXCEPT ![t] = "failed"]
    /\ UNCHANGED <<requested, pthread, called, joiner, returned, delivered>>
-----------------------------------------------------------------------------
(* wrap_thread_func *)

CallFunction(t) ==
    /\ pthread[t] = "wrapper"
    /\ called' = [called EXCEPT ![t] = wrapped[t].actual_func]
    /\ pthread' = [pthread EXCEPT ![t] = "function"]
    /\ UNCHANGED <<creator, requested, wrapped, joiner, returned, delivered>>

FunctionReturns(t) ==
    /\ pthread[t] = "function"
    /\ \E r \in Results : returned' = [returned EXCEPT ![t] = r]
    /\ pthread' = [pthread EXCEPT ![t] = "storing"]
    /\ UNCHANGED <<creator, requested, called, wrapped, joiner, delivered>>

\* Mutant: the thread frees its wrapper itself.
StoreResultAndFree(t) ==
    /\ pthread[t] = "storing"
    /\ wrapped' = [wrapped EXCEPT ![t] = FREED]
    /\ pthread' = [pthread EXCEPT ![t] = "ended"]
    /\ UNCHANGED <<creator, requested, called, joiner, returned, delivered>>

StoreResult(t) ==
    /\ pthread[t] = "storing"
    /\ wrapped' = [wrapped EXCEPT ![t].res = returned[t]]
    /\ pthread' = [pthread EXCEPT ![t] = "ended"]
    /\ UNCHANGED <<creator, requested, called, joiner, returned, delivered>>
-----------------------------------------------------------------------------
(* thrd_join *)

Join(t) ==
    /\ creator[t] = "created" /\ joiner[t] = "idle"
    /\ joiner' = [joiner EXCEPT ![t] = "joining"]
    /\ UNCHANGED <<creator, requested, pthread, called, wrapped, returned, delivered>>

\* The owner keeps the thread and may try again.
pthread_join_fails(t) ==
    /\ joiner[t] = "joining"
    /\ joiner' = [joiner EXCEPT ![t] = "idle"]
    /\ UNCHANGED <<creator, requested, pthread, called, wrapped, returned, delivered>>

\* Mutant: takes the result without waiting for the thread.
pthread_join_early(t) ==
    /\ joiner[t] = "joining"
    /\ pthread[t] \in {"wrapper", "function", "storing", "ended"}
    /\ delivered' = [delivered EXCEPT ![t] = wrapped[t].res]
    /\ joiner' = [joiner EXCEPT ![t] = "freeing"]
    /\ UNCHANGED <<creator, requested, pthread, called, wrapped, returned>>

\* Waits for the end of the thread, whose memory is then the joiner's alone.
pthread_join(t) ==
    /\ joiner[t] = "joining" /\ pthread[t] = "ended"
    /\ pthread' = [pthread EXCEPT ![t] = "gone"]
    /\ delivered' = [delivered EXCEPT ![t] = wrapped[t].res]
    /\ joiner' = [joiner EXCEPT ![t] = "freeing"]
    /\ UNCHANGED <<creator, requested, called, wrapped, returned>>

FreeJoined(t) ==
    /\ joiner[t] = "freeing"
    /\ wrapped' = [wrapped EXCEPT ![t] = FREED]
    /\ joiner' = [joiner EXCEPT ![t] = "joined"]
    /\ UNCHANGED <<creator, requested, pthread, called, returned, delivered>>
-----------------------------------------------------------------------------
ThreadsNext == \E t \in Threads :
    \/ Allocate(t) \/ Assign(t) \/ pthread_create(t) \/ pthread_create_fails(t)
    \/ FreeUncreated(t)
    \/ CallFunction(t) \/ FunctionReturns(t) \/ StoreResult(t)
    \/ Join(t) \/ pthread_join_fails(t) \/ pthread_join(t) \/ FreeJoined(t)

ThreadsSpec == ThreadsInit /\ [][ThreadsNext]_threadsVars
-----------------------------------------------------------------------------
HasWrapper(t) == wrapped[t] \notin {UNALLOCATED, FREED}

\* A wrapper is there as long as its thread or a joiner may use it
\* (wrap_thread_func, thrd_join).
WrapperOutlivesUse ==
    \A t \in Threads :
        \/ creator[t] \in {"assigning", "creating", "freeing"}
        \/ pthread[t] \in {"wrapper", "function", "storing", "ended"}
        \/ joiner[t] = "freeing"
        => HasWrapper(t)

\* Somebody is left who will free a wrapper: its creator after a failed create, or
\* whoever joins its thread.
NoWrapperLeaked ==
    \A t \in Threads : HasWrapper(t) =>
        \/ creator[t] \in {"assigning", "creating", "freeing"}
        \/ creator[t] = "created" /\ joiner[t] # "joined"

\* The memory of a wrapper lives exactly as long as it is needed, although each of
\* creator, thread and joiner may be the last to need it.
WrappersOwned == WrapperOutlivesUse /\ NoWrapperLeaked

IsJoined(t) == joiner[t] \in {"freeing", "joined"}

C11State == [t \in Threads |->
    IF IsJoined(t) THEN "joined"
    ELSE CASE pthread[t] = "none" -> "none"
           [] pthread[t] \in {"wrapper", "function"} -> "running"
           [] OTHER -> "ended"]

C11Function == [t \in Threads |->
    CASE pthread[t] = "none" -> ZEROED
      [] pthread[t] = "wrapper" -> requested[t]
      [] OTHER -> called[t]]

C11Result == [t \in Threads |-> IF IsJoined(t) THEN delivered[t] ELSE returned[t]]

C11 == INSTANCE C11Threads WITH
    NULL <- ZEROED, state <- C11State, function <- C11Function, result <- C11Result

\* The wrappers are invisible: to the program these are C11 threads, a thread calls
\* the function it was created for, and what a join delivers is what that function
\* returned.
ImplementsC11 == C11!Spec
==============================================================================
