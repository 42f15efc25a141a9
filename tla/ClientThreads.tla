---------------------------- MODULE ClientThreads -----------------------------
(***************************************************************************)
(* The PSX client on macOS: psx.c creates and joins its connection thread  *)
(* through threads_macos_compat.c, whose steps come between those of the   *)
(* client.  PsxClient takes creating and joining as one step of C11        *)
(* threads; here the owner is inside thrd_create or thrd_join for several, *)
(* during which the thread goes on.                                        *)
(***************************************************************************)
EXTENDS PsxClient, ThreadsMacos

\* What a thread is created for is run_connection_loop with the client of a host.
ASSUME CompositionAssumption == Funcs = Hosts /\ NULL \notin Threads

VARIABLE psx_thread         \* client->thread, or NULL

clientVars == vars
compositionVars == <<clientVars, threadsVars, psx_thread>>

CompositionInit == Init /\ ThreadsInit /\ psx_thread = NULL

Creating == \E t \in Threads : creator[t] \in {"assigning", "creating", "freeing"}
-----------------------------------------------------------------------------
(* The owner in create_psx_client, which calls thrd_create at its end.      *)

BeginCreate(t) ==
    /\ owner = "idle" /\ psx_client = NULL /\ ~Creating
    /\ Allocate(t)
    /\ UNCHANGED <<clientVars, psx_thread>>

\* A client whose thread cannot be created is freed again.
GiveUpCreate(t) ==
    /\ pthread_create_fails(t) \/ FreeUncreated(t)
    /\ UNCHANGED <<clientVars, psx_thread>>

FillWrapper(t) == Assign(t) /\ UNCHANGED <<clientVars, psx_thread>>

StartThread(t) ==
    /\ pthread_create(t)
    /\ create_psx_client(requested[t])
    /\ psx_thread' = t

\* The owner in destroy_psx_client.
Shutdown ==
    /\ SignalShutdown
    /\ IF owner' = "joining" THEN Join(psx_thread) ELSE UNCHANGED threadsVars
    /\ UNCHANGED psx_thread

GiveUpJoin == JoinFails /\ pthread_join_fails(psx_thread) /\ UNCHANGED psx_thread

ThreadEnds ==
    /\ owner = "joining"
    /\ pthread_join(psx_thread)
    /\ UNCHANGED <<clientVars, psx_thread>>

FreeClient == JoinThread /\ FreeJoined(psx_thread) /\ psx_thread' = NULL
-----------------------------------------------------------------------------
(* The connection thread: wrap_thread_func around run_connection_loop.      *)

EnterLoop(t) == CallFunction(t) /\ UNCHANGED <<clientVars, psx_thread>>

InLoop(t) ==
    /\ pthread[t] = "function" /\ psx_thread = t
    /\ ThreadStep \/ CallbackReturns
    /\ UNCHANGED <<threadsVars, psx_thread>>

LeaveLoop(t) ==
    /\ thread = "terminated" /\ psx_thread = t
    /\ FunctionReturns(t)
    /\ UNCHANGED <<clientVars, psx_thread>>

LeaveWrapper(t) == StoreResult(t) /\ UNCHANGED <<clientVars, psx_thread>>
-----------------------------------------------------------------------------
OwnerInCreate(t) ==
    BeginCreate(t) \/ FillWrapper(t) \/ StartThread(t) \/ GiveUpCreate(t)

OwnerInDestroy == Shutdown \/ GiveUpJoin \/ ThreadEnds \/ FreeClient

ConnectionThread(t) == EnterLoop(t) \/ InLoop(t) \/ LeaveLoop(t) \/ LeaveWrapper(t)

CompositionNext ==
    \/ OwnerInDestroy
    \/ \E t \in Threads : OwnerInCreate(t) \/ ConnectionThread(t)

\* As in PsxClient: the thread is scheduled and the network answers at last, and the
\* owner finishes a join.
CompositionSpec ==
    /\ CompositionInit /\ [][CompositionNext]_compositionVars
    /\ \A t \in Threads : WF_compositionVars(ConnectionThread(t))
    /\ WF_compositionVars(ThreadEnds) /\ WF_compositionVars(FreeClient)
-----------------------------------------------------------------------------
\* destroy_psx_client frees the client only after wrap_thread_func is done with it:
\* whoever is about to run or runs the loop has the client it was created for, and
\* no thread that was created is forgotten without a join.
ThreadRunsItsClient ==
    \A t \in Threads :
        /\ pthread[t] \in {"wrapper", "function"} =>
               psx_client = wrapped[t].actual_func /\ psx_client # NULL
        /\ creator[t] = "created" /\ joiner[t] # "joined" => psx_thread = t
=============================================================================
