----------------------------- MODULE PsxClient ------------------------------
(***************************************************************************)
(* The TCP client of the PSX boost server (psx.c, with the calls it makes  *)
(* into network.c): its owner, the X-Plane main thread, creates and        *)
(* destroys it; its connection thread runs run_connection_loop.            *)
(*                                                                         *)
(* Abstracted: a host name and port are one member of Hosts; a received    *)
(* chunk is the number of complete lines in it, and whether a line can be  *)
(* parsed is chosen when it is reached.  Callbacks are single steps here;  *)
(* Mover gives them their bodies.                                          *)
(***************************************************************************)
EXTENDS Integers

CONSTANTS
    Hosts,
    NULL,
    MaxAddresses,       \* bound on the addresses one host resolves to
    MaxLinesPerRecv,    \* bound on the lines in one chunk (RECV_BUFFER_SIZE)
    Failures            \* the system calls that may fail in this instance

ASSUME HostsAssumption == NULL \notin Hosts
ASSUME BoundsAssumption == MaxAddresses \in Nat /\ MaxLinesPerRecv \in Nat
ASSUME FailuresAssumption == Failures \subseteq {"mtx_lock", "thrd_join", "thrd_sleep"}

VARIABLES
    psx_client,         \* the client's host; NULL if there is no client
    owner,              \* "joining" while destroy_psx_client waits for the thread
    should_shutdown,
    thread,             \* where the connection thread is
    first_connection,
    resolved_addresses, \* address lists that were not freed
    untried,            \* addresses of the current list not tried yet
    open_sockets,
    lines,              \* lines of the received chunk not processed yet
    told,               \* history: the latest callback
    late_connections    \* history: connections announced after should_shutdown

ownerVars == <<psx_client, owner, should_shutdown>>
networkVars == <<resolved_addresses, untried, open_sockets>>
historyVars == <<told, late_connections>>
vars == <<ownerVars, thread, first_connection, networkVars, lines, historyVars>>

InConnectTcpClient == {"resolve", "connect", "connecting"}
InCallback == {"on_connected", "on_boost_frame", "on_disconnected"}
Running == InConnectTcpClient \cup InCallback
            \cup {"loop", "sleep", "check", "recv", "process", "closing"}

TypeOK ==
    /\ psx_client \in Hosts \cup {NULL}
    /\ owner \in {"idle", "joining"}
    /\ should_shutdown \in BOOLEAN
    /\ thread \in Running \cup {"none", "terminated"}
    /\ first_connection \in BOOLEAN
    /\ resolved_addresses \in Nat
    /\ untried \in 0 .. MaxAddresses
    /\ open_sockets \in Nat
    /\ lines \in 0 .. MaxLinesPerRecv
    /\ told \in {"nothing", "connected", "frame", "disconnected"}
    /\ late_connections \in Nat

Init ==
    /\ psx_client = NULL
    /\ owner = "idle"
    /\ should_shutdown = FALSE
    /\ thread = "none"
    /\ first_connection = TRUE
    /\ resolved_addresses = 0
    /\ untried = 0
    /\ open_sockets = 0
    /\ lines = 0
    /\ told = "nothing"
    /\ late_connections = 0

MayFail(call) == call \in Failures
-----------------------------------------------------------------------------
\* The owner.  A create that fails leaves nothing behind, so only the one that
\* succeeds is a step: a zeroed client whose thread starts its loop.
create_psx_client(host) ==
    /\ owner = "idle" /\ psx_client = NULL
    /\ psx_client' = host
    /\ should_shutdown' = FALSE
    /\ thread' = "loop"
    /\ first_connection' = TRUE
    /\ late_connections' = 0
    /\ UNCHANGED <<owner, networkVars, lines, told>>

\* destroy_psx_client up to thrd_join; no other code locks the client's mutex.
SignalShutdown ==
    /\ owner = "idle" /\ psx_client # NULL
    /\ should_shutdown' = TRUE
    /\ \/ owner' = "joining"
       \/ MayFail("mtx_lock") /\ owner' = "idle"
    /\ UNCHANGED <<psx_client, thread, first_connection, networkVars, lines, historyVars>>

free_addresses(n) == IF n > 0 THEN n - 1 ELSE 0

\* Mutant: the client is freed without waiting for its thread.
JoinThreadAtOnce ==
    /\ owner = "joining"
    /\ owner' = "idle"
    /\ psx_client' = NULL
    /\ told' = "nothing"
    /\ UNCHANGED <<should_shutdown, thread, first_connection, networkVars, lines,
                   late_connections>>

JoinThread ==
    /\ owner = "joining" /\ thread = "terminated"
    /\ owner' = "idle"
    /\ thread' = "none"
    /\ psx_client' = NULL
    /\ resolved_addresses' = free_addresses(resolved_addresses)
    /\ told' = "nothing"
    /\ UNCHANGED <<should_shutdown, first_connection, untried, open_sockets, lines,
                   late_connections>>

\* Mutant: the client is freed although its thread was not joined.
JoinFailsFreeing ==
    /\ owner = "joining" /\ MayFail("thrd_join")
    /\ owner' = "idle"
    /\ psx_client' = NULL
    /\ UNCHANGED <<should_shutdown, thread, first_connection, networkVars, lines,
                   historyVars>>

\* The owner keeps a client that is told to shut down but was not joined.
JoinFails ==
    /\ owner = "joining" /\ MayFail("thrd_join")
    /\ owner' = "idle"
    /\ UNCHANGED <<psx_client, should_shutdown, thread, first_connection, networkVars,
                   lines, historyVars>>
-----------------------------------------------------------------------------
\* The connection thread, run_connection_loop.
\* Mutant: the outer loop never looks at should_shutdown.
CheckLoopForever ==
    /\ thread = "loop"
    /\ thread' = IF first_connection THEN "resolve" ELSE "sleep"
    /\ first_connection' = FALSE
    /\ UNCHANGED <<ownerVars, networkVars, lines, historyVars>>

CheckLoop ==
    /\ thread = "loop"
    /\ thread' = CASE should_shutdown -> "terminated"
                   [] ~should_shutdown /\ first_connection -> "resolve"
                   [] OTHER -> "sleep"
    /\ first_connection' = (first_connection /\ should_shutdown)
    /\ UNCHANGED <<ownerVars, networkVars, lines, historyVars>>

\* Mutant: the loop starts over after its sleep.
SleepReturnsToLoop ==
    /\ thread = "sleep" /\ thread' = "loop"
    /\ UNCHANGED <<ownerVars, first_connection, networkVars, lines, historyVars>>

\* Nothing reads should_shutdown between the sleep and the next connection.
SleepReturns ==
    /\ thread = "sleep"
    /\ \/ thread' = "resolve"
       \/ MayFail("thrd_sleep") /\ thread' = "terminated"
    /\ UNCHANGED <<ownerVars, first_connection, networkVars, lines, historyVars>>

\* resolve_addresses: a failed lookup keeps the previous list.
LookupReturns ==
    /\ thread = "resolve"
    /\ \/ thread' = "loop" /\ UNCHANGED networkVars
       \/ /\ thread' = "connect"
          /\ resolved_addresses' = free_addresses(resolved_addresses) + 1
          /\ untried' \in 0 .. MaxAddresses
          /\ UNCHANGED open_sockets
    /\ UNCHANGED <<ownerVars, first_connection, lines, historyVars>>

\* One turn of the loop over the addresses in connect_tcp_client.
TryNextAddress ==
    /\ thread = "connect"
    /\ \/ untried = 0 /\ thread' = "loop" /\ UNCHANGED <<untried, open_sockets>>
       \/ /\ untried > 0
          /\ untried' = untried - 1
          /\ \/ UNCHANGED <<thread, open_sockets>>     \* socket() fails
             \/ /\ open_sockets' = open_sockets + 1
                /\ thread' = "connecting"
    /\ UNCHANGED <<ownerVars, first_connection, resolved_addresses, lines, historyVars>>

\* Mutant: the socket of a failed connect stays open.
ConnectReturnsLeaking ==
    /\ thread = "connecting"
    /\ thread' \in {"on_connected", "connect"}
    /\ UNCHANGED <<ownerVars, first_connection, networkVars, lines, historyVars>>

ConnectReturns ==
    /\ thread = "connecting"
    /\ \/ thread' = "on_connected" /\ UNCHANGED open_sockets
       \/ thread' = "connect" /\ open_sockets' = open_sockets - 1
    /\ UNCHANGED <<ownerVars, first_connection, resolved_addresses, untried, lines,
                   historyVars>>

OnConnectedReturns ==
    /\ thread = "on_connected"
    /\ thread' = "check"
    /\ told' = "connected"
    /\ late_connections' = late_connections + (IF should_shutdown THEN 1 ELSE 0)
    /\ UNCHANGED <<ownerVars, first_connection, networkVars, lines>>

\* Mutants: the inner loop never looks at should_shutdown, or leaves without
\* closing the connection.
CheckReceiveLoopForever ==
    /\ thread = "check" /\ thread' = "recv"
    /\ UNCHANGED <<ownerVars, first_connection, networkVars, lines, historyVars>>

CheckReceiveLoopLeaving ==
    /\ thread = "check"
    /\ thread' = IF should_shutdown THEN "loop" ELSE "recv"
    /\ UNCHANGED <<ownerVars, first_connection, networkVars, lines, historyVars>>

CheckReceiveLoop ==
    /\ thread = "check"
    /\ thread' = IF should_shutdown THEN "closing" ELSE "recv"
    /\ UNCHANGED <<ownerVars, first_connection, networkVars, lines, historyVars>>

\* recv() blocks until the peer sends something or the connection ends.
ReceiveReturns ==
    /\ thread = "recv"
    /\ \/ thread' = "closing" /\ UNCHANGED lines
       \/ thread' = "process" /\ lines' \in 0 .. MaxLinesPerRecv
    /\ UNCHANGED <<ownerVars, first_connection, networkVars, historyVars>>

\* All lines of a chunk are processed in a row, even after should_shutdown.  A
\* line that does not parse or does not fit its buffer ends the connection.
ProcessChunk ==
    /\ thread = "process"
    /\ \/ lines = 0 /\ thread' = "check" /\ UNCHANGED lines
       \/ lines > 0 /\ thread' = "on_boost_frame" /\ lines' = lines - 1
       \/ thread' = "closing" /\ lines' = 0
    /\ UNCHANGED <<ownerVars, first_connection, networkVars, historyVars>>

OnBoostFrameReturns ==
    /\ thread = "on_boost_frame"
    /\ thread' = "process"
    /\ told' = "frame"
    /\ UNCHANGED <<ownerVars, first_connection, networkVars, lines, late_connections>>

CloseConnection ==
    /\ thread = "closing"
    /\ open_sockets' = open_sockets - 1
    /\ thread' = "on_disconnected"
    /\ UNCHANGED <<ownerVars, first_connection, resolved_addresses, untried, lines,
                   historyVars>>

OnDisconnectedReturns ==
    /\ thread = "on_disconnected"
    /\ thread' = "loop"
    /\ told' = "disconnected"
    /\ UNCHANGED <<ownerVars, first_connection, networkVars, lines, late_connections>>
-----------------------------------------------------------------------------
OwnerNext ==
    \/ \E host \in Hosts : create_psx_client(host)
    \/ SignalShutdown \/ JoinThread \/ JoinFails

\* What the thread does outside of its callbacks.
ThreadStep ==
    \/ CheckLoop \/ SleepReturns \/ LookupReturns \/ TryNextAddress
    \/ ConnectReturns \/ CheckReceiveLoop \/ ReceiveReturns \/ ProcessChunk
    \/ CloseConnection

CallbackReturns == OnConnectedReturns \/ OnBoostFrameReturns \/ OnDisconnectedReturns

Next == OwnerNext \/ ThreadStep \/ CallbackReturns

\* The thread is scheduled, its sleep ends, and so do name lookup, connect and
\* recv: psx.c has no timeout of its own and leaves that to the network.  The
\* owner finishes a join; nothing makes it create or destroy a client.
Fairness ==
    /\ WF_vars(ThreadStep \/ CallbackReturns)
    /\ WF_vars(JoinThread)

Spec == Init /\ [][Next]_vars

FairSpec == Spec /\ Fairness
-----------------------------------------------------------------------------
\* network.c, psx.c: a socket is open exactly while it connects or a connection
\* is up; a failed connect, a bad line, a shutdown and a lost connection close it.
Connected == {"on_connected", "check", "recv", "process", "on_boost_frame", "closing"}

SocketsClosed ==
    open_sockets = IF thread \in Connected \cup {"connecting"} THEN 1 ELSE 0

\* A client holds at most the list of its last lookup, and no list outlives it.
AddressesFreed ==
    /\ resolved_addresses <= 1
    /\ psx_client = NULL => resolved_addresses = 0

\* Retries, refused connections, shutdown and loss leave neither sockets nor address
\* lists behind.
NothingLeaks == SocketsClosed /\ AddressesFreed

\* psx.c, destroy_psx_client: the client a thread uses is freed only after it
\* terminated, however a join or a lock may fail.
ThreadHasClient == thread # "none" <=> psx_client # NULL

\* A client that is told to shut down announces at most one more connection, the
\* one it was already sleeping for, resolving or connecting.
ShutdownIsPrompt == late_connections <= 1

Session == INSTANCE PsxSession

\* Callbacks come in the order their receiver is written for.
ImplementsSession == Session!Spec

\* destroy_psx_client returns: X-Plane's main thread waits for it.
DestroyReturns == owner = "joining" ~> owner = "idle"

\* A lost connection is tried again until the client is destroyed.
ReconnectsAfterLoss ==
    thread = "on_disconnected" ~> (thread = "resolve" \/ should_shutdown)
=============================================================================
