----------------------------- MODULE PsxSession -----------------------------
(***************************************************************************)
(* What the owner of a PSX client may rely on (psx.h, psx.c): callbacks    *)
(* come from the client's connection thread in the order connected,        *)
(* frames, disconnected, any number of times; a client is destroyed only   *)
(* between connections, and calls nobody back afterwards.                  *)
(***************************************************************************)
CONSTANTS Hosts, NULL

VARIABLES
    psx_client,     \* the host of the one client, or NULL
    told            \* the latest callback of that client

Calls == {"nothing", "connected", "frame", "disconnected"}

InSession == told \in {"connected", "frame"}

Init == psx_client = NULL /\ told = "nothing"

Create == \E host \in Hosts :
    /\ psx_client = NULL
    /\ psx_client' = host
    /\ told' = "nothing"

Connected ==
    /\ psx_client # NULL /\ ~InSession
    /\ told' = "connected"
    /\ UNCHANGED psx_client

Frame ==
    /\ psx_client # NULL /\ InSession
    /\ told' = "frame"
    /\ UNCHANGED psx_client

Disconnected ==
    /\ psx_client # NULL /\ InSession
    /\ told' = "disconnected"
    /\ UNCHANGED psx_client

Destroy ==
    /\ psx_client # NULL /\ ~InSession
    /\ psx_client' = NULL
    /\ told' = "nothing"

Next == Create \/ Connected \/ Frame \/ Disconnected \/ Destroy

Spec == Init /\ [][Next]_<<psx_client, told>>
=============================================================================
