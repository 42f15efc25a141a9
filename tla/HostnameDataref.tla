--------------------------- MODULE HostnameDataref ---------------------------
(***************************************************************************)
(* The writable datarefs xpmover/connection/hostname and .../port while    *)
(* the plugin is enabled (plugin.c, 699-733 and 799-910; validation in     *)
(* network.c).  X-Plane writes an array in portions at offsets; what       *)
(* results becomes the host of a new client, or nothing changes.  All of   *)
(* it runs on X-Plane's main thread, so a write is one step.  What the     *)
(* exchange of clients means to their threads is in Mover.                 *)
(***************************************************************************)
EXTENDS Integers, Sequences, FiniteSetsExt

CONSTANTS
    MAX_CONNECTION_HOSTNAME_LENGTH,
    IPV6_ADDRESS_MIN_LENGTH,
    HexDigits, OtherLetters, Dot, Colon, Percent,   \* classes of characters
    NUL,
    DEFAULT_HOSTNAME, DEFAULT_PORT,
    Ports, InvalidPorts,
    Names,              \* written whole: from offset 0, NUL up to the end of the array
    Texts,              \* written at any offset
    None

VARIABLES
    connection_hostname, connection_port,
    psx_client          \* the host and port it was created with

vars == <<connection_hostname, connection_port, psx_client>>

\* The array readers and writers see, and what is kept of it.
DATAREF_EXPOSED_STRING_LENGTH == MAX_CONNECTION_HOSTNAME_LENGTH + 1
CONNECTION_HOSTNAME_SIZE == DATAREF_EXPOSED_STRING_LENGTH + 1
Cells == 0 .. CONNECTION_HOSTNAME_SIZE - 1
Chars == HexDigits \cup OtherLetters \cup {Dot, Colon, Percent}

ASSUME HostnameAssumption ==
    /\ MAX_CONNECTION_HOSTNAME_LENGTH \in Nat \ {0}
    /\ IPV6_ADDRESS_MIN_LENGTH \in Nat
    /\ NUL \notin Chars
    /\ DEFAULT_HOSTNAME \in Seq(Chars)
    /\ Len(DEFAULT_HOSTNAME) <= MAX_CONNECTION_HOSTNAME_LENGTH
    /\ DEFAULT_PORT \in Ports
    /\ Names \subseteq Seq(Chars) /\ Texts \subseteq Seq(Chars \cup {NUL})

\* Buffers that end within what is kept.
Strings ==
    {buffer \in [Cells -> Chars \cup {NUL}] : buffer[MAX_CONNECTION_HOSTNAME_LENGTH] = NUL}

strlen(buffer) == Min({c \in Cells : buffer[c] = NUL})
copy_string(buffer) == [i \in 1 .. strlen(buffer) |-> buffer[i - 1]]
Buffer(text) == [c \in Cells |-> IF c < Len(text) THEN text[c + 1] ELSE NUL]

\* What X-Plane hands over for a whole name.
Padded(name) ==
    [i \in 1 .. DATAREF_EXPOSED_STRING_LENGTH |-> IF i <= Len(name) THEN name[i] ELSE NUL]

Clients == [host : Seq(Chars), port : Ports]

TypeOK ==
    /\ connection_hostname \in Strings
    /\ connection_port \in Ports
    /\ psx_client \in Clients \cup {None}

Init ==
    /\ connection_hostname = Buffer(DEFAULT_HOSTNAME)
    /\ connection_port = DEFAULT_PORT
    /\ psx_client = [host |-> DEFAULT_HOSTNAME, port |-> DEFAULT_PORT]
-----------------------------------------------------------------------------
\* The first character that is no part of an address decides.
may_be_ipv6_address(s) ==
    LET stops == {i \in 1 .. Len(s) : s[i] \notin HexDigits \cup {Colon}}
    IN  /\ Len(s) >= IPV6_ADDRESS_MIN_LENGTH
        /\ stops # {} => s[Min(stops)] = Percent /\ Min(stops) - 1 > IPV6_ADDRESS_MIN_LENGTH

is_valid_hostname(s) ==
    /\ Len(s) \in 1 .. MAX_CONNECTION_HOSTNAME_LENGTH
    /\ \/ may_be_ipv6_address(s)
       \/ /\ \A i \in 1 .. Len(s) : s[i] \in HexDigits \cup OtherLetters \cup {Dot}
          /\ s[1] # Dot
          /\ \A i \in 2 .. Len(s) : ~(s[i] = Dot /\ s[i - 1] = Dot)

\* Mutant: copies no more than the string, as memcpy with its length would.
StoredUnpadded(buffer) ==
    [c \in Cells |-> IF c < strlen(buffer) THEN buffer[c] ELSE connection_hostname[c]]

\* strncpy to connection_hostname, which pads.
Stored(buffer) ==
    [c \in Cells |-> IF c < strlen(buffer) THEN buffer[c]
                     ELSE IF c < MAX_CONNECTION_HOSTNAME_LENGTH THEN NUL
                     ELSE connection_hostname[c]]

Created(buffer, port) ==
    /\ psx_client' = [host |-> copy_string(buffer), port |-> port]
    /\ connection_hostname' = Stored(buffer)
    /\ connection_port' = port

Restored(port) ==
    /\ psx_client' = [host |-> copy_string(connection_hostname), port |-> connection_port]
    /\ UNCHANGED <<connection_hostname, connection_port>>

Lost ==
    /\ psx_client' = None
    /\ UNCHANGED <<connection_hostname, connection_port>>

NotDestroyed ==
    /\ psx_client # None
    /\ UNCHANGED vars

\* can_revert holds: while the plugin is enabled its host and port are valid.
recreate_psx_client(buffer, port) ==
    \/ NotDestroyed
    \/ Created(buffer, port)
    \/ Restored(port)
    \/ Lost

update_port_via_dataref ==
    \E value \in Ports \cup InvalidPorts :
        IF value \in Ports THEN recreate_psx_client(connection_hostname, value)
                           ELSE UNCHANGED vars

\* Mutant: writes no NUL.
PatchedWithText(offset, text) ==
    LET ends == {i \in 1 .. Len(text) : text[i] = NUL}
        length == IF ends = {} THEN Len(text) ELSE Min(ends) - 1
        end == Min({offset + length, MAX_CONNECTION_HOSTNAME_LENGTH})
    IN  [c \in Cells |-> IF c >= offset /\ c < end THEN text[c - offset + 1]
                         ELSE IF c < strlen(connection_hostname) THEN connection_hostname[c]
                         ELSE NUL]

\* The buffer after the changes: the old string, zeros behind it, and the text on top.
Patched(offset, text) ==
    LET end == Min({offset + Len(text), MAX_CONNECTION_HOSTNAME_LENGTH})
    IN  [c \in Cells |-> IF c >= offset /\ c < end THEN text[c - offset + 1]
                         ELSE IF c < strlen(connection_hostname) THEN connection_hostname[c]
                         ELSE NUL]

IsIgnored(offset, text) ==
    LET buffer == Patched(offset, text)
    IN  \/ Len(text) = 0
        \/ offset > strlen(connection_hostname)
        \/ offset >= MAX_CONNECTION_HOSTNAME_LENGTH
        \/ copy_string(buffer) = copy_string(connection_hostname)
        \/ ~is_valid_hostname(copy_string(buffer))

update_hostname_via_dataref(offset, text) ==
    IF IsIgnored(offset, text)
    THEN UNCHANGED vars
    ELSE recreate_psx_client(Patched(offset, text), connection_port)
-----------------------------------------------------------------------------
WriteText ==
    \E offset \in Cells, text \in Texts : update_hostname_via_dataref(offset, text)

WriteName(name) == update_hostname_via_dataref(0, Padded(name))

Next == WriteText \/ (\E name \in Names : WriteName(name)) \/ update_port_via_dataref

Spec == Init /\ [][Next]_vars
-----------------------------------------------------------------------------
(* The client of the plugin connects to what the datarefs tell, through    *)
(* writes of portions, failed creates, restores and clients that cannot be *)
(* destroyed (recreate_psx_client).                                        *)
ClientMatches ==
    psx_client # None =>
        psx_client = [host |-> copy_string(connection_hostname), port |-> connection_port]

(* A name that fits and is written whole becomes the host or changes       *)
(* nothing, whatever was there before: the plugin never connects to a mix  *)
(* of two names (README.md, 212; update_hostname_via_dataref).             *)
OnlyRequestedHosts ==
    [][\A name \in Names :
         (WriteName(name) /\ Len(name) <= MAX_CONNECTION_HOSTNAME_LENGTH)
         => \/ psx_client' = None
            \/ psx_client'.host \in {name, copy_string(connection_hostname)}]_vars
==============================================================================
