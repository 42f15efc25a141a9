--------------------------- MODULE HostnameProofs ---------------------------
(***************************************************************************)
(* For names of any length and any text written at any offset: the host    *)
(* and port datarefs are those of the plugin's client.                     *)
(***************************************************************************)
EXTENDS HostnameDataref, WellFoundedInduction, TLAPS

MAX == MAX_CONNECTION_HOSTNAME_LENGTH

Below == {ss \in Nat \X Nat : ss[1] < ss[2]}

\* Natural numbers do not descend for ever.
LEMMA BelowWellFounded == IsWellFoundedOn(Below, Nat)
<1>1. Below = OpToRel(<, Nat)
  BY Zenon DEF Below, OpToRel
<1> QED
  BY <1>1, NatLessThanWellFounded

\* A set of natural numbers has a least one, which is what Min chooses.
LEMMA MinOfNat ==
    ASSUME NEW S \in SUBSET Nat, S # {}
    PROVE  Min(S) \in S /\ \A n \in S : Min(S) <= n
<1>1. PICK least \in S : \A n \in S : <<n, least>> \notin Below
  BY BelowWellFounded, WFMin
<1>2. ASSUME NEW n \in S
      PROVE  least <= n
  <2>1. n \in Nat /\ least \in Nat
    OBVIOUS
  <2>2. <<n, least>> \in Nat \X Nat /\ <<n, least>>[1] = n /\ <<n, least>>[2] = least
    BY <2>1
  <2>3. ~(n < least)
    BY <1>1, <2>2 DEF Below
  <2> QED
    BY <2>1, <2>3
<1> QED
  BY <1>2 DEF Min

\* The end of a copy is on either side no further than asked for.
LEMMA MinOfTwo ==
    ASSUME NEW m \in Nat, NEW n \in Nat
    PROVE  /\ Min({m, n}) \in Nat
           /\ Min({m, n}) <= m /\ Min({m, n}) <= n
           /\ Min({m, n}) \in {m, n}
<1>1. {m, n} \in SUBSET Nat /\ {m, n} # {}
  OBVIOUS
<1> QED
  BY <1>1, MinOfNat

\* A string ends at its first NUL, no later than the last cell that is kept.
LEMMA StrlenOfString ==
    ASSUME NEW buffer \in Strings
    PROVE  /\ strlen(buffer) \in 0 .. MAX
           /\ buffer[strlen(buffer)] = NUL
           /\ \A c \in Cells : c < strlen(buffer) => buffer[c] # NUL
<1> DEFINE Ends == {c \in Cells : buffer[c] = NUL}
<1>1. Ends \in SUBSET Nat /\ MAX \in Ends
  BY HostnameAssumption DEF Strings, Cells, CONNECTION_HOSTNAME_SIZE,
     DATAREF_EXPOSED_STRING_LENGTH, MAX
<1>2. Min(Ends) \in Ends /\ \A c \in Ends : Min(Ends) <= c
  BY <1>1, MinOfNat
<1>3. strlen(buffer) = Min(Ends)
  BY DEF strlen
<1> HIDE DEF Ends
<1>4. strlen(buffer) \in 0 .. MAX
  <2>1. strlen(buffer) \in Nat /\ strlen(buffer) <= MAX
    BY <1>1, <1>2, <1>3
  <2> QED
    BY <2>1, HostnameAssumption DEF MAX
<1>5. buffer[strlen(buffer)] = NUL
  BY <1>2, <1>3 DEF Ends
<1>6. ASSUME NEW c \in Cells, c < strlen(buffer)
      PROVE  buffer[c] # NUL
  <2>1. c \in Nat
    BY DEF Cells
  <2>2. c \notin Ends
    BY <1>2, <1>3, <1>4, <1>6, <2>1
  <2> QED
    BY <2>2 DEF Ends
<1> QED
  BY <1>4, <1>5, <1>6

\* Two strings with the same characters up to where one of them ends are equally long.
LEMMA StrlenFromPrefix ==
    ASSUME NEW buffer \in Strings, NEW n \in 0 .. MAX, buffer[n] = NUL,
           \A c \in Cells : c < n => buffer[c] # NUL
    PROVE  strlen(buffer) = n
<1>1. n \in Cells /\ strlen(buffer) \in Cells
  BY StrlenOfString, HostnameAssumption DEF Cells, CONNECTION_HOSTNAME_SIZE,
     DATAREF_EXPOSED_STRING_LENGTH, MAX
<1>2. ~(n < strlen(buffer)) /\ ~(strlen(buffer) < n)
  BY <1>1, StrlenOfString
<1> QED
  BY <1>1, <1>2 DEF Cells

\* What a client is created with is a text of the characters before the NUL.
LEMMA CopyIsText ==
    ASSUME NEW buffer \in Strings
    PROVE  copy_string(buffer) \in Seq(Chars)
<1>1. strlen(buffer) \in Nat
  BY StrlenOfString, HostnameAssumption DEF MAX
<1>2. ASSUME NEW i \in 1 .. strlen(buffer)
      PROVE  buffer[i - 1] \in Chars
  <2>1. i - 1 \in Cells /\ i - 1 < strlen(buffer)
    BY <1>1, StrlenOfString, HostnameAssumption DEF Cells, CONNECTION_HOSTNAME_SIZE,
       DATAREF_EXPOSED_STRING_LENGTH, MAX
  <2>2. buffer[i - 1] \in Chars \cup {NUL}
    BY <2>1 DEF Strings
  <2> QED
    BY <2>1, <2>2, StrlenOfString
<1> QED
  BY <1>1, <1>2 DEF copy_string

\* Storing a name pads it: nothing of a longer one before it remains.
LEMMA StoredCopies ==
    ASSUME NEW buffer \in Strings, connection_hostname \in Strings
    PROVE  /\ Stored(buffer) \in Strings
           /\ copy_string(Stored(buffer)) = copy_string(buffer)
<1> DEFINE n == strlen(buffer)
           stored == Stored(buffer)
<1>1. n \in 0 .. MAX /\ MAX \in Cells /\ \A c \in 0 .. MAX : c \in Cells
  BY StrlenOfString, HostnameAssumption DEF Cells, CONNECTION_HOSTNAME_SIZE,
     DATAREF_EXPOSED_STRING_LENGTH, MAX
<1>2. \A c \in Cells : buffer[c] \in Chars \cup {NUL} /\ connection_hostname[c] \in Chars \cup {NUL}
  BY DEF Strings
<1>3. connection_hostname[MAX] = NUL
  BY DEF Strings, MAX
<1>4. stored \in [Cells -> Chars \cup {NUL}]
  BY <1>2 DEF Stored
<1>5. \A c \in Cells : stored[c] = IF c < n THEN buffer[c] ELSE IF c < MAX THEN NUL
                                   ELSE connection_hostname[c]
  BY DEF Stored, MAX
<1> HIDE DEF stored
<1>6. stored[MAX] = NUL
  BY <1>1, <1>3, <1>5, HostnameAssumption DEF MAX
<1>7. stored \in Strings
  BY <1>4, <1>6 DEF Strings, MAX
<1>8. stored[n] = NUL
  <2>1. CASE n < MAX
    BY <2>1, <1>1, <1>5
  <2>2. CASE n = MAX
    BY <2>2, <1>6
  <2> QED
    BY <2>1, <2>2, <1>1, HostnameAssumption DEF MAX
<1>9. \A c \in Cells : c < n => stored[c] = buffer[c] /\ stored[c] # NUL
  BY <1>5, StrlenOfString
<1>10. strlen(stored) = n
  BY <1>1, <1>7, <1>8, <1>9, StrlenFromPrefix
<1>11. ASSUME NEW i \in 1 .. n
       PROVE  stored[i - 1] = buffer[i - 1]
  <2>1. i - 1 \in Cells /\ i - 1 < n
    BY <1>1, HostnameAssumption DEF MAX
  <2> QED
    BY <2>1, <1>9
<1>12. copy_string(stored) = copy_string(buffer)
  BY <1>10, <1>11 DEF copy_string
<1> QED
  BY <1>7, <1>12 DEF stored

\* Patching leaves a string, also if the text goes beyond the array.
LEMMA PatchedIsString ==
    ASSUME connection_hostname \in Strings, NEW offset \in Cells,
           NEW text \in Seq(Chars \cup {NUL})
    PROVE  Patched(offset, text) \in Strings
<1> DEFINE end == Min({offset + Len(text), MAX})
           old == strlen(connection_hostname)
           patched == Patched(offset, text)
<1>1. offset \in Nat /\ Len(text) \in Nat /\ MAX \in Nat /\ MAX \in Cells
  BY HostnameAssumption DEF Cells, CONNECTION_HOSTNAME_SIZE,
     DATAREF_EXPOSED_STRING_LENGTH, MAX
<1>2. offset + Len(text) \in Nat
  BY <1>1
<1>3. end \in Nat /\ end <= offset + Len(text) /\ end <= MAX
  BY <1>1, <1>2, MinOfTwo
<1>4. old \in 0 .. MAX
  BY StrlenOfString
<1> HIDE DEF end, old
<1>5. patched = [c \in Cells |-> IF c >= offset /\ c < end THEN text[c - offset + 1]
                                 ELSE IF c < old THEN connection_hostname[c] ELSE NUL]
  BY DEF Patched, end, old, MAX
<1> HIDE DEF patched
<1>6. ASSUME NEW c \in Cells
      PROVE  patched[c] \in Chars \cup {NUL}
  <2>1. CASE c >= offset /\ c < end
    <3>1. c - offset + 1 \in 1 .. Len(text)
      BY <2>1, <1>1, <1>3 DEF Cells
    <3>2. text[c - offset + 1] \in Chars \cup {NUL}
      BY <3>1
    <3> QED
      BY <3>2, <2>1, <1>5
  <2>2. CASE ~(c >= offset /\ c < end)
    <3>1. connection_hostname[c] \in Chars \cup {NUL}
      BY DEF Strings
    <3> QED
      BY <3>1, <2>2, <1>5
  <2> QED
    BY <2>1, <2>2
<1>7. patched \in [Cells -> Chars \cup {NUL}]
  BY <1>5, <1>6
<1>8. patched[MAX] = NUL
  <2>1. ~(MAX < end) /\ ~(MAX < old)
    BY <1>1, <1>3, <1>4
  <2> QED
    BY <2>1, <1>1, <1>5
<1> QED
  BY <1>7, <1>8 DEF patched, Strings, MAX

\* The default name fills a buffer and is read back from it.
LEMMA DefaultStored ==
    /\ Buffer(DEFAULT_HOSTNAME) \in Strings
    /\ copy_string(Buffer(DEFAULT_HOSTNAME)) = DEFAULT_HOSTNAME
<1> DEFINE buffer == Buffer(DEFAULT_HOSTNAME)
           n == Len(DEFAULT_HOSTNAME)
<1>1. n \in 0 .. MAX /\ MAX \in Cells /\ \A c \in 0 .. MAX : c \in Cells
  BY HostnameAssumption DEF Cells, CONNECTION_HOSTNAME_SIZE,
     DATAREF_EXPOSED_STRING_LENGTH, MAX
<1>2. buffer = [c \in Cells |-> IF c < n THEN DEFAULT_HOSTNAME[c + 1] ELSE NUL]
  BY DEF Buffer
<1> HIDE DEF buffer
<1>3. ASSUME NEW c \in Cells, c < n
      PROVE  buffer[c] = DEFAULT_HOSTNAME[c + 1] /\ buffer[c] \in Chars
  <2>1. c + 1 \in 1 .. n
    BY <1>1, <1>3 DEF Cells
  <2>2. DEFAULT_HOSTNAME[c + 1] \in Chars
    BY <2>1, HostnameAssumption
  <2> QED
    BY <2>2, <1>2, <1>3
<1>4. \A c \in Cells : ~(c < n) => buffer[c] = NUL
  BY <1>2
<1>5. buffer \in [Cells -> Chars \cup {NUL}]
  BY <1>2, <1>3, <1>4
<1>6. buffer[n] = NUL /\ buffer[MAX] = NUL
  BY <1>1, <1>4, HostnameAssumption DEF MAX
<1>7. buffer \in Strings
  BY <1>5, <1>6 DEF Strings, MAX
<1>8. \A c \in Cells : c < n => buffer[c] # NUL
  BY <1>3, HostnameAssumption
<1>9. strlen(buffer) = n
  BY <1>1, <1>6, <1>7, <1>8, StrlenFromPrefix
<1>10. ASSUME NEW i \in 1 .. n
       PROVE  buffer[i - 1] = DEFAULT_HOSTNAME[i]
  <2>1. i - 1 \in Cells /\ i - 1 < n /\ (i - 1) + 1 = i
    BY <1>1, HostnameAssumption DEF MAX
  <2> QED
    BY <2>1, <1>3
<1>11. copy_string(buffer) = [i \in 1 .. n |-> DEFAULT_HOSTNAME[i]]
  BY <1>9, <1>10 DEF copy_string
<1>12. DEFAULT_HOSTNAME = [i \in 1 .. n |-> DEFAULT_HOSTNAME[i]]
  BY HostnameAssumption
<1> QED
  BY <1>7, <1>11, <1>12 DEF buffer

\* The array handed over for a whole name holds its characters and NULs.
LEMMA PaddedIsText ==
    ASSUME NEW name \in Names
    PROVE  Padded(name) \in Seq(Chars \cup {NUL})
<1>1. name \in Seq(Chars) /\ DATAREF_EXPOSED_STRING_LENGTH \in Nat
  BY HostnameAssumption DEF DATAREF_EXPOSED_STRING_LENGTH
<1>2. ASSUME NEW i \in 1 .. DATAREF_EXPOSED_STRING_LENGTH
      PROVE  (IF i <= Len(name) THEN name[i] ELSE NUL) \in Chars \cup {NUL}
  BY <1>1
<1> QED
  BY <1>1, <1>2 DEF Padded

\* A name written whole replaces all of the one before it.
LEMMA WholeNameCopied ==
    ASSUME connection_hostname \in Strings, NEW name \in Names, Len(name) <= MAX
    PROVE  copy_string(Patched(0, Padded(name))) = name
<1> DEFINE padded == Padded(name)
           end == Min({0 + Len(padded), MAX})
           patched == Patched(0, padded)
           n == Len(name)
<1>1. name \in Seq(Chars) /\ n \in 0 .. MAX /\ MAX \in Nat
  BY HostnameAssumption DEF MAX
<1>2. \A c \in 0 .. MAX : c \in Cells
  BY HostnameAssumption DEF Cells, CONNECTION_HOSTNAME_SIZE,
     DATAREF_EXPOSED_STRING_LENGTH, MAX
<1>3. /\ padded \in Seq(Chars \cup {NUL}) /\ Len(padded) = MAX + 1
      /\ \A i \in 1 .. MAX + 1 : padded[i] = IF i <= n THEN name[i] ELSE NUL
  BY <1>1, PaddedIsText DEF Padded, DATAREF_EXPOSED_STRING_LENGTH, MAX
<1> HIDE DEF padded
<1>4. end = MAX
  BY <1>1, <1>3, MinOfTwo
<1>5. patched \in Strings
  BY <1>2, <1>3, <1>1, PatchedIsString
<1>6. \A c \in Cells : c < MAX => patched[c] = padded[c + 1]
  <2>1. patched = [c \in Cells |-> IF c >= 0 /\ c < end THEN padded[c - 0 + 1]
                                    ELSE IF c < strlen(connection_hostname)
                                    THEN connection_hostname[c] ELSE NUL]
    BY DEF Patched, MAX
  <2> HIDE DEF end, patched
  <2>2. \A c \in Cells : c \in Nat /\ c - 0 + 1 = c + 1
    BY DEF Cells
  <2> QED
    BY <1>4, <2>1, <2>2
<1> HIDE DEF patched, end
<1>7. \A c \in Cells : c < n => patched[c] = name[c + 1] /\ patched[c] # NUL
  <2> SUFFICES ASSUME NEW c \in Cells, c < n
               PROVE  patched[c] = name[c + 1] /\ patched[c] # NUL
    OBVIOUS
  <2>1. c + 1 \in 1 .. n /\ c + 1 \in 1 .. MAX + 1 /\ c < MAX
    BY <1>1 DEF Cells
  <2>2. name[c + 1] \in Chars
    BY <2>1, <1>1
  <2> QED
    BY <2>1, <2>2, <1>3, <1>6, HostnameAssumption
<1>8. patched[n] = NUL
  <2>1. CASE n < MAX
    <3>1. n + 1 \in 1 .. MAX + 1 /\ ~(n + 1 <= n)
      BY <1>1
    <3> QED
      BY <2>1, <3>1, <1>1, <1>2, <1>3, <1>6
  <2>2. CASE n = MAX
    BY <2>2, <1>5 DEF Strings, MAX
  <2> QED
    BY <2>1, <2>2, <1>1
<1>9. strlen(patched) = n
  BY <1>1, <1>5, <1>7, <1>8, StrlenFromPrefix
<1>10. ASSUME NEW i \in 1 .. n
       PROVE  patched[i - 1] = name[i]
  <2>1. i - 1 \in Cells /\ i - 1 < n /\ (i - 1) + 1 = i
    BY <1>1, <1>2
  <2> QED
    BY <2>1, <1>7
<1>11. copy_string(patched) = [i \in 1 .. n |-> name[i]]
  BY <1>9, <1>10 DEF copy_string
<1>12. name = [i \in 1 .. n |-> name[i]]
  BY <1>1
<1> QED
  BY <1>11, <1>12 DEF patched, padded
-----------------------------------------------------------------------------
Inv == TypeOK /\ ClientMatches

\* Each outcome of exchanging clients leaves datarefs and client alike.
LEMMA RecreateKeeps ==
    ASSUME Inv, NEW buffer \in Strings, NEW port \in Ports,
           recreate_psx_client(buffer, port)
    PROVE  Inv'
<1> USE DEF Inv, TypeOK, ClientMatches
<1>1. CASE NotDestroyed
  BY <1>1 DEF NotDestroyed, vars, copy_string, strlen
<1>2. CASE Created(buffer, port)
  <2>1. psx_client' \in Clients
    BY <1>2, CopyIsText DEF Created, Clients
  <2>2. connection_hostname' \in Strings /\ connection_port' = port
    BY <1>2, StoredCopies DEF Created
  <2>3. copy_string(connection_hostname') = copy_string(buffer)
    BY <1>2, StoredCopies DEF Created
  <2>4. psx_client' = [host |-> copy_string(connection_hostname'), port |-> connection_port']
    BY <1>2, <2>2, <2>3 DEF Created
  <2> QED
    BY <2>1, <2>2, <2>4
<1>3. CASE Restored(port)
  <2>1. psx_client' = [host |-> copy_string(connection_hostname'), port |-> connection_port']
    BY <1>3 DEF Restored
  <2>2. psx_client' \in Clients
    BY <1>3, CopyIsText DEF Restored, Clients
  <2> QED
    BY <1>3, <2>1, <2>2 DEF Restored
<1>4. CASE Lost
  BY <1>4 DEF Lost
<1> QED
  BY <1>1, <1>2, <1>3, <1>4 DEF recreate_psx_client

\* A write is refused as a whole or exchanges the client for what it made of the name.
LEMMA WriteKeeps ==
    ASSUME Inv, NEW offset \in Cells, NEW text \in Seq(Chars \cup {NUL}),
           update_hostname_via_dataref(offset, text)
    PROVE  Inv'
<1>1. CASE IsIgnored(offset, text)
  <2>1. UNCHANGED vars
    BY <1>1 DEF update_hostname_via_dataref
  <2> QED
    BY <2>1 DEF vars, Inv, TypeOK, ClientMatches
<1>2. CASE ~IsIgnored(offset, text)
  <2>1. recreate_psx_client(Patched(offset, text), connection_port)
    BY <1>2 DEF update_hostname_via_dataref
  <2>2. Patched(offset, text) \in Strings /\ connection_port \in Ports
    BY PatchedIsString DEF Inv, TypeOK
  <2> QED
    BY <2>1, <2>2, RecreateKeeps
<1> QED
  BY <1>1, <1>2

\* Datarefs and client belong together through every sequence of writes, for names of any
\* length and with any step of the exchange failing (update_hostname_via_dataref,
\* update_port_via_dataref, recreate_psx_client).
THEOREM HostnameOfClient == Spec => [](TypeOK /\ ClientMatches)
<1>1. Init => Inv
  BY DefaultStored, HostnameAssumption DEF Init, Inv, TypeOK, ClientMatches, Clients
<1>2. Inv /\ [Next]_vars => Inv'
  <2> SUFFICES ASSUME Inv, [Next]_vars
               PROVE  Inv'
    OBVIOUS
  <2>1. CASE WriteText
    <3>1. PICK offset \in Cells, text \in Texts : update_hostname_via_dataref(offset, text)
      BY <2>1 DEF WriteText
    <3>2. text \in Seq(Chars \cup {NUL})
      BY HostnameAssumption
    <3> QED
      BY <3>1, <3>2, WriteKeeps
  <2>2. CASE \E name \in Names : WriteName(name)
    <3>1. PICK name \in Names : WriteName(name)
      BY <2>2
    <3>2. 0 \in Cells
      BY HostnameAssumption DEF Cells, CONNECTION_HOSTNAME_SIZE, DATAREF_EXPOSED_STRING_LENGTH
    <3> QED
      BY <3>1, <3>2, PaddedIsText, WriteKeeps DEF WriteName
  <2>3. CASE update_port_via_dataref
    <3>1. PICK value \in Ports \cup InvalidPorts :
            IF value \in Ports THEN recreate_psx_client(connection_hostname, value)
            ELSE UNCHANGED vars
      BY <2>3 DEF update_port_via_dataref
    <3>2. CASE value \in Ports
      BY <3>1, <3>2, RecreateKeeps DEF Inv, TypeOK
    <3>3. CASE value \notin Ports
      BY <3>1, <3>3 DEF vars, Inv, TypeOK, ClientMatches
    <3> QED
      BY <3>2, <3>3
  <2>4. CASE UNCHANGED vars
    BY <2>4 DEF vars, Inv, TypeOK, ClientMatches
  <2> QED
    BY <2>1, <2>2, <2>3, <2>4 DEF Next
<1>3. Inv => TypeOK /\ ClientMatches
  BY DEF Inv
<1> QED
  BY <1>1, <1>2, <1>3, PTL DEF Spec

\* A name that fits, written over any other one, becomes the host or changes nothing, also
\* if the new client cannot be created (update_hostname_via_dataref, recreate_psx_client).
THEOREM WholeNamesRequested == Spec => OnlyRequestedHosts
<1> DEFINE Requested(name) ==
        \/ psx_client' = None
        \/ psx_client'.host \in {name, copy_string(connection_hostname)}
<1>1. ASSUME Inv, NEW name \in Names, WriteName(name), Len(name) <= MAX
      PROVE  Requested(name)
  <2> DEFINE patched == Patched(0, Padded(name))
  <2>1. copy_string(patched) = name
    BY <1>1, WholeNameCopied DEF Inv, TypeOK
  <2>2. psx_client = None \/ psx_client.host = copy_string(connection_hostname)
    BY <1>1 DEF Inv, ClientMatches
  <2> HIDE DEF patched
  <2>3. psx_client' = psx_client \/ recreate_psx_client(patched, connection_port)
    BY <1>1 DEF WriteName, update_hostname_via_dataref, vars, patched
  <2>4. CASE psx_client' = psx_client
    BY <2>2, <2>4
  <2>5. CASE recreate_psx_client(patched, connection_port)
    <3>1. CASE NotDestroyed
      BY <3>1, <2>2 DEF NotDestroyed, vars
    <3>2. CASE Created(patched, connection_port)
      BY <3>2, <2>1 DEF Created
    <3>3. CASE Restored(connection_port)
      BY <3>3 DEF Restored
    <3>4. CASE Lost
      BY <3>4 DEF Lost
    <3> QED
      BY <2>5, <3>1, <3>2, <3>3, <3>4 DEF recreate_psx_client
  <2> QED
    BY <2>3, <2>4, <2>5
<1>2. Inv => [\A name \in Names :
                (WriteName(name) /\ Len(name) <= MAX) => Requested(name)]_vars
  BY <1>1
<1>3. Spec => []Inv
  BY HostnameOfClient, PTL DEF Inv
<1>4. Inv => [\A name \in Names :
                (WriteName(name) /\ Len(name) <= MAX_CONNECTION_HOSTNAME_LENGTH)
                => \/ psx_client' = None
                   \/ psx_client'.host \in {name, copy_string(connection_hostname)}]_vars
  BY <1>2 DEF MAX
<1> QED
  BY <1>3, <1>4, PTL DEF OnlyRequestedHosts
=============================================================================
