-------------------------- MODULE ReceptionProofs --------------------------
(***************************************************************************)
(* For every line PSX may send, in chunks of every size up to that of the  *)
(* receive buffer, and for every size of the line buffer: the connection   *)
(* loop stays inside both buffers, implements the stream of lines that is  *)
(* LineStream, and waits for no byte it could do without.  For every text, *)
(* every sequence of fields, every width of the integers and every size of *)
(* the parsing buffer: the parser accepts the boost frames only, and gets  *)
(* their values right.  Printing, converting and parsing recurse; that the *)
(* functions exist, and what they yield, is shown by the least number for  *)
(* which it would be false (FromBelow).                                    *)
(***************************************************************************)
EXTENDS Reception, SequenceTheorems, FiniteSetTheorems, WellFoundedInduction, TLAPS

\* The loop goes on, or waits, only if there is room for a character, and goes on only
\* if there is one.
RoomInside ==
    /\ thread \in {"recv", "bytes"} => line_buffer_write_cursor \in Cells
    /\ thread = "bytes" => recv_buffer # << >>

IInv == TypeOK /\ RoomInside

\* There is room for a first character.
LEMMA FirstCell == 0 \in Cells /\ 0 \in 0 .. LINE_BUFFER_SIZE
BY LineReaderAssumption DEF Cells

\* The local variables a fresh connection starts with have their types.
LEMMA FreshLocalsTyped ==
    ASSUME FreshLocals
    PROVE  /\ recv_buffer' \in Seq(Bytes) /\ Len(recv_buffer') <= RECV_BUFFER_SIZE
           /\ line_buffer' \in [Cells -> Chars \cup {NUL}]
           /\ line_buffer_write_cursor' \in 0 .. LINE_BUFFER_SIZE
           /\ line_buffer_write_cursor' \in Cells
           /\ success' \in BOOLEAN /\ had_carriage_return' \in BOOLEAN
<1>1. success' \in BOOLEAN /\ had_carriage_return' \in BOOLEAN
  BY Zenon DEF FreshLocals
<1>2. line_buffer_write_cursor' \in Cells /\ line_buffer_write_cursor' \in 0 .. LINE_BUFFER_SIZE
  BY FirstCell DEF FreshLocals
<1>3. line_buffer' \in [Cells -> Chars \cup {NUL}]
  BY DEF FreshLocals
<1>4. recv_buffer' \in Seq(Bytes) /\ Len(recv_buffer') <= RECV_BUFFER_SIZE
  BY LineReaderAssumption DEF FreshLocals
<1> QED
  BY <1>1, <1>2, <1>3, <1>4

\* A line with its terminator, appended to what is on its way, is bytes again.
LEMMA SentBytes ==
    ASSUME pipe \in Seq(Bytes), terminator \in Terminators, NEW line \in Lines
    PROVE  pipe \o line \o terminator \in Seq(Bytes)
<1>1. Chars \subseteq Bytes /\ CR \in Bytes /\ LF \in Bytes
  BY DEF Bytes
<1>2. line \in Seq(Bytes)
  BY <1>1, LineReaderAssumption
<1>3. terminator \in Seq(Bytes)
  <2>1. <<CR, LF>> \in Seq(Bytes) /\ <<LF>> \in Seq(Bytes)
    BY <1>1
  <2> QED
    BY <2>1 DEF Terminators
<1> QED
  BY <1>2, <1>3

\* Received bytes and those left behind are bytes, no more than asked for.
LEMMA ChunkBytes ==
    ASSUME pipe \in Seq(Bytes), NEW n \in ChunkSizes, n <= Len(pipe)
    PROVE  /\ SubSeq(pipe, 1, n) \in Seq(Bytes)
           /\ Len(SubSeq(pipe, 1, n)) = n
           /\ n <= RECV_BUFFER_SIZE /\ n >= 1
           /\ SubSeq(pipe, n + 1, Len(pipe)) \in Seq(Bytes)
BY LineReaderAssumption DEF ChunkSizes

\* The bytes left after one was taken.
LEMMA TailOfBytes ==
    ASSUME NEW s \in Seq(Bytes), s # << >>
    PROVE  /\ Tail(s) \in Seq(Bytes)
           /\ Len(Tail(s)) = Len(s) - 1
           /\ Len(s) \in Nat
           /\ Len(s) # 1 => Tail(s) # << >>
<1>1. Len(s) \in Nat /\ Len(s) # 0 /\ Tail(s) \in Seq(Bytes) /\ Len(Tail(s)) = Len(s) - 1
  OBVIOUS
<1>2. Len(<< >>) = 0
  OBVIOUS
<1>3. Tail(s) = << >> => Len(Tail(s)) = 0
  BY <1>2, Zenon
<1> DEFINE rest == Tail(s)
<1> HIDE DEF rest
<1>4. Len(s) # 1 => Len(rest) # 0
  BY <1>1 DEF rest
<1> QED
  BY <1>1, <1>3, <1>4, Zenon DEF rest

\* The end of a turn keeps the loop inside: the cursor it leaves behind is a cell, if
\* the loop goes on.
LEMMA EndOfTurnInside ==
    ASSUME IInv, NextByte, thread = "bytes", EndOfTurn,
           line_buffer_write_cursor' \in 0 .. LINE_BUFFER_SIZE
    PROVE  /\ thread' \in {"recv", "bytes", "close"}
           /\ success' \in BOOLEAN /\ had_carriage_return' \in BOOLEAN
           /\ recv_buffer' \in Seq(Bytes) /\ Len(recv_buffer') <= RECV_BUFFER_SIZE
           /\ RoomInside'
<1>1. /\ recv_buffer \in Seq(Bytes) /\ recv_buffer # << >>
      /\ Len(recv_buffer) <= RECV_BUFFER_SIZE
  BY DEF IInv, TypeOK, RoomInside
<1>2. recv_buffer' = Tail(recv_buffer)
  BY DEF NextByte
<1>3. /\ recv_buffer' \in Seq(Bytes)
      /\ Len(recv_buffer') = Len(recv_buffer) - 1
      /\ Len(recv_buffer) # 1 => recv_buffer' # << >>
  BY <1>1, <1>2, TailOfBytes
<1>4. thread' \in {"recv", "bytes", "close"}
  BY DEF EndOfTurn
<1>5. success' \in BOOLEAN
  BY DEF EndOfTurn, IInv, TypeOK
<1>6. had_carriage_return' \in BOOLEAN
  BY DEF EndOfTurn, IInv, TypeOK
<1>7. /\ thread' \in {"recv", "bytes"} => ~(line_buffer_write_cursor' >= LINE_BUFFER_SIZE)
      /\ thread' = "bytes" => Len(recv_buffer) # 1
  BY DEF EndOfTurn
<1>8. thread' \in {"recv", "bytes"} => line_buffer_write_cursor' \in Cells
  BY <1>7, LineReaderAssumption DEF Cells
<1>9. Len(recv_buffer') <= RECV_BUFFER_SIZE
  BY <1>1, <1>3, LineReaderAssumption
<1> QED
  BY <1>3, <1>4, <1>5, <1>6, <1>7, <1>8, <1>9 DEF RoomInside

\* The thread starts with its buffers empty.
LEMMA IInvInit == Init => IInv
<1> SUFFICES ASSUME Init PROVE IInv
  OBVIOUS
<1>1. should_shutdown \in BOOLEAN /\ success \in BOOLEAN /\ had_carriage_return \in BOOLEAN
  BY Zenon DEF Init
<1>2. /\ line_buffer \in [Cells -> Chars \cup {NUL}]
      /\ line_buffer_write_cursor \in 0 .. LINE_BUFFER_SIZE
      /\ thread = "connect"
  BY FirstCell DEF Init
<1>3. /\ recv_buffer \in Seq(Bytes) /\ Len(recv_buffer) <= RECV_BUFFER_SIZE
      /\ pipe \in Seq(Bytes) /\ sent \in Seq(Lines) /\ delivered \in Seq(BoostLines)
      /\ terminator \in Terminators /\ connections \in 0 .. MaxConnections
  BY LineReaderAssumption DEF Init
<1> QED
  BY <1>1, <1>2, <1>3 DEF IInv, TypeOK, RoomInside

\* No step leaves the buffers: what is written goes to the cursor, which has room.
LEMMA IInvStep == IInv /\ [Next]_vars => IInv'
<1> SUFFICES ASSUME IInv, [Next]_vars
             PROVE  IInv'
  OBVIOUS
<1> USE DEF IInv, RoomInside
<1>1. CASE Connected
  BY <1>1, FreshLocalsTyped, LineReaderAssumption
     DEF Connected, TypeOK
<1>2. CASE ShutDown
  BY <1>2 DEF ShutDown, TypeOK, lineVars, peerVars
<1>3. CASE Send
  BY <1>3, SentBytes DEF Send, TypeOK, lineVars
<1>4. CASE Recv
  <2>1. PICK n \in ChunkSizes : /\ n <= Len(pipe)
                                /\ recv_buffer' = SubSeq(pipe, 1, n)
                                /\ pipe' = SubSeq(pipe, n + 1, Len(pipe))
    BY <1>4 DEF Recv, ReadNetwork
  <2>2. pipe \in Seq(Bytes)
    BY DEF TypeOK
  <2>3. /\ recv_buffer' \in Seq(Bytes) /\ Len(recv_buffer') <= RECV_BUFFER_SIZE
        /\ recv_buffer' # << >>
        /\ pipe' \in Seq(Bytes)
    BY <2>1, <2>2, ChunkBytes
  <2>4. line_buffer_write_cursor \in Cells
    BY <1>4 DEF Recv, ReadNetwork
  <2> QED
    BY <1>4, <2>3, <2>4 DEF Recv, ReadNetwork, TypeOK, peerVars
<1>5. CASE RecvNothing
  BY <1>5 DEF RecvNothing, TypeOK, lineVars, peerVars
<1>6. CASE LineComplete
  <2>1. thread = "bytes" /\ NextByte /\ line_buffer_write_cursor \in Cells
    BY <1>6 DEF LineComplete, NextByte
  <2>2. line_buffer' \in [Cells -> Chars \cup {NUL}]
    BY <1>6 DEF LineComplete, Terminated, TypeOK
  <2>3. CASE String(Terminated) \in BoostLines
    <3>1. /\ delivered' = Append(delivered, String(Terminated))
          /\ line_buffer_write_cursor' = 0
          /\ EndOfTurn
      BY <1>6, <2>3 DEF LineComplete
    <3>2. delivered' \in Seq(BoostLines)
      BY <2>3, <3>1 DEF TypeOK
    <3>3. line_buffer_write_cursor' \in 0 .. LINE_BUFFER_SIZE
      BY <3>1, LineReaderAssumption
    <3> QED
      BY <2>1, <2>2, <3>1, <3>2, <3>3, EndOfTurnInside DEF NextByte, TypeOK, peerVars
  <2>4. CASE String(Terminated) \notin BoostLines
    <3>1. recv_buffer \in Seq(Bytes) /\ recv_buffer # << >> /\ recv_buffer' = Tail(recv_buffer)
      BY <2>1 DEF NextByte, TypeOK
    <3>2. recv_buffer' \in Seq(Bytes) /\ Len(recv_buffer') = Len(recv_buffer) - 1
      BY <3>1
    <3>3. Len(recv_buffer') <= RECV_BUFFER_SIZE
      BY <3>1, <3>2, LineReaderAssumption DEF TypeOK
    <3> QED
      BY <1>6, <2>1, <2>2, <2>4, <3>2, <3>3 DEF LineComplete, NextByte, TypeOK, peerVars
  <2> QED
    BY <2>3, <2>4
<1>7. CASE SkipLineFeed
  <2>1. thread = "bytes" /\ NextByte /\ EndOfTurn
    BY <1>7 DEF SkipLineFeed, NextByte
  <2>2. line_buffer_write_cursor' \in 0 .. LINE_BUFFER_SIZE
    BY <1>7 DEF SkipLineFeed, TypeOK
  <2> QED
    BY <1>7, <2>1, <2>2, EndOfTurnInside DEF SkipLineFeed, NextByte, TypeOK, peerVars
<1>8. CASE Collect
  <2>1. thread = "bytes" /\ NextByte /\ EndOfTurn /\ line_buffer_write_cursor \in Cells
    BY <1>8 DEF Collect, NextByte
  <2>2. Head(recv_buffer) \in Chars
    BY <1>8, <2>1 DEF Collect, TypeOK, IsTerminator, Bytes
  <2>3. line_buffer' \in [Cells -> Chars \cup {NUL}]
    BY <1>8, <2>1, <2>2 DEF Collect, TypeOK
  <2>4. line_buffer_write_cursor' \in 0 .. LINE_BUFFER_SIZE
    BY <1>8, <2>1, LineReaderAssumption DEF Collect, Cells
  <2> QED
    BY <1>8, <2>1, <2>3, <2>4, EndOfTurnInside DEF Collect, NextByte, TypeOK, peerVars
<1>9. CASE Close
  BY <1>9 DEF Close, TypeOK, lineVars, peerVars
<1>10. CASE UNCHANGED vars
  BY <1>10 DEF vars, TypeOK, lineVars, peerVars
<1> QED
  BY <1>1, <1>2, <1>3, <1>4, <1>5, <1>6, <1>7, <1>8, <1>9, <1>10 DEF Next

\* Every write into the line buffer is inside it, and every variable has its type: no
\* stream of bytes makes the connection thread write behind its buffers.
THEOREM ReaderStaysInside == Spec => [](TypeOK /\ WritesInside)
<1>1. IInv => TypeOK /\ WritesInside
  BY DEF IInv, RoomInside, WritesInside
<1> QED
  BY <1>1, IInvInit, IInvStep, PTL DEF Spec
-----------------------------------------------------------------------------
\* What was received or is on its way, and not processed yet.
Ahead == recv_buffer \o pipe

\* Of the lines behind the first d, line k ends at ends[k] of the bytes, together with its
\* terminator.  What lies before the first byte was processed already.
Framed(lines, d, bytes, eol, ends) ==
    /\ ends[Len(lines)] = Len(bytes)
    /\ \A k \in d + 1 .. Len(lines) :
          /\ ends[k] = ends[k - 1] + Len(lines[k]) + Len(eol)
          /\ \A j \in 1 .. Len(lines[k]) :
                ends[k - 1] + j >= 1 => bytes[ends[k - 1] + j] = lines[k][j]
          /\ \A j \in 1 .. Len(eol) :
                ends[k] - Len(eol) + j >= 1 => bytes[ends[k] - Len(eol) + j] = eol[j]

\* Terminators are found where lines end only, each at a place of its own.
EndsFound(lines, d, bytes, eol, ends) ==
    /\ \A k, m \in d .. Len(lines) : k < m => ends[k] < ends[m]
    /\ \A p \in 1 .. Len(bytes) :
          bytes[p] = Head(eol) => \E k \in d + 1 .. Len(lines) : p = ends[k] - Len(eol) + 1

\* The line buffer holds the beginning of the first line that was not handed on.
Collected ==
    /\ Len(delivered) <= Len(sent)
    /\ Len(delivered) = Len(sent) => line_buffer_write_cursor = 0
    /\ Len(delivered) < Len(sent) =>
          /\ line_buffer_write_cursor <= Len(sent[Len(delivered) + 1])
          /\ \A j \in 1 .. line_buffer_write_cursor :
                line_buffer[j - 1] = sent[Len(delivered) + 1][j]

\* Behind a CR, the LF of the same line is still ahead.
Skipping ==
    had_carriage_return =>
        /\ terminator = <<CR, LF>> /\ line_buffer_write_cursor = 0
        /\ Ahead # << >> /\ Head(Ahead) = LF

Positioned(ends) ==
    /\ ends[Len(delivered)] = IF had_carriage_return THEN 1 ELSE 0 - line_buffer_write_cursor
    /\ Framed(sent, Len(delivered), Ahead, terminator, ends)
    /\ EndsFound(sent, Len(delivered), Ahead, terminator, ends)

\* The loop has its place in what PSX sends.
Reading ==
    thread \in {"recv", "bytes"} =>
        /\ success
        /\ thread = "recv" => recv_buffer = << >>
        /\ Collected /\ Skipping
        /\ \E ends \in [Nat -> Int] : Positioned(ends)

\* What the two ways to end a line have in common, and what tells them apart.
LEMMA TerminatorBytes ==
    ASSUME NEW eol \in Terminators
    PROVE  /\ eol \in Seq({CR, LF}) /\ Len(eol) \in 1 .. 2 /\ Head(eol) = eol[1]
           /\ eol[1] \in {CR, LF} /\ eol[Len(eol)] = LF
           /\ eol[1] = CR => eol = <<CR, LF>> /\ Len(eol) = 2 /\ eol[2] = LF
           /\ eol[1] = LF => Len(eol) = 1
           /\ Len(eol) = 2 => eol[2] # eol[1]
<1> USE LineReaderAssumption
<1>1. CASE eol = <<CR, LF>>
  BY <1>1
<1>2. CASE eol = <<LF>>
  BY <1>2
<1> QED
  BY <1>1, <1>2 DEF Terminators

\* The first character of a terminator is not in it again.
LEMMA BeginsOnce ==
    ASSUME NEW eol \in Terminators, NEW i \in Nat, 1 <= i, i <= Len(eol), eol[i] = Head(eol)
    PROVE  i = 1
<1>1. CASE eol = <<CR, LF>>
  <2>1. Len(eol) = 2 /\ eol[2] # Head(eol)
    BY <1>1, LineReaderAssumption
  <2>2. i = 1 \/ i = 2
    BY <2>1
  <2> QED
    BY <2>1, <2>2
<1>2. CASE eol = <<LF>>
  BY <1>2
<1> QED
  BY <1>1, <1>2 DEF Terminators

\* A line between two terminators has none in it.
LEMMA LineChars ==
    ASSUME NEW line \in Lines
    PROVE  /\ line \in Seq(Chars) /\ Len(line) \in Nat
           /\ \A j \in 1 .. Len(line) : line[j] \in Chars /\ line[j] \notin {CR, LF, NUL}
<1>1. line \in Seq(Chars) /\ {CR, LF, NUL} \cap Chars = {}
  BY LineReaderAssumption
<1> QED
  BY <1>1

\* What was not processed yet are bytes.
LEMMA AheadTyped ==
    ASSUME TypeOK
    PROVE  /\ Ahead \in Seq(Bytes)
           /\ Len(Ahead) = Len(recv_buffer) + Len(pipe)
BY DEF TypeOK, Ahead

\* Taking a byte from the receive buffer takes it from what is ahead.
LEMMA AheadByte ==
    ASSUME TypeOK, recv_buffer # << >>
    PROVE  /\ Tail(recv_buffer) \o pipe = Tail(Ahead)
           /\ Head(recv_buffer) = Head(Ahead) /\ Ahead # << >>
<1>1. /\ recv_buffer \in Seq(Bytes) /\ pipe \in Seq(Bytes) /\ Len(recv_buffer) >= 1
  BY DEF TypeOK
<1>2. /\ Ahead \in Seq(Bytes) /\ Len(Ahead) = Len(recv_buffer) + Len(pipe)
      /\ \A i \in 1 .. Len(Ahead) :
            Ahead[i] = IF i <= Len(recv_buffer) THEN recv_buffer[i]
                       ELSE pipe[i - Len(recv_buffer)]
  BY <1>1 DEF Ahead
<1>3. Ahead # << >> /\ Head(recv_buffer) = Head(Ahead)
  BY <1>1, <1>2
<1>4. /\ Tail(recv_buffer) \in Seq(Bytes) /\ Len(Tail(recv_buffer)) = Len(recv_buffer) - 1
      /\ \A i \in 1 .. Len(recv_buffer) - 1 : Tail(recv_buffer)[i] = recv_buffer[i + 1]
  BY <1>1
<1>5. /\ Tail(Ahead) \in Seq(Bytes) /\ Len(Tail(Ahead)) = Len(Ahead) - 1
      /\ \A i \in 1 .. Len(Ahead) - 1 : Tail(Ahead)[i] = Ahead[i + 1]
  BY <1>2, <1>3
<1> DEFINE rest == Tail(recv_buffer)
           whole == Tail(Ahead)
<1> HIDE DEF rest, whole
<1>6. /\ rest \o pipe \in Seq(Bytes) /\ Len(rest \o pipe) = Len(rest) + Len(pipe)
      /\ \A i \in 1 .. Len(rest) + Len(pipe) :
            (rest \o pipe)[i] = IF i <= Len(rest) THEN rest[i] ELSE pipe[i - Len(rest)]
  BY <1>1, <1>4 DEF rest
<1>7. rest \o pipe = whole
  <2>1. Len(rest \o pipe) = Len(whole) /\ whole \in Seq(Bytes) /\ Len(rest) = Len(recv_buffer) - 1
    BY <1>1, <1>2, <1>4, <1>5, <1>6 DEF rest, whole
  <2>2. ASSUME NEW i \in 1 .. Len(whole)
        PROVE  (rest \o pipe)[i] = whole[i]
    BY <1>1, <1>2, <1>4, <1>5, <1>6, <2>1 DEF rest, whole
  <2> QED
    BY <1>6, <2>1, <2>2, SeqEqual
<1> QED
  BY <1>3, <1>7 DEF rest, whole

\* However much is received, the same bytes are ahead.
LEMMA AheadChunk ==
    ASSUME NEW s \in Seq(Bytes), NEW n \in 0 .. Len(s)
    PROVE  SubSeq(s, 1, n) \o SubSeq(s, n + 1, Len(s)) = s
<1>1. CASE s = << >>
  BY <1>1
<1>2. CASE s # << >>
  <2>1. 1 \in 1 .. Len(s) + 1 /\ n \in 1 - 1 .. Len(s) /\ Len(s) \in n .. Len(s)
    BY <1>2
  <2> QED
    BY <2>1, ConcatAdjacentSubSeq, SubSeqFull
<1> QED
  BY <1>1, <1>2

\* What the lemmas about places need to know of lines, bytes and terminator.
Sized(lines, d, bytes, eol) ==
    /\ Len(lines) \in Nat /\ Len(bytes) \in Nat /\ Len(eol) \in Nat
    /\ d \in Nat /\ d <= Len(lines)
    /\ \A k \in Nat : d < k /\ k <= Len(lines) => Len(lines[k]) \in Nat

\* No line ends behind the last byte.
LEMMA FramedInside ==
    ASSUME NEW lines, NEW d, NEW bytes, NEW eol, NEW ends \in [Nat -> Int],
           Sized(lines, d, bytes, eol),
           Framed(lines, d, bytes, eol, ends), EndsFound(lines, d, bytes, eol, ends)
    PROVE  \A k \in Nat : d <= k /\ k <= Len(lines) => ends[k] \in Int /\ ends[k] <= Len(bytes)
<1>1. ASSUME NEW k \in Nat, d <= k, k <= Len(lines)
      PROVE  ends[k] \in Int /\ ends[k] <= Len(bytes)
  <2>1. ends[Len(lines)] = Len(bytes)
    BY DEF Framed
  <2>2. k < Len(lines) => ends[k] < ends[Len(lines)]
    BY <1>1 DEF EndsFound, Sized
  <2> QED
    BY <1>1, <2>1, <2>2 DEF Sized
<1> QED
  BY <1>1

\* The first byte is gone, and all places have moved with it.
OneLess(bytes, rest) ==
    /\ Len(bytes) # 0 /\ Len(rest) = Len(bytes) - 1
    /\ \A i \in Nat : 1 <= i /\ i < Len(bytes) => rest[i] = bytes[i + 1]

Shifted(ends, moved) ==
    \A k \in Nat : ends[k] \in Int /\ moved[k] \in Int /\ moved[k] = ends[k] - 1

\* Where lines end once a byte was taken.
LEMMA FramedByte ==
    ASSUME NEW lines, NEW d, NEW bytes, NEW eol, NEW ends \in [Nat -> Int], NEW rest,
           NEW moved,
           Sized(lines, d, bytes, eol),
           Framed(lines, d, bytes, eol, ends), EndsFound(lines, d, bytes, eol, ends),
           OneLess(bytes, rest), Shifted(ends, moved)
    PROVE  /\ Framed(lines, d, rest, eol, moved)
           /\ EndsFound(lines, d, rest, eol, moved)
<1>1. /\ Len(lines) \in Nat /\ Len(bytes) \in Nat /\ d \in Nat /\ Len(eol) \in Nat
      /\ d <= Len(lines) /\ Len(rest) = Len(bytes) - 1
  BY DEF Sized, OneLess
<1>2. moved[Len(lines)] = Len(rest)
  BY <1>1 DEF Framed, Shifted
<1>3. ASSUME NEW k \in d + 1 .. Len(lines)
      PROVE  /\ moved[k] = moved[k - 1] + Len(lines[k]) + Len(eol)
             /\ \A j \in 1 .. Len(lines[k]) :
                   moved[k - 1] + j >= 1 => rest[moved[k - 1] + j] = lines[k][j]
             /\ \A j \in 1 .. Len(eol) :
                   moved[k] - Len(eol) + j >= 1 => rest[moved[k] - Len(eol) + j] = eol[j]
  <2>1. k \in Nat /\ k - 1 \in Nat /\ d < k /\ d <= k /\ k <= Len(lines)
    BY <1>1
  <2>2. /\ moved[k] = ends[k] - 1 /\ moved[k - 1] = ends[k - 1] - 1
        /\ ends[k] \in Int /\ ends[k - 1] \in Int /\ moved[k - 1] \in Int
    BY <2>1 DEF Shifted
  <2>3. ends[k] <= Len(bytes)
    BY <2>1, FramedInside
  <2>4. ends[k] = ends[k - 1] + Len(lines[k]) + Len(eol) /\ Len(lines[k]) \in Nat
    BY <2>1 DEF Framed, Sized
  <2>5. ASSUME NEW j \in 1 .. Len(lines[k]), moved[k - 1] + j >= 1
        PROVE  rest[moved[k - 1] + j] = lines[k][j]
    <3> DEFINE end == ends[k]
               start == ends[k - 1]
               size == Len(lines[k])
               over == Len(eol)
               all == Len(bytes)
    <3>1. /\ end \in Int /\ start \in Int /\ size \in Nat /\ over \in Nat /\ all \in Nat
          /\ end = start + size + over /\ end <= all
          /\ j \in Nat /\ j <= size /\ (start - 1) + j >= 1
      BY <1>1, <2>2, <2>3, <2>4, <2>5
    <3> HIDE DEF end, start, size, over, all
    <3>2. PICK i \in Nat : i = (start - 1) + j
      BY <3>1
    <3>3. 1 <= i /\ i < all /\ i + 1 = start + j /\ start + j >= 1
      BY <3>1, <3>2
    <3>4. rest[i] = bytes[i + 1]
      BY <3>3 DEF OneLess, all
    <3>5. start + j >= 1 => bytes[start + j] = lines[k][j]
      BY DEF Framed, start
    <3>6. moved[k - 1] + j = i
      BY <2>2, <3>2 DEF start
    <3> QED
      BY <3>3, <3>4, <3>5, <3>6
  <2>6. ASSUME NEW j \in 1 .. Len(eol), moved[k] - Len(eol) + j >= 1
        PROVE  rest[moved[k] - Len(eol) + j] = eol[j]
    <3> DEFINE end == ends[k]
               over == Len(eol)
               all == Len(bytes)
    <3>1. /\ end \in Int /\ over \in Nat /\ all \in Nat /\ end <= all
          /\ j \in Nat /\ j <= over /\ (end - 1) - over + j >= 1
      BY <1>1, <2>2, <2>3, <2>6
    <3> HIDE DEF end, over, all
    <3>2. PICK i \in Nat : i = (end - 1) - over + j
      BY <3>1
    <3>3. 1 <= i /\ i < all /\ i + 1 = end - over + j /\ end - over + j >= 1
      BY <3>1, <3>2
    <3>4. rest[i] = bytes[i + 1]
      BY <3>3 DEF OneLess, all
    <3>5. end - over + j >= 1 => bytes[end - over + j] = eol[j]
      BY DEF Framed, end, over
    <3>6. moved[k] - Len(eol) + j = i
      BY <2>2, <3>2 DEF end, over
    <3> QED
      BY <3>3, <3>4, <3>5, <3>6
  <2>7. moved[k] = moved[k - 1] + Len(lines[k]) + Len(eol)
    <3> DEFINE end == ends[k]
               start == ends[k - 1]
               size == Len(lines[k])
               over == Len(eol)
    <3>1. end \in Int /\ start \in Int /\ size \in Int /\ over \in Int /\ end = start + size + over
      BY <1>1, <2>2, <2>4
    <3> HIDE DEF end, start, size, over
    <3>2. end - 1 = (start - 1) + size + over
      BY <3>1
    <3> QED
      BY <2>2, <3>2 DEF end, start, size, over
  <2> QED
    BY <2>5, <2>6, <2>7
<1>4. ASSUME NEW k \in d .. Len(lines), NEW m \in d .. Len(lines), k < m
      PROVE  moved[k] < moved[m]
  <2>1. ends[k] < ends[m]
    BY <1>4 DEF EndsFound
  <2>2. k \in Nat /\ m \in Nat
    BY <1>1
  <2> QED
    BY <2>1, <2>2 DEF Shifted
<1>5. ASSUME NEW i \in 1 .. Len(rest), rest[i] = Head(eol)
      PROVE  \E k \in d + 1 .. Len(lines) : i = moved[k] - Len(eol) + 1
  <2>1. i \in Nat /\ 1 <= i /\ i < Len(bytes) /\ i + 1 \in 1 .. Len(bytes)
    BY <1>1
  <2>2. bytes[i + 1] = Head(eol)
    BY <1>5, <2>1 DEF OneLess
  <2>3. PICK k \in d + 1 .. Len(lines) : i + 1 = ends[k] - Len(eol) + 1
    BY <2>1, <2>2 DEF EndsFound
  <2>4. k \in Nat
    BY <1>1
  <2>5. ends[k] \in Int /\ moved[k] = ends[k] - 1
    BY <2>4 DEF Shifted
  <2> DEFINE end == ends[k]
             over == Len(eol)
  <2>6. end \in Int /\ over \in Nat /\ i + 1 = end - over + 1
    BY <1>1, <2>3, <2>5
  <2> HIDE DEF end, over
  <2>7. i = (end - 1) - over + 1
    BY <2>1, <2>6
  <2> QED
    BY <2>5, <2>7 DEF end, over
<1> QED
  BY <1>2, <1>3, <1>4, <1>5 DEF Framed, EndsFound

\* A line whose terminator was met is done.
LEMMA FramedDelivered ==
    ASSUME NEW lines, NEW d, NEW bytes, NEW eol, NEW ends \in [Nat -> Int],
           Sized(lines, d, bytes, eol), d < Len(lines),
           Framed(lines, d, bytes, eol, ends), EndsFound(lines, d, bytes, eol, ends),
           ends[d + 1] < Len(eol)
    PROVE  /\ Framed(lines, d + 1, bytes, eol, ends)
           /\ EndsFound(lines, d + 1, bytes, eol, ends)
<1>1. /\ Len(lines) \in Nat /\ Len(bytes) \in Nat /\ d \in Nat /\ Len(eol) \in Nat
      /\ ends[d + 1] \in Int
  BY DEF Sized
<1>2. d + 1 + 1 .. Len(lines) \subseteq d + 1 .. Len(lines)
  BY <1>1
<1>3. Framed(lines, d + 1, bytes, eol, ends)
  BY <1>2 DEF Framed
<1>4. ASSUME NEW i \in 1 .. Len(bytes), bytes[i] = Head(eol)
      PROVE  \E k \in (d + 1) + 1 .. Len(lines) : i = ends[k] - Len(eol) + 1
  <2>1. PICK k \in d + 1 .. Len(lines) : i = ends[k] - Len(eol) + 1
    BY <1>4 DEF EndsFound
  <2>2. k # d + 1
    BY <1>1, <2>1
  <2> QED
    BY <1>1, <2>1, <2>2
<1>5. d + 1 .. Len(lines) \subseteq d .. Len(lines)
  BY <1>1
<1> QED
  BY <1>3, <1>4, <1>5 DEF EndsFound

\* A line and its terminator come behind the bytes that are ahead.
Longer(bytes, line, eol, longer) ==
    /\ Len(longer) = Len(bytes) + Len(line) + Len(eol)
    /\ \A i \in Nat : 1 <= i /\ i <= Len(bytes) => longer[i] = bytes[i]
    /\ \A i \in Nat : 1 <= i /\ i <= Len(line) => longer[Len(bytes) + i] = line[i]
    /\ \A i \in Nat : 1 <= i /\ i <= Len(eol) => longer[Len(bytes) + Len(line) + i] = eol[i]

OneMore(lines, line, more) ==
    /\ Len(more) = Len(lines) + 1 /\ more[Len(lines) + 1] = line
    /\ \A k \in Nat : 1 <= k /\ k <= Len(lines) => more[k] = lines[k]

EndAdded(lines, ends, at, further) ==
    /\ further[Len(lines) + 1] = at
    /\ \A k \in Nat : k <= Len(lines) => further[k] = ends[k] /\ ends[k] \in Int

\* A terminator begins where its line ends, and nowhere else.
Clean(line, eol) ==
    /\ \A i \in Nat : 1 <= i /\ i <= Len(line) => line[i] # Head(eol)
    /\ \A i \in Nat : 1 <= i /\ i <= Len(eol) /\ eol[i] = Head(eol) => i = 1

\* Where lines end once another one was sent.
LEMMA FramedSend ==
    ASSUME NEW lines, NEW d, NEW bytes, NEW eol, NEW ends \in [Nat -> Int],
           NEW line, NEW more, NEW longer, NEW further,
           Sized(lines, d, bytes, eol), Len(line) \in Nat, Len(eol) >= 1,
           Framed(lines, d, bytes, eol, ends), EndsFound(lines, d, bytes, eol, ends),
           OneMore(lines, line, more), Longer(bytes, line, eol, longer), Clean(line, eol),
           EndAdded(lines, ends, Len(longer), further)
    PROVE  /\ Framed(more, d, longer, eol, further)
           /\ EndsFound(more, d, longer, eol, further)
<1> DEFINE n == Len(lines)
           all == Len(bytes)
           size == Len(line)
           over == Len(eol)
<1>1. /\ n \in Nat /\ all \in Nat /\ d \in Nat /\ size \in Nat /\ over \in Nat
      /\ d <= n /\ over >= 1 /\ Len(more) = n + 1 /\ Len(longer) = all + size + over
  BY DEF Sized, OneMore, Longer
<1>2. /\ further[n + 1] = all + size + over
      /\ \A k \in Nat : k <= n => further[k] = ends[k] /\ ends[k] \in Int
  BY <1>1 DEF EndAdded
<1>3. ends[n] = all
  BY DEF Framed
<1>4. \A k \in Nat : d <= k /\ k <= n => ends[k] <= all
  BY FramedInside
<1>5. \A k \in Nat : d < k /\ k <= n => Len(lines[k]) \in Nat
  BY DEF Sized
<1> HIDE DEF n, all, size, over
<1>6. ASSUME NEW k \in d + 1 .. n
      PROVE  /\ further[k] = further[k - 1] + Len(more[k]) + over
             /\ \A j \in 1 .. Len(more[k]) :
                   further[k - 1] + j >= 1 => longer[further[k - 1] + j] = more[k][j]
             /\ \A j \in 1 .. over :
                   further[k] - over + j >= 1 => longer[further[k] - over + j] = eol[j]
  <2>1. k \in Nat /\ k - 1 \in Nat /\ d < k /\ d <= k /\ k <= n /\ 1 <= k /\ k - 1 <= n
    BY <1>1
  <2>2. /\ further[k] = ends[k] /\ further[k - 1] = ends[k - 1] /\ more[k] = lines[k]
        /\ ends[k] \in Int /\ ends[k - 1] \in Int
    BY <1>2, <2>1 DEF OneMore, n
  <2>3. ends[k] = ends[k - 1] + Len(lines[k]) + over /\ Len(lines[k]) \in Nat
    BY <1>5, <2>1 DEF Framed, n, over
  <2> DEFINE end == ends[k]
             start == ends[k - 1]
             width == Len(lines[k])
  <2>4. /\ end \in Int /\ start \in Int /\ width \in Nat
        /\ end = start + width + over /\ end <= all
    BY <1>4, <2>1, <2>2, <2>3
  <2> HIDE DEF end, start, width
  <2>5. ASSUME NEW j \in 1 .. width, start + j >= 1
        PROVE  longer[start + j] = lines[k][j]
    <3>1. PICK i \in Nat : i = start + j
      BY <2>4, <2>5
    <3>2. 1 <= i /\ i <= all
      BY <1>1, <2>4, <2>5, <3>1
    <3>3. longer[i] = bytes[i]
      BY <3>2 DEF Longer, all
    <3>4. bytes[start + j] = lines[k][j]
      BY <2>5 DEF Framed, start, width, n
    <3> QED
      BY <3>1, <3>3, <3>4
  <2>6. ASSUME NEW j \in 1 .. over, end - over + j >= 1
        PROVE  longer[end - over + j] = eol[j]
    <3>1. PICK i \in Nat : i = end - over + j
      BY <1>1, <2>4, <2>6
    <3>2. 1 <= i /\ i <= all
      BY <1>1, <2>4, <2>6, <3>1
    <3>3. longer[i] = bytes[i]
      BY <3>2 DEF Longer, all
    <3>4. bytes[end - over + j] = eol[j]
      BY <2>6 DEF Framed, end, over, n
    <3> QED
      BY <3>1, <3>3, <3>4
  <2> QED
    BY <2>2, <2>3, <2>5, <2>6 DEF end, start, width
<1>7. /\ further[n + 1] = further[n] + Len(more[n + 1]) + over
      /\ \A j \in 1 .. Len(more[n + 1]) :
            further[n] + j >= 1 => longer[further[n] + j] = more[n + 1][j]
      /\ \A j \in 1 .. over :
            further[n + 1] - over + j >= 1 => longer[further[n + 1] - over + j] = eol[j]
  <2>1. more[n + 1] = line /\ Len(line) = size
    BY DEF OneMore, n, size
  <2>2. further[n] = all /\ further[n + 1] = all + size + over
    BY <1>1, <1>2, <1>3
  <2>3. ASSUME NEW j \in 1 .. size
        PROVE  longer[all + j] = line[j]
    BY <1>1 DEF Longer, all, size
  <2>4. ASSUME NEW j \in 1 .. over
        PROVE  longer[all + size + over - over + j] = eol[j]
    <3>1. longer[all + size + j] = eol[j]
      BY <1>1 DEF Longer, all, size, over
    <3>2. all + size + over - over + j = all + size + j
      BY <1>1
    <3> QED
      BY <3>1, <3>2
  <2>5. further[n + 1] = further[n] + Len(more[n + 1]) + over
    BY <2>1, <2>2
  <2>6. ASSUME NEW j \in 1 .. Len(more[n + 1])
        PROVE  longer[further[n] + j] = more[n + 1][j]
    BY <2>1, <2>2, <2>3, Zenon
  <2>7. ASSUME NEW j \in 1 .. over
        PROVE  longer[further[n + 1] - over + j] = eol[j]
    <3> DEFINE at == further[n + 1] - over + j
    <3>1. at = all + size + over - over + j
      BY <1>1, <2>2
    <3>2. longer[all + size + over - over + j] = eol[j]
      BY <2>4
    <3> HIDE DEF at
    <3>3. longer[at] = eol[j]
      BY <3>1, <3>2
    <3> QED
      BY <3>3 DEF at
  <2> QED
    BY <2>5, <2>6, <2>7, Zenon
<1>8. Framed(more, d, longer, eol, further)
  <2>1. further[Len(more)] = Len(longer)
    BY <1>1, <1>2
  <2>2. ASSUME NEW k \in d + 1 .. n + 1
        PROVE  /\ further[k] = further[k - 1] + Len(more[k]) + over
               /\ \A j \in 1 .. Len(more[k]) :
                     further[k - 1] + j >= 1 => longer[further[k - 1] + j] = more[k][j]
               /\ \A j \in 1 .. over :
                     further[k] - over + j >= 1 => longer[further[k] - over + j] = eol[j]
    <3>1. k \in d + 1 .. n \/ k = n + 1
      BY <1>1
    <3>2. k = n + 1 => k - 1 = n
      BY <1>1
    <3> QED
      BY <1>6, <1>7, <3>1, <3>2
  <2> QED
    BY <1>1, <2>1, <2>2 DEF Framed, over
<1>9. ASSUME NEW k \in d .. n + 1, NEW m \in d .. n + 1, k < m
      PROVE  further[k] < further[m]
  <2>1. k \in Nat /\ m \in Nat /\ k \in d .. n /\ k <= n
    BY <1>1, <1>9
  <2>2. CASE m = n + 1
    <3>1. /\ further[k] = ends[k] /\ ends[k] \in Int /\ ends[k] <= all
          /\ further[m] = all + size + over
      BY <1>2, <1>4, <2>1, <2>2
    <3> QED
      BY <1>1, <3>1
  <2>3. CASE m # n + 1
    <3>1. m \in d .. n /\ m <= n
      BY <1>1, <2>3
    <3>2. ends[k] < ends[m]
      BY <1>9, <2>1, <3>1 DEF EndsFound, n
    <3> QED
      BY <1>2, <2>1, <3>1, <3>2
  <2> QED
    BY <2>2, <2>3
<1>10. ASSUME NEW p \in 1 .. all + size + over, longer[p] = Head(eol)
       PROVE  \E k \in d + 1 .. n + 1 : p = further[k] - over + 1
  <2>0. p \in Nat /\ p >= 1 /\ p <= all + size + over
    BY <1>1
  <2>1. CASE p <= all
    <3>1. bytes[p] = Head(eol)
      BY <1>10, <2>0, <2>1 DEF Longer, all
    <3>2. PICK k \in d + 1 .. n : p = ends[k] - over + 1
      BY <2>0, <2>1, <3>1 DEF EndsFound, all, n, over
    <3>3. k \in d + 1 .. n + 1 /\ k \in Nat /\ k <= n
      BY <1>1
    <3> QED
      BY <1>2, <3>2, <3>3
  <2>2. CASE all < p /\ p <= all + size
    <3>1. PICK i \in Nat : p = all + i
      BY <1>1, <2>0, <2>2
    <3>2. 1 <= i /\ i <= size
      BY <1>1, <2>2, <3>1
    <3>3. longer[all + i] = line[i] /\ line[i] # Head(eol)
      BY <3>2 DEF Longer, Clean, all, size
    <3> QED
      BY <1>10, <3>1, <3>3
  <2>3. CASE all + size < p
    <3>1. PICK i \in Nat : p = all + size + i
      BY <1>1, <2>0, <2>3
    <3>2. 1 <= i /\ i <= over
      BY <1>1, <2>0, <2>3, <3>1
    <3>3. longer[all + size + i] = eol[i]
      BY <3>2 DEF Longer, all, size, over
    <3>4. i = 1
      BY <1>10, <3>1, <3>2, <3>3 DEF Clean, over
    <3>5. n + 1 \in d + 1 .. n + 1 /\ p = further[n + 1] - over + 1
      BY <1>1, <1>2, <3>1, <3>4
    <3> QED
      BY <3>5
  <2> QED
    BY <1>1, <2>0, <2>1, <2>2, <2>3
<1> QED
  BY <1>1, <1>8, <1>9, <1>10 DEF EndsFound, over

\* What the lemmas about places ask for is so.
LEMMA SizedStream ==
    ASSUME TypeOK, Len(delivered) <= Len(sent)
    PROVE  Sized(sent, Len(delivered), Ahead, terminator)
<1>1. /\ sent \in Seq(Lines) /\ delivered \in Seq(BoostLines) /\ terminator \in Terminators
      /\ Ahead \in Seq(Bytes)
  BY AheadTyped DEF TypeOK
<1>2. Len(sent) \in Nat /\ Len(delivered) \in Nat /\ Len(Ahead) \in Nat
  BY <1>1
<1>3. Len(terminator) \in Nat
  BY <1>1, TerminatorBytes
<1>4. ASSUME NEW k \in Nat, Len(delivered) < k, k <= Len(sent)
      PROVE  Len(sent[k]) \in Nat
  <2>1. k \in 1 .. Len(sent)
    BY <1>2, <1>4
  <2>2. sent[k] \in Lines
    BY <1>1, <2>1, ElementOfSeq
  <2> QED
    BY <2>2, LineChars
<1> QED
  BY <1>2, <1>3, <1>4 DEF Sized

\* The line that is being received.
Awaited == sent[Len(delivered) + 1]

\* The next byte is the next character of the awaited line or, behind its last one, begins
\* the terminator.
LEMMA NextByteAwaited ==
    ASSUME TypeOK, Collected, ~had_carriage_return, Ahead # << >>,
           NEW ends \in [Nat -> Int], Positioned(ends)
    PROVE  /\ Len(delivered) < Len(sent) /\ Awaited \in Lines
           /\ line_buffer_write_cursor < Len(Awaited) =>
                Head(Ahead) = Awaited[line_buffer_write_cursor + 1]
           /\ line_buffer_write_cursor = Len(Awaited) =>
                /\ Head(Ahead) = terminator[1]
                /\ ends[Len(delivered) + 1] = Len(terminator)
<1> DEFINE d == Len(delivered)
           n == Len(sent)
           all == Len(Ahead)
           over == Len(terminator)
           cursor == line_buffer_write_cursor
<1>1. /\ d \in Nat /\ n \in Nat /\ d <= n /\ all \in Nat /\ all # 0 /\ over \in 1 .. 2
      /\ cursor \in Nat /\ Head(Ahead) = Ahead[1]
  <2>1. Ahead \in Seq(Bytes) /\ terminator \in Terminators
    BY AheadTyped DEF TypeOK
  <2>2. all \in Nat /\ all # 0 /\ Head(Ahead) = Ahead[1]
    BY <2>1
  <2>3. over \in 1 .. 2
    BY <2>1, TerminatorBytes
  <2>4. d \in Nat /\ n \in Nat /\ d <= n
    BY DEF TypeOK, Collected
  <2>5. cursor \in Nat
    BY LineReaderAssumption DEF TypeOK
  <2> QED
    BY <2>2, <2>3, <2>4, <2>5
<1>2. ends[d] = 0 - cursor /\ ends[n] = all
  BY DEF Positioned, Framed
<1> HIDE DEF cursor
<1>3. d < n
  <2> HIDE DEF d, n, all, over
  <2> QED
    BY <1>1, <1>2
<1>4. Awaited \in Lines /\ Len(Awaited) \in Nat
  <2>1. sent \in Seq(Lines) /\ d + 1 \in 1 .. Len(sent)
    BY <1>1, <1>3 DEF TypeOK
  <2>2. Awaited \in Lines
    BY <2>1, ElementOfSeq DEF Awaited
  <2> QED
    BY <2>2, LineChars
<1>5. d + 1 \in d + 1 .. n /\ (d + 1) - 1 = d
  <2> HIDE DEF d, n
  <2> QED
    BY <1>1, <1>3
<1>6. /\ ends[d + 1] = ends[d] + Len(Awaited) + over
      /\ \A j \in 1 .. Len(Awaited) : ends[d] + j >= 1 => Ahead[ends[d] + j] = Awaited[j]
      /\ \A j \in 1 .. over :
            ends[d + 1] - over + j >= 1 => Ahead[ends[d + 1] - over + j] = terminator[j]
  BY <1>5 DEF Positioned, Framed, Awaited
<1> DEFINE width == Len(Awaited)
<1>7. width \in Nat
  BY <1>4
<1> HIDE DEF d, n, all, over, width
<1>8. ASSUME cursor < width
      PROVE  Ahead[1] = Awaited[cursor + 1]
  <2>1. cursor + 1 \in 1 .. width /\ (0 - cursor) + (cursor + 1) = 1
    BY <1>1, <1>7, <1>8
  <2>2. ends[d] + (cursor + 1) >= 1 => Ahead[ends[d] + (cursor + 1)] = Awaited[cursor + 1]
    BY <1>6, <2>1 DEF width
  <2> QED
    BY <1>2, <2>1, <2>2
<1>9. ASSUME cursor = width
      PROVE  Ahead[1] = terminator[1] /\ ends[d + 1] = over
  <2>1. ends[d + 1] = over
    BY <1>1, <1>2, <1>6, <1>7, <1>9 DEF width
  <2>2. 1 \in 1 .. over /\ over - over + 1 = 1
    BY <1>1
  <2>3. ends[d + 1] - over + 1 >= 1 => Ahead[ends[d + 1] - over + 1] = terminator[1]
    BY <1>6, <2>2
  <2> QED
    BY <2>1, <2>2, <2>3
<1> QED
  BY <1>1, <1>3, <1>4, <1>8, <1>9 DEF d, n, over, width, cursor

\* What on_line_received is given is the awaited line, once all of it was collected: no
\* character of a line is a NUL, and what an earlier line left behind is cut off.
LEMMA StringIsAwaited ==
    ASSUME TypeOK, Collected, Len(delivered) < Len(sent), Awaited \in Lines,
           line_buffer_write_cursor \in Cells, line_buffer_write_cursor = Len(Awaited)
    PROVE  String(Terminated) = Awaited
<1> DEFINE cursor == line_buffer_write_cursor
<1>1. /\ cursor \in Nat /\ cursor \in Cells /\ Cells \subseteq Nat
      /\ \A c \in Cells : 0 .. c - 1 \subseteq Cells
  BY LineReaderAssumption DEF Cells
<1>2. /\ Awaited \in Seq(Chars)
      /\ \A j \in 1 .. cursor : Awaited[j] # NUL
  BY LineChars
<1>3. \A j \in 1 .. cursor : line_buffer[j - 1] = Awaited[j]
  BY DEF Collected, Awaited
<1>4. line_buffer \in [Cells -> Chars \cup {NUL}]
  BY DEF TypeOK
<1> HIDE DEF cursor
<1>5. /\ Terminated[cursor] = NUL
      /\ \A c \in Cells : c # cursor => Terminated[c] = line_buffer[c]
  BY <1>1, <1>4 DEF Terminated, cursor
<1>6. \A j \in 1 .. cursor : j - 1 \in Cells /\ j - 1 # cursor
  <2>1. TAKE j \in 1 .. cursor
  <2>2. j - 1 \in 0 .. cursor - 1
    BY <1>1
  <2> QED
    BY <1>1, <2>2
<1>7. \A j \in 1 .. cursor : Terminated[j - 1] = Awaited[j]
  BY <1>3, <1>5, <1>6
<1>8. \A c \in 0 .. cursor - 1 : Terminated[c] # NUL
  <2>1. TAKE c \in 0 .. cursor - 1
  <2>2. c + 1 \in 1 .. cursor /\ (c + 1) - 1 = c
    BY <1>1
  <2>3. Terminated[(c + 1) - 1] = Awaited[c + 1]
    BY <1>7, <2>2
  <2> QED
    BY <1>2, <2>2, <2>3
<1> DEFINE Ends(e) == Terminated[e] = NUL /\ \A c \in 0 .. e - 1 : Terminated[c] # NUL
           end == CHOOSE e \in Cells : Ends(e)
<1>9. cursor \in Cells /\ Ends(cursor)
  BY <1>1, <1>5, <1>8
<1>10. end \in Cells /\ Ends(end)
  BY <1>9
<1>11. end = cursor
  <2>1. end \in Nat /\ cursor \in Nat
    BY <1>1, <1>10
  <2>2. ~(end < cursor)
    BY <1>8, <1>10, <2>1
  <2>3. ~(cursor < end)
    BY <1>9, <1>10, <2>1
  <2> HIDE DEF end
  <2> QED
    BY <2>1, <2>2, <2>3
<1>12. String(Terminated) = [i \in 1 .. end |-> Terminated[i - 1]]
  BY DEF String
<1> HIDE DEF end
<1>13. String(Terminated) = [i \in 1 .. cursor |-> Awaited[i]]
  BY <1>7, <1>11, <1>12
<1>14. Awaited = [i \in 1 .. Len(Awaited) |-> Awaited[i]]
  BY <1>2
<1> QED
  BY <1>13, <1>14 DEF cursor

\* Where the lines end, after a byte was processed.
LEMMA AfterByte ==
    ASSUME TypeOK, Collected, recv_buffer # << >>, NextByte,
           NEW ends \in [Nat -> Int], Positioned(ends)
    PROVE  /\ Ahead' = Tail(Ahead) /\ Head(recv_buffer) = Head(Ahead) /\ Ahead # << >>
           /\ \E moved \in [Nat -> Int] :
                 /\ Shifted(ends, moved)
                 /\ Framed(sent, Len(delivered), Ahead', terminator, moved)
                 /\ EndsFound(sent, Len(delivered), Ahead', terminator, moved)
<1>1. Ahead' = Tail(recv_buffer) \o pipe
  BY DEF Ahead, NextByte
<1>2. Ahead' = Tail(Ahead) /\ Head(recv_buffer) = Head(Ahead) /\ Ahead # << >>
  BY <1>1, AheadByte
<1>3. OneLess(Ahead, Ahead')
  <2>1. Ahead \in Seq(Bytes)
    BY AheadTyped
  <2>2. /\ Len(Ahead) # 0 /\ Len(Tail(Ahead)) = Len(Ahead) - 1
        /\ \A i \in 1 .. Len(Ahead) - 1 : Tail(Ahead)[i] = Ahead[i + 1]
    BY <1>2, <2>1, HeadTailProperties
  <2>3. Len(Ahead) \in Nat
    BY <2>1
  <2> QED
    BY <1>2, <2>2, <2>3 DEF OneLess
<1> DEFINE moved == [k \in Nat |-> ends[k] - 1]
<1>4. moved \in [Nat -> Int] /\ Shifted(ends, moved)
  BY DEF Shifted
<1>5. Sized(sent, Len(delivered), Ahead, terminator)
  BY SizedStream DEF Collected
<1>6. /\ Framed(sent, Len(delivered), Ahead, terminator, ends)
      /\ EndsFound(sent, Len(delivered), Ahead, terminator, ends)
  BY DEF Positioned
<1> HIDE DEF moved
<1>7. /\ Framed(sent, Len(delivered), Ahead', terminator, moved)
      /\ EndsFound(sent, Len(delivered), Ahead', terminator, moved)
  BY <1>3, <1>4, <1>5, <1>6, FramedByte
<1> QED
  BY <1>2, <1>4, <1>7

\* A connection starts with nothing sent.
LEMMA ConnectedReads ==
    ASSUME IInv, Connected
    PROVE  Reading' /\ Stream!Connected
<1>1. /\ recv_buffer' = << >> /\ pipe' = << >> /\ sent' = << >> /\ delivered' = << >>
      /\ success' = TRUE /\ had_carriage_return' = FALSE /\ line_buffer_write_cursor' = 0
      /\ thread = "connect" /\ thread' = "recv"
  BY DEF Connected, FreshLocals
<1>2. Ahead' = << >> /\ Len(<< >>) = 0
  BY <1>1 DEF Ahead
<1> DEFINE ends == [k \in Nat |-> 0]
<1>3. ends \in [Nat -> Int] /\ ends[0] = 0
  OBVIOUS
<1>4. 1 .. 0 = {} /\ 0 + 1 .. 0 = {} /\ 0 .. 0 = {0}
  OBVIOUS
<1>5. Framed(<< >>, 0, << >>, terminator', ends)
  BY <1>2, <1>3, <1>4 DEF Framed
<1>6. EndsFound(<< >>, 0, << >>, terminator', ends)
  <2>1. \A k, m \in 0 .. 0 : ~(k < m)
    OBVIOUS
  <2> QED
    BY <1>2, <1>4, <2>1 DEF EndsFound
<1> HIDE DEF ends
<1>7. Positioned(ends)'
  <2> DEFINE cursor == line_buffer_write_cursor'
  <2>0. cursor = 0
    BY <1>1
  <2> HIDE DEF cursor
  <2>1. 0 - cursor = 0
    BY <2>0
  <2>2. ends[Len(delivered')] = 0 - line_buffer_write_cursor'
    BY <1>1, <1>2, <1>3, <2>1 DEF cursor
  <2> QED
    BY <1>1, <1>2, <1>5, <1>6, <2>2 DEF Positioned
<1>8. Collected' /\ Skipping'
  BY <1>1, <1>2 DEF Collected, Skipping
<1>9. Reading'
  BY <1>1, <1>3, <1>7, <1>8 DEF Reading
<1>10. Stream!Connected
  <2>1. status # "open" /\ status' = "open"
    BY <1>1 DEF status
  <2> QED
    BY <1>1, <2>1 DEF Stream!Connected
<1> QED
  BY <1>9, <1>10

\* The items of a concatenation are those of the first part, then those of the second.
LEMMA ConcatItems ==
    ASSUME NEW S, NEW s \in Seq(S), NEW t \in Seq(S)
    PROVE  /\ s \o t \in Seq(S)
           /\ Len(s \o t) = Len(s) + Len(t)
           /\ \A i \in 1 .. Len(s) : (s \o t)[i] = s[i]
           /\ \A i \in 1 .. Len(t) : (s \o t)[Len(s) + i] = t[i]
<1>1. s \o t \in Seq(S) /\ Len(s \o t) = Len(s) + Len(t)
  OBVIOUS
<1>2. \A i \in 1 .. Len(s) : (s \o t)[i] = s[i]
  OBVIOUS
<1>3. \A i \in 1 .. Len(t) : (s \o t)[Len(s) + i] = t[i]
  OBVIOUS
<1> QED
  BY <1>1, <1>2, <1>3

\* A line behind the others has its terminator behind it.
LEMMA SentAhead ==
    ASSUME TypeOK, NEW line \in Lines, pipe' = pipe \o line \o terminator,
           recv_buffer' = recv_buffer
    PROVE  /\ Longer(Ahead, line, terminator, Ahead')
           /\ Ahead # << >> => Ahead' # << >> /\ Head(Ahead') = Head(Ahead)
<1>1. /\ recv_buffer \in Seq(Bytes) /\ pipe \in Seq(Bytes) /\ line \in Seq(Bytes)
      /\ terminator \in Seq(Bytes)
  <2>1. Chars \subseteq Bytes /\ {CR, LF} \subseteq Bytes
    BY DEF Bytes
  <2>2. line \in Seq(Bytes)
    BY <2>1, LineChars
  <2>3. terminator \in Terminators /\ recv_buffer \in Seq(Bytes) /\ pipe \in Seq(Bytes)
    BY DEF TypeOK
  <2>4. terminator \in Seq(Bytes)
    <3>1. terminator \in Seq({CR, LF})
      BY <2>3, TerminatorBytes, Zenon
    <3> QED
      BY ONLY <2>1, <3>1
  <2> QED
    BY <2>2, <2>3, <2>4
<1> DEFINE both == line \o terminator
           bytes == Ahead
<1>2. bytes \in Seq(Bytes) /\ bytes = recv_buffer \o pipe
  BY AheadTyped DEF Ahead
<1>3. both \in Seq(Bytes) /\ pipe \o line \o terminator = pipe \o both
  <2>1. both \in Seq(Bytes)
    BY ONLY <1>1, ConcatItems
  <2>2. (pipe \o line) \o terminator = pipe \o (line \o terminator)
    BY ONLY <1>1, ConcatAssociative
  <2> QED
    BY ONLY <2>1, <2>2
<1>4. Ahead' = bytes \o both
  <2>1. Ahead' = recv_buffer \o (pipe \o both)
    BY <1>3 DEF Ahead
  <2> HIDE DEF both
  <2>2. (recv_buffer \o pipe) \o both = recv_buffer \o (pipe \o both)
    <3>1. recv_buffer \in Seq(Bytes) /\ pipe \in Seq(Bytes) /\ both \in Seq(Bytes)
      BY ONLY <1>1, <1>3
    <3> QED
      BY ONLY <3>1, ConcatAssociative
  <2> QED
    BY ONLY <1>2, <2>1, <2>2
<1>5. /\ Len(both) = Len(line) + Len(terminator)
      /\ \A i \in 1 .. Len(line) : both[i] = line[i]
      /\ \A i \in 1 .. Len(terminator) : both[Len(line) + i] = terminator[i]
  BY ONLY <1>1, ConcatItems
<1> HIDE DEF both, bytes
<1>6. /\ Len(bytes \o both) = Len(bytes) + Len(both)
      /\ \A i \in 1 .. Len(bytes) : (bytes \o both)[i] = bytes[i]
      /\ \A i \in 1 .. Len(both) : (bytes \o both)[Len(bytes) + i] = both[i]
  BY ONLY <1>2, <1>3, ConcatItems
<1> DEFINE longer == bytes \o both
           all == Len(bytes)
           size == Len(line)
           over == Len(terminator)
<1>7. all \in Nat /\ size \in Nat /\ over \in Nat
  BY <1>1, <1>2
<1>8. /\ Len(longer) = all + (size + over)
      /\ \A i \in 1 .. all : longer[i] = bytes[i]
      /\ \A i \in 1 .. size + over : longer[all + i] = both[i]
      /\ \A i \in 1 .. size : both[i] = line[i]
      /\ \A i \in 1 .. over : both[size + i] = terminator[i]
  BY <1>5, <1>6
<1> HIDE DEF longer, all, size, over
<1>9. /\ Len(longer) = all + size + over
      /\ \A i \in Nat : 1 <= i /\ i <= all => longer[i] = bytes[i]
      /\ \A i \in Nat : 1 <= i /\ i <= size => longer[all + i] = line[i]
  BY <1>7, <1>8
<1>10. \A i \in Nat : 1 <= i /\ i <= over => longer[all + size + i] = terminator[i]
  <2>1. ASSUME NEW i \in Nat, 1 <= i, i <= over
        PROVE  longer[all + size + i] = terminator[i]
    <3>1. size + i \in 1 .. size + over /\ i \in 1 .. over /\ all + (size + i) = all + size + i
      BY <1>7, <2>1
    <3> QED
      BY <1>8, <3>1
  <2> QED
    BY <2>1
<1>11. Longer(Ahead, line, terminator, Ahead')
  BY <1>4, <1>9, <1>10 DEF Longer, longer, bytes, all, size, over
<1>12. bytes # << >> => longer # << >> /\ Head(longer) = Head(bytes)
  BY <1>2, <1>3 DEF longer
<1> QED
  BY <1>4, <1>11, <1>12 DEF longer, bytes

\* A line that is sent goes behind those that are under way.
LEMMA SendReads ==
    ASSUME IInv, Reading, Send
    PROVE  Reading' /\ Stream!Send
<1>1. PICK line \in Lines : sent' = Append(sent, line) /\ pipe' = pipe \o line \o terminator
  BY DEF Send
<1>2. /\ thread \in {"recv", "bytes"}
      /\ UNCHANGED <<thread, recv_buffer, line_buffer, line_buffer_write_cursor, success,
                     had_carriage_return, terminator, delivered>>
  BY DEF Send, lineVars
<1>3. /\ success /\ Collected /\ Skipping /\ TypeOK
      /\ thread = "recv" => recv_buffer = << >>
  BY <1>2 DEF Reading, IInv
<1>4. PICK ends \in [Nat -> Int] : Positioned(ends)
  BY <1>2 DEF Reading
<1> DEFINE n == Len(sent)
           d == Len(delivered)
<1>5. /\ n \in Nat /\ d \in Nat /\ d <= n /\ Len(sent') = n + 1 /\ sent'[n + 1] = line
      /\ \A k \in 1 .. n : sent'[k] = sent[k]
      /\ sent \in Seq(Lines) /\ line_buffer_write_cursor \in Nat
  <2>1. sent \in Seq(Lines) /\ delivered \in Seq(Lines) /\ line_buffer_write_cursor \in Nat
    BY <1>3, LineReaderAssumption DEF TypeOK
  <2>2. d <= n
    BY <1>3 DEF Collected
  <2>3. sent' = Append(sent, line) /\ line \in Lines
    BY <1>1
  <2>4. n \in Nat /\ d \in Nat
    BY <2>1
  <2>5. Len(sent') = n + 1 /\ sent'[n + 1] = line /\ \A k \in 1 .. n : sent'[k] = sent[k]
    BY <2>1, <2>3
  <2> QED
    BY <2>1, <2>2, <2>4, <2>5
<1>6. OneMore(sent, line, sent')
  BY <1>5 DEF OneMore
<1>7. /\ Longer(Ahead, line, terminator, Ahead')
      /\ Ahead # << >> => Ahead' # << >> /\ Head(Ahead') = Head(Ahead)
  BY <1>1, <1>2, <1>3, SentAhead
<1> HIDE DEF n, d
<1>8. Len(line) \in Nat /\ Len(terminator) >= 1 /\ Clean(line, terminator)
  <2>1. terminator \in Terminators
    BY <1>3 DEF TypeOK
  <2>2. Len(terminator) >= 1
    BY <2>1, TerminatorBytes
  <2>3. \A i \in Nat : 1 <= i /\ i <= Len(line) => line[i] # Head(terminator)
    <3>1. /\ Len(line) \in Nat /\ Head(terminator) \in {CR, LF}
          /\ \A j \in 1 .. Len(line) : line[j] \notin {CR, LF}
      BY <2>1, LineChars, TerminatorBytes
    <3> QED
      BY <3>1
  <2>4. ASSUME NEW i \in Nat, 1 <= i, i <= Len(terminator), terminator[i] = Head(terminator)
        PROVE  i = 1
    BY <2>1, <2>4, BeginsOnce
  <2> QED
    BY <2>2, <2>3, <2>4, LineChars DEF Clean
<1>9. PICK further \in [Nat -> Int] : EndAdded(sent, ends, Len(Ahead'), further)
  <2> DEFINE at == Len(Ahead')
  <2>1. at \in Int
    <3>1. Len(Ahead) \in Nat /\ Len(line) \in Nat
      BY <1>3, <1>8, AheadTyped
    <3>2. Len(terminator) \in Nat
      BY <1>3, TerminatorBytes DEF TypeOK
    <3> QED
      BY <1>7, <3>1, <3>2 DEF Longer
  <2> HIDE DEF at
  <2>2. [ends EXCEPT ![n + 1] = at] \in [Nat -> Int]
    BY <1>5, <2>1
  <2>3. EndAdded(sent, ends, at, [ends EXCEPT ![n + 1] = at])
    BY <1>5, <2>1 DEF n, EndAdded
  <2> QED
    BY <2>2, <2>3 DEF at
<1>10. /\ Framed(sent', d, Ahead', terminator, further)
       /\ EndsFound(sent', d, Ahead', terminator, further)
  <2>1. Sized(sent, d, Ahead, terminator)
    BY <1>3, <1>5, SizedStream DEF n, d
  <2>2. Framed(sent, d, Ahead, terminator, ends) /\ EndsFound(sent, d, Ahead, terminator, ends)
    BY <1>4 DEF Positioned, d
  <2> QED
    BY <1>6, <1>7, <1>8, <1>9, <2>1, <2>2, FramedSend
<1>11. Positioned(further)'
  <2>1. further[d] = ends[d]
    BY <1>5, <1>9 DEF EndAdded, n
  <2> QED
    BY <1>2, <1>4, <1>10, <2>1 DEF Positioned, d
<1>12. Collected'
  <2>1. /\ d = n => line_buffer_write_cursor = 0
        /\ d < n => /\ line_buffer_write_cursor <= Len(sent[d + 1])
                    /\ \A j \in 1 .. line_buffer_write_cursor : line_buffer[j - 1] = sent[d + 1][j]
    BY <1>3 DEF Collected, n, d
  <2>2. d <= n + 1 /\ d # n + 1
    BY <1>5
  <2>3. ASSUME d = n
        PROVE  /\ line_buffer_write_cursor <= Len(sent'[d + 1])
               /\ \A j \in 1 .. line_buffer_write_cursor : line_buffer[j - 1] = sent'[d + 1][j]
    <3>1. sent'[d + 1] = line /\ line_buffer_write_cursor = 0 /\ Len(line) \in Nat
      BY <1>5, <1>8, <2>1, <2>3
    <3>2. 1 .. 0 = {} /\ 0 <= Len(line)
      BY <3>1
    <3> QED
      BY <3>1, <3>2
  <2>4. ASSUME d < n
        PROVE  /\ line_buffer_write_cursor <= Len(sent'[d + 1])
               /\ \A j \in 1 .. line_buffer_write_cursor : line_buffer[j - 1] = sent'[d + 1][j]
    <3>1. d \in Nat /\ n \in Nat
      BY <1>5
    <3>2. d + 1 \in 1 .. n
      BY <2>4, <3>1
    <3>3. sent'[d + 1] = sent[d + 1]
      BY <1>5, <3>2
    <3> QED
      BY <2>1, <2>4, <3>3
  <2>5. d = n \/ d < n
    BY <1>5
  <2> QED
    BY <1>2, <1>5, <2>2, <2>3, <2>4, <2>5 DEF Collected, d
<1>13. Skipping'
  BY <1>2, <1>3, <1>7 DEF Skipping
<1>14. Reading'
  BY <1>2, <1>3, <1>9, <1>11, <1>12, <1>13 DEF Reading
<1>15. Stream!Send
  <2>1. status = "open" /\ status' = status
    BY <1>2, <1>3 DEF status
  <2> QED
    BY <1>1, <1>2, <2>1 DEF Stream!Send
<1> QED
  BY <1>14, <1>15

\* Receiving bytes changes nothing in what is ahead.
LEMMA RecvReads ==
    ASSUME IInv, Reading, Recv
    PROVE  Reading' /\ UNCHANGED <<sent, delivered, status>>
<1>1. PICK n \in ChunkSizes : /\ n <= Len(pipe)
                              /\ recv_buffer' = SubSeq(pipe, 1, n)
                              /\ pipe' = SubSeq(pipe, n + 1, Len(pipe))
  BY DEF Recv, ReadNetwork
<1>2. /\ thread = "recv" /\ thread' = "bytes"
      /\ UNCHANGED <<line_buffer, line_buffer_write_cursor, success, had_carriage_return,
                     terminator, sent, delivered>>
  BY DEF Recv, ReadNetwork, peerVars
<1>3. /\ success /\ Collected /\ Skipping /\ TypeOK /\ recv_buffer = << >>
      /\ \E ends \in [Nat -> Int] : Positioned(ends)
  BY <1>2 DEF Reading, IInv
<1>4. Ahead' = Ahead
  <2>1. pipe \in Seq(Bytes) /\ n \in 0 .. Len(pipe)
    BY <1>1, <1>3, LineReaderAssumption DEF TypeOK, ChunkSizes
  <2>2. Ahead' = pipe
    BY <1>1, <2>1, AheadChunk DEF Ahead
  <2>3. Ahead = pipe
    BY <1>3, <2>1 DEF Ahead
  <2> QED
    BY <2>2, <2>3
<1>5. Collected' /\ Skipping'
  BY <1>2, <1>3, <1>4 DEF Collected, Skipping
<1>6. \E ends \in [Nat -> Int] : Positioned(ends)'
  BY <1>2, <1>3, <1>4 DEF Positioned
<1>7. Reading'
  BY <1>2, <1>3, <1>5, <1>6 DEF Reading
<1>8. UNCHANGED status
  BY <1>2 DEF status
<1> QED
  BY <1>2, <1>7, <1>8

\* What holds before each of the three things a byte can do.
LEMMA BeforeByte ==
    ASSUME IInv, Reading, NextByte
    PROVE  /\ TypeOK /\ Collected /\ Skipping /\ success /\ thread = "bytes"
           /\ recv_buffer # << >> /\ line_buffer_write_cursor \in Cells
           /\ line_buffer_write_cursor \in Nat
           /\ line_buffer_write_cursor < LINE_BUFFER_SIZE
           /\ \E ends \in [Nat -> Int] : Positioned(ends)
           /\ UNCHANGED <<terminator, sent, connections>>
           /\ Head(recv_buffer) = Head(Ahead) /\ Ahead # << >> /\ Head(Ahead) \in Bytes
           /\ Len(recv_buffer) = 1 => recv_buffer' = << >>
<1>1. /\ thread = "bytes" /\ recv_buffer' = Tail(recv_buffer)
      /\ UNCHANGED <<terminator, sent, connections>>
  BY DEF NextByte, peerVars
<1>2. /\ TypeOK /\ Collected /\ Skipping /\ success
      /\ recv_buffer # << >> /\ line_buffer_write_cursor \in Cells
      /\ \E ends \in [Nat -> Int] : Positioned(ends)
  BY <1>1 DEF IInv, Reading, RoomInside
<1>3. line_buffer_write_cursor \in Nat /\ line_buffer_write_cursor < LINE_BUFFER_SIZE
  BY <1>2, LineReaderAssumption DEF Cells
<1>4. Head(recv_buffer) = Head(Ahead) /\ Ahead # << >>
  BY <1>2, AheadByte
<1>5. Head(Ahead) \in Bytes
  BY <1>2, <1>4, AheadTyped
<1>6. Len(recv_buffer) = 1 => recv_buffer' = << >>
  <2>1. recv_buffer \in Seq(Bytes)
    BY <1>2 DEF TypeOK
  <2>2. recv_buffer' \in Seq(Bytes) /\ Len(recv_buffer') = Len(recv_buffer) - 1
    BY <1>1, <1>2, <2>1, TailOfBytes
  <2>3. Len(recv_buffer') = 0 => recv_buffer' = << >>
    BY <2>2, EmptySeq
  <2> QED
    BY <2>2, <2>3
<1> QED
  BY <1>1, <1>2, <1>3, <1>4, <1>5, <1>6, Zenon

\* The loop goes on after a byte if the line has room for another one.
LEMMA TurnGoesOn ==
    ASSUME thread = "bytes", success, EndOfTurn, line_buffer_write_cursor' \in Nat
    PROVE  /\ thread' \in {"recv", "bytes"} =>
                 /\ success' /\ had_carriage_return' = (Head(recv_buffer) = CR)
                 /\ line_buffer_write_cursor' < LINE_BUFFER_SIZE
                 /\ thread' = "recv" => Len(recv_buffer) = 1
           /\ thread' \notin {"recv", "bytes"} =>
                 /\ ~success' /\ line_buffer_write_cursor' >= LINE_BUFFER_SIZE
           /\ line_buffer_write_cursor' < LINE_BUFFER_SIZE => thread' \in {"recv", "bytes"}
<1> DEFINE cursor == line_buffer_write_cursor'
<1>1. CASE cursor >= LINE_BUFFER_SIZE
  <2>1. ~success' /\ thread' = "close"
    BY <1>1 DEF EndOfTurn
  <2>2. ~(cursor < LINE_BUFFER_SIZE)
    BY <1>1, LineReaderAssumption
  <2> QED
    BY <1>1, <2>1, <2>2
<1>2. CASE ~(cursor >= LINE_BUFFER_SIZE)
  <2>1. /\ success' = success /\ had_carriage_return' = (Head(recv_buffer) = CR)
        /\ thread' = IF Len(recv_buffer) = 1 THEN "recv" ELSE "bytes"
    BY <1>2 DEF EndOfTurn
  <2>2. cursor < LINE_BUFFER_SIZE
    BY <1>2, LineReaderAssumption
  <2>3. thread' \in {"recv", "bytes"} /\ (thread' = "recv" => Len(recv_buffer) = 1)
    BY <2>1
  <2> QED
    BY <2>1, <2>2, <2>3
<1> QED
  BY <1>1, <1>2

\* The LF behind a CR is dropped, and belongs to no line.
LEMMA SkipLineFeedReads ==
    ASSUME IInv, Reading, SkipLineFeed
    PROVE  Reading' /\ UNCHANGED <<sent, delivered, status>>
<1>1. /\ NextByte /\ EndOfTurn /\ had_carriage_return
      /\ UNCHANGED <<line_buffer, line_buffer_write_cursor, delivered>>
  BY DEF SkipLineFeed
<1>2. /\ TypeOK /\ Collected /\ Skipping /\ success /\ thread = "bytes"
      /\ recv_buffer # << >> /\ line_buffer_write_cursor \in Nat
      /\ line_buffer_write_cursor < LINE_BUFFER_SIZE
      /\ \E ends \in [Nat -> Int] : Positioned(ends)
      /\ UNCHANGED <<terminator, sent>>
      /\ Head(recv_buffer) = Head(Ahead)
      /\ Len(recv_buffer) = 1 => recv_buffer' = << >>
  BY <1>1, BeforeByte
<1>3. Head(recv_buffer) = LF /\ line_buffer_write_cursor = 0
  BY <1>1, <1>2 DEF Skipping
<1>4. /\ thread' \in {"recv", "bytes"} /\ success' /\ ~had_carriage_return'
      /\ thread' = "recv" => Len(recv_buffer) = 1
  BY <1>1, <1>2, <1>3, TurnGoesOn, LineReaderAssumption
<1>5. PICK ends \in [Nat -> Int] : Positioned(ends)
  BY <1>2
<1>6. PICK moved \in [Nat -> Int] :
          /\ Shifted(ends, moved)
          /\ Framed(sent, Len(delivered), Ahead', terminator, moved)
          /\ EndsFound(sent, Len(delivered), Ahead', terminator, moved)
  BY <1>1, <1>2, <1>5, AfterByte
<1>7. moved[Len(delivered)] = 0 - line_buffer_write_cursor
  <2>1. ends[Len(delivered)] = 1
    BY <1>1, <1>5 DEF Positioned
  <2>2. Len(delivered) \in Nat
    BY <1>2 DEF TypeOK
  <2> DEFINE d == Len(delivered)
  <2> HIDE DEF d
  <2>3. moved[d] = ends[d] - 1
    BY <1>6, <2>2 DEF d, Shifted
  <2> QED
    BY <1>3, <2>1, <2>3 DEF d
<1>8. Positioned(moved)'
  BY <1>1, <1>2, <1>4, <1>6, <1>7 DEF Positioned
<1>9. Collected' /\ Skipping'
  BY <1>1, <1>2, <1>4 DEF Collected, Skipping
<1>10. Reading'
  BY <1>2, <1>4, <1>8, <1>9 DEF Reading
<1>11. UNCHANGED status
  BY <1>2, <1>4 DEF status
<1> QED
  BY <1>1, <1>2, <1>10, <1>11

\* A byte that ends no line is the next character of the awaited one.
LEMMA CollectReads ==
    ASSUME IInv, Reading, Collect
    PROVE  Reading' /\ (UNCHANGED <<sent, delivered, status>> \/ Stream!Refuse)
<1> DEFINE cursor == line_buffer_write_cursor
           d == Len(delivered)
<1>1. /\ NextByte /\ EndOfTurn /\ Head(recv_buffer) \notin {CR, LF}
      /\ line_buffer' = [line_buffer EXCEPT ![line_buffer_write_cursor] = Head(recv_buffer)]
      /\ line_buffer_write_cursor' = cursor + 1 /\ delivered' = delivered
  BY DEF Collect, IsTerminator
<1>2. /\ TypeOK /\ Collected /\ Skipping /\ success /\ thread = "bytes"
      /\ recv_buffer # << >> /\ cursor \in Cells /\ cursor \in Nat
      /\ cursor < LINE_BUFFER_SIZE
      /\ \E ends \in [Nat -> Int] : Positioned(ends)
      /\ UNCHANGED <<terminator, sent>>
      /\ Head(recv_buffer) = Head(Ahead) /\ Ahead # << >>
      /\ Len(recv_buffer) = 1 => recv_buffer' = << >>
  BY <1>1, BeforeByte
<1>3. ~had_carriage_return
  BY <1>1, <1>2 DEF Skipping
<1>4. PICK ends \in [Nat -> Int] : Positioned(ends)
  BY <1>2
<1>5. /\ d < Len(sent) /\ Awaited \in Lines
      /\ cursor < Len(Awaited) => Head(Ahead) = Awaited[cursor + 1]
      /\ cursor = Len(Awaited) => Head(Ahead) = terminator[1]
  BY <1>2, <1>3, <1>4, NextByteAwaited
<1>6. /\ cursor <= Len(Awaited)
      /\ \A j \in 1 .. cursor : line_buffer[j - 1] = Awaited[j]
  BY <1>2, <1>5 DEF Collected, Awaited
<1>7. cursor < Len(Awaited) /\ Head(recv_buffer) = Awaited[cursor + 1]
  <2>1. terminator[1] \in {CR, LF}
    BY <1>2, TerminatorBytes DEF TypeOK
  <2>2. cursor # Len(Awaited)
    BY <1>1, <1>2, <1>5, <2>1
  <2>3. Len(Awaited) \in Nat
    BY <1>5, LineChars
  <2>4. cursor < Len(Awaited)
    BY <1>2, <1>6, <2>2, <2>3
  <2> QED
    BY <1>2, <1>5, <2>4
<1>8. PICK moved \in [Nat -> Int] :
          /\ Shifted(ends, moved)
          /\ Framed(sent, d, Ahead', terminator, moved)
          /\ EndsFound(sent, d, Ahead', terminator, moved)
  BY <1>1, <1>2, <1>4, AfterByte
<1>9. moved[d] = 0 - (cursor + 1)
  <2>1. ends[d] = 0 - cursor
    BY <1>3, <1>4 DEF Positioned
  <2>2. d \in Nat
    BY <1>2 DEF TypeOK
  <2>3. moved[d] = ends[d] - 1
    BY <1>8, <2>2 DEF Shifted
  <2> HIDE DEF d, cursor
  <2> QED
    BY <1>2, <2>1, <2>3
<1>10. \A j \in 1 .. cursor + 1 : line_buffer'[j - 1] = Awaited[j]
  <2>1. line_buffer \in [Cells -> Chars \cup {NUL}] /\ cursor \in Cells
    BY <1>2 DEF TypeOK
  <2>2. \A c \in Cells : line_buffer'[c] = IF c = cursor THEN Head(recv_buffer) ELSE line_buffer[c]
    BY <1>1, <2>1
  <2> HIDE DEF cursor
  <2>3. ASSUME NEW j \in 1 .. cursor + 1
        PROVE  line_buffer'[j - 1] = Awaited[j]
    <3>1. CASE j = cursor + 1
      <4>1. j - 1 = cursor
        BY <1>2, <3>1
      <4> QED
        BY <1>7, <2>1, <2>2, <3>1, <4>1
    <3>2. CASE j # cursor + 1
      <4>1. j \in 1 .. cursor /\ j - 1 \in Cells /\ j - 1 # cursor
        BY <1>2, <3>2, LineReaderAssumption DEF Cells
      <4> QED
        BY <1>6, <2>2, <4>1
    <3> QED
      BY <3>1, <3>2
  <2> QED
    BY <2>3
<1>11. Collected'
  <2>1. Len(delivered') = d /\ sent' = sent /\ Awaited' = Awaited
    BY <1>1, <1>2 DEF Awaited
  <2>2. d <= Len(sent) /\ d # Len(sent) /\ d \in Nat /\ Len(sent) \in Nat
    <3>1. d \in Nat /\ Len(sent) \in Nat
      <4>1. delivered \in Seq(BoostLines) /\ sent \in Seq(Lines)
        BY <1>2 DEF TypeOK
      <4> QED
        BY <4>1
    <3>2. d < Len(sent)
      BY <1>5
    <3> HIDE DEF d
    <3> QED
      BY <3>1, <3>2
  <2>3. cursor + 1 <= Len(Awaited)
    BY <1>2, <1>5, <1>7, LineChars
  <2> HIDE DEF cursor
  <2> QED
    BY <1>1, <1>10, <2>1, <2>2, <2>3 DEF Collected, Awaited
<1>12. CASE thread' \in {"recv", "bytes"}
  <2>1. /\ success' /\ ~had_carriage_return'
        /\ thread' = "recv" => Len(recv_buffer) = 1
    <3>1. line_buffer_write_cursor' \in Nat
      BY <1>1, <1>2
    <3> QED
      BY <1>1, <1>2, <1>12, <3>1, TurnGoesOn
  <2>2. Positioned(moved)'
    BY <1>1, <1>2, <1>8, <1>9, <2>1 DEF Positioned
  <2>3. Skipping'
    BY <2>1 DEF Skipping
  <2>4. Reading'
    BY <1>2, <1>11, <2>1, <2>2, <2>3 DEF Reading
  <2>5. UNCHANGED status
    BY <1>2, <1>12, <2>1 DEF status
  <2> QED
    BY <1>1, <1>2, <2>4, <2>5
<1>13. CASE thread' \notin {"recv", "bytes"}
  <2>1. ~success' /\ cursor + 1 >= LINE_BUFFER_SIZE
    BY <1>1, <1>2, <1>13, TurnGoesOn
  <2>2. Reading'
    BY <1>13 DEF Reading
  <2>3. ~(Len(Awaited) < LINE_BUFFER_SIZE)
    <3>1. Len(Awaited) \in Nat
      BY <1>5, LineChars
    <3> HIDE DEF cursor
    <3> QED
      BY <1>2, <1>7, <2>1, <3>1, LineReaderAssumption
  <2>4. status = "open" /\ status' = "refused"
    BY <1>2, <2>1 DEF status
  <2>5. Stream!Refuse
    BY <1>1, <1>2, <1>5, <2>3, <2>4
       DEF Stream!Refuse, Stream!Acceptable, Stream!NextLine, Awaited
  <2> QED
    BY <2>2, <2>5
<1> QED
  BY <1>12, <1>13

\* The line is completed by its terminator, and all of it was collected.
LEMMA CompletedIsAwaited ==
    ASSUME IInv, Reading, LineComplete, NEW ends \in [Nat -> Int], Positioned(ends)
    PROVE  /\ Len(delivered) < Len(sent) /\ Awaited \in Lines
           /\ line_buffer_write_cursor = Len(Awaited)
           /\ Head(Ahead) = terminator[1] /\ ends[Len(delivered) + 1] = Len(terminator)
           /\ String(Terminated) = Awaited
<1> DEFINE cursor == line_buffer_write_cursor
           d == Len(delivered)
           over == Len(terminator)
<1>1. NextByte /\ Head(recv_buffer) \in {CR, LF} /\ ~had_carriage_return
  BY DEF LineComplete, IsTerminator
<1>2. /\ TypeOK /\ Collected /\ success /\ thread = "bytes"
      /\ recv_buffer # << >> /\ cursor \in Cells /\ cursor \in Nat
      /\ cursor < LINE_BUFFER_SIZE
      /\ UNCHANGED <<terminator, sent>>
      /\ Head(recv_buffer) = Head(Ahead) /\ Ahead # << >>
      /\ Len(recv_buffer) = 1 => recv_buffer' = << >>
  BY <1>1, BeforeByte
<1>3. /\ d < Len(sent) /\ Awaited \in Lines
      /\ cursor < Len(Awaited) => Head(Ahead) = Awaited[cursor + 1]
      /\ cursor = Len(Awaited) => Head(Ahead) = terminator[1] /\ ends[d + 1] = over
  BY <1>1, <1>2, NextByteAwaited
<1>4. cursor = Len(Awaited)
  <2>1. /\ Len(Awaited) \in Nat
        /\ \A j \in 1 .. Len(Awaited) : Awaited[j] \notin {CR, LF}
    BY <1>3, LineChars
  <2>2. cursor <= Len(Awaited)
    BY <1>2, <1>3 DEF Collected, Awaited
  <2> DEFINE width == Len(Awaited)
  <2>3. width \in Nat /\ cursor <= width
    BY <2>1, <2>2
  <2>4. ~(cursor < width)
    <3>1. SUFFICES ASSUME cursor < width PROVE FALSE
      OBVIOUS
    <3>2. cursor + 1 \in 1 .. width
      BY <1>2, <2>3, <3>1
    <3> QED
      BY <1>1, <1>2, <1>3, <2>1, <3>1, <3>2
  <2> HIDE DEF width, cursor
  <2>5. cursor = width
    BY <1>2, <2>3, <2>4
  <2> QED
    BY <2>5 DEF width
<1>5. String(Terminated) = Awaited
  BY <1>2, <1>3, <1>4, StringIsAwaited
<1> QED
  BY <1>3, <1>4, <1>5

\* A byte that ends a line ends the awaited one, all of which was collected.
LEMMA LineCompleteReads ==
    ASSUME IInv, Reading, LineComplete
    PROVE  Reading' /\ (Stream!Deliver \/ Stream!Refuse)
<1> DEFINE cursor == line_buffer_write_cursor
           d == Len(delivered)
           over == Len(terminator)
<1>1. NextByte /\ Head(recv_buffer) \in {CR, LF} /\ ~had_carriage_return
  BY DEF LineComplete, IsTerminator
<1>2. /\ TypeOK /\ Collected /\ success /\ thread = "bytes"
      /\ recv_buffer # << >> /\ cursor \in Cells /\ cursor \in Nat
      /\ cursor < LINE_BUFFER_SIZE
      /\ \E ends \in [Nat -> Int] : Positioned(ends)
      /\ UNCHANGED <<terminator, sent>>
      /\ Head(recv_buffer) = Head(Ahead) /\ Ahead # << >>
      /\ Len(recv_buffer) = 1 => recv_buffer' = << >>
  BY <1>1, BeforeByte
<1>3. PICK ends \in [Nat -> Int] : Positioned(ends)
  BY <1>2
<1>4. /\ d < Len(sent) /\ Awaited \in Lines /\ cursor = Len(Awaited)
      /\ Head(Ahead) = terminator[1] /\ ends[d + 1] = over
      /\ String(Terminated) = Awaited
  BY <1>3, CompletedIsAwaited
<1>5. /\ d \in Nat /\ Len(sent) \in Nat /\ d < Len(sent) /\ d + 1 <= Len(sent) /\ d <= Len(sent)
  <2>1. delivered \in Seq(BoostLines) /\ sent \in Seq(Lines)
    BY <1>2 DEF TypeOK
  <2>2. d \in Nat /\ Len(sent) \in Nat
    BY <2>1
  <2> DEFINE n == Len(sent)
  <2>3. d \in Nat /\ n \in Nat /\ d < n
    BY <1>4, <2>2
  <2> HIDE DEF d, n
  <2>4. d < n /\ d + 1 <= n /\ d <= n
    BY <2>3
  <2> QED
    BY <2>2, <2>4 DEF n
<1>6. status = "open"
  BY <1>2 DEF status
<1>7. CASE Awaited \in BoostLines
  <2>1. /\ delivered' = Append(delivered, Awaited) /\ line_buffer_write_cursor' = 0 /\ EndOfTurn
    BY <1>4, <1>7 DEF LineComplete
  <2>2. /\ thread' \in {"recv", "bytes"} /\ success'
        /\ had_carriage_return' = (Head(recv_buffer) = CR)
        /\ thread' = "recv" => Len(recv_buffer) = 1
    <3>1. line_buffer_write_cursor' \in Nat /\ line_buffer_write_cursor' < LINE_BUFFER_SIZE
      BY <2>1, LineReaderAssumption
    <3> QED
      BY <1>2, <2>1, <3>1, TurnGoesOn
  <2>3. Len(delivered') = d + 1
    BY <1>2, <2>1 DEF TypeOK
  <2>4. PICK moved \in [Nat -> Int] :
            /\ Shifted(ends, moved)
            /\ Framed(sent, d, Ahead', terminator, moved)
            /\ EndsFound(sent, d, Ahead', terminator, moved)
    BY <1>1, <1>2, <1>3, AfterByte
  <2>5. Ahead' = Tail(Ahead)
    BY <1>1, <1>2, <1>3, AfterByte
  <2>6. moved[d + 1] = over - 1
    <3> HIDE DEF d, over
    <3>1. d + 1 \in Nat
      BY <1>5
    <3>2. moved[d + 1] = ends[d + 1] - 1
      BY <2>4, <3>1 DEF Shifted
    <3> QED
      BY <1>4, <3>2
  <2>7. over \in 1 .. 2 /\ terminator \in Terminators
    BY <1>2, TerminatorBytes DEF TypeOK
  <2>8. /\ Framed(sent, d + 1, Ahead', terminator, moved)
        /\ EndsFound(sent, d + 1, Ahead', terminator, moved)
    <3>1. Sized(sent, d, Ahead', terminator)
      <4>1. Sized(sent, d, Ahead, terminator)
        BY <1>2, <1>5, SizedStream
      <4>2. Ahead \in Seq(Bytes)
        BY <1>2, AheadTyped
      <4>3. Len(Ahead') \in Nat
        BY <1>2, <2>5, <4>2
      <4> QED
        BY <4>1, <4>3 DEF Sized
    <3>2. moved[d + 1] < over
      <4> HIDE DEF d, over
      <4> QED
        BY <2>6, <2>7
    <3> QED
      BY <1>5, <2>4, <3>1, <3>2, FramedDelivered
  <2>9. /\ Head(recv_buffer) = CR => over = 2 /\ terminator = <<CR, LF>>
        /\ Head(recv_buffer) # CR => over = 1
    <3>1. Head(recv_buffer) = terminator[1]
      BY <1>2, <1>4
    <3> QED
      BY <1>1, <2>7, <3>1, TerminatorBytes
  <2>10. moved[d + 1] = IF had_carriage_return' THEN 1 ELSE 0 - line_buffer_write_cursor'
    <3>1. moved[d + 1] = IF Head(recv_buffer) = CR THEN 1 ELSE 0
      BY <2>6, <2>9
    <3>2. line_buffer_write_cursor' = 0 /\ 0 - 0 = 0
      BY <2>1
    <3> QED
      BY <2>2, <3>1, <3>2
  <2>11. Positioned(moved)'
    BY <1>2, <2>3, <2>8, <2>10 DEF Positioned
  <2>12. Skipping'
    <3>1. SUFFICES ASSUME had_carriage_return'
                   PROVE  /\ terminator = <<CR, LF>>
                          /\ Ahead' # << >> /\ Head(Ahead') = LF
      BY <1>2, <2>1 DEF Skipping
    <3>2. over = 2 /\ terminator = <<CR, LF>> /\ moved[d + 1] = 1
      <4>1. over = 2 /\ terminator = <<CR, LF>>
        BY <2>2, <2>9, <3>1
      <4> HIDE DEF d, over
      <4> QED
        BY <2>6, <4>1
    <3>3. terminator[2] = LF
      BY <3>2
    <3>4. d + 1 \in d + 1 .. Len(sent)
      <4> DEFINE n == Len(sent)
      <4>1. d \in Nat /\ n \in Nat /\ d < n
        BY <1>5
      <4> HIDE DEF d, n
      <4>2. d + 1 \in d + 1 .. n
        BY <4>1
      <4> QED
        BY <4>2 DEF n
    <3>5. \A j \in 1 .. over :
              moved[d + 1] - over + j >= 1 => Ahead'[moved[d + 1] - over + j] = terminator[j]
      BY <2>4, <3>4 DEF Framed
    <3>6. Ahead'[1] = LF
      BY <3>2, <3>3, <3>5
    <3>7. Ahead \in Seq(Bytes) /\ Ahead' \in Seq(Bytes)
      BY <1>2, <2>5, AheadTyped
    <3>8. Ahead' # << >>
      <4>1. Sized(sent, d + 1, Ahead', terminator)
        <5>1. Sized(sent, d, Ahead, terminator)
          BY <1>2, <1>5, SizedStream
        <5>2. Len(Ahead') \in Nat
          BY <3>7
        <5>3. d + 1 \in Nat /\ d + 1 <= Len(sent) /\ \A k \in Nat : d + 1 < k => d < k
          <6>1. d \in Nat /\ d + 1 <= Len(sent)
            BY <1>5
          <6> HIDE DEF d
          <6> QED
            BY <6>1
        <5> QED
          BY <5>1, <5>2, <5>3 DEF Sized
      <4>2. moved[d + 1] <= Len(Ahead')
        <5>1. d + 1 \in Nat /\ d + 1 <= Len(sent) /\ d + 1 <= d + 1
          <6>1. d \in Nat /\ d + 1 <= Len(sent)
            BY <1>5
          <6> HIDE DEF d
          <6> QED
            BY <6>1
        <5> HIDE DEF d, over
        <5>2. \A k \in Nat : d + 1 <= k /\ k <= Len(sent) => moved[k] <= Len(Ahead')
          BY <2>8, <4>1, FramedInside
        <5> QED
          BY <5>1, <5>2
      <4>3. Len(Ahead') # 0
        BY <3>2, <3>7, <4>2
      <4> QED
        BY <4>3
    <3> QED
      BY <3>2, <3>6, <3>7, <3>8
  <2>13. Collected'
    <3>1. Len(delivered') = d + 1 /\ sent' = sent /\ line_buffer_write_cursor' = 0
      BY <1>2, <2>1, <2>3
    <3>2. d + 1 < Len(sent) => 0 <= Len(sent[d + 1 + 1])
      <4>1. ASSUME d + 1 < Len(sent)
            PROVE  Len(sent[d + 1 + 1]) \in Nat
        <5>1. sent \in Seq(Lines)
          BY <1>2 DEF TypeOK
        <5>2. d + 1 + 1 \in 1 .. Len(sent)
          <6> DEFINE n == Len(sent)
          <6>1. d \in Nat /\ n \in Nat /\ d + 1 < n
            BY <1>5, <4>1
          <6> HIDE DEF d, n
          <6>2. d + 1 + 1 \in 1 .. n
            BY <6>1
          <6> QED
            BY <6>2 DEF n
        <5>3. sent[d + 1 + 1] \in Lines
          BY <5>1, <5>2, ElementOfSeq
        <5> QED
          BY <5>3, LineChars
      <4> QED
        BY <4>1
    <3>3. 1 .. 0 = {}
      OBVIOUS
    <3> QED
      BY <1>5, <3>1, <3>2, <3>3 DEF Collected
  <2>14. Reading'
    BY <1>2, <2>2, <2>11, <2>12, <2>13 DEF Reading
  <2>15. Stream!Deliver
    <3>1. status' = "open"
      BY <2>2 DEF status
    <3> QED
      BY <1>2, <1>4, <1>5, <1>6, <1>7, <2>1, <3>1
         DEF Stream!Deliver, Stream!Acceptable, Stream!NextLine, Awaited
  <2> QED
    BY <2>14, <2>15
<1>8. CASE Awaited \notin BoostLines
  <2>1. ~success' /\ thread' = "close" /\ delivered' = delivered
    BY <1>4, <1>8 DEF LineComplete
  <2>2. Reading'
    BY <2>1 DEF Reading
  <2>3. status' = "refused"
    BY <2>1 DEF status
  <2>4. Stream!Refuse
    BY <1>2, <1>5, <1>6, <1>8, <2>1, <2>3
       DEF Stream!Refuse, Stream!Acceptable, Stream!NextLine, Awaited
  <2> QED
    BY <2>2, <2>4
<1> QED
  BY <1>7, <1>8

\* Before the first connection there is no stream to have a place in.
LEMMA ReadingInit == Init => Reading /\ Stream!Init
BY DEF Init, Reading, Stream!Init, status

\* Every step keeps the loop's place and is one of the stream's, or none.
LEMMA ReadingStep ==
    ASSUME IInv, Reading, [Next]_vars
    PROVE  Reading' /\ [Stream!Next]_<<sent, delivered, status>>
<1> USE DEF Stream!Next
<1>1. CASE Connected
  BY <1>1, ConnectedReads
<1>2. CASE ShutDown
  <2>1. /\ UNCHANGED <<thread, recv_buffer, line_buffer, line_buffer_write_cursor, success,
                       had_carriage_return, pipe, delivered, terminator, sent>>
    BY <1>2 DEF ShutDown, lineVars, peerVars
  <2>2. Ahead' = Ahead
    BY <2>1 DEF Ahead
  <2> QED
    BY <2>1, <2>2 DEF Reading, Collected, Skipping, Positioned, status
<1>3. CASE Send
  BY <1>3, SendReads
<1>4. CASE Recv
  BY <1>4, RecvReads
<1>5. CASE RecvNothing
  <2>1. /\ thread = "recv" /\ thread' = "close" /\ UNCHANGED <<success, delivered, sent>>
    BY <1>5 DEF RecvNothing, lineVars, peerVars
  <2>2. success
    BY <2>1 DEF Reading
  <2>3. Reading'
    BY <2>1 DEF Reading
  <2>4. Stream!Lose
    BY <2>1, <2>2 DEF Stream!Lose, status
  <2> QED
    BY <2>3, <2>4
<1>6. CASE LineComplete
  BY <1>6, LineCompleteReads
<1>7. CASE SkipLineFeed
  BY <1>7, SkipLineFeedReads
<1>8. CASE Collect
  BY <1>8, CollectReads
<1>9. CASE Close
  <2>1. /\ thread = "close" /\ thread' \in {"ended", "connect"}
        /\ UNCHANGED <<success, delivered, sent>>
    BY <1>9 DEF Close, lineVars, peerVars
  <2> QED
    BY <2>1 DEF Reading, status
<1>10. CASE UNCHANGED vars
  <2>1. /\ UNCHANGED <<thread, recv_buffer, line_buffer, line_buffer_write_cursor, success,
                       had_carriage_return, pipe, delivered, terminator, sent>>
    BY <1>10 DEF vars, lineVars, peerVars
  <2>2. Ahead' = Ahead
    BY <2>1 DEF Ahead
  <2> QED
    BY <2>1, <2>2 DEF Reading, Collected, Skipping, Positioned, status
<1> QED
  BY <1>1, <1>2, <1>3, <1>4, <1>5, <1>6, <1>7, <1>8, <1>9, <1>10 DEF Next

\* psx.c, 167-207: however the stream is cut into chunks and whichever terminator PSX
\* uses, the lines handed on are the lines sent, in order, and only a bad or too long line
\* is refused.
THEOREM ReaderImplementsStream == Spec => ImplementsLineStream
<1>1. Init => IInv /\ Reading /\ Stream!Init
  BY IInvInit, ReadingInit
<1>2. IInv /\ Reading /\ [Next]_vars =>
          IInv' /\ Reading' /\ [Stream!Next]_<<sent, delivered, status>>
  BY IInvStep, ReadingStep
<1> QED
  BY <1>1, <1>2, PTL DEF Spec, ImplementsLineStream, Stream!Spec

\* Each line that was not handed on has the beginning of its terminator ahead, and nothing
\* else looks like one.
LEMMA TerminatorPerLine ==
    ASSUME NEW lines, NEW d, NEW bytes, NEW eol, NEW ends \in [Nat -> Int],
           Sized(lines, d, bytes, eol), Len(eol) >= 1, eol[1] = Head(eol),
           d < Len(lines) => ends[d + 1] >= Len(eol),
           Framed(lines, d, bytes, eol, ends), EndsFound(lines, d, bytes, eol, ends)
    PROVE  Cardinality({i \in 1 .. Len(bytes) : bytes[i] = Head(eol)}) = Len(lines) - d
<1> DEFINE n == Len(lines)
           over == Len(eol)
           all == Len(bytes)
           found == {i \in 1 .. all : bytes[i] = Head(eol)}
           begins == [k \in d + 1 .. n |-> ends[k] - over + 1]
<1>1. /\ n \in Nat /\ all \in Nat /\ d \in Nat /\ over \in Nat /\ d <= n /\ over >= 1
      /\ \A k \in Nat : ends[k] \in Int
  BY DEF Sized
<1>2. d < n => ends[d + 1] >= over
  OBVIOUS
<1>3. \A k \in Nat : d <= k /\ k <= n => ends[k] <= all
  BY FramedInside
<1>4. \A k, m \in d .. n : k < m => ends[k] < ends[m]
  BY DEF EndsFound
<1>5. \A k \in d + 1 .. n :
          ends[k] - over + 1 >= 1 => bytes[ends[k] - over + 1] = eol[1]
  <2>1. 1 \in 1 .. over
    BY <1>1
  <2> QED
    BY <2>1 DEF Framed
<1>6. \A i \in 1 .. all : bytes[i] = Head(eol) => \E k \in d + 1 .. n : i = ends[k] - over + 1
  BY DEF EndsFound
<1> HIDE DEF n, over, all
<1>7. ASSUME NEW k \in d + 1 .. n
      PROVE  k \in Nat /\ k - 1 \in Nat /\ d <= k - 1 /\ d < k /\ d <= k /\ k <= n
  BY <1>1
<1>8. ASSUME NEW k \in d + 1 .. n
      PROVE  ends[k] - over + 1 \in found
  <2>1. k \in Nat /\ k - 1 \in Nat /\ d <= k - 1 /\ d < k /\ d <= k /\ k <= n
    BY <1>7
  <2>2. d + 1 \in Nat /\ d + 1 \in d .. n /\ k \in d .. n /\ d < n
    BY <1>1, <2>1
  <2> DEFINE end == ends[k]
             first == ends[d + 1]
  <2>3. end \in Int /\ first \in Int /\ end <= all /\ first >= over
    BY <1>1, <1>2, <1>3, <2>1, <2>2
  <2>4. end >= first
    <3>1. d + 1 < k => first < end
      BY <1>4, <2>2
    <3>2. k = d + 1 => first = end
      OBVIOUS
    <3> HIDE DEF end, first
    <3> QED
      BY <1>1, <2>1, <2>3, <3>1, <3>2
  <2> HIDE DEF end, first
  <2>6. end - over + 1 \in 1 .. all /\ end - over + 1 >= 1
    BY <1>1, <2>3, <2>4
  <2>5. bytes[end - over + 1] = eol[1]
    BY <1>5, <2>6 DEF end
  <2> QED
    BY <2>5, <2>6 DEF end
<1>9. ASSUME NEW k \in d + 1 .. n, NEW m \in d + 1 .. n, ends[k] - over + 1 = ends[m] - over + 1
      PROVE  k = m
  <2>1. k \in d .. n /\ m \in d .. n /\ k \in Nat /\ m \in Nat
    BY <1>1
  <2>2. ends[k] \in Int /\ ends[m] \in Int
    BY <1>1, <2>1
  <2>3. ends[k] = ends[m]
    BY <1>1, <1>9, <2>2
  <2>4. ~(ends[k] < ends[m]) /\ ~(ends[m] < ends[k])
    BY <2>2, <2>3
  <2> QED
    BY <1>4, <2>1, <2>4
<1>10. ASSUME NEW i \in found
       PROVE  \E k \in d + 1 .. n : ends[k] - over + 1 = i
  BY <1>6
<1> HIDE DEF found
<1>11. begins \in [d + 1 .. n -> found]
  BY <1>8
<1>12. begins \in Injection(d + 1 .. n, found)
  <2>1. \A k \in d + 1 .. n : begins[k] = ends[k] - over + 1
    OBVIOUS
  <2> HIDE DEF begins
  <2> QED
    <3>1. \A k, m \in d + 1 .. n : begins[k] = begins[m] => k = m
      BY <1>9, <2>1
    <3> QED
      BY <1>11, <3>1 DEF Injection, IsInjective
<1>13. begins \in Surjection(d + 1 .. n, found)
  BY <1>10, <1>11 DEF Surjection
<1>14. ExistsBijection(d + 1 .. n, found)
  <2> HIDE DEF begins
  <2> QED
    BY <1>12, <1>13 DEF ExistsBijection, Bijection
<1>15. IsFiniteSet(d + 1 .. n) /\ Cardinality(d + 1 .. n) = n - d
  <2>1. d + 1 \in Int /\ n \in Int
    BY <1>1
  <2>2. /\ IsFiniteSet(d + 1 .. n)
        /\ Cardinality(d + 1 .. n) = IF d + 1 > n THEN 0 ELSE n - (d + 1) + 1
    BY <2>1, FS_Interval
  <2>3. (IF d + 1 > n THEN 0 ELSE n - (d + 1) + 1) = n - d
    BY <1>1
  <2> QED
    BY <2>2, <2>3
<1>16. Cardinality(found) = n - d
  BY <1>14, <1>15, FS_Bijection
<1> QED
  BY <1>16 DEF n, found, all

\* With an empty receive buffer, lines that were not handed on have all of their
\* terminator on its way.
LEMMA ReadingHoldsNothingBack == TypeOK /\ Reading => NoLineHeldBack
<1> SUFFICES ASSUME TypeOK, Reading, thread = "recv"
             PROVE  Len(delivered) = Len(sent) - Cardinality(Outstanding)
  BY DEF NoLineHeldBack
<1>1. recv_buffer = << >> /\ Collected /\ Skipping
  BY DEF Reading
<1>2. PICK ends \in [Nat -> Int] : Positioned(ends)
  BY DEF Reading
<1>3. pipe \in Seq(Bytes) /\ terminator \in Terminators
  BY DEF TypeOK
<1>4. Ahead = pipe
  BY <1>1, <1>3 DEF Ahead
<1>5. Outstanding = {i \in 1 .. Len(Ahead) : Ahead[i] = Head(terminator)}
  BY <1>3, <1>4 DEF Outstanding
<1> DEFINE d == Len(delivered)
           n == Len(sent)
           over == Len(terminator)
<1>6. d \in Nat /\ n \in Nat /\ d <= n /\ over \in Nat /\ over >= 1
  <2>1. delivered \in Seq(BoostLines) /\ sent \in Seq(Lines)
    BY DEF TypeOK
  <2>2. d \in Nat /\ n \in Nat /\ d <= n
    BY <1>1, <2>1 DEF Collected
  <2>3. over \in 1 .. 2
    BY <1>3, TerminatorBytes
  <2> HIDE DEF d, n, over
  <2> QED
    BY <2>2, <2>3
<1>7. ASSUME d < n
      PROVE  ends[d + 1] >= over
  <2>1. ends[d + 1] = ends[d] + Len(Awaited) + over
    <3>1. d + 1 \in d + 1 .. n /\ (d + 1) - 1 = d
      <4>1. d \in Nat /\ n \in Nat /\ d < n
        BY <1>6, <1>7
      <4> HIDE DEF d, n
      <4> QED
        BY <4>1
    <3> QED
      BY <1>2, <3>1 DEF Positioned, Framed, Awaited
  <2>2. Len(Awaited) \in Nat
    <3>1. Sized(sent, d, Ahead, terminator)
      BY <1>6, SizedStream
    <3>2. d + 1 \in Nat /\ d < d + 1 /\ d + 1 <= n
      <4>1. d \in Nat /\ n \in Nat /\ d < n
        BY <1>6, <1>7
      <4> HIDE DEF d, n
      <4> QED
        BY <4>1
    <3> QED
      BY <3>1, <3>2 DEF Sized, Awaited
  <2>3. line_buffer_write_cursor \in Nat /\ line_buffer_write_cursor <= Len(Awaited)
    BY <1>1, <1>7, LineReaderAssumption DEF TypeOK, Collected, Awaited
  <2>4. ends[d] = 1 \/ ends[d] = 0 - line_buffer_write_cursor
    BY <1>2 DEF Positioned
  <2> DEFINE start == ends[d]
             width == Len(Awaited)
             end == ends[d + 1]
  <2>5. /\ end = start + width + over /\ width \in Nat
        /\ start = 1 \/ start = 0 - line_buffer_write_cursor
        /\ line_buffer_write_cursor \in Nat /\ line_buffer_write_cursor <= width
        /\ over \in Nat
    BY <1>6, <2>1, <2>2, <2>3, <2>4
  <2> HIDE DEF d, n, over, start, width, end
  <2>6. end >= over
    BY <2>5
  <2> QED
    BY <2>6 DEF end
<1>8. Cardinality(Outstanding) = n - d
  <2>1. Sized(sent, d, Ahead, terminator)
    BY <1>6, SizedStream
  <2>2. terminator[1] = Head(terminator)
    BY <1>3, TerminatorBytes
  <2>3. Framed(sent, d, Ahead, terminator, ends) /\ EndsFound(sent, d, Ahead, terminator, ends)
    BY <1>2 DEF Positioned
  <2> HIDE DEF d
  <2>4. Cardinality({i \in 1 .. Len(Ahead) : Ahead[i] = Head(terminator)}) = n - d
    BY <1>6, <1>7, <2>1, <2>2, <2>3, TerminatorPerLine
  <2> QED
    BY <1>5, <2>4
<1> DEFINE outstanding == Cardinality(Outstanding)
<1>9. outstanding = n - d
  BY <1>8
<1>10. d \in Nat /\ n \in Nat
  BY <1>6
<1> HIDE DEF d, n, outstanding
<1>11. d = n - outstanding
  BY <1>9, <1>10
<1> QED
  BY <1>11 DEF d, n, outstanding

\* psx.c, 183-202: before the thread waits for more, it has handed on every line whose
\* terminator has begun to arrive; with CR LF it does not wait for the LF.
THEOREM NoLineWaits == Spec => []NoLineHeldBack
<1>1. IInv /\ Reading => NoLineHeldBack
  BY ReadingHoldsNothingBack DEF IInv
<1> QED
  BY <1>1, IInvInit, IInvStep, ReadingInit, ReadingStep, PTL DEF Spec
-----------------------------------------------------------------------------
\* The order of the natural numbers.
Below == {ss \in Nat \X Nat : ss[1] < ss[2]}

\* A set of natural numbers has a least one, as natural numbers do not descend for ever.
LEMMA LeastOfNat ==
    ASSUME NEW S \in SUBSET Nat, S # {}
    PROVE  \E least \in S : \A n \in S : least <= n
<1>1. Below = OpToRel(<, Nat)
  BY Zenon DEF Below, OpToRel
<1>2. IsWellFoundedOn(Below, Nat)
  BY <1>1, NatLessThanWellFounded
<1>3. PICK least \in S : \A n \in S : <<n, least>> \notin Below
  BY <1>2, WFMin
<1>4. ASSUME NEW n \in S
      PROVE  least <= n
  <2>1. n \in Nat /\ least \in Nat
    OBVIOUS
  <2>2. <<n, least>> \in Nat \X Nat /\ <<n, least>>[1] = n /\ <<n, least>>[2] = least
    BY <2>1
  <2>3. ~(n < least)
    BY <1>3, <2>2 DEF Below
  <2> QED
    BY <2>1, <2>3
<1> QED
  BY <1>4

\* What holds for a number if it holds for all below it holds for every number.
LEMMA FromBelow ==
    ASSUME NEW Good, \A n \in Nat : (\A m \in 0 .. n - 1 : m \in Good) => n \in Good
    PROVE  Nat \subseteq Good
<1> DEFINE Bad == Nat \ Good
<1>1. SUFFICES ASSUME Bad # {}
               PROVE  FALSE
  BY Zenon
<1>2. PICK n \in Bad : \A m \in Bad : n <= m
  <2> HIDE DEF Bad
  <2>1. Bad \in SUBSET Nat
    BY DEF Bad
  <2> QED BY <1>1, <2>1, LeastOfNat
<1>3. n \in Nat /\ n \notin Good
  BY <1>2
<1>4. \A m \in 0 .. n - 1 : m \in Good
  BY <1>2, <1>3
<1> QED BY <1>3, <1>4
-----------------------------------------------------------------------------
\* Skipping blanks takes nothing from a number.
LEMMA BlankIsNoDigit ==
    Blank \notin DigitSet /\ Blank # "-"
<1>1. /\ "0" # Blank /\ "1" # Blank /\ "2" # Blank /\ "3" # Blank /\ "4" # Blank
      /\ "5" # Blank /\ "6" # Blank /\ "7" # Blank /\ "8" # Blank /\ "9" # Blank
  BY DEF Blank
<1>2. \A i \in 1 .. 10 : Digits[i] # Blank
  BY <1>1 DEF Digits
<1>3. DOMAIN Digits = 1 .. 10
  BY DEF Digits
<1>4. Blank # "-"
  BY DEF Blank
<1> QED BY <1>2, <1>3, <1>4 DEF DigitSet

\* Ten different characters, of which each has its place as its value; no sign is one.
LEMMA DigitOf ==
    /\ \A i \in 0 .. 9 : Digits[i + 1] \in DigitSet /\ DigitValue(Digits[i + 1]) = i
    /\ \A i \in 0 .. 9 : Digits[i + 1] = "0" <=> i = 0
    /\ \A ch \in DigitSet : DigitValue(ch) \in 0 .. 9 /\ Digits[DigitValue(ch) + 1] = ch
    /\ "-" \notin DigitSet /\ "+" \notin DigitSet
<1>1. DOMAIN Digits = 1 .. 10
  BY DEF Digits
<1>2. \A i, j \in 1 .. 10 : Digits[i] = Digits[j] => i = j
  <2> SUFFICES ASSUME NEW i \in 1 .. 10, NEW j \in 1 .. 10, i < j
               PROVE  Digits[i] # Digits[j]
    OBVIOUS
  <2>1. CASE i = 1
    BY <2>1 DEF Digits
  <2>2. CASE i = 2
    BY <2>2 DEF Digits
  <2>3. CASE i = 3
    BY <2>3 DEF Digits
  <2>4. CASE i = 4
    BY <2>4 DEF Digits
  <2>5. CASE i = 5
    BY <2>5 DEF Digits
  <2>6. CASE i \in 6 .. 10
    BY <2>6 DEF Digits
  <2> QED BY <2>1, <2>2, <2>3, <2>4, <2>5, <2>6
<1>3. \A i \in 1 .. 10 : Digits[i] = "0" <=> i = 1
  BY DEF Digits
<1>4. \A i \in 1 .. 10 : Digits[i] # "-" /\ Digits[i] # "+"
  <2>1. \A i \in 1 .. 10 : Digits[i] # "-"
    BY DEF Digits
  <2>2. \A i \in 1 .. 10 : Digits[i] # "+"
    BY DEF Digits
  <2> QED BY <2>1, <2>2
<1>5. \A i \in 1 .. 10 : Digits[i] \in DigitSet /\ DigitValue(Digits[i]) = i - 1
  BY <1>1, <1>2 DEF DigitSet, DigitValue
<1>6. \A ch \in DigitSet : \E i \in 1 .. 10 : ch = Digits[i]
  BY <1>1 DEF DigitSet
<1>7. ASSUME NEW i \in 0 .. 9
      PROVE  /\ Digits[i + 1] \in DigitSet /\ DigitValue(Digits[i + 1]) = i
             /\ Digits[i + 1] = "0" <=> i = 0
  <2>1. i + 1 \in 1 .. 10 /\ (i + 1) - 1 = i
    OBVIOUS
  <2> QED BY <1>3, <1>5, <2>1
<1>8. ASSUME NEW ch \in DigitSet
      PROVE  DigitValue(ch) \in 0 .. 9 /\ Digits[DigitValue(ch) + 1] = ch
  <2>1. PICK i \in 1 .. 10 : ch = Digits[i]
    BY <1>6
  <2>2. DigitValue(ch) = i - 1
    BY <1>5, <2>1
  <2> QED BY <2>1, <2>2
<1>9. "-" \notin DigitSet /\ "+" \notin DigitSet
  BY <1>4, <1>6
<1> QED
  BY <1>7, <1>8, <1>9
-----------------------------------------------------------------------------
\* How the value of a number grows with its digits.
ValueStep(v, s, k) == IF k = 0 THEN 0 ELSE 10 * v[k - 1] + DigitValue(s[k])

IsValue(v, s) == v[0] = 0 /\ \A k \in 1 .. Len(s) : v[k] = 10 * v[k - 1] + DigitValue(s[k])

\* The values of the first n digits are a function.
LEMMA ValuesExist ==
    ASSUME NEW s, NEW n \in Nat
    PROVE  \E v : v = [k \in 0 .. n |-> ValueStep(v, s, k)]
<1> DEFINE Values(v, m) == v = [k \in 0 .. m |-> ValueStep(v, s, k)]
           Good == {m \in Nat : \E v : Values(v, m)}
<1>1. ASSUME NEW m \in Nat, \A l \in 0 .. m - 1 : l \in Good
      PROVE  m \in Good
  <2>1. CASE m = 0
    <3> DEFINE v == [k \in 0 .. m |-> 0]
    <3>1. \A k \in 0 .. m : ValueStep(v, s, k) = 0
      BY <2>1 DEF ValueStep
    <3>2. Values(v, m)
      BY <3>1
    <3> QED BY <3>2
  <2>2. CASE m # 0
    <3>1. PICK u : Values(u, m - 1)
      BY <1>1, <2>2
    <3> DEFINE v == [k \in 0 .. m |-> ValueStep(u, s, k)]
    <3>2. ASSUME NEW k \in 0 .. m
          PROVE  ValueStep(v, s, k) = ValueStep(u, s, k)
      <4>1. CASE k = 0
        BY <4>1 DEF ValueStep
      <4>2. CASE k # 0
        <5>1. k - 1 \in 0 .. m /\ k - 1 \in 0 .. m - 1
          BY <4>2
        <5>2. v[k - 1] = ValueStep(u, s, k - 1)
          BY <5>1
        <5>3. u[k - 1] = ValueStep(u, s, k - 1)
          BY <3>1, <5>1
        <5> HIDE DEF v
        <5> QED BY <4>2, <5>2, <5>3 DEF ValueStep
      <4> QED BY <4>1, <4>2
    <3>3. Values(v, m)
      BY <3>2
    <3> QED BY <3>3
  <2> QED BY <2>1, <2>2
<1> HIDE DEF Good
<1>2. Nat \subseteq Good
  BY <1>1, FromBelow
<1> QED BY <1>2 DEF Good

\* The value of a number is the last one of these.
LEMMA NumberIsValue ==
    ASSUME NEW s \in Seq(DigitSet)
    PROVE  \E v \in [0 .. Len(s) -> Nat] : IsValue(v, s) /\ NumberOf(s) = v[Len(s)]
<1> DEFINE n == Len(s)
           Rule(v) == v = [k \in 0 .. n |->
                             IF k = 0 THEN 0 ELSE 10 * v[k - 1] + DigitValue(s[k])]
           value == CHOOSE v : Rule(v)
<1>1. n \in Nat
  OBVIOUS
<1>2. \E v : Rule(v)
  BY <1>1, ValuesExist DEF ValueStep
<1>3. Rule(value)
  BY <1>2
<1>4. NumberOf(s) = value[n]
  BY DEF NumberOf
<1> HIDE DEF value
<1>5. IsValue(value, s)
  BY <1>1, <1>3 DEF IsValue
<1> DEFINE Good == {k \in Nat : k <= n => value[k] \in Nat}
<1>6. ASSUME NEW k \in Nat, \A l \in 0 .. k - 1 : l \in Good
      PROVE  k \in Good
  <2>1. CASE k = 0 \/ k > n
    BY <1>1, <1>5, <2>1 DEF IsValue
  <2>2. CASE k \in 1 .. n
    <3>1. value[k - 1] \in Nat
      BY <1>6, <2>2
    <3>2. s[k] \in DigitSet
      BY <2>2
    <3>3. DigitValue(s[k]) \in Nat
      BY <3>2, DigitOf
    <3>4. value[k] = 10 * value[k - 1] + DigitValue(s[k])
      BY <1>5, <2>2 DEF IsValue
    <3> QED BY <3>1, <3>3, <3>4
  <2> QED BY <1>1, <2>1, <2>2
<1> HIDE DEF Good
<1>7. Nat \subseteq Good
  BY <1>6, FromBelow
<1>8. \A k \in 0 .. n : value[k] \in Nat
  BY <1>1, <1>7 DEF Good
<1>9. value \in [0 .. n -> Nat]
  BY <1>3, <1>8
<1> QED BY <1>4, <1>5, <1>9
-----------------------------------------------------------------------------
\* One step of printing.
DecimalStep(f, n) ==
    IF n < 10 THEN <<Digits[n + 1]>> ELSE Append(f[n \div 10], Digits[(n % 10) + 1])

Prints(f, n) == f = [k \in 0 .. n |-> DecimalStep(f, k)]

\* Dividing by ten.
LEMMA Quotient ==
    ASSUME NEW n \in Nat
    PROVE  \E q \in Nat, r \in 0 .. 9 :
               /\ n \div 10 = q /\ n % 10 = r /\ n = 10 * q + r
               /\ n >= 10 => q < n /\ q >= 1
<1> DEFINE Good == {k \in Nat : \E q \in Nat, r \in 0 .. 9 : k = 10 * q + r}
<1>1. ASSUME NEW k \in Nat, \A l \in 0 .. k - 1 : l \in Good
      PROVE  k \in Good
  <2>1. CASE k < 10
    <3>1. 0 \in Nat /\ k \in 0 .. 9 /\ k = 10 * 0 + k
      BY <2>1
    <3> QED BY <3>1
  <2>2. CASE k >= 10
    <3> HIDE DEF Good
    <3>1. k - 10 \in Good
      BY <1>1, <2>2
    <3>2. PICK q \in Nat, r \in 0 .. 9 : k - 10 = 10 * q + r
      BY <3>1 DEF Good
    <3>3. q + 1 \in Nat /\ k = 10 * (q + 1) + r
      BY <3>2
    <3> QED BY <3>3 DEF Good
  <2> QED BY <2>1, <2>2
<1> HIDE DEF Good
<1>2. Nat \subseteq Good
  BY <1>1, FromBelow
<1>3. PICK q \in Nat, r \in 0 .. 9 : n = 10 * q + r
  BY <1>2 DEF Good
<1>4. n \div 10 = q
  BY <1>3
<1>5. n % 10 = r
  BY <1>3
<1>6. n >= 10 => q < n /\ q >= 1
  BY <1>3
<1> QED BY <1>3, <1>4, <1>5, <1>6, Zenon

\* Printing every number up to n is a function.
LEMMA PrintsExist ==
    ASSUME NEW n \in Nat
    PROVE  \E f : Prints(f, n)
<1> DEFINE Good == {m \in Nat : \E f : Prints(f, m)}
<1>1. ASSUME NEW m \in Nat, \A l \in 0 .. m - 1 : l \in Good
      PROVE  m \in Good
  <2>1. CASE m = 0
    <3> DEFINE f == [k \in 0 .. m |-> <<Digits[k + 1]>>]
    <3>1. \A k \in 0 .. m : DecimalStep(f, k) = <<Digits[k + 1]>>
      BY <2>1 DEF DecimalStep
    <3>2. Prints(f, m)
      BY <3>1 DEF Prints
    <3> QED BY <3>2
  <2>2. CASE m # 0
    <3>1. PICK g : Prints(g, m - 1)
      BY <1>1, <2>2
    <3> DEFINE f == [k \in 0 .. m |-> DecimalStep(g, k)]
    <3>2. ASSUME NEW k \in 0 .. m
          PROVE  DecimalStep(f, k) = DecimalStep(g, k)
      <4>1. CASE k < 10
        BY <4>1 DEF DecimalStep
      <4>2. CASE k >= 10
        <5> DEFINE q == k \div 10
        <5>1. q \in 0 .. m /\ q \in 0 .. m - 1
          BY <4>2, Quotient
        <5> HIDE DEF q
        <5>2. f[q] = DecimalStep(g, q)
          BY <5>1
        <5>3. g[q] = DecimalStep(g, q)
          BY <3>1, <5>1 DEF Prints
        <5> HIDE DEF f
        <5> QED BY <4>2, <5>2, <5>3 DEF DecimalStep, q
      <4> QED BY <4>1, <4>2
    <3>3. Prints(f, m)
      BY <3>2 DEF Prints
    <3> QED BY <3>3
  <2> QED BY <2>1, <2>2
<1> HIDE DEF Good
<1>2. Nat \subseteq Good
  BY <1>1, FromBelow
<1> QED BY <1>2 DEF Good

\* However far one prints, the numbers come out alike.
LEMMA PrintsAlike ==
    ASSUME NEW m \in Nat, NEW n \in Nat, NEW f, NEW g, Prints(f, m), Prints(g, n)
    PROVE  \A k \in Nat : k <= m /\ k <= n => f[k] = g[k]
<1> DEFINE Good == {k \in Nat : k <= m /\ k <= n => f[k] = g[k]}
<1>1. ASSUME NEW k \in Nat, \A l \in 0 .. k - 1 : l \in Good
      PROVE  k \in Good
  <2> SUFFICES ASSUME k <= m, k <= n
               PROVE  f[k] = g[k]
    OBVIOUS
  <2>1. f[k] = DecimalStep(f, k) /\ g[k] = DecimalStep(g, k)
    <3>1. k \in 0 .. m /\ k \in 0 .. n
      OBVIOUS
    <3>2. f[k] = DecimalStep(f, k)
      BY <3>1, Zenon DEF Prints
    <3>3. g[k] = DecimalStep(g, k)
      BY <3>1, Zenon DEF Prints
    <3> QED BY <3>2, <3>3
  <2>2. CASE k < 10
    BY <2>1, <2>2 DEF DecimalStep
  <2>3. CASE k >= 10
    <3> DEFINE q == k \div 10
    <3>1. q \in 0 .. k - 1
      BY <2>3, Quotient
    <3> HIDE DEF q
    <3>2. f[q] = g[q]
      BY <1>1, <3>1
    <3> QED BY <2>1, <2>3, <3>2 DEF DecimalStep, q
  <2> QED BY <2>2, <2>3
<1> HIDE DEF Good
<1>2. Nat \subseteq Good
  BY <1>1, FromBelow
<1> QED BY <1>2 DEF Good

\* Printing a number is one step from printing its tenth.
LEMMA DecimalIs == \A n \in Nat : Decimal[n] = DecimalStep(Decimal, n)
<1> DEFINE upTo(n) == CHOOSE f : Prints(f, n)
           all == [n \in Nat |-> upTo(n)[n]]
           Rule(f) == f = [n \in Nat |->
                             IF n < 10 THEN <<Digits[n + 1]>>
                             ELSE Append(f[n \div 10], Digits[(n % 10) + 1])]
<1>1. \A n \in Nat : Prints(upTo(n), n)
  BY PrintsExist
<1>2. ASSUME NEW n \in Nat
      PROVE  all[n] = DecimalStep(all, n)
  <2>1. all[n] = DecimalStep(upTo(n), n)
    <3>1. n \in 0 .. n /\ Prints(upTo(n), n)
      BY <1>1
    <3> HIDE DEF upTo
    <3>2. upTo(n)[n] = DecimalStep(upTo(n), n)
      BY <3>1, Zenon DEF Prints
    <3> QED BY <3>2
  <2>2. CASE n < 10
    BY <2>1, <2>2 DEF DecimalStep
  <2>3. CASE n >= 10
    <3> DEFINE q == n \div 10
    <3>1. q \in Nat /\ q <= n /\ q <= q
      BY <2>3, Quotient
    <3> HIDE DEF q
    <3>2. all[q] = upTo(q)[q]
      BY <3>1
    <3>3. Prints(upTo(n), n) /\ Prints(upTo(q), q)
      BY <1>1, <3>1
    <3> HIDE DEF upTo
    <3>4. upTo(q)[q] = upTo(n)[q]
      BY <3>1, <3>3, PrintsAlike
    <3> HIDE DEF all
    <3> QED BY <2>1, <2>3, <3>2, <3>4 DEF DecimalStep, q
  <2> QED BY <2>2, <2>3
<1>3. Rule(all)
  <2> HIDE DEF upTo
  <2>1. all = [n \in Nat |-> DecimalStep(all, n)]
    BY <1>2
  <2> QED BY <2>1 DEF DecimalStep
<1>4. Rule(Decimal)
  <2> HIDE DEF all
  <2> QED BY <1>3 DEF Decimal
<1> QED BY <1>4 DEF DecimalStep

\* A digit is printed as itself.
LEMMA DecimalOfDigit ==
    ASSUME NEW n \in 0 .. 9
    PROVE  Decimal[n] = <<Digits[n + 1]>>
<1>1. n \in Nat /\ n < 10
  OBVIOUS
<1>2. Decimal[n] = DecimalStep(Decimal, n)
  BY <1>1, DecimalIs, Zenon
<1> QED BY <1>1, <1>2, Zenon DEF DecimalStep

\* The digits of a longer number are those of its tenth, and one more.
LEMMA DecimalOfDigits ==
    ASSUME NEW q \in Nat \ {0}, NEW r \in 0 .. 9
    PROVE  Decimal[10 * q + r] = Append(Decimal[q], Digits[r + 1])
<1> DEFINE n == 10 * q + r
<1>1. n \in Nat /\ n >= 10 /\ n \div 10 = q /\ n % 10 = r
  OBVIOUS
<1> HIDE DEF n
<1>2. Decimal[n] = Append(Decimal[q], Digits[r + 1])
  <2>1. Decimal[n] = DecimalStep(Decimal, n)
    BY <1>1, DecimalIs, Zenon
  <2>2. ~(n < 10)
    BY <1>1
  <2> QED BY <1>1, <2>1, <2>2, Zenon DEF DecimalStep
<1> QED BY <1>2 DEF n

\* A number of more than one digit goes on from its other digits.
LEMMA DecimalCases ==
    ASSUME NEW n \in Nat
    PROVE  \/ n \in 0 .. 9 /\ Decimal[n] = <<Digits[n + 1]>>
           \/ \E q \in Nat \ {0}, r \in 0 .. 9 :
                /\ n = 10 * q + r /\ q < n
                /\ Decimal[n] = Append(Decimal[q], Digits[r + 1])
<1>1. CASE n < 10
  <2>1. n \in 0 .. 9
    BY <1>1
  <2> QED BY <2>1, DecimalOfDigit
<1>2. CASE n >= 10
  <2>1. PICK q \in Nat, r \in 0 .. 9 : n = 10 * q + r /\ q < n /\ q >= 1
    BY <1>2, Quotient
  <2>2. q \in Nat \ {0}
    BY <2>1
  <2>3. Decimal[n] = Append(Decimal[q], Digits[r + 1])
    BY <2>1, <2>2, DecimalOfDigits, Zenon
  <2> QED BY <2>1, <2>2, <2>3
<1> QED BY <1>1, <1>2

\* A number is printed as digits without leading zeros.
LEMMA DecimalTyped ==
    ASSUME NEW n \in Nat
    PROVE  /\ Decimal[n] \in Seq(DigitSet) /\ Len(Decimal[n]) >= 1
           /\ Decimal[n][1] = "0" => n = 0 /\ Len(Decimal[n]) = 1
<1> DEFINE Typed(k) == /\ Decimal[k] \in Seq(DigitSet) /\ Len(Decimal[k]) >= 1
                       /\ Decimal[k][1] = "0" => k = 0 /\ Len(Decimal[k]) = 1
           Good == {k \in Nat : Typed(k)}
<1>1. ASSUME NEW k \in Nat, \A l \in 0 .. k - 1 : l \in Good
      PROVE  k \in Good
  <2>1. CASE k \in 0 .. 9 /\ Decimal[k] = <<Digits[k + 1]>>
    <3>1. Digits[k + 1] \in DigitSet /\ (Digits[k + 1] = "0" <=> k = 0)
      BY <2>1, DigitOf
    <3> DEFINE d == Digits[k + 1]
    <3> HIDE DEF d
    <3>2. d \in DigitSet /\ (d = "0" => k = 0) /\ Decimal[k] = <<d>>
      BY <2>1, <3>1 DEF d
    <3>3. Typed(k)
      BY <3>2
    <3> QED BY <3>3
  <2>2. CASE \E q \in Nat \ {0}, r \in 0 .. 9 :
               /\ k = 10 * q + r /\ q < k
               /\ Decimal[k] = Append(Decimal[q], Digits[r + 1])
    <3>1. PICK q \in Nat \ {0}, r \in 0 .. 9 :
            q < k /\ Decimal[k] = Append(Decimal[q], Digits[r + 1])
      BY <2>2
    <3>2. q \in Good
      BY <1>1, <3>1
    <3>3. Digits[r + 1] \in DigitSet
      BY DigitOf
    <3> DEFINE d == Digits[r + 1]
               s == Decimal[q]
    <3>4. /\ s \in Seq(DigitSet) /\ Len(s) >= 1 /\ s[1] # "0" /\ d \in DigitSet
          /\ Decimal[k] = Append(s, d)
      BY <3>1, <3>2, <3>3
    <3> HIDE DEF d, s
    <3>5. Typed(k)
      BY <3>4
    <3> QED BY <3>5
  <2> QED BY <2>1, <2>2, DecimalCases
<1> HIDE DEF Good
<1>2. n \in Good
  BY <1>1, FromBelow
<1> QED BY <1>2 DEF Good

\* A number printed has the value it was printed from.
LEMMA DecimalHasValue ==
    ASSUME NEW n \in Nat, NEW v, IsValue(v, Decimal[n])
    PROVE  v[Len(Decimal[n])] = n
<1> DEFINE Good == {k \in Nat : IsValue(v, Decimal[k]) => v[Len(Decimal[k])] = k}
<1>1. ASSUME NEW k \in Nat, \A l \in 0 .. k - 1 : l \in Good
      PROVE  k \in Good
  <2> SUFFICES ASSUME IsValue(v, Decimal[k])
               PROVE  v[Len(Decimal[k])] = k
    OBVIOUS
  <2>1. CASE k \in 0 .. 9 /\ Decimal[k] = <<Digits[k + 1]>>
    <3> DEFINE d == Digits[k + 1]
    <3>1. DigitValue(d) = k
      BY <2>1, DigitOf
    <3> HIDE DEF d
    <3>2. Len(Decimal[k]) = 1 /\ Decimal[k][1] = d
      BY <2>1 DEF d
    <3>3. v[0] = 0 /\ v[1] = 10 * v[1 - 1] + DigitValue(d)
      BY <3>2 DEF IsValue
    <3>4. v[1] = k
      BY <2>1, <3>1, <3>3
    <3> QED BY <3>2, <3>4
  <2>2. CASE \E q \in Nat \ {0}, r \in 0 .. 9 :
               /\ k = 10 * q + r /\ q < k
               /\ Decimal[k] = Append(Decimal[q], Digits[r + 1])
    <3>1. PICK q \in Nat \ {0}, r \in 0 .. 9 :
            /\ k = 10 * q + r /\ q < k
            /\ Decimal[k] = Append(Decimal[q], Digits[r + 1])
      BY <2>2
    <3>2. q \in Good
      BY <1>1, <3>1
    <3> DEFINE d == Digits[r + 1]
               s == Decimal[q]
               t == Decimal[k]
               n1 == Len(s)
    <3>3. DigitValue(d) = r /\ s \in Seq(DigitSet) /\ t = Append(s, d)
      BY <3>1, DigitOf, DecimalTyped
    <3> HIDE DEF d, s, t
    <3>4. /\ n1 \in Nat /\ Len(t) = n1 + 1 /\ t[n1 + 1] = d
          /\ \A i \in 1 .. n1 : t[i] = s[i]
      BY <3>3
    <3>5. IsValue(v, t)
      BY DEF t
    <3> HIDE DEF n1
    <3>6. /\ v[0] = 0 /\ v[n1 + 1] = 10 * v[n1] + DigitValue(d)
          /\ \A i \in 1 .. n1 : v[i] = 10 * v[i - 1] + DigitValue(s[i])
      <4>1. (n1 + 1) - 1 = n1 /\ n1 + 1 \in 1 .. n1 + 1 /\ \A i \in 1 .. n1 : i \in 1 .. n1 + 1
        BY <3>4
      <4>2. v[0] = 0 /\ \A i \in 1 .. n1 + 1 : v[i] = 10 * v[i - 1] + DigitValue(t[i])
        BY <3>4, <3>5 DEF IsValue
      <4> QED BY <3>4, <4>1, <4>2
    <3>7. IsValue(v, s)
      BY <3>6 DEF IsValue, n1
    <3>8. v[n1] = q
      BY <3>2, <3>7 DEF s, n1
    <3>9. v[n1 + 1] = k
      BY <3>1, <3>3, <3>6, <3>8
    <3> QED BY <3>4, <3>9 DEF t
  <2> QED BY <2>1, <2>2, DecimalCases
<1> HIDE DEF Good
<1>2. n \in Good
  BY <1>1, FromBelow
<1> QED BY <1>2 DEF Good

\* Digits without a leading zero are what is printed for their value.
LEMMA ValueHasDecimal ==
    ASSUME NEW s \in Seq(DigitSet), Len(s) >= 1, s[1] = "0" => Len(s) = 1,
           NEW v \in [0 .. Len(s) -> Nat], IsValue(v, s)
    PROVE  Decimal[v[Len(s)]] = s
<1> DEFINE n == Len(s)
           Told(k) == Decimal[v[k]] = SubSeq(s, 1, k) /\ (n # 1 => v[k] # 0)
           Good == {k \in Nat : k \in 1 .. n => Told(k)}
<1>1. n \in Nat /\ n >= 1
  OBVIOUS
<1>2. ASSUME NEW k \in Nat, \A l \in 0 .. k - 1 : l \in Good
      PROVE  k \in Good
  <2> SUFFICES ASSUME k \in 1 .. n
               PROVE  Told(k)
    OBVIOUS
  <2> DEFINE d == DigitValue(s[k])
  <2>1. s[k] \in DigitSet
    OBVIOUS
  <2>2. d \in 0 .. 9 /\ Digits[d + 1] = s[k] /\ (s[k] = "0" <=> d = 0)
    <3>1. d \in 0 .. 9 /\ Digits[d + 1] = s[k]
      BY <2>1, DigitOf
    <3> HIDE DEF d
    <3>2. Digits[d + 1] = "0" <=> d = 0
      BY <3>1, DigitOf
    <3> QED BY <3>1, <3>2
  <2>3. v[k] = 10 * v[k - 1] + d /\ v[k - 1] \in Nat
    BY DEF IsValue
  <2> HIDE DEF d
  <2>4. CASE k = 1
    <3>1. v[0] = 0
      BY DEF IsValue
    <3>2. v[1] = d
      BY <2>2, <2>3, <2>4, <3>1
    <3>3. Decimal[d] = <<s[1]>>
      BY <2>2, <2>4, DecimalOfDigit
    <3>4. SubSeq(s, 1, 1) = <<s[1]>>
      BY <1>1
    <3>5. n # 1 => d # 0
      BY <2>2, <2>4
    <3> QED BY <2>4, <3>2, <3>3, <3>4, <3>5
  <2>5. CASE k # 1
    <3>1. k - 1 \in Good /\ k - 1 \in 1 .. n /\ n # 1
      BY <1>1, <1>2, <2>5
    <3>2. Decimal[v[k - 1]] = SubSeq(s, 1, k - 1) /\ v[k - 1] \in Nat \ {0}
      BY <2>3, <3>1
    <3>3. Decimal[v[k]] = Append(SubSeq(s, 1, k - 1), s[k])
      BY <2>2, <2>3, <3>2, DecimalOfDigits
    <3>4. Append(SubSeq(s, 1, k - 1), s[k]) = SubSeq(s, 1, k)
      BY <3>1
    <3>5. v[k] # 0
      BY <2>2, <2>3, <3>2
    <3> QED BY <3>3, <3>4, <3>5
  <2> QED BY <2>4, <2>5
<1> HIDE DEF Good
<1>3. n \in Good
  BY <1>1, <1>2, FromBelow
<1>4. SubSeq(s, 1, n) = s
  OBVIOUS
<1> QED BY <1>1, <1>3, <1>4 DEF Good
-----------------------------------------------------------------------------
\* How far characters are in S is decided by the first that is not.
LEMMA LeadingIs ==
    ASSUME NEW T, NEW s \in Seq(T), NEW S, NEW n \in 0 .. Len(s),
           \A i \in 1 .. n : s[i] \in S, n < Len(s) => s[n + 1] \notin S
    PROVE  Leading(s, S) = SubSeq(s, 1, n)
<1> DEFINE Ends(k) == /\ \A i \in 1 .. k : s[i] \in S
                      /\ k < Len(s) => s[k + 1] \notin S
<1>1. Ends(n)
  OBVIOUS
<1>2. ASSUME NEW k \in 0 .. Len(s), Ends(k)
      PROVE  k = n
  <2>1. CASE k < n
    <3>1. k + 1 \in 1 .. n /\ k < Len(s)
      BY <2>1
    <3> QED BY <1>2, <3>1
  <2>2. CASE n < k
    <3>1. n + 1 \in 1 .. k /\ n < Len(s)
      BY <2>2
    <3> QED BY <1>2, <3>1
  <2> QED BY <2>1, <2>2
<1>3. (CHOOSE k \in 0 .. Len(s) : Ends(k)) = n
  <2> HIDE DEF Ends
  <2> QED BY <1>1, <1>2
<1> QED BY <1>3 DEF Leading

\* The digits of a number as PSX writes it, and what is before them.
LEMMA CanonicalDigits ==
    ASSUME NEW T, NEW s \in Seq(T), IsCanonical(s)
    PROVE  \E d \in Seq(DigitSet) :
             /\ Len(d) >= 1 /\ (d[1] = "0" => Len(d) = 1)
             /\ \/ /\ s # << >> /\ Head(s) = "-" /\ s = <<"-">> \o d /\ Tail(s) = d /\ d[1] # "0"
                \/ s = d /\ Head(s) # "-"
<1> DEFINE d == IF s # << >> /\ Head(s) = "-" THEN Tail(s) ELSE s
<1>1. /\ d # << >> /\ \A i \in DOMAIN d : d[i] \in DigitSet
      /\ Head(d) = "0" => s = <<"0">>
  BY DEF IsCanonical
<1>2. CASE s # << >> /\ Head(s) = "-"
  <2> DEFINE t == Tail(s)
  <2>1. d = t /\ t \in Seq(T)
    BY <1>2
  <2>2. s = <<"-">> \o t /\ s # <<"0">>
    BY <1>2
  <2> HIDE DEF t
  <2>3. t \in Seq(DigitSet) /\ Len(t) >= 1 /\ t[1] # "0"
    <3> HIDE DEF d
    <3>1. t # << >> /\ (\A i \in DOMAIN t : t[i] \in DigitSet) /\ Head(t) # "0"
      BY <1>1, <2>1, <2>2
    <3> QED BY <2>1, <3>1
  <2> QED BY <1>2, <2>2, <2>3 DEF t
<1>3. CASE ~(s # << >> /\ Head(s) = "-")
  <2>1. d = s
    BY <1>3
  <2> HIDE DEF d
  <2>2. s # << >> /\ (\A i \in DOMAIN s : s[i] \in DigitSet) /\ (Head(s) = "0" => s = <<"0">>)
    BY <1>1, <2>1
  <2>3. s \in Seq(DigitSet) /\ Len(s) >= 1 /\ Head(s) = s[1] /\ Head(s) # "-"
    BY <1>3, <2>2
  <2>4. s[1] = "0" => Len(s) = 1
    BY <2>2, <2>3
  <2> QED BY <2>3, <2>4
<1> QED BY <1>2, <1>3

\* The number the digits of which are printed is the number that is converted.
LEMMA NumberAndDecimal ==
    /\ \A d \in Seq(DigitSet) :
         /\ NumberOf(d) \in Nat
         /\ Len(d) >= 1 /\ (d[1] = "0" => Len(d) = 1) => Decimal[NumberOf(d)] = d
    /\ \A n \in Nat : NumberOf(Decimal[n]) = n
<1>1. ASSUME NEW d \in Seq(DigitSet)
      PROVE  /\ NumberOf(d) \in Nat
             /\ Len(d) >= 1 /\ (d[1] = "0" => Len(d) = 1) => Decimal[NumberOf(d)] = d
  <2>1. PICK v \in [0 .. Len(d) -> Nat] : IsValue(v, d) /\ NumberOf(d) = v[Len(d)]
    BY NumberIsValue
  <2>2. v[Len(d)] \in Nat
    OBVIOUS
  <2> QED BY <2>1, <2>2, ValueHasDecimal
<1>2. ASSUME NEW n \in Nat
      PROVE  NumberOf(Decimal[n]) = n
  <2>1. Decimal[n] \in Seq(DigitSet)
    BY DecimalTyped
  <2>2. PICK v \in [0 .. Len(Decimal[n]) -> Nat] :
          IsValue(v, Decimal[n]) /\ NumberOf(Decimal[n]) = v[Len(Decimal[n])]
    BY <2>1, NumberIsValue
  <2> QED BY <2>2, DecimalHasValue
<1> QED BY <1>1, <1>2

\* What PSX writes for an integer is what snprintf prints for it.
LEMMA CanonicalPrinted ==
    ASSUME NEW T, NEW s \in Seq(T), IsCanonical(s)
    PROVE  SignedValue(s) \in Int /\ Printed(SignedValue(s)) = s
<1>1. PICK d \in Seq(DigitSet) :
        /\ Len(d) >= 1 /\ (d[1] = "0" => Len(d) = 1)
        /\ \/ /\ s # << >> /\ Head(s) = "-" /\ s = <<"-">> \o d /\ Tail(s) = d /\ d[1] # "0"
           \/ s = d /\ Head(s) # "-"
  BY CanonicalDigits
<1> DEFINE n == NumberOf(d)
<1>2. n \in Nat /\ Decimal[n] = d
  BY <1>1, NumberAndDecimal
<1> HIDE DEF n
<1>3. CASE Head(s) = "-" /\ s = <<"-">> \o d /\ Tail(s) = d /\ d[1] # "0"
  <2>1. n # 0
    <3>1. Decimal[0] = <<"0">>
      BY DecimalOfDigit DEF Digits
    <3>2. n = 0 => d[1] = "0"
      BY <1>2, <3>1
    <3> QED BY <1>3, <3>2
  <2>2. SignedValue(s) = -n
    BY <1>3 DEF SignedValue, n
  <2>3. -n \in Int /\ -n < 0 /\ -(-n) = n
    BY <1>2, <2>1
  <2>4. Printed(-n) = <<"-">> \o Decimal[n]
    BY <2>3 DEF Printed
  <2> QED BY <1>2, <1>3, <2>2, <2>3, <2>4
<1>4. CASE s = d /\ Head(s) # "-"
  <2>1. SignedValue(s) = n
    BY <1>4 DEF SignedValue, n
  <2>2. Printed(n) = Decimal[n]
    BY <1>2 DEF Printed
  <2> QED BY <1>2, <1>4, <2>1, <2>2
<1> QED BY <1>1, <1>3, <1>4

\* What snprintf prints is what PSX would write, and has the printed value.
LEMMA PrintedCanonical ==
    ASSUME NEW v \in Int
    PROVE  IsCanonical(Printed(v)) /\ SignedValue(Printed(v)) = v
<1>1. CASE v < 0
  <2> DEFINE n == -v
             d == Decimal[n]
             s == <<"-">> \o d
  <2>1. n \in Nat /\ n # 0 /\ -n = v
    BY <1>1
  <2>2. d \in Seq(DigitSet) /\ Len(d) >= 1 /\ d[1] # "0" /\ NumberOf(d) = n
    BY <2>1, DecimalTyped, NumberAndDecimal
  <2>3. Printed(v) = s
    BY <1>1 DEF Printed
  <2> HIDE DEF d, n
  <2>4. s # << >> /\ Head(s) = "-" /\ Tail(s) = d
    BY <2>2
  <2> HIDE DEF s
  <2>5. d # << >> /\ (\A i \in DOMAIN d : d[i] \in DigitSet) /\ Head(d) # "0"
    BY <2>2
  <2>6. IsCanonical(s)
    BY <2>4, <2>5 DEF IsCanonical
  <2>7. SignedValue(s) = v
    BY <2>1, <2>2, <2>4 DEF SignedValue
  <2> QED BY <2>3, <2>6, <2>7
<1>2. CASE ~(v < 0)
  <2> DEFINE d == Decimal[v]
  <2>1. v \in Nat
    BY <1>2
  <2>2. /\ d \in Seq(DigitSet) /\ Len(d) >= 1 /\ (d[1] = "0" => Len(d) = 1)
        /\ NumberOf(d) = v
    BY <2>1, DecimalTyped, NumberAndDecimal
  <2>3. Printed(v) = d
    BY <1>2 DEF Printed
  <2> HIDE DEF d
  <2>4. /\ d # << >> /\ (\A i \in DOMAIN d : d[i] \in DigitSet)
        /\ Head(d) = d[1] /\ Head(d) \in DigitSet
    BY <2>2
  <2>5. Head(d) # "-"
    BY <2>4, DigitOf
  <2>6. Head(d) = "0" => d = <<"0">>
    BY <2>2, <2>4
  <2>7. IsCanonical(d)
    BY <2>4, <2>5, <2>6 DEF IsCanonical
  <2>8. SignedValue(d) = v
    BY <2>2, <2>5 DEF SignedValue
  <2> QED BY <2>3, <2>7, <2>8
<1> QED BY <1>1, <1>2

\* The C library converts what PSX writes to its value, if that is in range.
LEMMA ConvertedCanonical ==
    ASSUME NEW T, NEW s \in Seq(T), IsCanonical(s), NEW bits,
           SignedValue(s) \in IntegerRange(bits)
    PROVE  Converted(s, bits) = {SignedValue(s)}
<1>1. PICK d \in Seq(DigitSet) :
        /\ Len(d) >= 1
        /\ \/ /\ s # << >> /\ Head(s) = "-" /\ s = <<"-">> \o d /\ Tail(s) = d
           \/ s = d /\ Head(s) # "-"
  BY CanonicalDigits
<1>2. Leading(d, DigitSet) = d
  <2>1. Len(d) \in 0 .. Len(d) /\ \A i \in 1 .. Len(d) : d[i] \in DigitSet
    OBVIOUS
  <2>2. Leading(d, DigitSet) = SubSeq(d, 1, Len(d))
    BY <2>1, LeadingIs
  <2> QED BY <2>2
<1>3. s # << >> /\ Len(s) >= 1 /\ Head(s) = s[1] /\ (Head(s) = "-" \/ Head(s) \in DigitSet)
  BY <1>1
<1>4. Leading(s, {Blank}) = << >>
  <2>1. Head(s) # Blank
    BY <1>3, BlankIsNoDigit
  <2>2. 0 \in 0 .. Len(s) /\ s[0 + 1] \notin {Blank} /\ \A i \in 1 .. 0 : s[i] \in {Blank}
    BY <1>3, <2>1
  <2>3. Leading(s, {Blank}) = SubSeq(s, 1, 0)
    BY <2>2, LeadingIs
  <2> QED BY <2>3
<1>5. Behind(s, << >>) = s
  BY DEF Behind
<1> DEFINE sign == IF s # << >> /\ Head(s) \in {"+", "-"} THEN <<Head(s)>> ELSE << >>
           number == NumberOf(Leading(Behind(s, sign), DigitSet))
           signed == IF sign = <<"-">> THEN -number ELSE number
<1>6. Converted(s, bits)
        = IF signed \in IntegerRange(bits) THEN {signed} ELSE IntegerRange(bits)
  BY <1>4, <1>5 DEF Converted
<1>7. signed = SignedValue(s)
  <2>1. CASE Head(s) = "-" /\ s = <<"-">> \o d /\ Tail(s) = d
    <3>1. sign = <<"-">>
      BY <1>3, <2>1
    <3>2. Behind(s, <<"-">>) = d
      <4>1. Behind(s, <<"-">>) = SubSeq(s, 2, Len(s))
        BY DEF Behind
      <4>2. Tail(s) = SubSeq(s, 2, Len(s))
        BY <1>3, TailIsSubSeq
      <4> QED BY <2>1, <4>1, <4>2
    <3> HIDE DEF sign
    <3> QED BY <1>2, <2>1, <3>1, <3>2 DEF SignedValue
  <2>2. CASE s = d /\ Head(s) # "-"
    <3>1. Head(s) \notin {"+", "-"}
      BY <1>3, <2>2, DigitOf
    <3>2. sign = << >>
      BY <3>1
    <3>3. << >> # <<"-">>
      OBVIOUS
    <3> HIDE DEF sign
    <3> QED BY <1>2, <1>5, <2>2, <3>2, <3>3 DEF SignedValue
  <2> QED BY <1>1, <2>1, <2>2
<1> HIDE DEF signed
<1> QED BY <1>6, <1>7

\* Both types have values: the provers do not know that a power of 2 is positive.
TypesHaveValues == 0 \in IntegerRange(INT_BITS) /\ 0 \in IntegerRange(LONG_BITS)

\* Whatever the text, parsing an integer ends with a value or without one.
LEMMA IntegerAnswered ==
    ASSUME NEW s, NEW bits, NEW memory \in BOOLEAN, 0 \in IntegerRange(bits)
    PROVE  ParsedInteger(s, bits, memory) # {}
<1>1. PICK v : v \in Converted(s, bits)
  <2> DEFINE text == Behind(s, Leading(s, {Blank}))
             sign == IF text # << >> /\ Head(text) \in {"+", "-"} THEN <<Head(text)>> ELSE << >>
             number == NumberOf(Leading(Behind(text, sign), DigitSet))
             signed == IF sign = <<"-">> THEN -number ELSE number
  <2>1. Converted(s, bits)
          = IF signed \in IntegerRange(bits) THEN {signed} ELSE IntegerRange(bits)
    BY Zenon DEF Converted
  <2> HIDE DEF signed
  <2>2. CASE signed \in IntegerRange(bits)
    BY <2>1, <2>2
  <2>3. CASE signed \notin IntegerRange(bits)
    BY <2>1, <2>3
  <2> QED BY <2>2, <2>3
<1>2. CASE FitsBuffer(s) /\ memory
  <2>1. (IF Printed(v) = s THEN v ELSE NULL) \in ParsedInteger(s, bits, memory)
    BY <1>1, <1>2, Zenon DEF ParsedInteger
  <2> QED BY <2>1, Zenon
<1>3. CASE ~(FitsBuffer(s) /\ memory)
  <2>1. ParsedInteger(s, bits, memory) = {NULL}
    BY <1>3, Zenon DEF ParsedInteger
  <2> QED BY <2>1
<1> QED BY <1>2, <1>3

\* An integer is accepted if it is one, in range and short enough, and only then: comparing
\* the text with what is printed for its value suffices.
LEMMA ParsedIntegerIs ==
    ASSUME NEW T, NEW s \in Seq(T), NEW bits \in Nat, NEW memory \in BOOLEAN, NULL \notin Int
    PROVE  /\ \A v \in ParsedInteger(s, bits, memory) :
                v # NULL => IsInteger(s, bits) /\ v = SignedValue(s) /\ v \in Int
           /\ IsInteger(s, bits) /\ memory =>
                NULL \notin ParsedInteger(s, bits, memory) /\ ParsedInteger(s, bits, memory) # {}
<1>1. IntegerRange(bits) \subseteq Int
  BY DEF IntegerRange
<1>2. Converted(s, bits) \subseteq IntegerRange(bits)
  BY Zenon DEF Converted
<1>3. ASSUME NEW v \in Converted(s, bits), Printed(v) = s, FitsBuffer(s)
      PROVE  IsInteger(s, bits) /\ v = SignedValue(s) /\ v \in Int
  <2>1. v \in Int /\ v \in IntegerRange(bits)
    BY <1>1, <1>2
  <2>2. IsCanonical(s) /\ SignedValue(s) = v
    BY <1>3, <2>1, PrintedCanonical
  <2> QED BY <1>3, <2>1, <2>2 DEF IsInteger
<1>4. ASSUME IsInteger(s, bits), memory
      PROVE  NULL \notin ParsedInteger(s, bits, memory) /\ ParsedInteger(s, bits, memory) # {}
  <2>1. FitsBuffer(s) /\ IsCanonical(s) /\ SignedValue(s) \in IntegerRange(bits)
    BY <1>4 DEF IsInteger
  <2>2. Converted(s, bits) = {SignedValue(s)}
    BY <2>1, ConvertedCanonical
  <2>3. SignedValue(s) \in Int /\ Printed(SignedValue(s)) = s
    BY <2>1, CanonicalPrinted
  <2>4. ParsedInteger(s, bits, memory) = {SignedValue(s)}
    BY <1>4, <2>1, <2>2, <2>3 DEF ParsedInteger
  <2> QED BY <2>3, <2>4
<1>5. ASSUME NEW v \in ParsedInteger(s, bits, memory), v # NULL
      PROVE  IsInteger(s, bits) /\ v = SignedValue(s) /\ v \in Int
  <2>1. FitsBuffer(s)
    BY <1>5 DEF ParsedInteger
  <2>2. PICK w \in Converted(s, bits) : v = IF Printed(w) = s THEN w ELSE NULL
    BY <1>5 DEF ParsedInteger
  <2>3. Printed(w) = s /\ v = w
    BY <1>5, <2>2
  <2> QED BY <1>3, <2>1, <2>3
<1>6. \A v \in ParsedInteger(s, bits, memory) :
        v # NULL => IsInteger(s, bits) /\ v = SignedValue(s) /\ v \in Int
  BY <1>5, Zenon
<1>7. IsInteger(s, bits) /\ memory =>
        NULL \notin ParsedInteger(s, bits, memory) /\ ParsedInteger(s, bits, memory) # {}
  BY <1>4, Zenon
<1> QED BY <1>6, <1>7, Zenon
-----------------------------------------------------------------------------
\* Of whatever kind, a field is accepted if it is one, and only then.
LEMMA FieldParsed ==
    ASSUME NEW kind \in {"ground", "int", "long", "double"}, NEW s \in Seq(Alphabet),
           NEW memory \in BOOLEAN
    PROVE  /\ \A v \in Parsed(kind, s, memory) :
                v # NULL => IsField(kind, s) /\ v = FieldValue(kind, s) /\ v \in FieldValues
           /\ IsField(kind, s) /\ memory =>
                NULL \notin Parsed(kind, s, memory) /\ Parsed(kind, s, memory) # {}
<1>1. NULL \notin FieldValues /\ NULL \notin Int /\ NULL \notin BOOLEAN
  BY NullAssumption DEF FieldValues
<1>2. INT_BITS \in Nat /\ LONG_BITS \in Nat
  BY BoostFrameAssumption
<1>3. CASE kind = "ground"
  <2>1. /\ Parsed(kind, s, memory) = parse_ground_flag(s)
        /\ IsField(kind, s) = (s \in {<<"G">>, <<"F">>})
        /\ FieldValue(kind, s) = (s = <<"G">>)
    BY <1>3 DEF Parsed, IsField, FieldValue
  <2>2. <<"G">> # <<"F">>
    OBVIOUS
  <2>3. CASE s = <<"G">>
    BY <1>1, <2>1, <2>3 DEF parse_ground_flag, FieldValues
  <2>4. CASE s = <<"F">>
    BY <1>1, <2>1, <2>2, <2>4 DEF parse_ground_flag, FieldValues
  <2>5. CASE s # <<"G">> /\ s # <<"F">>
    <3>1. parse_ground_flag(s) = {NULL}
      BY <2>5, Zenon DEF parse_ground_flag
    <3>2. ~IsField(kind, s)
      BY <2>1, <2>5
    <3> QED BY <2>1, <3>1, <3>2, Zenon
  <2> QED BY <2>3, <2>4, <2>5
<1>4. CASE kind = "int"
  <2>1. /\ Parsed(kind, s, memory) = ParsedInteger(s, INT_BITS, memory)
        /\ IsField(kind, s) = IsInteger(s, INT_BITS)
        /\ FieldValue(kind, s) = SignedValue(s)
    BY <1>4 DEF Parsed, IsField, FieldValue
  <2> QED BY <1>1, <1>2, <2>1, ParsedIntegerIs DEF FieldValues
<1>5. CASE kind = "long"
  <2>1. /\ Parsed(kind, s, memory) = ParsedInteger(s, LONG_BITS, memory)
        /\ IsField(kind, s) = IsInteger(s, LONG_BITS)
        /\ FieldValue(kind, s) = SignedValue(s)
    BY <1>5 DEF Parsed, IsField, FieldValue
  <2> QED BY <1>1, <1>2, <2>1, ParsedIntegerIs DEF FieldValues
<1>6. CASE kind = "double"
  <2>1. /\ Parsed(kind, s, memory) = ParsedDouble(s)
        /\ IsField(kind, s) = FitsBuffer(s)
        /\ FieldValue(kind, s) = s
    BY <1>6 DEF Parsed, IsField, FieldValue
  <2>2. s \in FieldValues /\ s # NULL
    BY <1>1 DEF FieldValues
  <2>3. CASE FitsBuffer(s)
    <3>1. Parsed(kind, s, memory) = {s}
      BY <2>1, <2>3, Zenon DEF ParsedDouble
    <3>2. IsField(kind, s)
      BY <2>1, <2>3, Zenon
    <3> QED BY <2>1, <2>2, <3>1, <3>2
  <2>4. CASE ~FitsBuffer(s)
    <3>1. Parsed(kind, s, memory) = {NULL}
      BY <2>1, <2>4, Zenon DEF ParsedDouble
    <3>2. ~IsField(kind, s)
      BY <2>1, <2>4, Zenon
    <3> QED BY <3>1, <3>2, Zenon
  <2> QED BY <2>3, <2>4
<1> QED BY <1>3, <1>4, <1>5, <1>6

\* Nor is there a text of a field without an answer.
LEMMA FieldAnswered ==
    ASSUME NEW kind \in {"ground", "int", "long", "double"}, NEW s, NEW memory \in BOOLEAN,
           TypesHaveValues
    PROVE  Parsed(kind, s, memory) # {}
<1>1. CASE kind = "ground"
  <2>1. Parsed(kind, s, memory) = parse_ground_flag(s)
    BY <1>1 DEF Parsed
  <2> QED BY <2>1, Zenon DEF parse_ground_flag
<1>2. CASE kind = "int"
  <2>1. Parsed(kind, s, memory) = ParsedInteger(s, INT_BITS, memory)
    BY <1>2 DEF Parsed
  <2> QED BY <2>1, IntegerAnswered DEF TypesHaveValues
<1>3. CASE kind = "long"
  <2>1. Parsed(kind, s, memory) = ParsedInteger(s, LONG_BITS, memory)
    BY <1>3 DEF Parsed
  <2> QED BY <2>1, IntegerAnswered DEF TypesHaveValues
<1>4. CASE kind = "double"
  <2>1. Parsed(kind, s, memory) = ParsedDouble(s)
    BY <1>4 DEF Parsed
  <2> QED BY <2>1, Zenon DEF ParsedDouble
<1> QED BY <1>1, <1>2, <1>3, <1>4
-----------------------------------------------------------------------------
\* A field ends at the first separator from its start on, or with the line.
LEMMA FieldEndIs ==
    ASSUME NEW line \in Seq(Alphabet), NEW start \in 1 .. Len(line) + 1
    PROVE  /\ FieldEnd(line, start) \in start .. Len(line) + 1
           /\ FieldEnd(line, start) <= Len(line) => line[FieldEnd(line, start)] = Separator
           /\ \A i \in start .. FieldEnd(line, start) - 1 : line[i] # Separator
<1> DEFINE Ends(e) == /\ e <= Len(line) => line[e] = Separator
                      /\ \A i \in start .. e - 1 : line[i] # Separator
           Stops == {i \in start .. Len(line) + 1 : i <= Len(line) => line[i] = Separator}
<1>1. Stops \in SUBSET Nat /\ Len(line) + 1 \in Stops
  OBVIOUS
<1>2. PICK e \in Stops : \A i \in Stops : e <= i
  <2> HIDE DEF Stops
  <2> QED BY <1>1, LeastOfNat
<1>3. e \in start .. Len(line) + 1 /\ (e <= Len(line) => line[e] = Separator)
  BY <1>2
<1>4. ASSUME NEW i \in start .. e - 1
      PROVE  line[i] # Separator
  <2>1. i \in start .. Len(line) + 1 /\ i < e
    BY <1>3
  <2>2. i \notin Stops
    BY <1>2, <2>1
  <2> QED BY <2>1, <2>2
<1>5. \E i \in start .. Len(line) + 1 : Ends(i)
  BY <1>3, <1>4
<1> HIDE DEF Ends
<1>6. /\ FieldEnd(line, start) = CHOOSE i \in start .. Len(line) + 1 : Ends(i)
  BY DEF FieldEnd, Ends
<1>7. FieldEnd(line, start) \in start .. Len(line) + 1 /\ Ends(FieldEnd(line, start))
  BY <1>5, <1>6
<1> QED BY <1>7 DEF Ends

\* The k-th field of a line begins there.
Before(line, i) == {j \in Separators(line) : j < i}

BeginsField(line, k, start) ==
    /\ start \in 1 .. Len(line) + 1
    /\ start = 1 \/ start - 1 \in Separators(line)
    /\ Cardinality(Before(line, start)) = k - 1

\* A line has a number of separators, and so has each part of it.
LEMMA SeparatorsFinite ==
    ASSUME NEW line \in Seq(Alphabet)
    PROVE  /\ Separators(line) \subseteq 1 .. Len(line)
           /\ IsFiniteSet(Separators(line)) /\ Cardinality(Separators(line)) \in Nat
           /\ \A i \in Int : /\ IsFiniteSet(Before(line, i))
                             /\ Cardinality(Before(line, i)) \in Nat
                             /\ Cardinality(Before(line, i)) <= Cardinality(Separators(line))
<1>1. Separators(line) \subseteq 1 .. Len(line)
  BY DEF Separators
<1>2. IsFiniteSet(1 .. Len(line))
  BY FS_Interval
<1>3. IsFiniteSet(Separators(line))
  BY <1>1, <1>2, FS_Subset
<1>4. Cardinality(Separators(line)) \in Nat
  BY <1>3, FS_CardinalityType
<1>5. ASSUME NEW i \in Int
      PROVE  /\ IsFiniteSet(Before(line, i)) /\ Cardinality(Before(line, i)) \in Nat
             /\ Cardinality(Before(line, i)) <= Cardinality(Separators(line))
  <2>1. Before(line, i) \in SUBSET Separators(line)
    BY DEF Before
  <2> QED BY <1>3, <2>1, FS_Subset, FS_CardinalityType
<1> QED BY <1>1, <1>3, <1>4, <1>5

\* Behind a separator there is one more before.
LEMMA OneMoreBefore ==
    ASSUME NEW line \in Seq(Alphabet), NEW i \in Int, NEW m \in Int, i <= m,
           m \in Separators(line)
    PROVE  Cardinality(Before(line, m + 1)) >= Cardinality(Before(line, i)) + 1
<1> DEFINE S == Before(line, i)
           T == Before(line, m + 1)
<1>1. IsFiniteSet(S) /\ IsFiniteSet(T) /\ m \notin S /\ S \cup {m} \in SUBSET T
  <2>1. S \subseteq T /\ m \in T /\ m \notin S
    <3>1. \A j \in Separators(line) : j \in Int
      BY SeparatorsFinite
    <3>2. \A j \in Separators(line) : j < i => j < m + 1
      BY <3>1
    <3>3. m < m + 1 /\ ~(m < i)
      OBVIOUS
    <3> QED BY <3>2, <3>3 DEF Before
  <2> QED BY <2>1, SeparatorsFinite
<1> HIDE DEF S, T
<1>2. Cardinality(S \cup {m}) = Cardinality(S) + 1
  BY <1>1, FS_AddElement
<1>3. Cardinality(S \cup {m}) <= Cardinality(T)
  BY <1>1, FS_Subset
<1>4. Cardinality(S) \in Nat /\ Cardinality(T) \in Nat
  BY <1>1, FS_CardinalityType
<1> QED BY <1>2, <1>3, <1>4 DEF S, T

\* The k-th field begins in one place.
LEMMA BeginsOnlyThere ==
    ASSUME NEW line \in Seq(Alphabet), NEW k \in Int, NEW start, NEW other,
           BeginsField(line, k, start), BeginsField(line, k, other)
    PROVE  start = other
<1>1. ASSUME NEW a, NEW b, BeginsField(line, k, a), BeginsField(line, k, b), a < b
      PROVE  FALSE
  <2>1. a \in Int /\ b - 1 \in Int /\ a <= b - 1 /\ (b - 1) + 1 = b /\ b - 1 \in Separators(line)
    BY <1>1 DEF BeginsField
  <2>2. Cardinality(Before(line, b)) >= Cardinality(Before(line, a)) + 1
    <3>1. Cardinality(Before(line, (b - 1) + 1)) >= Cardinality(Before(line, a)) + 1
      BY <2>1, OneMoreBefore
    <3> QED BY <2>1, <3>1
  <2> QED BY <1>1, <2>2 DEF BeginsField
<1>2. start \in Int /\ other \in Int
  BY DEF BeginsField
<1>3. start = other \/ start < other \/ other < start
  BY <1>2
<1> QED BY <1>1, <1>3, Zenon

\* The k-th text between separators is what the scan takes, if it starts where that begins.
LEMMA TextIs ==
    ASSUME NEW line \in Seq(Alphabet), NEW k \in Int, NEW start, BeginsField(line, k, start)
    PROVE  Text(line, k) = SubSeq(line, start, FieldEnd(line, start) - 1)
<1> DEFINE size == Len(line)
           end == FieldEnd(line, start)
           Starts(i) == /\ i = 1 \/ i - 1 \in Separators(line)
                        /\ Cardinality({j \in Separators(line) : j < i}) = k - 1
           Stops(i) == /\ i = size + 1 \/ i \in Separators(line)
                       /\ Separators(line) \cap start .. i - 1 = {}
           From == CHOOSE i \in 1 .. size + 1 : Starts(i)
           Until(i) == CHOOSE e \in i .. size + 1 :
                         /\ e = size + 1 \/ e \in Separators(line)
                         /\ Separators(line) \cap i .. e - 1 = {}
<1>1. size \in Nat /\ start \in 1 .. size + 1
  BY DEF BeginsField
<1>2. From = start
  <2>1. \A i \in 1 .. size + 1 : Starts(i) <=> BeginsField(line, k, i)
    BY DEF BeginsField, Before
  <2> HIDE DEF Starts
  <2>2. \A i \in 1 .. size + 1 : Starts(i) => i = start
    BY <2>1, BeginsOnlyThere
  <2>3. Starts(start)
    BY <1>1, <2>1
  <2> QED BY <1>1, <2>2, <2>3
<1>3. /\ end \in start .. size + 1
      /\ end <= size => line[end] = Separator
      /\ \A i \in start .. end - 1 : line[i] # Separator
  BY <1>1, FieldEndIs
<1> HIDE DEF end
<1>4. \A i \in 1 .. size : i \in Separators(line) <=> line[i] = Separator
  BY DEF Separators
<1>5. Separators(line) \subseteq 1 .. size
  BY SeparatorsFinite
<1>6. Stops(end)
  <2>1. end = size + 1 \/ end \in Separators(line)
    <3>1. CASE end <= size
      <4>1. end \in 1 .. size
        BY <1>1, <1>3, <3>1
      <4> QED BY <1>3, <1>4, <3>1, <4>1
    <3>2. CASE ~(end <= size)
      BY <1>1, <1>3, <3>2
    <3> QED BY <3>1, <3>2
  <2>2. ASSUME NEW i \in Separators(line), i \in start .. end - 1
        PROVE  FALSE
    BY <1>3, <1>4, <1>5, <2>2
  <2> QED BY <2>1, <2>2
<1>7. ASSUME NEW i \in start .. size + 1, Stops(i)
      PROVE  i = end
  <2>1. i \in Int /\ end \in Int
    BY <1>1, <1>3
  <2>2. CASE i < end
    <3>1. i \in start .. end - 1 /\ i # size + 1
      BY <1>1, <1>3, <2>1, <2>2
    <3>2. i \in Separators(line)
      BY <1>7, <3>1
    <3> QED BY <1>3, <1>4, <1>5, <3>1, <3>2
  <2>3. CASE end < i
    <3>1. end \in start .. i - 1 /\ end # size + 1
      BY <1>1, <1>3, <2>1, <2>3
    <3>2. end \in Separators(line)
      BY <1>6, <3>1
    <3> QED BY <1>7, <3>1, <3>2
  <2> QED BY <2>1, <2>2, <2>3
<1>8. Until(start) = end
  <2>1. Until(start) = CHOOSE e \in start .. size + 1 : Stops(e)
    OBVIOUS
  <2> HIDE DEF Stops, Until
  <2> QED BY <1>3, <1>6, <1>7, <2>1
<1>9. Text(line, k) = SubSeq(line, From, Until(From) - 1)
  BY DEF Text
<1> HIDE DEF From, Until
<1> QED BY <1>2, <1>8, <1>9 DEF end

\* The scan starts at the first field.
LEMMA FirstBegins ==
    ASSUME NEW line \in Seq(Alphabet)
    PROVE  BeginsField(line, 1, 1)
<1>1. 1 \in 1 .. Len(line) + 1
  OBVIOUS
<1>2. Before(line, 1) = {}
  <2>1. \A j \in Separators(line) : ~(j < 1)
    BY SeparatorsFinite
  <2> QED BY <2>1 DEF Before
<1>3. Cardinality(Before(line, 1)) = 1 - 1
  <2>1. Cardinality(Before(line, 1)) = 0
    BY <1>2, FS_EmptySet, Zenon
  <2> QED BY <2>1
<1> QED BY <1>1, <1>3 DEF BeginsField

\* Behind the end of a field begins the next, or the separators are used up.
LEMMA NextBegins ==
    ASSUME NEW line \in Seq(Alphabet), NEW k \in Int, NEW start, BeginsField(line, k, start)
    PROVE  /\ FieldEnd(line, start) <= Len(line) =>
                BeginsField(line, k + 1, FieldEnd(line, start) + 1)
           /\ FieldEnd(line, start) > Len(line) => Cardinality(Separators(line)) = k - 1
<1> DEFINE size == Len(line)
           end == FieldEnd(line, start)
<1>1. size \in Nat /\ start \in 1 .. size + 1 /\ Cardinality(Before(line, start)) = k - 1
  BY DEF BeginsField
<1>2. /\ end \in start .. size + 1
      /\ end <= size => line[end] = Separator
      /\ \A i \in start .. end - 1 : line[i] # Separator
  BY <1>1, FieldEndIs
<1> HIDE DEF end
<1>3. /\ Separators(line) \subseteq 1 .. size
      /\ \A i \in 1 .. size : i \in Separators(line) <=> line[i] = Separator
  BY SeparatorsFinite DEF Separators
<1>4. ASSUME NEW j \in Separators(line), j < end
      PROVE  j < start
  <2>1. j \in 1 .. size /\ line[j] = Separator
    BY <1>3
  <2>2. j \notin start .. end - 1
    BY <1>2, <2>1
  <2> QED BY <1>1, <1>2, <1>4, <2>1, <2>2
<1>5. CASE end <= size
  <2>1. end \in Separators(line) /\ end + 1 \in 1 .. size + 1 /\ (end + 1) - 1 = end
    BY <1>1, <1>2, <1>3, <1>5
  <2>2. Before(line, end + 1) = Before(line, start) \cup {end}
    <3>1. ASSUME NEW j \in Separators(line)
          PROVE  j < end + 1 <=> j < start \/ j = end
      <4>1. j \in Int
        BY <1>3
      <4> QED BY <1>1, <1>2, <1>4, <4>1
    <3> QED BY <2>1, <3>1 DEF Before
  <2>3. end \notin Before(line, start) /\ IsFiniteSet(Before(line, start))
    BY <1>1, <1>2, SeparatorsFinite DEF Before
  <2>4. Cardinality(Before(line, end + 1)) = (k - 1) + 1
    BY <1>1, <2>2, <2>3, FS_AddElement
  <2>5. Cardinality(Before(line, end + 1)) = (k + 1) - 1
    BY <2>4
  <2>6. BeginsField(line, k + 1, end + 1)
    BY <2>1, <2>5 DEF BeginsField
  <2> QED BY <1>1, <1>2, <1>5, <2>6 DEF end
<1>6. CASE ~(end <= size)
  <2>1. end = size + 1
    BY <1>1, <1>2, <1>6
  <2>2. \A j \in Separators(line) : j < start
    <3>1. \A j \in Separators(line) : j < end
      BY <1>1, <1>3, <2>1
    <3> QED BY <1>4, <3>1
  <2>3. Before(line, start) = Separators(line)
    BY <2>2 DEF Before
  <2> QED BY <1>1, <1>6, <2>3 DEF end
<1> QED BY <1>5, <1>6
-----------------------------------------------------------------------------
\* One step of parsing, from the last field to the first.
ParsedRow(f, field, line, memory) ==
    [start \in 1 .. Len(line) + 1 |->
       IF field > Len(Fields) THEN {NULL}
       ELSE ParsedFrom(f[field + 1], field, start, line, memory)]

IsParsed(f, line, memory) ==
    f = [field \in 1 .. Len(Fields) + 1 |-> ParsedRow(f, field, line, memory)]

\* A step of parsing uses no more than the results of the next field.
LEMMA RowsAlike ==
    ASSUME NEW line, NEW memory, NEW f, NEW g, NEW field \in Int,
           field <= Len(Fields) => f[field + 1] = g[field + 1]
    PROVE  ParsedRow(f, field, line, memory) = ParsedRow(g, field, line, memory)
<1>1. Len(Fields) \in Nat
  BY BoostFrameAssumption
<1>2. CASE field > Len(Fields)
  BY <1>2, Zenon DEF ParsedRow
<1>3. CASE ~(field > Len(Fields))
  <2>1. f[field + 1] = g[field + 1]
    BY <1>1, <1>3
  <2> QED BY <2>1, Zenon DEF ParsedRow
<1> QED BY <1>2, <1>3

\* Parsing a line is a function.
LEMMA RowsExist ==
    ASSUME NEW line, NEW memory
    PROVE  \E f : IsParsed(f, line, memory)
<1> DEFINE size == Len(Fields)
           last == size + 1
           Rows(f, m) == f = [field \in last - m .. last |-> ParsedRow(f, field, line, memory)]
           Good == {m \in Nat : \E f : Rows(f, m)}
<1>1. size \in Nat
  BY BoostFrameAssumption
<1>2. ASSUME NEW m \in Nat, \A l \in 0 .. m - 1 : l \in Good
      PROVE  m \in Good
  <2>1. CASE m = 0
    <3> DEFINE f == [field \in last - m .. last |-> ParsedRow(<< >>, field, line, memory)]
    <3>1. ASSUME NEW field \in last - m .. last
          PROVE  ParsedRow(f, field, line, memory) = ParsedRow(<< >>, field, line, memory)
      <4>1. field \in Int /\ ~(field <= size)
        BY <1>1, <2>1
      <4> HIDE DEF f, size
      <4> QED BY <4>1, RowsAlike DEF size
    <3>2. Rows(f, m)
      BY <3>1
    <3> QED BY <3>2
  <2>2. CASE m # 0
    <3> HIDE DEF Good
    <3>1. m - 1 \in Good
      BY <1>2, <2>2
    <3>2. PICK g : Rows(g, m - 1)
      BY <3>1 DEF Good
    <3> DEFINE f == [field \in last - m .. last |-> ParsedRow(g, field, line, memory)]
    <3>3. ASSUME NEW field \in last - m .. last
          PROVE  ParsedRow(f, field, line, memory) = ParsedRow(g, field, line, memory)
      <4>1. field \in Int
        BY <1>1
      <4>2. ASSUME field <= size
            PROVE  f[field + 1] = g[field + 1]
        <5>1. field + 1 \in last - m .. last /\ field + 1 \in last - (m - 1) .. last
          BY <1>1, <4>1, <4>2
        <5>2. f[field + 1] = ParsedRow(g, field + 1, line, memory)
          BY <5>1
        <5>3. g[field + 1] = ParsedRow(g, field + 1, line, memory)
          BY <3>2, <5>1
        <5> QED BY <5>2, <5>3, Zenon
      <4> HIDE DEF f
      <4> QED BY <4>1, <4>2, RowsAlike
    <3>4. Rows(f, m)
      BY <3>3
    <3> QED BY <3>4 DEF Good
  <2> QED BY <2>1, <2>2
<1> HIDE DEF Good
<1>3. size \in Good
  BY <1>1, <1>2, FromBelow
<1>4. last - size = 1
  BY <1>1
<1>5. PICK f : Rows(f, size)
  BY <1>3 DEF Good
<1>6. f = [field \in 1 .. last |-> ParsedRow(f, field, line, memory)]
  BY <1>4, <1>5
<1> QED BY <1>6 DEF IsParsed
-----------------------------------------------------------------------------
\* The fields from the k-th on are those of a boost frame.
RestIs(line, k) ==
    /\ Cardinality(Separators(line)) + 1 = Len(Fields)
    /\ \A j \in k .. Len(Fields) : IsField(Fields[j], Text(line, j))

\* What parsing from the k-th field on yields tells whether they are, and their values.
IsRest(line, k, rest) ==
    /\ RestIs(line, k)
    /\ rest \in Seq(FieldValues) /\ Len(rest) = Len(Fields) - k + 1
    /\ \A i \in 1 .. Len(Fields) - k + 1 :
         rest[i] = FieldValue(Fields[k - 1 + i], Text(line, k - 1 + i))

Tells(line, memory, k, results) ==
    /\ \A rest \in results : rest # NULL => IsRest(line, k, rest)
    /\ RestIs(line, k) /\ memory => NULL \notin results /\ results # {}
    /\ TypesHaveValues => results # {}

\* More fields than a frame has are no frame.
LEMMA LastTells ==
    ASSUME NEW line \in Seq(Alphabet), NEW memory \in BOOLEAN, NEW start,
           BeginsField(line, Len(Fields) + 1, start)
    PROVE  Tells(line, memory, Len(Fields) + 1, {NULL})
<1>1. Len(Fields) \in Nat
  BY BoostFrameAssumption
<1>2. start \in Int /\ Cardinality(Before(line, start)) = (Len(Fields) + 1) - 1
  BY DEF BeginsField
<1>3. Cardinality(Before(line, start)) <= Cardinality(Separators(line))
  BY <1>2, SeparatorsFinite
<1>4. Cardinality(Separators(line)) \in Nat
  BY SeparatorsFinite
<1>5. Cardinality(Separators(line)) + 1 # Len(Fields)
  BY <1>1, <1>2, <1>3, <1>4
<1> QED BY <1>5, Zenon DEF Tells, RestIs

\* A value in front of the rest.
LEMMA InFront ==
    ASSUME NEW value \in FieldValues, NEW other \in Seq(FieldValues)
    PROVE  /\ <<value>> \o other \in Seq(FieldValues)
           /\ Len(<<value>> \o other) = Len(other) + 1
           /\ (<<value>> \o other)[1] = value
           /\ \A i \in 1 .. Len(other) : (<<value>> \o other)[i + 1] = other[i]
<1> DEFINE one == <<value>>
<1>1. one \in Seq(FieldValues) /\ Len(one) = 1 /\ one[1] = value
  OBVIOUS
<1> HIDE DEF one
<1>2. /\ one \o other \in Seq(FieldValues) /\ Len(one \o other) = 1 + Len(other)
      /\ \A i \in 1 .. 1 + Len(other) :
           (one \o other)[i] = IF i <= 1 THEN one[i] ELSE other[i - 1]
  <2>1. /\ one \o other \in Seq(FieldValues) /\ Len(one \o other) = Len(one) + Len(other)
        /\ \A i \in 1 .. Len(one) + Len(other) :
             (one \o other)[i] = IF i <= Len(one) THEN one[i] ELSE other[i - Len(one)]
    BY <1>1, ConcatProperties, Zenon
  <2> QED BY <1>1, <2>1
<1> DEFINE both == one \o other
<1> HIDE DEF both
<1>3. both[1] = value
  BY <1>1, <1>2 DEF both
<1>4. ASSUME NEW i \in 1 .. Len(other)
      PROVE  both[i + 1] = other[i]
  <2>1. i + 1 \in 1 .. 1 + Len(other) /\ ~(i + 1 <= 1) /\ (i + 1) - 1 = i
    OBVIOUS
  <2> QED BY <1>2, <2>1 DEF both
<1>5. both \in Seq(FieldValues) /\ Len(both) = Len(other) + 1
  BY <1>2 DEF both
<1> QED BY <1>3, <1>4, <1>5 DEF both, one

\* If parsing tells a frame from the next field on, it does from this one on.
LEMMA FieldTells ==
    ASSUME NEW line \in Seq(Alphabet), NEW memory \in BOOLEAN, NEW k \in 1 .. Len(Fields),
           NEW start, BeginsField(line, k, start), NEW following,
           \A next : BeginsField(line, k + 1, next) =>
                         Tells(line, memory, k + 1, following[next])
    PROVE  Tells(line, memory, k, ParsedFrom(following, k, start, line, memory))
<1> DEFINE size == Len(Fields)
           end == FieldEnd(line, start)
           s == SubSeq(line, start, end - 1)
           kind == Fields[k]
           values == Parsed(kind, s, memory)
           others == IF end > Len(line) THEN AtLineEnd(k) ELSE following[end + 1]
           results == ParsedFrom(following, k, start, line, memory)
<1>1. size \in Nat /\ k \in Int /\ k >= 1 /\ k <= size
  BY BoostFrameAssumption
<1>2. Len(line) \in Nat /\ start \in 1 .. Len(line) + 1 /\ end \in start .. Len(line) + 1
  BY FieldEndIs DEF BeginsField
<1>3. s \in Seq(Alphabet) /\ Text(line, k) = s
  <2>1. Text(line, k) = s
    BY <1>1, TextIs
  <2> HIDE DEF end
  <2>2. \A i \in start .. end - 1 : line[i] \in Alphabet
    BY <1>2
  <2>3. s \in Seq(Alphabet)
    BY <1>2, <2>2, SubSeqProperties
  <2> QED BY <2>1, <2>3
<1>4. kind \in {"ground", "int", "long", "double"}
  BY BoostFrameAssumption
<1>5. /\ \A rest \in results : \E value \in values, other \in others :
            rest = IF value = NULL \/ other = NULL THEN NULL ELSE <<value>> \o other
      /\ values # {} /\ others # {} => results # {}
  <2>1. results = UNION {{InFrontOf(value, other) : other \in others} : value \in values}
    BY DEF ParsedFrom
  <2> HIDE DEF results, values, others
  <2>2. \A rest \in results : \E value \in values, other \in others :
           rest = InFrontOf(value, other)
    BY <2>1
  <2>3. ASSUME NEW value \in values, NEW other \in others
        PROVE  InFrontOf(value, other) \in results
    BY <2>1
  <2>4. values # {} /\ others # {} => results # {}
    BY <2>3
  <2> QED BY <2>2, <2>4, Zenon DEF InFrontOf
<1> HIDE DEF end, s, kind
<1>6. /\ \A v \in values :
           v # NULL => IsField(kind, s) /\ v = FieldValue(kind, s) /\ v \in FieldValues
      /\ IsField(kind, s) /\ memory => NULL \notin values /\ values # {}
  BY <1>3, <1>4, FieldParsed
\* What the rest of the line tells, if there is one.
<1>7. /\ \A rest \in others : rest # NULL =>
           /\ Cardinality(Separators(line)) + 1 = size
           /\ \A j \in k + 1 .. size : IsField(Fields[j], Text(line, j))
           /\ rest \in Seq(FieldValues) /\ Len(rest) = size - k
           /\ \A i \in 1 .. size - k : rest[i] = FieldValue(Fields[k + i], Text(line, k + i))
      /\ RestIs(line, k) /\ memory => NULL \notin others /\ others # {}
      /\ TypesHaveValues => others # {}
  <2>1. CASE end > Len(line)
    <3>1. Cardinality(Separators(line)) = k - 1
      BY <1>1, <2>1, NextBegins DEF end
    <3>2. others = AtLineEnd(k)
      BY <2>1
    <3> HIDE DEF others
    <3>3. CASE k = size
      <4>1. others = {<< >>}
        BY <3>2, <3>3 DEF AtLineEnd
      <4>2. << >> # NULL
        <5>1. << >> \in Seq(FieldValues)
          OBVIOUS
        <5> QED BY <5>1, NullAssumption
      <4>3. << >> \in Seq(FieldValues) /\ Len(<< >>) = 0
        OBVIOUS
      <4> QED BY <1>1, <3>1, <3>3, <4>1, <4>2, <4>3
    <3>4. CASE k # size
      <4>1. others = {NULL}
        BY <3>2, <3>4 DEF AtLineEnd
      <4>2. Cardinality(Separators(line)) + 1 # size
        BY <1>1, <3>1, <3>4
      <4> QED BY <4>1, <4>2 DEF RestIs
    <3> QED BY <3>3, <3>4
  <2>2. CASE ~(end > Len(line))
    <3>1. BeginsField(line, k + 1, end + 1)
      BY <1>1, <1>2, <2>2, NextBegins DEF end
    <3>2. others = following[end + 1]
      BY <2>2
    <3> HIDE DEF others
    <3>3. Tells(line, memory, k + 1, others)
      BY <3>1, <3>2
    <3>4. RestIs(line, k) => RestIs(line, k + 1)
      <4>1. \A j \in k + 1 .. size : j \in k .. size
        BY <1>1
      <4> QED BY <4>1 DEF RestIs
    <3>5. ASSUME NEW rest \in others, rest # NULL
          PROVE  /\ Cardinality(Separators(line)) + 1 = size
                 /\ \A j \in k + 1 .. size : IsField(Fields[j], Text(line, j))
                 /\ rest \in Seq(FieldValues) /\ Len(rest) = size - k
                 /\ \A i \in 1 .. size - k :
                      rest[i] = FieldValue(Fields[k + i], Text(line, k + i))
      <4>1. IsRest(line, k + 1, rest)
        BY <3>3, <3>5 DEF Tells
      <4>2. size - (k + 1) + 1 = size - k /\ \A i \in 1 .. size - k : (k + 1) - 1 + i = k + i
        BY <1>1
      <4> QED BY <4>1, <4>2 DEF IsRest, RestIs
    <3> QED BY <3>3, <3>4, <3>5 DEF Tells
  <2> QED BY <2>1, <2>2
<1> HIDE DEF values, others, results
<1>8. ASSUME NEW rest \in results, rest # NULL
      PROVE  IsRest(line, k, rest)
  <2>1. PICK value \in values, other \in others :
          rest = IF value = NULL \/ other = NULL THEN NULL ELSE <<value>> \o other
    BY <1>5, Zenon
  <2>2. value # NULL /\ other # NULL /\ rest = <<value>> \o other
    BY <1>8, <2>1
  <2>3. IsField(kind, s) /\ value = FieldValue(kind, s) /\ value \in FieldValues
    BY <1>6, <2>2
  <2>4. /\ Cardinality(Separators(line)) + 1 = size
        /\ \A j \in k + 1 .. size : IsField(Fields[j], Text(line, j))
        /\ other \in Seq(FieldValues) /\ Len(other) = size - k
        /\ \A i \in 1 .. size - k : other[i] = FieldValue(Fields[k + i], Text(line, k + i))
    BY <1>7, <2>2
  <2>5. RestIs(line, k)
    <3>1. ASSUME NEW j \in k .. size
          PROVE  IsField(Fields[j], Text(line, j))
      <4>1. CASE j = k
        BY <1>3, <2>3, <4>1 DEF kind
      <4>2. CASE j # k
        <5>1. j \in k + 1 .. size
          BY <1>1, <4>2
        <5> QED BY <2>4, <5>1
      <4> QED BY <4>1, <4>2
    <3> QED BY <2>4, <3>1 DEF RestIs
  <2>6. /\ rest \in Seq(FieldValues) /\ Len(rest) = Len(other) + 1 /\ rest[1] = value
        /\ \A i \in 1 .. Len(other) : rest[i + 1] = other[i]
    BY <2>2, <2>3, <2>4, InFront
  <2>7. ASSUME NEW i \in 1 .. size - k + 1
        PROVE  rest[i] = FieldValue(Fields[k - 1 + i], Text(line, k - 1 + i))
    <3>1. CASE i = 1
      <4>1. k - 1 + i = k
        BY <1>1, <3>1
      <4> QED BY <1>3, <2>3, <2>6, <3>1, <4>1 DEF kind
    <3>2. CASE i # 1
      <4>1. i - 1 \in 1 .. size - k /\ (i - 1) + 1 = i /\ k + (i - 1) = k - 1 + i
        BY <1>1, <3>2
      <4>2. rest[i] = other[i - 1]
        BY <2>4, <2>6, <4>1
      <4> QED BY <2>4, <4>1, <4>2
    <3> QED BY <3>1, <3>2
  <2>8. Len(rest) = size - k + 1
    BY <1>1, <2>4, <2>6
  <2> QED BY <2>5, <2>6, <2>7, <2>8 DEF IsRest
<1>9. ASSUME RestIs(line, k), memory
      PROVE  NULL \notin results /\ results # {}
  <2>1. k \in k .. size
    BY <1>1
  <2>2. IsField(kind, s)
    BY <1>3, <1>9, <2>1 DEF RestIs, kind
  <2>3. NULL \notin values /\ NULL \notin others /\ values # {} /\ others # {}
    BY <1>6, <1>7, <1>9, <2>2
  <2>4. ASSUME NEW value \in values, NEW other \in others
        PROVE  value # NULL /\ other # NULL /\ <<value>> \o other # NULL
    <3>1. value # NULL /\ other # NULL
      BY <2>3
    <3>2. value \in FieldValues /\ other \in Seq(FieldValues)
      BY <1>6, <1>7, <3>1
    <3>3. <<value>> \o other \in Seq(FieldValues)
      BY <3>2, InFront
    <3> QED BY <3>1, <3>3, NullAssumption
  <2>5. ASSUME NULL \in results
        PROVE  FALSE
    <3>1. PICK value \in values, other \in others :
            NULL = IF value = NULL \/ other = NULL THEN NULL ELSE <<value>> \o other
      BY <1>5, <2>5, Zenon
    <3> QED BY <2>4, <3>1
  <2> QED BY <1>5, <2>3, <2>5
<1>10. TypesHaveValues => results # {}
  <2>1. TypesHaveValues => values # {}
    BY <1>4, FieldAnswered DEF values
  <2> QED BY <1>5, <1>7, <2>1
<1> QED BY <1>8, <1>9, <1>10, Zenon DEF Tells, results

\* The parser tells frames from other lines, and gets the values right.
LEMMA ParserTells ==
    ASSUME NEW line \in Seq(Alphabet), NEW memory \in BOOLEAN
    PROVE  Tells(line, memory, 1, psx_parse_boost_frame(line, memory))
<1> DEFINE size == Len(Fields)
           Rule(f) == f = [field \in 1 .. size + 1 |->
                             [start \in 1 .. Len(line) + 1 |->
                                IF field > size THEN {NULL}
                                ELSE ParsedFrom(f[field + 1], field, start, line, memory)]]
           parsed == CHOOSE f : Rule(f)
           TellsAt(k) == \A start : BeginsField(line, k, start) =>
                                        Tells(line, memory, k, parsed[k][start])
           Good == {m \in Nat : m <= size => TellsAt(size + 1 - m)}
<1>1. size \in Nat /\ size >= 1
  BY BoostFrameAssumption
<1>2. Rule(parsed)
  <2>1. \E f : Rule(f)
    <3>1. PICK f : IsParsed(f, line, memory)
      BY RowsExist
    <3>2. Rule(f)
      BY <3>1, Zenon DEF IsParsed, ParsedRow
    <3> QED BY <3>2
  <2> QED BY <2>1
<1>3. psx_parse_boost_frame(line, memory) = parsed[1][1]
  BY Zenon DEF psx_parse_boost_frame
<1>4. ASSUME NEW k \in 1 .. size + 1, NEW start, BeginsField(line, k, start)
      PROVE  parsed[k][start] = IF k > size THEN {NULL}
                                ELSE ParsedFrom(parsed[k + 1], k, start, line, memory)
  <2>1. start \in 1 .. Len(line) + 1
    BY <1>4 DEF BeginsField
  <2> HIDE DEF parsed
  <2>2. parsed[k] = [at \in 1 .. Len(line) + 1 |->
                       IF k > size THEN {NULL}
                       ELSE ParsedFrom(parsed[k + 1], k, at, line, memory)]
    BY <1>2
  <2> QED BY <2>1, <2>2
<1> HIDE DEF parsed
<1>5. ASSUME NEW m \in Nat, \A l \in 0 .. m - 1 : l \in Good
      PROVE  m \in Good
  <2> SUFFICES ASSUME m <= size, NEW start, BeginsField(line, size + 1 - m, start)
               PROVE  Tells(line, memory, size + 1 - m, parsed[size + 1 - m][start])
    OBVIOUS
  <2> DEFINE k == size + 1 - m
  <2>1. k \in 1 .. size + 1
    BY <1>1
  <2>2. CASE m = 0
    <3>1. k = size + 1 /\ k > size
      BY <1>1, <2>2
    <3>2. parsed[k][start] = {NULL}
      BY <1>4, <2>1, <3>1
    <3> HIDE DEF k
    <3>3. BeginsField(line, size + 1, start)
      BY <3>1 DEF k
    <3> QED BY <3>1, <3>2, <3>3, LastTells DEF k
  <2>3. CASE m # 0
    <3>1. k \in 1 .. size /\ ~(k > size) /\ size + 1 - (m - 1) = k + 1
      BY <1>1, <2>3
    <3>2. parsed[k][start] = ParsedFrom(parsed[k + 1], k, start, line, memory)
      BY <1>4, <2>1, <3>1
    <3>3. m - 1 \in Good /\ m - 1 <= size
      BY <1>5, <2>3
    <3>4. TellsAt(k + 1)
      BY <3>1, <3>3
    <3> QED BY <3>1, <3>2, <3>4, FieldTells
  <2> QED BY <2>2, <2>3
<1> HIDE DEF Good
<1>6. size \in Good
  BY <1>1, <1>5, FromBelow
<1>7. TellsAt(1)
  <2>1. size + 1 - size = 1
    BY <1>1
  <2> QED BY <1>1, <1>6, <2>1 DEF Good
<1> QED BY <1>3, <1>7, FirstBegins

\* Every line is accepted exactly if it is a boost frame, with the values it has.
LEMMA ParserAccepts ==
    ASSUME NEW line \in Seq(Alphabet), NEW memory \in BOOLEAN,
           NEW frame \in psx_parse_boost_frame(line, memory)
    PROVE  \/ IsBoostFrame(line) /\ frame = BoostFrameOf(line)
           \/ (IsBoostFrame(line) => ~memory) /\ frame = NULL
<1>1. Fields \in Seq({"ground", "int", "long", "double"})
  BY BoostFrameAssumption
<1>2. Len(Fields) \in Nat /\ DOMAIN Fields = 1 .. Len(Fields)
  BY <1>1
<1>3. IsBoostFrame(line) <=> RestIs(line, 1)
  BY <1>2 DEF IsBoostFrame, RestIs
<1>4. CASE frame = NULL
  BY <1>3, <1>4, ParserTells DEF Tells
<1>5. CASE frame # NULL
  <2>1. IsRest(line, 1, frame)
    BY <1>5, ParserTells DEF Tells
  <2>2. /\ RestIs(line, 1) /\ frame \in Seq(FieldValues)
        /\ Len(frame) = Len(Fields)
        /\ \A i \in 1 .. Len(Fields) : frame[i] = FieldValue(Fields[i], Text(line, i))
    <3>1. Len(Fields) - 1 + 1 = Len(Fields) /\ \A i \in 1 .. Len(Fields) : 1 - 1 + i = i
      BY <1>2
    <3> QED BY <2>1, <3>1 DEF IsRest
  <2>3. frame = BoostFrameOf(line)
    BY <1>2, <2>2 DEF BoostFrameOf
  <2> QED BY <1>3, <2>2, <2>3
<1> QED BY <1>4, <1>5

\* With memory, a boost frame does not fail.
LEMMA FrameIsNotNull ==
    ASSUME NEW line \in Seq(Alphabet), IsBoostFrame(line),
           NEW frame \in psx_parse_boost_frame(line, TRUE)
    PROVE  frame # NULL
<1>1. Fields \in Seq({"ground", "int", "long", "double"})
  BY BoostFrameAssumption
<1>2. DOMAIN Fields = 1 .. Len(Fields)
  BY <1>1
<1>3. RestIs(line, 1)
  BY <1>2 DEF IsBoostFrame, RestIs
<1> QED BY <1>3, ParserTells DEF Tells

\* psx.c, 43-89, and utils.c, 44-112: given its memory, the parser returns the values of a
\* boost frame and nothing else, whatever the C library makes of other numbers; what is no
\* boost frame is refused.
THEOREM FramesParsed ==
    \A line \in Seq(Alphabet) :
        /\ IsBoostFrame(line) => psx_parse_boost_frame(line, TRUE) = {BoostFrameOf(line)}
        /\ ~IsBoostFrame(line) /\ TypesHaveValues =>
             \A memory \in BOOLEAN : psx_parse_boost_frame(line, memory) = {NULL}
<1> TAKE line \in Seq(Alphabet)
<1>1. ASSUME IsBoostFrame(line)
      PROVE  psx_parse_boost_frame(line, TRUE) = {BoostFrameOf(line)}
  <2>1. RestIs(line, 1)
    <3>1. Fields \in Seq({"ground", "int", "long", "double"})
      BY BoostFrameAssumption
    <3>2. DOMAIN Fields = 1 .. Len(Fields)
      BY <3>1
    <3> QED BY <1>1, <3>2 DEF IsBoostFrame, RestIs
  <2>2. psx_parse_boost_frame(line, TRUE) # {}
    BY <2>1, ParserTells DEF Tells
  <2>3. \A frame \in psx_parse_boost_frame(line, TRUE) : frame = BoostFrameOf(line)
    BY <1>1, ParserAccepts
  <2> QED BY <2>2, <2>3
<1>2. ASSUME ~IsBoostFrame(line), TypesHaveValues, NEW memory \in BOOLEAN
      PROVE  psx_parse_boost_frame(line, memory) = {NULL}
  <2>1. psx_parse_boost_frame(line, memory) # {}
    BY <1>2, ParserTells DEF Tells
  <2>2. \A frame \in psx_parse_boost_frame(line, memory) : frame = NULL
    BY <1>2, ParserAccepts
  <2> QED BY <2>1, <2>2
<1> QED BY <1>1, <1>2
-----------------------------------------------------------------------------
\* With either program, the variables of the reader start as it starts and step as it steps.
LEMMA ReceptionReads ==
    /\ ReceptionInit => Init
    /\ [ReceptionNext]_receptionVars => [Next]_vars
<1>1. ReceptionInit => Init
  BY DEF ReceptionInit
<1>2. ParseArgument => UNCHANGED vars
  BY DEF ParseArgument
<1>3. on_line_received => Next
  BY DEF on_line_received, Next
<1>4. ReceiveOn => Next
  BY DEF ReceiveOn, Next
<1>5. UNCHANGED receptionVars => UNCHANGED vars
  BY DEF receptionVars
<1> QED BY <1>1, <1>2, <1>3, <1>4, <1>5 DEF ReceptionNext

\* The reader keeps what was proved of it alone: the lines of the stream in order, no line
\* held back, no write behind a buffer.
THEOREM ReceptionReadsStream ==
    ReceptionSpec => ImplementsLineStream /\ [](NoLineHeldBack /\ WritesInside)
<1>1. ReceptionSpec => Spec
  BY ReceptionReads, PTL DEF ReceptionSpec, Spec
<1>2. TypeOK /\ WritesInside => WritesInside
  OBVIOUS
<1> QED BY <1>1, <1>2, ReaderStaysInside, ReaderImplementsStream, NoLineWaits, PTL

\* The parser is called with text, by either program, and says what is said of it.
Parsing ==
    /\ argument \in Seq(Alphabet) \cup {NULL}
    /\ parse # NULL =>
          \E line \in Seq(Alphabet), memory \in BOOLEAN : parse \in Calls(line, memory)

\* The texts that are tried are texts.
LEMMA TriedAreText == LinesUpTo(MaxLength) \subseteq Seq(Alphabet)
<1> SUFFICES ASSUME NEW line \in LinesUpTo(MaxLength)
             PROVE  line \in Seq(Alphabet)
  OBVIOUS
<1>1. PICK length \in 0 .. MaxLength : line \in [1 .. length -> Alphabet]
  BY DEF LinesUpTo
<1>2. length \in Nat
  BY <1>1, BoostFrameAssumption
<1> QED BY <1>1, <1>2

\* The test may be called with any text; the plugin has parsed nothing yet.
LEMMA ParsingInit == ReceptionInit => Parsing
BY TriedAreText DEF ReceptionInit, Parsing

\* A line the reader completes is one that was sent, hence text.
LEMMA ParsingStep ==
    ASSUME IInv, Reading, Parsing, [ReceptionNext]_receptionVars
    PROVE  Parsing'
<1>1. CASE ParseArgument
  <2>1. argument \in Seq(Alphabet) /\ argument' = argument
    BY <1>1 DEF ParseArgument, Parsing
  <2>2. PICK memory \in BOOLEAN : parse' \in Calls(argument, memory)
    BY <1>1 DEF ParseArgument
  <2> QED BY <2>1, <2>2 DEF Parsing, Calls
<1>2. CASE on_line_received
  <2>1. LineComplete /\ argument' = argument /\ parse' \in Calls(String(Terminated), TRUE)
    BY <1>2 DEF on_line_received
  <2>2. PICK ends \in [Nat -> Int] : Positioned(ends)
    BY <2>1 DEF LineComplete, NextByte, Reading
  <2>3. String(Terminated) \in Lines
    BY <2>1, <2>2, CompletedIsAwaited
  <2>4. String(Terminated) \in Seq(Alphabet)
    BY <2>3, LineReaderAssumption, ReceptionAssumption
  <2> QED BY <2>1, <2>4 DEF Parsing, Calls
<1>3. CASE ReceiveOn
  BY <1>3 DEF ReceiveOn, Parsing, Calls
<1>4. CASE UNCHANGED receptionVars
  BY <1>4 DEF receptionVars, Parsing, Calls
<1> QED BY <1>1, <1>2, <1>3, <1>4 DEF ReceptionNext

\* psx.c, 43-89, and utils.c, 44-112: every line is accepted exactly if it is a boost
\* frame, and then every field has the value that was sent, for any fields, any size of
\* the parsing buffer and any width of the integers.
THEOREM FramesAcceptedExactly == ReceptionSpec => []AcceptedExactly
<1>1. Parsing => AcceptedExactly
  <2> SUFFICES ASSUME Parsing, parse # NULL
               PROVE  \/ IsBoostFrame(parse.line) /\ parse.frame = BoostFrameOf(parse.line)
                      \/ (IsBoostFrame(parse.line) => ~parse.memory) /\ parse.frame = NULL
    BY DEF AcceptedExactly
  <2>1. PICK line \in Seq(Alphabet), memory \in BOOLEAN : parse \in Calls(line, memory)
    BY DEF Parsing
  <2>2. /\ parse.line = line /\ parse.memory = memory
        /\ parse.frame \in psx_parse_boost_frame(line, memory)
    BY <2>1 DEF Calls
  <2> QED BY <2>2, ParserAccepts
<1>2. ReceptionInit => IInv /\ Reading /\ Parsing
  BY ReceptionReads, IInvInit, ReadingInit, ParsingInit
<1>3. IInv /\ Reading /\ Parsing /\ [ReceptionNext]_receptionVars
        => (IInv /\ Reading /\ Parsing)'
  BY ReceptionReads, IInvStep, ReadingStep, ParsingStep
<1> QED BY <1>1, <1>2, <1>3, PTL DEF ReceptionSpec

\* psx.c, 119-136: a line is handed on exactly if the parser returned a frame for it, so the
\* set of lines that LineReader decides by is what the parser decides.
HandedOnAsParsed == on_line_received => (delivered' # delivered <=> parse'.frame # NULL)

\* psx.c, 119-136 and 189-197: in every run, whatever was received before, the frame callback
\* is called for the lines the parser accepts and for no other.
THEOREM FramesHandedOn == ReceptionSpec => [][HandedOnAsParsed]_receptionVars
<1>1. ASSUME IInv, Reading, on_line_received
      PROVE  delivered' # delivered <=> parse'.frame # NULL
  <2> DEFINE line == String(Terminated)
  <2>1. LineComplete /\ parse' \in Calls(line, TRUE)
    BY <1>1 DEF on_line_received
  <2>2. PICK ends \in [Nat -> Int] : Positioned(ends)
    BY <1>1, <2>1 DEF LineComplete, NextByte, Reading
  <2>3. line \in Lines
    BY <1>1, <2>1, <2>2, CompletedIsAwaited
  <2>4. line \in Seq(Alphabet) /\ (line \in BoostLines <=> IsBoostFrame(line))
    BY <2>3, LineReaderAssumption, ReceptionAssumption
  <2> HIDE DEF line
  <2>5. parse'.frame \in psx_parse_boost_frame(line, TRUE)
    <3>1. PICK frame \in psx_parse_boost_frame(line, TRUE) :
            parse' = [line |-> line, memory |-> TRUE, frame |-> frame]
      BY <2>1, Zenon DEF Calls
    <3> QED BY <3>1
  <2>6. CASE IsBoostFrame(line)
    <3>1. delivered' = Append(delivered, line)
      BY <2>1, <2>4, <2>6 DEF LineComplete, line
    <3>2. delivered \in Seq(BoostLines) /\ line \in BoostLines
      BY <1>1, <2>4, <2>6 DEF IInv, TypeOK
    <3>3. delivered' # delivered
      <4>1. Len(Append(delivered, line)) = Len(delivered) + 1 /\ Len(delivered) \in Nat
        BY <3>2
      <4> QED BY <3>1, <4>1
    <3>4. parse'.frame # NULL
      BY <2>4, <2>5, <2>6, ParserAccepts, FrameIsNotNull
    <3> QED BY <3>3, <3>4
  <2>7. CASE ~IsBoostFrame(line)
    <3>1. delivered' = delivered
      BY <2>1, <2>4, <2>7 DEF LineComplete, line
    <3>2. parse'.frame = NULL
      BY <2>4, <2>5, <2>7, ParserAccepts
    <3> QED BY <3>1, <3>2
  <2> QED BY <2>6, <2>7
<1>2. ReceptionInit => IInv /\ Reading
  BY ReceptionReads, IInvInit, ReadingInit
<1>3. IInv /\ Reading /\ [ReceptionNext]_receptionVars => (IInv /\ Reading)'
  BY ReceptionReads, IInvStep, ReadingStep
<1>4. IInv /\ Reading /\ [ReceptionNext]_receptionVars => [HandedOnAsParsed]_receptionVars
  BY <1>1 DEF HandedOnAsParsed
<1> QED BY <1>2, <1>3, <1>4, PTL DEF ReceptionSpec
=============================================================================
