----------------------------- MODULE LineReader -----------------------------
(***************************************************************************)
(* The inner loop of the connection thread (psx.c, run_connection_loop):   *)
(* bytes are received in chunks that end anywhere, CR and LF both end a    *)
(* line, a LF right after a CR does not, and a line is collected in a      *)
(* buffer across chunks.  PSX ends all lines of a connection alike, with   *)
(* CR LF or with LF.  Making the connection is in PsxClient.               *)
(***************************************************************************)
EXTENDS Integers, Sequences, FiniteSets

CONSTANTS
    Chars,
    Lines,              \* what PSX may send between two line terminators
    BoostLines,         \* those of them on_line_received makes a frame of
    RECV_BUFFER_SIZE,
    LINE_BUFFER_SIZE,
    CR, LF, NUL,
    MaxLines, MaxConnections    \* bounds on what PSX sends, for TLC

ASSUME LineReaderAssumption ==
    /\ Lines \subseteq Seq(Chars) /\ BoostLines \subseteq Lines
    /\ {CR, LF, NUL} \cap Chars = {} /\ CR # LF /\ NUL \notin {CR, LF}
    /\ RECV_BUFFER_SIZE \in Nat \ {0}
    /\ LINE_BUFFER_SIZE \in Nat \ {0}
    /\ MaxLines \in Nat /\ MaxConnections \in Nat

VARIABLES
    thread,                 \* where the connection thread is
    should_shutdown,
    recv_buffer,            \* the received bytes that were not processed yet
    line_buffer,
    line_buffer_write_cursor,
    success,
    had_carriage_return,
    \* outside the thread
    pipe,                   \* bytes PSX has sent that were not received
    terminator,             \* how PSX ends its lines
    sent,                   \* the lines PSX has sent on this connection
    delivered,              \* the lines on_boost_frame_callback was called for
    connections             \* number of connections made

lineVars == <<line_buffer, line_buffer_write_cursor, success, had_carriage_return>>
peerVars == <<terminator, sent, connections>>
vars == <<thread, should_shutdown, recv_buffer, lineVars, pipe, delivered, peerVars>>

\* On Windows, and elsewhere.
Terminators == {<<CR, LF>>, <<LF>>}
Cells == 0 .. LINE_BUFFER_SIZE - 1
Bytes == Chars \cup {CR, LF}

TypeOK ==
    /\ thread \in {"connect", "recv", "bytes", "close", "ended"}
    /\ should_shutdown \in BOOLEAN
    /\ recv_buffer \in Seq(Bytes) /\ Len(recv_buffer) <= RECV_BUFFER_SIZE
    /\ line_buffer \in [Cells -> Chars \cup {NUL}]
    /\ line_buffer_write_cursor \in 0 .. LINE_BUFFER_SIZE
    /\ success \in BOOLEAN
    /\ had_carriage_return \in BOOLEAN
    /\ pipe \in Seq(Bytes)
    /\ terminator \in Terminators
    /\ sent \in Seq(Lines)
    /\ delivered \in Seq(BoostLines)
    /\ connections \in 0 .. MaxConnections

\* The locals of one connection.
FreshLocals ==
    /\ recv_buffer' = << >>
    /\ line_buffer' = [c \in Cells |-> NUL]
    /\ line_buffer_write_cursor' = 0
    /\ success' = TRUE
    /\ had_carriage_return' = FALSE

Init ==
    /\ thread = "connect"
    /\ should_shutdown = FALSE
    /\ recv_buffer = << >>
    /\ line_buffer = [c \in Cells |-> NUL]
    /\ line_buffer_write_cursor = 0
    /\ success = TRUE
    /\ had_carriage_return = FALSE
    /\ pipe = << >>
    /\ terminator \in Terminators
    /\ sent = << >>
    /\ delivered = << >>
    /\ connections = 0
-----------------------------------------------------------------------------
Connected ==
    /\ thread = "connect" /\ ~should_shutdown /\ connections < MaxConnections
    /\ connections' = connections + 1
    /\ thread' = "recv"
    /\ FreshLocals
    /\ pipe' = << >> /\ sent' = << >> /\ delivered' = << >>
    /\ terminator' \in Terminators
    /\ UNCHANGED should_shutdown

ShutDown ==
    /\ ~should_shutdown
    /\ should_shutdown' = TRUE
    /\ UNCHANGED <<thread, recv_buffer, lineVars, pipe, delivered, peerVars>>

\* PSX sends a line; its bytes arrive in any portions.
Send ==
    /\ thread \in {"recv", "bytes"} /\ Len(sent) < MaxLines
    /\ \E line \in Lines :
         /\ sent' = Append(sent, line)
         /\ pipe' = pipe \o line \o terminator
    /\ UNCHANGED <<thread, should_shutdown, recv_buffer, lineVars, terminator, delivered,
                   connections>>

ChunkSizes == 1 .. RECV_BUFFER_SIZE

ReadNetwork ==
    /\ thread = "recv" /\ ~should_shutdown
    /\ \E n \in ChunkSizes :
         /\ n <= Len(pipe)
         /\ recv_buffer' = SubSeq(pipe, 1, n)
         /\ pipe' = SubSeq(pipe, n + 1, Len(pipe))
    /\ thread' = "bytes"
    /\ UNCHANGED <<should_shutdown, line_buffer, line_buffer_write_cursor, success, delivered,
                   peerVars>>

\* Mutant: had_carriage_return is a local of the received chunk.
RecvForgetful == ReadNetwork /\ had_carriage_return' = FALSE

Recv == ReadNetwork /\ UNCHANGED had_carriage_return

\* The peer has closed the connection, or it failed, or the client shall shut down.
RecvNothing ==
    /\ thread = "recv"
    /\ thread' = "close"
    /\ UNCHANGED <<should_shutdown, recv_buffer, lineVars, pipe, delivered, peerVars>>

\* A string ends before its first NUL.
String(buffer) ==
    LET end == CHOOSE e \in Cells : buffer[e] = NUL /\ \A c \in 0 .. e - 1 : buffer[c] # NUL
    IN  [i \in 1 .. end |-> buffer[i - 1]]

Terminated == [line_buffer EXCEPT ![line_buffer_write_cursor] = NUL]

\* Mutant: only LF ends a line.
IsLineFeed(ch) == ch = LF

IsTerminator(ch) == ch \in {CR, LF}

\* Mutant: a line of the size of the buffer is accepted.
EndOfTurnLate ==
    IF line_buffer_write_cursor' > LINE_BUFFER_SIZE
    THEN /\ success' = FALSE
         /\ thread' = "close"
         /\ UNCHANGED had_carriage_return
    ELSE /\ had_carriage_return' = (Head(recv_buffer) = CR)
         /\ thread' = IF Len(recv_buffer) = 1 THEN "recv" ELSE "bytes"
         /\ UNCHANGED success

\* The check for excessive length after a byte, and what else ends the turn of the
\* loop over the received bytes.
EndOfTurn ==
    IF line_buffer_write_cursor' >= LINE_BUFFER_SIZE
    THEN /\ success' = FALSE
         /\ thread' = "close"
         /\ UNCHANGED had_carriage_return
    ELSE /\ had_carriage_return' = (Head(recv_buffer) = CR)
         /\ thread' = IF Len(recv_buffer) = 1 THEN "recv" ELSE "bytes"
         /\ UNCHANGED success

NextByte ==
    /\ thread = "bytes"
    /\ recv_buffer' = Tail(recv_buffer)
    /\ UNCHANGED <<should_shutdown, pipe, peerVars>>

LineComplete ==
    /\ NextByte
    /\ IsTerminator(Head(recv_buffer)) /\ ~had_carriage_return
    /\ line_buffer' = Terminated
    /\ IF String(Terminated) \in BoostLines
       THEN /\ delivered' = Append(delivered, String(Terminated))
            /\ line_buffer_write_cursor' = 0
            /\ EndOfTurn
       ELSE /\ success' = FALSE
            /\ thread' = "close"
            /\ UNCHANGED <<delivered, line_buffer_write_cursor, had_carriage_return>>

SkipLineFeed ==
    /\ NextByte
    /\ IsTerminator(Head(recv_buffer)) /\ had_carriage_return
    /\ UNCHANGED <<line_buffer, line_buffer_write_cursor, delivered>>
    /\ EndOfTurn

Collect ==
    /\ NextByte
    /\ ~IsTerminator(Head(recv_buffer))
    /\ line_buffer' = [line_buffer EXCEPT ![line_buffer_write_cursor] = Head(recv_buffer)]
    /\ line_buffer_write_cursor' = line_buffer_write_cursor + 1
    /\ UNCHANGED delivered
    /\ EndOfTurn

\* exit is sent, the socket closed, on_disconnected called.
Close ==
    /\ thread = "close"
    /\ thread' = IF should_shutdown THEN "ended" ELSE "connect"
    /\ UNCHANGED <<should_shutdown, recv_buffer, lineVars, pipe, delivered, peerVars>>

Next ==
    \/ Connected \/ ShutDown \/ Send \/ Recv \/ RecvNothing
    \/ LineComplete \/ SkipLineFeed \/ Collect \/ Close

Spec == Init /\ [][Next]_vars
-----------------------------------------------------------------------------
\* psx.c, 167-207: however the stream is cut into chunks and whichever
\* terminator PSX uses, the lines handed on are the lines sent, in order, and only a
\* bad or too long line is refused.
status ==
    IF ~success THEN "refused" ELSE IF thread \in {"recv", "bytes"} THEN "open" ELSE "closed"

Stream == INSTANCE LineStream

ImplementsLineStream == Stream!Spec

\* The lines whose end was not received yet.
Outstanding == {i \in DOMAIN pipe : pipe[i] = Head(terminator)}

\* psx.c, 183-202: before the thread waits for more, it has handed on every line whose
\* terminator has begun to arrive; with CR LF it does not wait for the LF.
NoLineHeldBack ==
    thread = "recv" =>
        Len(delivered) = Len(sent) - Cardinality(Outstanding)

\* psx.c, 189 and 201: neither the NUL behind the line nor a character is written
\* behind the line buffer.
WritesInside == thread = "bytes" => line_buffer_write_cursor \in Cells
=============================================================================
