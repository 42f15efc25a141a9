------------------------------ MODULE Reception ------------------------------
(***************************************************************************)
(* The two programs that parse boost lines: the connection thread, which   *)
(* hands each line its reader completes to the parser (psx.c,              *)
(* on_line_received), and manualtest_psx_parse.c, which parses the text it *)
(* is called with, whatever that is.                                       *)
(***************************************************************************)
EXTENDS LineReader, BoostFrame

ASSUME ReceptionAssumption ==
    /\ Chars = Alphabet
    /\ BoostLines = {line \in Lines : IsBoostFrame(line)}

VARIABLES
    argument,       \* argv[1] of the manual test; NULL if the plugin runs
    parse           \* the latest call of the parser, with memory or without, or NULL

receptionVars == <<vars, argument, parse>>

Calls(line, memory) ==
    {[line |-> line, memory |-> memory, frame |-> frame] :
        frame \in psx_parse_boost_frame(line, memory)}

ReceptionInit ==
    /\ Init
    /\ argument \in LinesUpTo(MaxLength) \cup {NULL}
    /\ parse = NULL

ParseArgument ==
    /\ argument # NULL /\ parse = NULL
    /\ parse' \in Calls(argument, TRUE) \cup Calls(argument, FALSE)
    /\ UNCHANGED <<vars, argument>>

\* What the reader does with a line depends on the parser, whose memory suffices.
on_line_received ==
    /\ argument = NULL
    /\ LineComplete
    /\ parse' \in Calls(String(Terminated), TRUE)
    /\ UNCHANGED argument

ReceiveOn ==
    /\ argument = NULL
    /\ \/ Connected \/ ShutDown \/ Send \/ Recv \/ RecvNothing
       \/ SkipLineFeed \/ Collect \/ Close
    /\ UNCHANGED <<argument, parse>>

ReceptionNext == ParseArgument \/ on_line_received \/ ReceiveOn

ReceptionSpec == ReceptionInit /\ [][ReceptionNext]_receptionVars
-----------------------------------------------------------------------------
\* psx.c, 43-89, and utils.c, 44-112: every line is accepted exactly if it is a boost
\* frame, and then every field has the value that was sent: never that of a number out
\* of range, of a field before or after, or of a line cut off.  A frame may be refused
\* for lack of memory.
AcceptedExactly ==
    parse # NULL =>
        \/ IsBoostFrame(parse.line) /\ parse.frame = BoostFrameOf(parse.line)
        \/ (IsBoostFrame(parse.line) => ~parse.memory) /\ parse.frame = NULL
==============================================================================
