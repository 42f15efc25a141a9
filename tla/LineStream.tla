----------------------------- MODULE LineStream -----------------------------
(***************************************************************************)
(* What the connection loop of psx.c promises about a connection to PSX:   *)
(* lines are handed on one by one, as they were sent and in that order; a  *)
(* line that is no boost frame or does not fit the line buffer ends the    *)
(* connection, which may also be lost at any time, in the midst of a line. *)
(***************************************************************************)
EXTENDS Naturals, Sequences

CONSTANTS
    Lines,              \* what PSX may send between two line terminators
    BoostLines,         \* the lines that parse as a boost frame
    LINE_BUFFER_SIZE

VARIABLES
    sent,               \* the lines PSX has sent on this connection
    delivered,          \* the frames on_boost_frame_callback was called with
    status              \* of the connection

Acceptable(line) == line \in BoostLines /\ Len(line) < LINE_BUFFER_SIZE

NextLine == sent[Len(delivered) + 1]

Init == sent = << >> /\ delivered = << >> /\ status = "closed"

Connected == status # "open" /\ status' = "open" /\ sent' = << >> /\ delivered' = << >>

Send ==
    /\ status = "open"
    /\ \E line \in Lines : sent' = Append(sent, line)
    /\ UNCHANGED <<delivered, status>>

Deliver ==
    /\ status = "open" /\ Len(delivered) < Len(sent) /\ Acceptable(NextLine)
    /\ delivered' = Append(delivered, NextLine)
    /\ UNCHANGED <<sent, status>>

Refuse ==
    /\ status = "open" /\ Len(delivered) < Len(sent) /\ ~Acceptable(NextLine)
    /\ status' = "refused"
    /\ UNCHANGED <<sent, delivered>>

Lose == status = "open" /\ status' = "closed" /\ UNCHANGED <<sent, delivered>>

Next == Connected \/ Send \/ Deliver \/ Refuse \/ Lose

Spec == Init /\ [][Next]_<<sent, delivered, status>>
=============================================================================
