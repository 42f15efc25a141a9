-------------------------- MODULE MCClientThreads ---------------------------
(***************************************************************************)
(* Two hosts, two addresses per host and two lines per chunk: one address  *)
(* can fail before another works, and a line can follow a shutdown or a    *)
(* frame within its chunk.  Three threads, in any order: each attempt       *)
(* to create a client takes one, and when none is left it stops.           *)
(***************************************************************************)
EXTENDS ClientThreads

MCFailures == {"mtx_lock", "thrd_join"}
=============================================================================
