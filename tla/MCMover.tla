------------------------------ MODULE MCMover -------------------------------
(***************************************************************************)
(* Two hosts to change between, two connections and frames enough to fill  *)
(* a window and the history; two channels, as any two may disagree.        *)
(***************************************************************************)
EXTENDS Mover

MCPluginFailures == {"mtx_init", "create_interpolator", "create_psx_client", "probe",
                     "find_dataref"}
MCAllFailures == MCPluginFailures \cup {"boost_lock", "mtx_lock", "thrd_join", "thrd_sleep"}
=============================================================================
