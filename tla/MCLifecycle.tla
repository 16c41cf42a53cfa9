----------------------------- MODULE MCLifecycle -----------------------------
(***************************************************************************)
(* Lifecycle.tla with the host's socket and one guest's, one countdown     *)
(* task and the dashboard.                                                 *)
(***************************************************************************)
EXTENDS Lifecycle
=============================================================================
