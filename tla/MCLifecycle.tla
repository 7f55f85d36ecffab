---------------------------- MODULE MCLifecycle ----------------------------
(* An instance of Lifecycle for TLC: one client object entered twice, its  *)
(* user task cancelled once.                                               *)
EXTENDS Lifecycle
=============================================================================
