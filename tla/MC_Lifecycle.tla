---------------------------- MODULE MC_Lifecycle ----------------------------
(* Lifecycle on small sets: model values for threads and connections. *)
EXTENDS Lifecycle
=============================================================================
