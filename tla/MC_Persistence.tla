--------------------------- MODULE MC_Persistence ---------------------------
(* Persistence on small sets: model values for keys, values and workers. *)
EXTENDS Persistence
=============================================================================
