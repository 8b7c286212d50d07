---------------------------- MODULE MC_ThreadPool ----------------------------
(* ThreadPool on small sets: model values for threads and jobs. *)
EXTENDS ThreadPool
=============================================================================
