--------------------------- MODULE MC_RateLimiter ---------------------------
(* RateLimiter on a short stretch of time, for the accept thread, the only   *)
(* caller the server has, and two addresses.                                 *)
EXTENDS RateLimiter
=============================================================================
