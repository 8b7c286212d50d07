--------------------------- MODULE MC_Connections ---------------------------
(* Connections whose clients come from addresses of their own, or all from   *)
(* one.                                                                      *)
EXTENDS Connections

(* Each connection from an address and port of its own. *)
MC_OwnPeers == {[c \in Clients |-> c]}

(* All connections from one address and port, one after the other. *)
MC_SharedPeer == {[c \in Clients |-> k] : k \in {CHOOSE c \in Clients : TRUE}}

MC_Peers == MC_OwnPeers \union MC_SharedPeer
=============================================================================
