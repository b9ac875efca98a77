----------------------------- MODULE MCConnections -----------------------------
(* Connections on a small instance: fewer descriptors than clients.           *)
EXTENDS Connections

MCSockets == {4, 5}
================================================================================
