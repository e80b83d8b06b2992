----------------------------- MODULE MCServers ------------------------------
(* A small instance of Servers, with the TCP connections of MCTcpProxy. *)
EXTENDS Servers, MCTcpProxy
=============================================================================
