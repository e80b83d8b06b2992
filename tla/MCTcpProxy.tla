----------------------------- MODULE MCTcpProxy -----------------------------
(* A small instance of TcpProxy. *)
EXTENDS TcpProxy

\* One of the connections has data to send.
OneTalks == [c \in Conn |-> IF c = "c1" THEN 1 ELSE 0]
=============================================================================
