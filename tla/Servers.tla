------------------------------ MODULE Servers -------------------------------
(***************************************************************************)
(* What lasts longer than a request: the sessions of messages (Sessions),  *)
(* the TCP relay (TcpProxy) and the end of the whole process (Shutdown,    *)
(* which has its own, coarser view of the connections).  The three share   *)
(* no state, so a behaviour follows one of them.                           *)
(***************************************************************************)
EXTENDS Sessions, TcpProxy, Shutdown

VARIABLE part   \* which one

sessionVars == <<protocol, vars, wsVars>>
allVars == <<part, sessionVars, tcpVars, procVars>>

ServersInit ==
  /\ part \in {"sessions", "tcp", "shutdown"}
  /\ Start /\ TcpInit /\ ShutdownInit
  /\ part # "sessions" => protocol = "grpc"

ServersNext ==
  \/ part = "sessions" /\ Relay /\ UNCHANGED <<part, tcpVars, procVars>>
  \/ part = "tcp" /\ TcpNext /\ UNCHANGED <<part, sessionVars, procVars>>
  \/ part = "shutdown" /\ ShutdownNext /\ UNCHANGED <<part, sessionVars, tcpVars>>

\* None of the others is asked for a step: their steps are not enabled in their
\* initial states.
ServersSpec ==
  /\ ServersInit /\ [][ServersNext]_allVars
  /\ Fairness /\ Ws!Fairness /\ TcpFairness /\ ShutdownFairness
=============================================================================
