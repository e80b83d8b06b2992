------------------------------ MODULE Sessions ------------------------------
(***************************************************************************)
(* The proxy's long-lived sessions of messages: gRPC calls (GrpcProxy) on  *)
(* one port, WebSocket sessions (WebSocketProxy) on the other, which       *)
(* cmd/da-proxy/main.go tells from plain requests by their Upgrade header. *)
(* The two share nothing but the router, so a behaviour is one of either.  *)
(***************************************************************************)
EXTENDS GrpcProxy

CONSTANT MaxLost   \* bound on lost WebSocket peers

ASSUME SessionAssumption == MaxLost \in Nat

VARIABLES
  protocol,  \* "grpc" or "websocket"
  ws, pump, wsSent, moved, left, quit, told, lost

wsVars == <<ws, pump, wsSent, moved, left, quit, told, lost>>

Ws == INSTANCE WebSocketProxy WITH sent <- wsSent

Start == protocol \in {"grpc", "websocket"} /\ Init /\ Ws!Init

Relay ==
  \/ protocol = "grpc" /\ Next /\ UNCHANGED <<protocol, wsVars>>
  \/ protocol = "websocket" /\ Ws!Next /\ UNCHANGED <<protocol, vars>>

Relaying == Start /\ [][Relay]_<<protocol, vars, wsVars>> /\ Fairness /\ Ws!Fairness

-----------------------------------------------------------------------------
\* A WebSocket peer that does not end the session itself gets all that the
\* other one sent (see WebSocketProxy).
LosesNothing == Ws!LosesNothing

\* A WebSocket session of which one pump has ended comes to its end (see
\* WebSocketProxy).
SessionEnds == Ws!SessionEnds
=============================================================================
