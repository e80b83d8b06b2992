------------------------------ MODULE Shutdown ------------------------------
(***************************************************************************)
(* The end of the process (cmd/da-proxy/main.go).  After a signal, main    *)
(* stops its servers one after the other, within 30 seconds that only the  *)
(* HTTP servers know of, then runs its deferred calls, among them the      *)
(* Close of the log store, and exits.  Meanwhile requests, calls and       *)
(* connections go on, begin and end, and each ends with a push into the    *)
(* log store.  A WebSocket session is a request to the proxy server until  *)
(* it is upgraded; then its connection is hijacked and no server waits for *)
(* it.                                                                     *)
(*                                                                         *)
(* gRPC and TCP proxies are both configured.  What goes on inside a call,  *)
(* a connection, a session or the log store is in GrpcProxy, TcpProxy,     *)
(* WebSocketProxy and BatchWriter.                                         *)
(***************************************************************************)
EXTENDS Integers, Sequences

CONSTANTS
  Http,       \* requests to the proxy server
  WsSession,  \* WebSocket sessions
  Grpc,       \* gRPC calls
  Tcp,        \* TCP connections
  Stream      \* event streams of the admin server

\* An activity is of one kind.
ASSUME KindsAssumption ==
  /\ (Http \cup WsSession) \cap (Grpc \cup Tcp \cup Stream) = {} /\ Http \cap WsSession = {}
  /\ Grpc \cap (Tcp \cup Stream) = {} /\ Tcp \cap Stream = {}

VARIABLES
  main,      \* what main does, or is about to do: a step of Order
  late,      \* the step during which the 30 seconds ran out, or "no"
  grpc,      \* grpcProxy.Serve: "start", "serving"
  tcp,       \* tcpProxy.Serve: "start", "serving", or "late", begun after Close
  work,      \* per activity: "idle", "accepted" (TCP only), "active",
             \* "hijacked" (WebSocket only), "ended"
  strays,    \* TCP connections that began after Close had returned
  sink,      \* the log store's channel: "open", "closing", "closed"
  panicked,  \* activities that pushed into the closed channel
  aborted    \* the process ended in logger.Fatal or in a panic

procVars == <<main, late, grpc, tcp, work, strays, sink, panicked, aborted>>

Work == Http \cup WsSession \cup Grpc \cup Tcp \cup Stream

\* "run" waits for the signal; "drain" is wg.Wait in the Close of the TCP proxy,
\* skipped if there is nobody to wait for; "cache" to "sleep" are the deferred
\* calls that matter here; closing Redis, the token store and tracing follow.
Order ==
  <<"run", "grpc", "tcp", "drain", "proxy", "admin", "metrics", "cache", "sink", "sleep",
    "exited">>

Place(l) == CHOOSE k \in DOMAIN Order : Order[k] = l
Step(l) == main = l /\ main' = Order[Place(l) + 1]
Before(l) == Place(main) < Place(l)
Alive == main # "exited"

ShutdownInit ==
  /\ main = "run" /\ late = "no" /\ grpc = "start" /\ tcp = "start"
  /\ work = [w \in Work |-> "idle"] /\ strays = {}
  /\ sink = "open" /\ panicked = {} /\ aborted = FALSE

Active(K) == {w \in K : work[w] = "active"}

\* The requests that proxyServer knows of: a session counts until it is
\* hijacked.
HttpBusy == Active(Http \cup WsSession) # {}

-----------------------------------------------------------------------------
(* The servers' goroutines, and what they serve.                           *)

\* grpcProxy.Serve after GracefulStop is an error, and that error is fatal.
GrpcServe ==
  /\ Alive /\ grpc = "start"
  /\ IF main = "run"
       THEN grpc' = "serving" /\ UNCHANGED <<main, aborted>>
       ELSE main' = "exited" /\ aborted' = TRUE /\ UNCHANGED grpc
  /\ UNCHANGED <<late, tcp, work, strays, sink, panicked>>

\* tcpProxy.Serve after Close accepts as before it.
TcpServe ==
  /\ Alive /\ tcp = "start"
  /\ tcp' = IF main \in {"run", "grpc", "tcp"} THEN "serving" ELSE "late"
  /\ UNCHANGED <<main, late, grpc, work, strays, sink, panicked, aborted>>

Begin(w) ==
  /\ Alive /\ work[w] = "idle"
  /\ \/ w \in Http \cup WsSession /\ Before("proxy")
     \/ w \in Stream /\ Before("admin")
     \/ w \in Grpc /\ grpc = "serving" /\ main = "run"
  /\ work' = [work EXCEPT ![w] = "active"]
  /\ UNCHANGED <<main, late, grpc, tcp, strays, sink, panicked, aborted>>

\* Accept returns a connection ...
TcpAccept(w) ==
  /\ Alive /\ work[w] = "idle"
  /\ \/ tcp = "serving" /\ Before("drain")
     \/ tcp = "late"
  /\ work' = [work EXCEPT ![w] = "accepted"]
  /\ UNCHANGED <<main, late, grpc, tcp, strays, sink, panicked, aborted>>

\* ... and the wait group comes to count it, which panics if Close has just been
\* woken there (see TcpProxy).
TcpSpawn(w) ==
  /\ Alive /\ work[w] = "accepted"
  /\ work' = [work EXCEPT ![w] = "active"]
  /\ strays' = IF Before("proxy") THEN strays ELSE strays \cup {w}
  /\ \/ UNCHANGED <<main, aborted>>
     \/ main = "drain" /\ Active(Tcp) = {} /\ main' = "exited" /\ aborted' = TRUE
  /\ UNCHANGED <<late, grpc, tcp, sink, panicked>>

\* A session is upgraded.
Hijack(w) ==
  /\ Alive /\ work[w] = "active"
  /\ work' = [work EXCEPT ![w] = "hijacked"]
  /\ UNCHANGED <<main, late, grpc, tcp, strays, sink, panicked, aborted>>

\* w pushes its entry.  net/http recovers a panic of an HTTP handler, and
\* nobody one of a TCP connection or a gRPC call.
Push(w) ==
  IF sink = "closed"
    THEN /\ panicked' = panicked \cup {w}
         /\ IF w \in Grpc \cup Tcp THEN main' = "exited" /\ aborted' = TRUE
                                   ELSE UNCHANGED <<main, aborted>>
    ELSE UNCHANGED <<panicked, main, aborted>>

\* An activity ends; a stream of the admin server is not logged.
Finish(w) ==
  /\ Alive /\ work[w] \in {"active", "hijacked"}
  /\ work' = [work EXCEPT ![w] = "ended"]
  /\ IF w \in Stream THEN UNCHANGED <<panicked, main, aborted>> ELSE Push(w)
  /\ UNCHANGED <<late, grpc, tcp, strays, sink>>

-----------------------------------------------------------------------------
(* main.                                                                   *)

\* SIGINT or SIGTERM: the 30 seconds begin, and the health checker is told.
Signal ==
  /\ Step("run")
  /\ UNCHANGED <<late, grpc, tcp, work, strays, sink, panicked, aborted>>

\* The steps that take their time are those at which main waits for somebody.
Waiting ==
  \/ main = "grpc" /\ Active(Grpc) # {}
  \/ main = "drain" /\ Active(Tcp) # {}
  \/ main = "proxy" /\ HttpBusy
  \/ main = "admin" /\ Active(Stream) # {}

Expire ==
  /\ Waiting /\ late = "no"
  /\ late' = main
  /\ UNCHANGED <<main, grpc, tcp, work, strays, sink, panicked, aborted>>

\* GracefulStop and the Close of the TCP proxy do not look at the clock.
GrpcStop ==
  /\ Step("grpc") /\ Active(Grpc) = {}
  /\ UNCHANGED <<late, grpc, tcp, work, strays, sink, panicked, aborted>>

TcpClose ==
  /\ main = "tcp" /\ main' = IF Active(Tcp) = {} THEN "proxy" ELSE "drain"
  /\ UNCHANGED <<late, grpc, tcp, work, strays, sink, panicked, aborted>>

TcpDrained ==
  /\ Step("drain") /\ Active(Tcp) = {}
  /\ UNCHANGED <<late, grpc, tcp, work, strays, sink, panicked, aborted>>

\* Mutant of ProxyShutdown: the server is closed and not shut down.
ProxyClose ==
  /\ Step("proxy")
  /\ UNCHANGED <<late, grpc, tcp, work, strays, sink, panicked, aborted>>

\* Mutant of ProxyShutdown: with a context that never ends.
ProxyShutdownNoLimit ==
  /\ Step("proxy") /\ ~HttpBusy
  /\ UNCHANGED <<late, grpc, tcp, work, strays, sink, panicked, aborted>>

ProxyShutdown ==
  /\ Step("proxy") /\ (HttpBusy => late # "no")
  /\ UNCHANGED <<late, grpc, tcp, work, strays, sink, panicked, aborted>>

AdminShutdown ==
  /\ Step("admin") /\ (Active(Stream) # {} => late # "no")
  /\ UNCHANGED <<late, grpc, tcp, work, strays, sink, panicked, aborted>>

\* The metrics server's Shutdown, and of the deferred calls the Close of the
\* response cache.
Deferred ==
  /\ Step("metrics") \/ Step("cache")
  /\ UNCHANGED <<late, grpc, tcp, work, strays, sink, panicked, aborted>>

\* logStore.Close: tell the batch writer, which closes the channel, ...
SinkClose ==
  /\ Step("sink")
  /\ sink' = "closing"
  /\ UNCHANGED <<late, grpc, tcp, work, strays, panicked, aborted>>

ChannelClose ==
  /\ Alive /\ sink = "closing"
  /\ sink' = "closed"
  /\ UNCHANGED <<main, late, grpc, tcp, work, strays, panicked, aborted>>

\* ... and sleep 100 ms.  The process ends, whatever still runs.
Exit ==
  /\ Step("sleep")
  /\ UNCHANGED <<late, grpc, tcp, work, strays, sink, panicked, aborted>>

Main == \/ GrpcStop \/ TcpClose \/ TcpDrained \/ ProxyShutdown \/ AdminShutdown
        \/ Deferred \/ SinkClose \/ Exit

ShutdownNext ==
  \/ Signal \/ Expire \/ Main \/ ChannelClose \/ GrpcServe \/ TcpServe
  \/ \E w \in Work : Begin(w) \/ Finish(w)
  \/ \E w \in WsSession : Hijack(w)
  \/ \E w \in Tcp : TcpAccept(w) \/ TcpSpawn(w)

\* Goroutines run and time passes; gRPC calls and TCP connections end at
\* last, since their peers end them.  No other activity need end.
ShutdownFairness ==
  /\ WF_procVars(Main) /\ WF_procVars(Expire)
  /\ \A w \in Grpc \cup Tcp : WF_procVars(Finish(w))

ShutdownSpec == ShutdownInit /\ [][ShutdownNext]_procVars /\ ShutdownFairness

-----------------------------------------------------------------------------
\* The steps that share the 30 seconds with the wait for HTTP requests.
OwnTime == {"grpc", "drain", "proxy"}

\* What the README says (README.md:24): "Graceful shutdown with in-flight request
\* draining".  When proxyServer.Shutdown has returned, a request is still in
\* flight only if the time ran out while Shutdown waited for it.  The code does
\* not keep it: the 30 seconds begin before GracefulStop and the Close of the
\* TCP proxy, whose waits may use them up, and Shutdown then does not wait.
RequestsAreDrained == main = "admin" /\ HttpBusy => late = "proxy"

\* Whoever pushes into the closed channel of the log store is a WebSocket
\* session, a request that had outlived the 30 seconds or a TCP connection that
\* Close did not see; never a gRPC call, whose panic would take the process
\* down.
PushesAreInTime ==
  /\ panicked \cap Grpc = {} /\ panicked \cap Tcp \subseteq strays
  /\ panicked \cap Http # {} => late \in OwnTime

\* The process ends after the signal, though HTTP requests, event streams and
\* WebSocket sessions need not end; that gRPC calls and TCP connections end is
\* assumed, since main waits for them without limit.
ShutdownEnds == main = "grpc" ~> main = "exited"
=============================================================================
