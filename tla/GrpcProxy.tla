----------------------------- MODULE GrpcProxy ------------------------------
(***************************************************************************)
(* The transparent gRPC proxy (internal/proxy/grpc_proxy.go).  The handler *)
(* of a call opens a stream to the backend, forwards the client's messages *)
(* in a goroutine of its own (c2b) and the backend's messages itself       *)
(* (b2c).  When the backend's side has ended it cancels the backend stream *)
(* and waits for c2b, for at most 5 seconds; the client's side of the call *)
(* is closed only by its return.                                           *)
(*                                                                         *)
(* Clients and backends are external.  Messages are counted, not told      *)
(* apart.  The call ends with "ok" or with the error of the backend        *)
(* ("error"), of a lost connection ("lost"), of a client that has left     *)
(* ("cancelled"), of NewStream ("unavailable") or with the io.EOF that     *)
(* SendMsg returns on a stream that is over ("eof").                       *)
(***************************************************************************)
EXTENDS Integers

CONSTANTS
  Call,      \* calls, one handler each
  MaxMsgs,   \* bound on the messages a peer sends in one call
  MaxFaults  \* bound on lost connections, failed dials and clients that leave

ASSUME GrpcAssumption == MaxMsgs \in Nat /\ MaxFaults \in Nat

VARIABLES
  pc,        \* the handler: "new", "dial", "b2c", "wait", "done"
  c2b,       \* its goroutine: "off", "recv", "send", and what is in c2bDone
             \* once it has ended: "nil", "eof", "cancelled"
  b2c,       \* the handler's own loop: "recv", "send"
  b2cErr,    \* what that loop returned
  client,    \* "open", "half" (closed its sending side), "gone"
  backend,   \* how the backend ended the call: "none", "ok", "error", "lost"
  sent,      \* messages the client and the backend have sent
  got,       \* those of them that were forwarded
  stalled,   \* calls whose client does not read now, so that SendMsg blocks
  ret,       \* the status that the client gets
  recorded,  \* calls whose latency the balancer was told
  stop,      \* GracefulStop: "no", "waiting", "returned"
  faults

peerVars == <<client, backend, sent>>
vars == <<pc, c2b, b2c, b2cErr, client, backend, sent, got, stalled, ret,
          recorded, stop, faults>>

Side  == {"client", "backend"}
Error == {"error", "lost", "cancelled", "unavailable", "eof"}
C2bEnded(c) == c2b[c] \in {"nil", "eof", "cancelled"}

Init ==
  /\ pc = [c \in Call |-> "new"] /\ c2b = [c \in Call |-> "off"]
  /\ b2c = [c \in Call |-> "recv"] /\ b2cErr = [c \in Call |-> "nil"]
  /\ client = [c \in Call |-> "open"] /\ backend = [c \in Call |-> "none"]
  /\ sent = [c \in Call |-> [s \in Side |-> 0]]
  /\ got = [c \in Call |-> [s \in Side |-> 0]]
  /\ ret = [c \in Call |-> "none"]
  /\ stalled = {} /\ recorded = {} /\ stop = "no" /\ faults = 0

Goto(c, l) == pc' = [pc EXCEPT ![c] = l]

-----------------------------------------------------------------------------
(* The peers.                                                              *)

Calling(c) == pc[c] \in {"dial", "b2c", "wait"} /\ client[c] # "gone"
Serving(c) == pc[c] = "b2c" /\ backend[c] = "none"

ClientSend(c) ==
  /\ Calling(c) /\ client[c] = "open" /\ sent[c]["client"] < MaxMsgs
  /\ sent' = [sent EXCEPT ![c]["client"] = @ + 1]
  /\ UNCHANGED <<pc, c2b, b2c, b2cErr, client, backend, got, stalled, ret,
                 recorded, stop, faults>>

ClientHalfClose(c) ==
  /\ Calling(c) /\ client[c] = "open"
  /\ client' = [client EXCEPT ![c] = "half"]
  /\ UNCHANGED <<pc, c2b, b2c, b2cErr, backend, sent, got, stalled, ret,
                 recorded, stop, faults>>

\* The client cancels the call or is lost.
ClientLeave(c) ==
  /\ Calling(c) /\ faults < MaxFaults
  /\ faults' = faults + 1
  /\ client' = [client EXCEPT ![c] = "gone"]
  /\ UNCHANGED <<pc, c2b, b2c, b2cErr, backend, sent, got, stalled, ret,
                 recorded, stop>>

\* The client stops reading, until the flow control holds up the proxy, or
\* reads again.
ClientStall(c) ==
  /\ Calling(c)
  /\ stalled' = IF c \in stalled THEN stalled \ {c} ELSE stalled \cup {c}
  /\ UNCHANGED <<pc, c2b, b2c, b2cErr, peerVars, got, ret, recorded, stop, faults>>

BackendSend(c) ==
  /\ Serving(c) /\ sent[c]["backend"] < MaxMsgs
  /\ sent' = [sent EXCEPT ![c]["backend"] = @ + 1]
  /\ UNCHANGED <<pc, c2b, b2c, b2cErr, client, backend, got, stalled, ret,
                 recorded, stop, faults>>

\* The backend ends the call, possibly before it has read every message.
BackendEnd(c, s) ==
  /\ Serving(c)
  /\ backend' = [backend EXCEPT ![c] = s]
  /\ UNCHANGED <<pc, c2b, b2c, b2cErr, client, sent, got, stalled, ret,
                 recorded, stop, faults>>

\* The connection to the backend breaks.
BackendLost(c) ==
  /\ Serving(c) /\ faults < MaxFaults
  /\ faults' = faults + 1
  /\ backend' = [backend EXCEPT ![c] = "lost"]
  /\ UNCHANGED <<pc, c2b, b2c, b2cErr, client, sent, got, stalled, ret,
                 recorded, stop>>

-----------------------------------------------------------------------------
(* streamHandler up to the forwarding.                                     *)

\* The server hands a new call to streamHandler, which picks an endpoint.
\* There is one: main starts the proxy only if endpoints are configured.
Open(c) ==
  /\ pc[c] = "new" /\ stop = "no"
  /\ Goto(c, "dial")
  /\ UNCHANGED <<c2b, b2c, b2cErr, peerVars, got, stalled, ret, recorded,
                 stop, faults>>

NewStream(c) ==
  /\ pc[c] = "dial"
  /\ Goto(c, "b2c")
  /\ c2b' = [c2b EXCEPT ![c] = "recv"]
  /\ UNCHANGED <<b2c, b2cErr, peerVars, got, stalled, ret, recorded, stop,
                 faults>>

\* NewStream fails, as it does at once when the client has left; no latency
\* is recorded.
NewStreamFail(c) ==
  /\ pc[c] = "dial"
  /\ \/ client[c] = "gone" /\ UNCHANGED faults
     \/ faults < MaxFaults /\ faults' = faults + 1
  /\ Goto(c, "done")
  /\ ret' = [ret EXCEPT ![c] = "unavailable"]
  /\ UNCHANGED <<c2b, b2c, b2cErr, peerVars, got, stalled, recorded, stop>>

-----------------------------------------------------------------------------
(* forwardClientToBackend.                                                 *)

c2bUnchanged == <<pc, b2c, b2cErr, peerVars, stalled, ret, recorded, stop, faults>>

\* RecvMsg returns a message.
C2bRecv(c) ==
  /\ c2b[c] = "recv" /\ got[c]["client"] < sent[c]["client"]
  /\ c2b' = [c2b EXCEPT ![c] = "send"]
  /\ UNCHANGED <<c2bUnchanged, got>>

\* RecvMsg returns io.EOF after the client's last message: CloseSend, after
\* which the backend ends the call when it likes, as it may before.
C2bEof(c) ==
  /\ c2b[c] = "recv" /\ client[c] = "half"
  /\ got[c]["client"] = sent[c]["client"]
  /\ c2b' = [c2b EXCEPT ![c] = "nil"]
  /\ UNCHANGED <<c2bUnchanged, got>>

\* RecvMsg fails because the client has left or the handler has returned:
\* CloseSend here, too, on a stream that is cancelled at the same time.
C2bRecvError(c) ==
  /\ c2b[c] = "recv" /\ (client[c] = "gone" \/ pc[c] = "done")
  /\ c2b' = [c2b EXCEPT ![c] = "cancelled"]
  /\ UNCHANGED <<c2bUnchanged, got>>

\* SendMsg succeeds: as far as the proxy knows the stream is still open.
C2bSend(c) ==
  /\ c2b[c] = "send" /\ pc[c] = "b2c"
  /\ c2b' = [c2b EXCEPT ![c] = "recv"]
  /\ got' = [got EXCEPT ![c]["client"] = @ + 1]
  /\ UNCHANGED c2bUnchanged

\* SendMsg fails with io.EOF: the backend has ended the call, or the stream
\* is broken or cancelled.
C2bSendError(c) ==
  /\ c2b[c] = "send"
  /\ pc[c] # "b2c" \/ backend[c] # "none" \/ client[c] = "gone"
  /\ c2b' = [c2b EXCEPT ![c] = "eof"]
  /\ UNCHANGED <<c2bUnchanged, got>>

-----------------------------------------------------------------------------
(* forwardBackendToClient and the end of streamHandler.                    *)

B2cRecv(c) ==
  /\ pc[c] = "b2c" /\ b2c[c] = "recv" /\ got[c]["backend"] < sent[c]["backend"]
  /\ b2c' = [b2c EXCEPT ![c] = "send"]
  /\ UNCHANGED <<pc, c2b, b2cErr, peerVars, got, stalled, ret, recorded, stop,
                 faults>>

\* SendMsg to a client that reads; it blocks while the client does not.
B2cSend(c) ==
  /\ pc[c] = "b2c" /\ b2c[c] = "send" /\ c \notin stalled
  /\ b2c' = [b2c EXCEPT ![c] = "recv"]
  /\ got' = [got EXCEPT ![c]["backend"] = @ + 1]
  /\ UNCHANGED <<pc, c2b, b2cErr, peerVars, stalled, ret, recorded, stop,
                 faults>>

\* The loop is over: err is what it returns, and cancel ends the stream.
B2cReturn(c, err) ==
  /\ Goto(c, "wait")
  /\ b2cErr' = [b2cErr EXCEPT ![c] = err]
  /\ UNCHANGED <<c2b, b2c, peerVars, got, stalled, ret, recorded, stop, faults>>

\* RecvMsg returns the status that the backend ended the call with, after
\* its last message.
B2cEnd(c) ==
  /\ pc[c] = "b2c" /\ b2c[c] = "recv" /\ backend[c] \in {"ok", "error"}
  /\ got[c]["backend"] = sent[c]["backend"]
  /\ B2cReturn(c, IF backend[c] = "ok" THEN "nil" ELSE "error")

\* RecvMsg or SendMsg fails: the backend is lost, or the client has left.
B2cError(c) ==
  /\ pc[c] = "b2c"
  /\ \/ b2c[c] = "recv" /\ backend[c] = "lost" /\ B2cReturn(c, "lost")
     \/ client[c] = "gone" /\ B2cReturn(c, "cancelled")

\* Mutant of Return: the error of c2b is preferred.
ReturnC2bFirst(c, c2bErr) ==
  /\ Goto(c, "done")
  /\ ret' = [ret EXCEPT ![c] = IF c2bErr # "nil" THEN c2bErr
                               ELSE IF b2cErr[c] # "nil" THEN b2cErr[c] ELSE "ok"]
  /\ recorded' = recorded \cup {c}
  /\ UNCHANGED <<c2b, b2c, b2cErr, peerVars, got, stalled, stop, faults>>

\* The rest of streamHandler: prefer the backend's error, record the latency,
\* log the call and return.
Return(c, c2bErr) ==
  /\ Goto(c, "done")
  /\ ret' = [ret EXCEPT ![c] = IF b2cErr[c] # "nil" THEN b2cErr[c]
                               ELSE IF c2bErr # "nil" THEN c2bErr ELSE "ok"]
  /\ recorded' = recorded \cup {c}
  /\ UNCHANGED <<c2b, b2c, b2cErr, peerVars, got, stalled, stop, faults>>

\* The wait for c2b ends with its result ...
WaitC2b(c) ==
  /\ pc[c] = "wait" /\ C2bEnded(c)
  /\ Return(c, c2b[c])

\* Mutant of WaitTimeout: there is no timer.
WaitForever(c) == FALSE /\ UNCHANGED vars

\* ... or after 5 seconds, which only a c2b that waits for the client takes:
\* every other step of it is a short one.
WaitTimeout(c) ==
  /\ pc[c] = "wait" /\ c2b[c] = "recv" /\ client[c] = "open"
  /\ got[c]["client"] = sent[c]["client"]
  /\ Return(c, "nil")

-----------------------------------------------------------------------------
\* GracefulStop takes no new calls and waits for the handlers.
GracefulStop ==
  /\ stop = "no"
  /\ stop' = "waiting"
  /\ UNCHANGED <<pc, c2b, b2c, b2cErr, peerVars, got, stalled, ret, recorded,
                 faults>>

StopReturn ==
  /\ stop = "waiting" /\ \A c \in Call : pc[c] \in {"new", "done"}
  /\ stop' = "returned"
  /\ UNCHANGED <<pc, c2b, b2c, b2cErr, peerVars, got, stalled, ret, recorded,
                 faults>>

C2bStep(c) == C2bRecv(c) \/ C2bEof(c) \/ C2bRecvError(c) \/ C2bSendError(c)
C2b(c) == C2bStep(c) \/ C2bSend(c)
Handler(c) == \/ NewStream(c) \/ NewStreamFail(c) \/ B2cRecv(c) \/ B2cSend(c)
              \/ B2cEnd(c) \/ B2cError(c) \/ WaitC2b(c) \/ WaitTimeout(c)
Peer(c) == \/ ClientSend(c) \/ ClientHalfClose(c) \/ ClientLeave(c) \/ ClientStall(c)
           \/ BackendSend(c) \/ \E s \in {"ok", "error"} : BackendEnd(c, s)
           \/ BackendLost(c)

Next == \/ \E c \in Call : Open(c) \/ Handler(c) \/ C2b(c) \/ Peer(c)
        \/ GracefulStop \/ StopReturn

\* The goroutines run and the timer fires.  Nothing is assumed of the peers: a
\* client that stays need not read (stalled), and a backend need not either, so
\* that C2bSend need not happen.
Fairness == /\ \A c \in Call : WF_vars(Handler(c)) /\ WF_vars(C2bStep(c))
            /\ WF_vars(StopReturn)

Spec == Init /\ [][Next]_vars /\ Fairness

-----------------------------------------------------------------------------
\* A client is told that its call succeeded only if the backend said so and
\* every message of the backend was forwarded first, and an error that the
\* backend returned is the one the client gets, whatever c2b met meanwhile.
\* (Not the converse: a backend that ends a call well while c2b sends to it
\* leaves the client with the io.EOF of that SendMsg.)
OutcomeIsTrue ==
  \A c \in Call :
    pc[c] = "done" =>
      /\ ret[c] = "ok" => backend[c] = "ok" /\ got[c]["backend"] = sent[c]["backend"]
      /\ backend[c] = "error" /\ client[c] # "gone" => ret[c] = "error"

\* The handler of c is held up by a client that does not read.
HeldUp(c) == pc[c] = "b2c" /\ b2c[c] = "send" /\ c \in stalled /\ client[c] # "gone"

\* When its client has left a call, the handler returns and its goroutine ends,
\* though each of them may be waiting for the other; when the backend has ended
\* the call, they do unless a client that stays holds the handler up for ever or
\* again and again, against which there is no deadline; and GracefulStop returns
\* once all calls have come so far.
CallsEnd ==
  /\ \A c \in Call :
       /\ (pc[c] = "b2c" /\ client[c] = "gone") ~> (pc[c] = "done" /\ C2bEnded(c))
       /\ \/ []<>HeldUp(c)
          \/ (pc[c] = "b2c" /\ backend[c] # "none") ~> (pc[c] = "done" /\ C2bEnded(c))
  /\ \/ []<>(\E c \in Call : HeldUp(c))
     \/ (/\ stop = "waiting"
         /\ \A c \in Call : \/ pc[c] \in {"new", "done"} \/ client[c] = "gone"
                            \/ backend[c] # "none")
          ~> stop = "returned"

\* What the comments of streamHandler say: it returns immediately when the
\* backend's side is finished (grpc_proxy.go:163), and of the 5 seconds (:195)
\* "Safety timeout - should not happen in practice".  It happens whenever the
\* backend ends a call whose client waits for that end before it closes its own
\* side: c2b is then woken only by the return of the handler that waits for it.
TimeoutNeverFires == [][\A c \in Call : ~WaitTimeout(c)]_vars
=============================================================================
