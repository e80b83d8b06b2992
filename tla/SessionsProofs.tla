--------------------------- MODULE SessionsProofs ---------------------------
(***************************************************************************)
(* What the relays of gRPC calls and WebSocket sessions promise about      *)
(* messages and outcomes, for any number of calls and messages:            *)
(* OutcomeIsTrue and LosesNothing; and CallsWindDown: the two goroutines   *)
(* of a gRPC call do not wait for each other for ever.                     *)
(***************************************************************************)
EXTENDS Sessions, TLAPS

\* gRPC calls.
CallTypes ==
  /\ pc \in [Call -> {"new", "dial", "b2c", "wait", "done"}]
  /\ c2b \in [Call -> {"off", "recv", "send", "nil", "eof", "cancelled"}]
  /\ b2c \in [Call -> {"recv", "send"}]
  /\ b2cErr \in [Call -> {"nil", "error", "lost", "cancelled"}]
  /\ client \in [Call -> {"open", "half", "gone"}]
  /\ backend \in [Call -> {"none", "ok", "error", "lost"}]
  /\ sent \in [Call -> [Side -> Nat]] /\ got \in [Call -> [Side -> Nat]]
  /\ ret \in [Call -> {"none", "ok"} \cup Error]

\* The handler's own loop has returned what the backend's end calls for.
Settled(c) ==
  /\ b2cErr[c] = "nil" => backend[c] = "ok" /\ got[c]["backend"] = sent[c]["backend"]
  /\ backend[c] = "error" /\ client[c] # "gone" => b2cErr[c] = "error"

CallInv(c) ==
  /\ pc[c] \in {"new", "dial"} => c2b[c] = "off" /\ backend[c] = "none"
  /\ pc[c] = "wait" => Settled(c)
  /\ pc[c] = "done" =>
       /\ ret[c] = "ok" => backend[c] = "ok" /\ got[c]["backend"] = sent[c]["backend"]
       /\ backend[c] = "error" /\ client[c] # "gone" => ret[c] = "error"

GrpcInv == CallTypes /\ \A c \in Call : CallInv(c)

\* A WebSocket session.
WsTypes ==
  /\ ws \in {"new", "dial", "upgrade", "open", "done", "refused"}
  /\ pump \in [Ws!Peer -> {"off", "read", "write", "tell", "end"}]
  /\ wsSent \in [Ws!Peer -> Nat] /\ moved \in [Ws!Peer -> Nat]
  /\ left \subseteq Ws!Peer /\ quit \subseteq Ws!Peer /\ told \subseteq Ws!Peer
  /\ lost \subseteq Ws!Peer

\* Peer s has closed after its last message, and that message was written.
Through(s) == s \in left /\ moved[s] = wsSent[s]

\* Who has closed did so by itself or was told to; a pump passes the end on
\* only after the last message; and it ends only when the other side has been
\* told, unless a connection broke.
PumpInv ==
  /\ left \subseteq quit \cup told
  /\ ws = "done" => \A s \in Ws!Peer : pump[s] = "end"
  /\ \A s \in Ws!Peer :
       lost = {} =>
         /\ pump[s] = "tell" => Through(s)
         /\ pump[s] = "end" => Ws!Other(s) \in told
         /\ Ws!Other(s) \in told \ quit => Through(s)

WsInv == WsTypes /\ PumpInv

IInv == GrpcInv /\ WsInv

-----------------------------------------------------------------------------
(* gRPC calls.                                                             *)

\* A call that a step does not touch keeps its invariant.
LEMMA CallStays ==
  ASSUME NEW c \in Call, CallInv(c),
         /\ pc'[c] = pc[c] /\ c2b'[c] = c2b[c] /\ b2cErr'[c] = b2cErr[c]
         /\ client'[c] = client[c] /\ backend'[c] = backend[c]
         /\ sent'[c] = sent[c] /\ got'[c] = got[c]
         /\ ret'[c] = ret[c]
  PROVE  CallInv(c)'
BY DEF CallInv, Settled

\* Counting one more message of one side.
LEMMA Counts ==
  ASSUME NEW f \in [Call -> [Side -> Nat]], NEW c \in Call, NEW s \in Side, NEW g,
         g = [f EXCEPT ![c][s] = @ + 1]
  PROVE  /\ g \in [Call -> [Side -> Nat]]
         /\ \A d \in Call : d # c => g[d] = f[d]
         /\ \A t \in Side : t # s => g[c][t] = f[c][t]
<1>1. [f[c] EXCEPT ![s] = @ + 1] \in [Side -> Nat]
  OBVIOUS
<1>2. g = [f EXCEPT ![c] = [f[c] EXCEPT ![s] = @ + 1]]
  OBVIOUS
<1> QED  BY <1>1, <1>2

\* The peers: nothing that a peer does after it has ended its side counts.
LEMMA PeerKeeps ==
  ASSUME GrpcInv, NEW c \in Call, Peer(c)
  PROVE  GrpcInv'
<1> USE DEF GrpcInv
<1>1. CallTypes'
  <2>1. CASE ClientSend(c) \/ BackendSend(c)
    <3>1. PICK s \in Side : sent' = [sent EXCEPT ![c][s] = @ + 1]
      BY <2>1 DEF ClientSend, BackendSend, Side
    <3>2. sent' \in [Call -> [Side -> Nat]]
      BY <3>1, Counts DEF CallTypes
    <3> QED  BY <2>1, <3>2 DEF CallTypes, ClientSend, BackendSend
  <2>2. CASE ClientHalfClose(c) \/ ClientLeave(c) \/ ClientStall(c)
    BY <2>2 DEF CallTypes, ClientHalfClose, ClientLeave, ClientStall, peerVars
  <2>3. CASE BackendLost(c) \/ \E s \in {"ok", "error"} : BackendEnd(c, s)
    <3>1. PICK s \in {"ok", "error", "lost"} : backend' = [backend EXCEPT ![c] = s]
      BY <2>3 DEF BackendLost, BackendEnd
    <3>2. backend' \in [Call -> {"none", "ok", "error", "lost"}]
      BY <3>1 DEF CallTypes
    <3> QED  BY <2>3, <3>2 DEF CallTypes, BackendLost, BackendEnd
  <2> QED  BY <2>1, <2>2, <2>3 DEF Peer
<1>2. ASSUME NEW d \in Call, d # c
      PROVE  CallInv(d)'
  <2>1. /\ client'[d] = client[d] /\ backend'[d] = backend[d] /\ sent'[d] = sent[d]
        /\ UNCHANGED <<pc, c2b, b2cErr, got, ret>>
    BY <1>2 DEF CallTypes, Peer, ClientSend, BackendSend, ClientHalfClose, ClientLeave,
                ClientStall, BackendLost, BackendEnd, peerVars
  <2> QED  BY <2>1, CallStays
<1>3. CallInv(c)'
  <2>1. CallInv(c) /\ UNCHANGED <<pc, c2b, b2cErr, got, ret>>
    BY DEF Peer, ClientSend, BackendSend, ClientHalfClose, ClientLeave, ClientStall,
       BackendLost, BackendEnd
  <2>2. CASE ClientSend(c)
    <3>1. /\ client[c] = "open" /\ client' = client /\ backend' = backend
          /\ sent'[c]["backend"] = sent[c]["backend"]
      BY <2>2 DEF ClientSend, CallTypes, Side
    <3> QED  BY <2>1, <3>1 DEF CallInv, C2bEnded, Settled
  <2>3. CASE ClientHalfClose(c) \/ ClientLeave(c)
    <3>1. /\ client'[c] \in {"half", "gone"} /\ UNCHANGED <<backend, sent>>
          /\ client'[c] = "half" => client[c] = "open"
          /\ client[c] # "gone"
      BY <2>3 DEF ClientHalfClose, ClientLeave, CallTypes, Calling
    <3> QED  BY <2>1, <3>1 DEF CallInv, C2bEnded, Settled
  <2>4. CASE BackendSend(c)
    <3>1. /\ pc[c] = "b2c" /\ client' = client /\ backend' = backend
          /\ sent'[c]["client"] = sent[c]["client"]
      BY <2>4 DEF BackendSend, Serving, CallTypes, Side
    <3> QED  BY <2>1, <3>1 DEF CallInv, C2bEnded
  <2>5. CASE BackendLost(c) \/ \E s \in {"ok", "error"} : BackendEnd(c, s)
    <3>1. pc[c] = "b2c" /\ client' = client /\ sent' = sent
      BY <2>5 DEF BackendLost, BackendEnd, Serving
    <3> QED  BY <2>1, <3>1 DEF CallInv, C2bEnded
  <2>6. CASE ClientStall(c)
    BY <2>1, <2>6 DEF ClientStall, peerVars, CallInv, Settled
  <2> QED  BY <2>2, <2>3, <2>4, <2>5, <2>6 DEF Peer
<1> QED  BY <1>1, <1>2, <1>3

\* forwardClientToBackend touches only what it forwards.
LEMMA C2bKeeps ==
  ASSUME GrpcInv, NEW c \in Call, C2b(c)
  PROVE  GrpcInv'
<1> USE DEF GrpcInv
<1>1. UNCHANGED <<pc, b2c, b2cErr, client, backend, sent, ret>> /\ CallInv(c)
  BY DEF C2b, C2bStep, C2bRecv, C2bEof, C2bRecvError, C2bSend, C2bSendError, c2bUnchanged,
         peerVars
<1>2. CallTypes'
  <2>1. CASE C2bStep(c)
    BY <1>1, <2>1 DEF CallTypes, C2bStep, C2bRecv, C2bEof, C2bRecvError, C2bSendError
  <2>2. CASE C2bSend(c)
    BY <1>1, <2>2 DEF CallTypes, C2bSend, Side
  <2> QED  BY <2>1, <2>2 DEF C2b
<1>3. ASSUME NEW d \in Call, d # c
      PROVE  CallInv(d)'
  <2>1. c2b'[d] = c2b[d] /\ got'[d] = got[d]
    BY <1>3 DEF CallTypes, C2b, C2bStep, C2bRecv, C2bEof, C2bRecvError, C2bSend,
                C2bSendError
  <2> QED  BY <1>1, <2>1, CallStays
<1>4. CallInv(c)'
  <2>1. pc[c] \notin {"new", "dial"}
    BY DEF C2b, C2bStep, C2bRecv, C2bEof, C2bRecvError, C2bSend, C2bSendError, CallInv
  <2>2. CASE C2bStep(c)
    <3>1. got' = got
      BY <2>2 DEF C2bStep, C2bRecv, C2bEof, C2bRecvError, C2bSendError
    <3> QED  BY <1>1, <2>1, <3>1 DEF CallInv, Settled
  <2>3. CASE C2bSend(c)
    <3>1. pc[c] = "b2c"
      BY <2>3 DEF C2bSend
    <3> QED  BY <1>1, <3>1 DEF CallInv
  <2> QED  BY <2>2, <2>3 DEF C2b
<1> QED  BY <1>2, <1>3, <1>4

\* streamHandler: the error it returns is the backend's, and it returns none
\* only when the backend has ended well and all its messages are through.
LEMMA HandlerKeeps ==
  ASSUME GrpcInv, NEW c \in Call, Open(c) \/ Handler(c)
  PROVE  GrpcInv'
<1> USE DEF GrpcInv
<1>1. UNCHANGED <<client, backend, sent>> /\ CallInv(c)
  BY DEF Open, Handler, NewStream, NewStreamFail, B2cRecv, B2cSend, B2cEnd, B2cError,
         B2cReturn, WaitC2b, WaitTimeout, Return, peerVars
<1>2. CASE Open(c) \/ NewStream(c)
  <2>1. /\ pc[c] \in {"new", "dial"} /\ UNCHANGED <<b2c, b2cErr, got, ret>>
        /\ pc' = [pc EXCEPT ![c] = IF pc[c] = "new" THEN "dial" ELSE "b2c"]
        /\ c2b' = [c2b EXCEPT ![c] = IF pc[c] = "new" THEN @ ELSE "recv"]
    BY <1>2 DEF Open, NewStream, Goto, CallTypes
  <2>2. CallTypes'
    BY <1>1, <2>1 DEF CallTypes
  <2>3. \A d \in Call : d # c => CallInv(d)'
    BY <1>1, <2>1, CallStays DEF CallTypes
  <2>4. CallInv(c)'
    BY <1>1, <2>1 DEF CallTypes, CallInv
  <2> QED  BY <2>2, <2>3, <2>4
<1>3. CASE NewStreamFail(c)
  <2>1. /\ pc[c] = "dial" /\ UNCHANGED <<c2b, b2c, b2cErr, got>>
        /\ pc' = [pc EXCEPT ![c] = "done"] /\ ret' = [ret EXCEPT ![c] = "unavailable"]
    BY <1>3 DEF NewStreamFail, Goto
  <2>2. CallTypes'
    BY <1>1, <2>1 DEF CallTypes, Error
  <2>3. \A d \in Call : d # c => CallInv(d)'
    BY <1>1, <2>1, CallStays DEF CallTypes
  <2>4. CallInv(c)'
    BY <1>1, <2>1 DEF CallTypes, CallInv
  <2> QED  BY <2>2, <2>3, <2>4
<1>4. CASE B2cRecv(c) \/ B2cSend(c)
  <2>1. /\ pc[c] = "b2c" /\ UNCHANGED <<pc, c2b, b2cErr, ret>>
        /\ b2c' \in [Call -> {"recv", "send"}] /\ got' \in [Call -> [Side -> Nat]]
        /\ got'[c]["client"] = got[c]["client"]
        /\ \A d \in Call : d # c => got'[d] = got[d]
    <3>1. CASE B2cRecv(c)
      BY <3>1 DEF B2cRecv, CallTypes
    <3>2. CASE B2cSend(c)
      <4>1. b2c' \in [Call -> {"recv", "send"}]
        BY <3>2 DEF B2cSend, CallTypes
      <4> QED  BY <3>2, <4>1, Counts DEF B2cSend, CallTypes, Side
    <3> QED  BY <1>4, <3>1, <3>2
  <2>2. CallTypes'
    BY <1>1, <2>1 DEF CallTypes
  <2>3. \A d \in Call : d # c => CallInv(d)'
    BY <1>1, <2>1, CallStays
  <2>4. CallInv(c)'
    BY <1>1, <2>1 DEF CallInv, C2bEnded
  <2> QED  BY <2>2, <2>3, <2>4
<1>5. CASE B2cEnd(c) \/ B2cError(c)
  <2>1. PICK err \in {"nil", "error", "lost", "cancelled"} :
          /\ B2cReturn(c, err) /\ pc[c] = "b2c"
          /\ err = "nil" => backend[c] = "ok" /\ got[c]["backend"] = sent[c]["backend"]
          /\ backend[c] = "error" /\ client[c] # "gone" => err = "error"
    <3>1. CASE B2cEnd(c)
      BY <3>1 DEF B2cEnd
    <3>2. CASE B2cError(c)
      BY <3>2 DEF B2cError
    <3> QED  BY <1>5, <3>1, <3>2
  <2>2. /\ pc' = [pc EXCEPT ![c] = "wait"] /\ b2cErr' = [b2cErr EXCEPT ![c] = err]
        /\ UNCHANGED <<c2b, b2c, got, ret>>
    BY <2>1 DEF B2cReturn, Goto
  <2>3. CallTypes'
    BY <1>1, <2>2 DEF CallTypes
  <2>4. \A d \in Call : d # c => CallInv(d)'
    BY <1>1, <2>2, CallStays DEF CallTypes
  <2>5. pc'[c] = "wait" /\ b2cErr'[c] = err
    BY <2>2 DEF CallTypes
  <2>6. CallInv(c)'
    BY <1>1, <2>1, <2>2, <2>5 DEF CallInv, Settled, C2bEnded
  <2> QED  BY <2>3, <2>4, <2>6
<1>6. CASE WaitC2b(c) \/ WaitTimeout(c)
  <2>1. PICK err \in {"nil", "eof", "cancelled"} : Return(c, err) /\ pc[c] = "wait"
    BY <1>6 DEF WaitC2b, WaitTimeout, C2bEnded
  <2> DEFINE r == IF b2cErr[c] # "nil" THEN b2cErr[c] ELSE IF err # "nil" THEN err ELSE "ok"
  <2>2. /\ pc' = [pc EXCEPT ![c] = "done"] /\ ret' = [ret EXCEPT ![c] = r]
        /\ UNCHANGED <<c2b, b2c, b2cErr, got>>
    BY <2>1 DEF Return, Goto
  <2>3. r \in {"ok"} \cup Error /\ (b2cErr[c] = "error" => r = "error")
        /\ (r = "ok" => b2cErr[c] = "nil")
    BY DEF CallTypes, Error
  <2> HIDE DEF r
  <2>4. CallTypes'
    BY <1>1, <2>2, <2>3 DEF CallTypes
  <2>5. \A d \in Call : d # c => CallInv(d)'
    BY <1>1, <2>2, CallStays DEF CallTypes
  <2>6. pc'[c] = "done" /\ ret'[c] = r
    BY <2>2 DEF CallTypes
  <2>7. CallInv(c)'
    BY <1>1, <2>1, <2>2, <2>3, <2>6 DEF CallInv, Settled, C2bEnded
  <2> QED  BY <2>4, <2>5, <2>7
<1> QED  BY <1>2, <1>3, <1>4, <1>5, <1>6 DEF Handler

\* Every step of the gRPC proxy keeps the invariant.
LEMMA GrpcNext ==
  ASSUME GrpcInv, Next \/ UNCHANGED vars
  PROVE  GrpcInv'
<1>1. CASE GracefulStop \/ StopReturn \/ UNCHANGED vars
  <2>1. UNCHANGED <<pc, c2b, b2c, b2cErr, client, backend, sent, got, ret>>
    BY <1>1 DEF GracefulStop, StopReturn, vars, peerVars
  <2>2. CallTypes'
    BY <2>1 DEF GrpcInv, CallTypes
  <2> QED  BY <2>1, <2>2, CallStays DEF GrpcInv
<1> QED  BY <1>1, PeerKeeps, C2bKeeps, HandlerKeeps DEF Next

-----------------------------------------------------------------------------
(* A WebSocket session.                                                    *)

\* There are two peers, and each is the other's other.
LEMMA PeerFacts ==
  /\ Ws!Peer = {"client", "backend"}
  /\ \A s \in Ws!Peer : Ws!Other(s) \in Ws!Peer /\ Ws!Other(s) # s
                        /\ Ws!Other(Ws!Other(s)) = s
BY DEF Ws!Peer, Ws!Other

\* The peers: who has closed sends nothing more.
LEMMA WsPeerKeeps ==
  ASSUME WsInv, NEW s \in Ws!Peer,
         Ws!Send(s) \/ Ws!Leave(s) \/ Ws!Answer(s) \/ Ws!Lose(s)
  PROVE  WsInv'
<1> USE DEF WsInv
<1>1. UNCHANGED <<ws, pump, moved, told>> /\ ws # "done"
  BY DEF Ws!Send, Ws!Leave, Ws!Answer, Ws!Lose, Ws!Connected
<1>2. WsTypes'
  BY <1>1 DEF WsTypes, Ws!Send, Ws!Leave, Ws!Answer, Ws!Lose
<1>3. PumpInv'
  <2>1. CASE Ws!Send(s)
    <3>1. s \notin left /\ UNCHANGED <<left, quit, lost>>
      BY <2>1 DEF Ws!Send, Ws!Connected
    <3>2. \A p \in Ws!Peer : p # s => wsSent'[p] = wsSent[p]
      BY <2>1 DEF Ws!Send, WsTypes
    <3>3. ASSUME NEW p \in Ws!Peer, Through(p)
          PROVE  Through(p)'
      BY <1>1, <3>1, <3>2, <3>3 DEF Through
    <3> QED  BY <1>1, <3>1, <3>3, PeerFacts DEF PumpInv
  <2>2. CASE Ws!Leave(s) \/ Ws!Answer(s)
    <3>1. /\ left' = left \cup {s} /\ quit \subseteq quit' /\ UNCHANGED <<wsSent, lost>>
          /\ s \in quit' \cup told
      BY <2>2 DEF Ws!Leave, Ws!Answer
    <3>2. ASSUME NEW p \in Ws!Peer, Through(p)
          PROVE  Through(p)'
      BY <1>1, <3>1, <3>2 DEF Through
    <3> QED  BY <1>1, <3>1, <3>2, PeerFacts DEF PumpInv
  <2>3. CASE Ws!Lose(s)
    BY <1>1, <2>3 DEF Ws!Lose, PumpInv
  <2> QED  BY <2>1, <2>2, <2>3
<1> QED  BY <1>2, <1>3

\* Handle, up to the pumps and after them.
LEMMA HandleKeeps ==
  ASSUME WsInv, Ws!Request \/ Ws!Dial \/ Ws!Upgrade \/ Ws!Return
  PROVE  WsInv'
<1> USE DEF WsInv
<1>1. UNCHANGED <<wsSent, moved, left, quit, told, lost>>
  BY DEF Ws!Request, Ws!Dial, Ws!Upgrade, Ws!Return
<1>2. WsTypes'
  BY <1>1 DEF WsTypes, Ws!Request, Ws!Dial, Ws!Upgrade, Ws!Return
<1>3. \A s \in Ws!Peer : pump'[s] \in {pump[s], "read"}
  BY DEF Ws!Request, Ws!Dial, Ws!Upgrade, Ws!Return, WsTypes
<1>4. ws' = "done" => \A s \in Ws!Peer : pump'[s] = "end"
  BY DEF Ws!Request, Ws!Dial, Ws!Upgrade, Ws!Return
<1>5. PumpInv'
  BY <1>1, <1>3, <1>4, PeerFacts DEF PumpInv, Through
<1> QED  BY <1>2, <1>5

\* proxyFrames: a Close frame is passed on after the last message.
LEMMA PumpKeeps ==
  ASSUME WsInv, NEW s \in Ws!Peer, Ws!Pump(s)
  PROVE  WsInv'
<1> USE DEF WsInv
<1>1. UNCHANGED <<ws, wsSent, left, quit, lost>>
  BY DEF Ws!Pump, Ws!ReadMessage, Ws!ReadError, Ws!Tell, Ws!WriteMessage
<1>2. PICK l \in {"read", "write", "tell", "end"} :
        pump' = [pump EXCEPT ![s] = l] /\ pump[s] \notin {"off", "end"}
  BY DEF Ws!Pump, Ws!ReadMessage, Ws!ReadError, Ws!Tell, Ws!WriteMessage, Ws!Goto
<1>3. \A p \in Ws!Peer : pump'[p] = IF p = s THEN l ELSE pump[p]
  BY <1>2 DEF WsTypes
<1>4. ws # "done"
  BY <1>2 DEF PumpInv
<1>5. WsTypes'
  <2>1. pump' \in [Ws!Peer -> {"off", "read", "write", "tell", "end"}]
    BY <1>2 DEF WsTypes
  <2>2. moved' \in [Ws!Peer -> Nat]
    BY DEF Ws!Pump, Ws!ReadMessage, Ws!ReadError, Ws!Tell, Ws!WriteMessage, WsTypes
  <2>3. told' \subseteq Ws!Peer
    BY PeerFacts DEF Ws!Pump, Ws!ReadMessage, Ws!ReadError, Ws!Tell, Ws!WriteMessage,
       WsTypes
  <2> QED  BY <1>1, <2>1, <2>2, <2>3 DEF WsTypes
<1>6. PumpInv'
  <2>1. CASE Ws!ReadMessage(s)
    <3>1. l = "write" /\ UNCHANGED <<moved, told>>
      BY <1>3, <2>1 DEF Ws!ReadMessage, Ws!Goto, WsTypes
    <3> QED  BY <1>1, <1>3, <1>4, <3>1, PeerFacts DEF PumpInv, Through
  <2>2. CASE Ws!ReadError(s)
    <3>1. /\ pump'[s] = "tell" /\ UNCHANGED moved
          /\ \/ s \in left /\ moved[s] = wsSent[s] /\ told' = told \cup {s}
             \/ s \in lost /\ told' = told
      BY <2>2 DEF Ws!ReadError, Ws!Goto, WsTypes
    <3>2. CASE s \in lost
      BY <1>1, <1>4, <3>1, <3>2 DEF PumpInv
    <3>3. CASE Through(s) /\ told' = told \cup {s}
      <4>1. s \in quit \cup told
        BY <3>3 DEF PumpInv, Through
      <4>2. \A p \in Ws!Peer : Through(p)' <=> Through(p)
        BY <1>1, <3>1 DEF Through
      <4> QED  BY <1>1, <1>3, <1>4, <3>1, <3>3, <4>1, <4>2, PeerFacts DEF PumpInv
    <3> QED  BY <3>1, <3>2, <3>3 DEF Through
  <2>3. CASE Ws!Tell(s)
    <3>1. /\ pump[s] = "tell" /\ pump'[s] = "end" /\ UNCHANGED moved
          /\ told' = told \cup {Ws!Other(s)}
      BY <2>3 DEF Ws!Tell, Ws!Goto, WsTypes
    <3>2. \A p \in Ws!Peer : Through(p)' <=> Through(p)
      BY <1>1, <3>1 DEF Through
    <3> QED  BY <1>1, <1>3, <1>4, <3>1, <3>2, PeerFacts DEF PumpInv
  <2>4. CASE Ws!WriteMessage(s)
    <3>1. CASE moved' = moved /\ Ws!Other(s) \in told \cup lost /\ l = "end"
      <4>1. told' = told
        BY <2>4 DEF Ws!WriteMessage
      <4> QED  BY <1>1, <1>3, <1>4, <3>1, <4>1, PeerFacts DEF PumpInv, Through
    <3>2. CASE /\ Ws!Other(s) \notin told /\ l = "read"
               /\ moved' = [moved EXCEPT ![s] = @ + 1]
      <4>1. told' = told /\ \A p \in Ws!Peer : p # s => moved'[p] = moved[p]
        BY <2>4, <3>2 DEF Ws!WriteMessage, WsTypes
      <4>2. \A p \in Ws!Peer : p # s => (Through(p)' <=> Through(p))
        BY <1>1, <4>1 DEF Through
      <4> QED  BY <1>1, <1>3, <1>4, <3>2, <4>1, <4>2, PeerFacts DEF PumpInv
    <3> QED  BY <1>3, <2>4, <3>1, <3>2 DEF Ws!WriteMessage, Ws!Goto, WsTypes
  <2> QED  BY <2>1, <2>2, <2>3, <2>4 DEF Ws!Pump
<1> QED  BY <1>5, <1>6

\* Every step of a session keeps the invariant.
LEMMA WsNext ==
  ASSUME WsInv, Ws!Next \/ UNCHANGED wsVars
  PROVE  WsInv'
<1>1. CASE UNCHANGED wsVars
  BY <1>1 DEF wsVars, WsInv, WsTypes, PumpInv, Through
<1> QED  BY <1>1, WsPeerKeeps, HandleKeeps, PumpKeeps DEF Ws!Next

-----------------------------------------------------------------------------
\* Nothing has been sent yet.
LEMMA StartIInv == Start => IInv
<1> SUFFICES ASSUME Start
             PROVE  IInv
  OBVIOUS
<1>1. GrpcInv
  BY DEF Start, Init, GrpcInv, CallTypes, CallInv, Side
<1>2. WsInv
  BY PeerFacts DEF Start, Ws!Init, WsInv, WsTypes, PumpInv
<1> QED  BY <1>1, <1>2 DEF IInv

\* Either relay keeps both invariants.
LEMMA RelayIInv == IInv /\ [Relay]_<<protocol, vars, wsVars>> => IInv'
BY GrpcNext, WsNext DEF IInv, Relay

\* A client is told that its call succeeded only if the backend said so and
\* all of the backend's messages were forwarded, and an error of the backend
\* reaches the client if it is still there.
THEOREM OutcomeIsTrueHolds == Relaying => []OutcomeIsTrue
<1>1. IInv => OutcomeIsTrue
  BY DEF IInv, GrpcInv, CallInv, OutcomeIsTrue
<1> QED  BY StartIInv, RelayIInv, <1>1, PTL DEF Relaying

\* A WebSocket peer that does not end the session itself gets all that the
\* other one sent, unless a connection broke.
THEOREM LosesNothingHolds == Relaying => []LosesNothing
<1>1. IInv => LosesNothing
  <2> SUFFICES ASSUME IInv, NEW s \in Ws!Peer,
                      Ws!Other(s) \in told \/ ws = "done",
                      Ws!Other(s) \notin quit, lost = {}
               PROVE  s \in left /\ moved[s] = wsSent[s]
    BY DEF LosesNothing, Ws!LosesNothing
  <2>1. Ws!Other(s) \in told
    BY DEF IInv, WsInv, PumpInv
  <2> QED  BY <2>1 DEF IInv, WsInv, PumpInv, Through
<1> QED  BY StartIInv, RelayIInv, <1>1, PTL DEF Relaying

-----------------------------------------------------------------------------
(* A gRPC call comes to its end.                                           *)

\* The messages of side s that the proxy has still to forward.
Backlog(c, s) == sent[c][s] - got[c][s]

\* A step of streamHandler is possible: it dials; it has a message in hand for a
\* client that reads, or one to read, or the end of the call to see; c2b has
\* ended, or the timer will.
HandlerReady(c) ==
  \/ pc[c] = "dial"
  \/ /\ pc[c] = "b2c"
     /\ \/ b2c[c] = "send" /\ c \notin stalled
        \/ client[c] = "gone"
        \/ /\ b2c[c] = "recv"
           /\ \/ Backlog(c, "backend") > 0 \/ backend[c] = "lost"
              \/ backend[c] # "none" /\ Backlog(c, "backend") = 0
  \/ /\ pc[c] = "wait"
     /\ \/ C2bEnded(c)
        \/ c2b[c] = "recv" /\ client[c] = "open" /\ Backlog(c, "client") = 0

\* A step of its goroutine is possible; SendMsg of its message succeeds or fails
\* once the stream is over.
C2bReady(c) ==
  \/ c2b[c] = "send" /\ (pc[c] # "b2c" \/ backend[c] # "none" \/ client[c] = "gone")
  \/ /\ c2b[c] = "recv"
     /\ \/ Backlog(c, "client") > 0 \/ client[c] = "gone" \/ pc[c] = "done"
        \/ client[c] = "half" /\ Backlog(c, "client") = 0

\* The handler and its goroutine never wait for each other: unless a call waits
\* for a backend and a client that are both still there, a client that stays does
\* not read, or both of its goroutines have ended, one of them can go on.
NobodyIsStuck ==
  \A c \in Call :
    /\ pc[c] # "new"
    /\ pc[c] = "b2c" => backend[c] # "none" \/ client[c] = "gone"
    /\ ~HeldUp(c)
    /\ pc[c] = "done" => c2b[c] # "off" /\ ~C2bEnded(c)
    => HandlerReady(c) \/ C2bReady(c)

\* The steps that c2b takes at most once the stream is cancelled, in state x.
C2bLeft(x) == CASE x = "recv" -> 2 [] x = "send" -> 1 [] OTHER -> 0

\* The steps left at label l with b2c in state b and c2b in state x, and with n
\* messages of the backend to forward.
LeftAt(l, b, n, x) ==
  CASE l = "dial" -> 6
    [] l = "b2c"  -> 5 + 2 * n - (IF b = "send" THEN 1 ELSE 0)
    [] l = "wait" -> 1 + C2bLeft(x)
    [] OTHER      -> C2bLeft(x)

\* The steps that a call has left at most if its backend sends nothing more.
CallLeft(c) == LeftAt(pc[c], b2c[c], Backlog(c, "backend"), c2b[c])

\* Every step of the handler brings the call closer to its end, every step of
\* c2b does once the backend's side has ended, and only a message of the backend
\* sets it back.
CallGetsShorter ==
  \A c \in Call :
    /\ Handler(c) => CallLeft(c)' \in 0 .. CallLeft(c) - 1
    /\ C2b(c) => \/ pc[c] = "b2c" /\ CallLeft(c)' = CallLeft(c)
                 \/ pc[c] # "b2c" /\ CallLeft(c)' \in 0 .. CallLeft(c) - 1
    /\ pc[c] # "new" /\ ~Handler(c) /\ ~C2b(c) =>
         CallLeft(c)' = CallLeft(c) \/ BackendSend(c)

\* No message is forwarded that was not sent, a message in hand is one still to
\* be forwarded, and a call whose stream is open has its goroutine.
CountInv(c) ==
  /\ \A s \in Side : got[c][s] <= sent[c][s]
  /\ c2b[c] = "send" => got[c]["client"] < sent[c]["client"]
  /\ b2c[c] = "send" => got[c]["backend"] < sent[c]["backend"]
  /\ pc[c] \in {"b2c", "wait"} => c2b[c] # "off"
  /\ pc[c] \in {"new", "dial"} => sent[c]["backend"] = 0 /\ b2c[c] = "recv"

\* Messages are counted in natural numbers.
LEMMA CountTypes ==
  ASSUME CallTypes, NEW c \in Call
  PROVE  /\ \A s \in Side : got[c][s] \in Nat /\ sent[c][s] \in Nat
         /\ "client" \in Side /\ "backend" \in Side
BY DEF CallTypes, Side

\* One more message of one side.
LEMMA OneMore ==
  ASSUME NEW f \in [Call -> [Side -> Nat]], NEW c \in Call, NEW s \in Side, NEW g,
         g = [f EXCEPT ![c][s] = @ + 1]
  PROVE  g[c][s] = f[c][s] + 1 /\ \A t \in Side : t # s => g[c][t] = f[c][t]
<1>1. g[c] = [f[c] EXCEPT ![s] = @ + 1]
  OBVIOUS
<1> QED  BY <1>1

\* A step that touches only call c.
LEMMA OtherCalls ==
  ASSUME CallTypes, NEW c \in Call, Open(c) \/ Handler(c) \/ C2b(c) \/ Peer(c)
  PROVE  \A d \in Call : d # c => /\ pc'[d] = pc[d] /\ c2b'[d] = c2b[d] /\ b2c'[d] = b2c[d]
                                  /\ sent'[d] = sent[d] /\ got'[d] = got[d]
<1>1. CASE Open(c) \/ NewStream(c) \/ NewStreamFail(c)
  BY <1>1 DEF Open, NewStream, NewStreamFail, Goto, CallTypes, peerVars
<1>2. CASE B2cRecv(c) \/ B2cSend(c)
  BY <1>2 DEF B2cRecv, B2cSend, CallTypes, peerVars
<1>3. CASE B2cEnd(c) \/ B2cError(c) \/ WaitC2b(c) \/ WaitTimeout(c)
  BY <1>3 DEF B2cEnd, B2cError, B2cReturn, WaitC2b, WaitTimeout, Return, Goto, CallTypes,
              peerVars
<1>4. CASE C2b(c)
  BY <1>4 DEF C2b, C2bStep, C2bRecv, C2bEof, C2bRecvError, C2bSend, C2bSendError,
              c2bUnchanged, CallTypes, peerVars
<1>5. CASE Peer(c)
  BY <1>5 DEF Peer, ClientSend, ClientHalfClose, ClientLeave, ClientStall, BackendSend,
              BackendEnd, BackendLost, CallTypes, peerVars
<1> QED  BY <1>1, <1>2, <1>3, <1>4, <1>5 DEF Handler

\* What a peer does leaves the proxy's side of the call alone.
LEMMA PeerCounts ==
  ASSUME GrpcInv, NEW c \in Call, Peer(c)
  PROVE  /\ UNCHANGED <<pc, c2b, b2c, got>>
         /\ \A s \in Side : sent'[c][s] \in {sent[c][s], sent[c][s] + 1}
         /\ ~BackendSend(c) => sent'[c]["backend"] = sent[c]["backend"]
         /\ BackendSend(c) => pc[c] = "b2c"
<1>1. UNCHANGED <<pc, c2b, b2c, got>>
  BY DEF Peer, ClientSend, ClientHalfClose, ClientLeave, ClientStall, BackendSend,
     BackendEnd, BackendLost
<1>2. CASE ClientSend(c)
  <2>1. sent' = [sent EXCEPT ![c]["client"] = @ + 1]
    BY <1>2 DEF ClientSend
  <2>2. /\ sent'[c]["client"] = sent[c]["client"] + 1
        /\ sent'[c]["backend"] = sent[c]["backend"]
    BY <2>1, OneMore DEF GrpcInv, CallTypes, Side
  <2>3. ~BackendSend(c)
    <3>1. SUFFICES ASSUME BackendSend(c) PROVE FALSE
      OBVIOUS
    <3>2. sent'[c]["client"] = sent[c]["client"]
      BY <3>1, OneMore DEF BackendSend, GrpcInv, CallTypes, Side
    <3> QED  BY <2>2, <3>2, CountTypes DEF GrpcInv
  <2> QED  BY <1>1, <2>2, <2>3 DEF Side
<1>3. CASE BackendSend(c)
  <2>1. sent' = [sent EXCEPT ![c]["backend"] = @ + 1] /\ pc[c] = "b2c"
    BY <1>3 DEF BackendSend, Serving
  <2>2. /\ sent'[c]["backend"] = sent[c]["backend"] + 1
        /\ sent'[c]["client"] = sent[c]["client"]
    BY <2>1, OneMore DEF GrpcInv, CallTypes, Side
  <2> QED  BY <1>1, <1>3, <2>1, <2>2 DEF Side
<1>4. CASE UNCHANGED sent
  <2>1. ~BackendSend(c)
    <3>1. SUFFICES ASSUME BackendSend(c) PROVE FALSE
      OBVIOUS
    <3>2. sent'[c]["backend"] = sent[c]["backend"] + 1
      BY <3>1, OneMore DEF BackendSend, GrpcInv, CallTypes, Side
    <3> QED  BY <1>4, <3>2, CountTypes DEF GrpcInv
  <2> QED  BY <1>1, <1>4, <2>1
<1> QED  BY <1>2, <1>3, <1>4 DEF Peer, ClientHalfClose, ClientLeave, ClientStall,
            BackendEnd, BackendLost, peerVars

\* The steps of c2b.
LEMMA C2bMoves ==
  ASSUME GrpcInv, NEW c \in Call, C2b(c)
  PROVE  /\ pc'[c] = pc[c] /\ b2c'[c] = b2c[c] /\ sent' = sent
         /\ got'[c]["backend"] = got[c]["backend"]
         /\ \/ /\ c2b[c] = "recv" /\ c2b'[c] = "send" /\ got' = got
               /\ got[c]["client"] < sent[c]["client"]
            \/ c2b[c] = "recv" /\ c2b'[c] \in {"nil", "cancelled"} /\ got' = got
            \/ /\ c2b[c] = "send" /\ c2b'[c] = "recv" /\ pc[c] = "b2c"
               /\ got'[c]["client"] = got[c]["client"] + 1
            \/ c2b[c] = "send" /\ c2b'[c] = "eof" /\ got' = got
<1>0. CallTypes
  BY DEF GrpcInv
<1>1. UNCHANGED <<pc, b2c, sent>>
  BY DEF C2b, C2bStep, C2bRecv, C2bEof, C2bRecvError, C2bSend, C2bSendError, c2bUnchanged,
         peerVars
<1>2. CASE C2bSend(c)
  <2>1. /\ got' = [got EXCEPT ![c]["client"] = @ + 1] /\ c2b[c] = "send"
        /\ c2b'[c] = "recv" /\ pc[c] = "b2c"
    BY <1>0, <1>2 DEF C2bSend, CallTypes
  <2>2. /\ got'[c]["client"] = got[c]["client"] + 1
        /\ got'[c]["backend"] = got[c]["backend"]
    BY <1>0, <2>1, OneMore DEF CallTypes, Side
  <2> QED  BY <1>1, <2>1, <2>2
<1>3. CASE C2bRecv(c)
  BY <1>0, <1>1, <1>3 DEF C2bRecv, CallTypes
<1>4. CASE C2bEof(c) \/ C2bRecvError(c) \/ C2bSendError(c)
  BY <1>0, <1>1, <1>4 DEF C2bEof, C2bRecvError, C2bSendError, CallTypes
<1> QED  BY <1>2, <1>3, <1>4 DEF C2b, C2bStep

\* The steps of streamHandler.
LEMMA HandlerMoves ==
  ASSUME GrpcInv, NEW c \in Call, Handler(c)
  PROVE  /\ sent' = sent /\ got'[c]["client"] = got[c]["client"]
         /\ \/ /\ pc[c] = "dial" /\ pc'[c] = "b2c" /\ c2b'[c] = "recv"
               /\ UNCHANGED <<b2c, got>>
            \/ pc[c] = "dial" /\ pc'[c] = "done" /\ UNCHANGED <<c2b, b2c, got>>
            \/ /\ pc[c] = "b2c" /\ pc' = pc /\ b2c[c] = "recv" /\ b2c'[c] = "send"
               /\ got[c]["backend"] < sent[c]["backend"] /\ UNCHANGED <<c2b, got>>
            \/ /\ pc[c] = "b2c" /\ pc' = pc /\ b2c[c] = "send" /\ b2c'[c] = "recv"
               /\ got'[c]["backend"] = got[c]["backend"] + 1 /\ UNCHANGED c2b
            \/ pc[c] = "b2c" /\ pc'[c] = "wait" /\ UNCHANGED <<c2b, b2c, got>>
            \/ pc[c] = "wait" /\ pc'[c] = "done" /\ UNCHANGED <<c2b, b2c, got>>
<1>0. CallTypes
  BY DEF GrpcInv
<1> USE DEF Goto, peerVars
<1>1. CASE NewStream(c) \/ NewStreamFail(c)
  BY <1>0, <1>1 DEF NewStream, NewStreamFail, CallTypes
<1>2. CASE B2cRecv(c)
  BY <1>0, <1>2 DEF B2cRecv, CallTypes
<1>3. CASE B2cSend(c)
  <2>1. /\ got' = [got EXCEPT ![c]["backend"] = @ + 1] /\ pc[c] = "b2c"
        /\ b2c[c] = "send" /\ b2c'[c] = "recv" /\ UNCHANGED <<pc, c2b, sent>>
    BY <1>0, <1>3 DEF B2cSend, CallTypes
  <2>2. /\ got'[c]["backend"] = got[c]["backend"] + 1
        /\ got'[c]["client"] = got[c]["client"]
    BY <1>0, <2>1, OneMore DEF CallTypes, Side
  <2> QED  BY <2>1, <2>2
<1>4. CASE B2cEnd(c) \/ B2cError(c)
  BY <1>0, <1>4 DEF B2cEnd, B2cError, B2cReturn, CallTypes
<1>5. CASE WaitC2b(c) \/ WaitTimeout(c)
  BY <1>0, <1>5 DEF WaitC2b, WaitTimeout, Return, CallTypes
<1> QED  BY <1>1, <1>2, <1>3, <1>4, <1>5 DEF Handler

\* Every step keeps the counts right.
LEMMA CountKeeps ==
  ASSUME GrpcInv, \A c \in Call : CountInv(c), Next \/ UNCHANGED vars
  PROVE  \A c \in Call : CountInv(c)'
<1> SUFFICES ASSUME NEW c \in Call
             PROVE  CountInv(c)'
  OBVIOUS
<1>0. CountInv(c) /\ \A s \in Side : got[c][s] \in Nat /\ sent[c][s] \in Nat
  BY CountTypes DEF GrpcInv
<1>1. ASSUME /\ pc'[c] = pc[c] /\ c2b'[c] = c2b[c] /\ b2c'[c] = b2c[c]
             /\ sent'[c] = sent[c] /\ got'[c] = got[c]
      PROVE  CountInv(c)'
  BY <1>0, <1>1 DEF CountInv
<1>2. CASE Peer(c)
  <2>1. \A s \in Side : sent'[c][s] \in {sent[c][s], sent[c][s] + 1} /\ got'[c][s] = got[c][s]
    BY <1>2, PeerCounts
  <2>2. \A s \in Side : sent'[c][s] \in Nat /\ sent'[c][s] >= sent[c][s]
    BY <1>0, <2>1
  <2>3. pc[c] \in {"new", "dial"} => sent'[c]["backend"] = sent[c]["backend"]
    BY <1>2, PeerCounts
  <2> QED  BY <1>0, <1>2, <2>1, <2>2, <2>3, PeerCounts DEF CountInv, Side
<1>3. CASE C2b(c)
  <2>1. pc[c] \notin {"new", "dial"} /\ c2b'[c] # "off"
    BY <1>3, C2bMoves DEF C2b, C2bStep, C2bRecv, C2bEof, C2bRecvError, C2bSend, C2bSendError,
       GrpcInv, CallInv
  <2> QED  BY <1>0, <1>3, <2>1, C2bMoves DEF CountInv, Side
<1>4. CASE Handler(c)
  <2>1. pc[c] = "dial" => c2b[c] = "off"
    BY DEF GrpcInv, CallInv
  <2> QED  BY <1>0, <1>4, <2>1, HandlerMoves DEF CountInv, Side
<1>5. CASE Open(c)
  <2>1. /\ pc[c] = "new" /\ pc'[c] = "dial"
        /\ UNCHANGED <<c2b, b2c, sent, got>>
    BY <1>5 DEF Open, Goto, GrpcInv, CallTypes, peerVars
  <2> QED  BY <1>0, <2>1 DEF CountInv
<1>6. CASE \E d \in Call : d # c /\ (Open(d) \/ Handler(d) \/ C2b(d) \/ Peer(d))
  BY <1>1, <1>6, OtherCalls DEF GrpcInv
<1>7. CASE GracefulStop \/ StopReturn \/ UNCHANGED vars
  BY <1>1, <1>7 DEF GracefulStop, StopReturn, vars, peerVars
<1> QED  BY <1>2, <1>3, <1>4, <1>5, <1>6, <1>7 DEF Next

\* With the counts right, one of the two goroutines can go on.
LEMMA CountsUnstick ==
  ASSUME GrpcInv, \A c \in Call : CountInv(c)
  PROVE  NobodyIsStuck
<1> SUFFICES ASSUME NEW c \in Call, pc[c] # "new",
                    pc[c] = "b2c" => backend[c] # "none" \/ client[c] = "gone",
                    ~HeldUp(c),
                    pc[c] = "done" => c2b[c] # "off" /\ ~C2bEnded(c)
             PROVE  HandlerReady(c) \/ C2bReady(c)
  BY DEF NobodyIsStuck
<1>1. PICK m, n, j, k : /\ m = got[c]["client"] /\ n = sent[c]["client"]
                        /\ j = got[c]["backend"] /\ k = sent[c]["backend"]
                        /\ m \in Nat /\ n \in Nat /\ j \in Nat /\ k \in Nat
                        /\ m <= n /\ j <= k
  BY CountTypes DEF GrpcInv, CountInv
<1>2. /\ Backlog(c, "client") = n - m /\ Backlog(c, "backend") = k - j
      /\ n - m > 0 \/ n - m = 0
      /\ k - j > 0 \/ k - j = 0
  BY <1>1 DEF Backlog
<1>3. /\ pc[c] \in {"dial", "b2c", "wait", "done"}
      /\ c2b[c] \in {"off", "recv", "send", "nil", "eof", "cancelled"}
      /\ client[c] \in {"open", "half", "gone"}
      /\ pc[c] \in {"b2c", "wait"} => c2b[c] # "off"
  BY DEF GrpcInv, CallTypes, CountInv
<1>4. CASE pc[c] = "b2c"
  <2>1. b2c[c] \in {"recv", "send"}
    BY DEF GrpcInv, CallTypes
  <2> QED  BY <1>2, <1>4, <2>1 DEF HandlerReady, HeldUp
<1>5. CASE pc[c] = "wait"
  BY <1>2, <1>3, <1>5 DEF HandlerReady, C2bReady, C2bEnded
<1>6. CASE pc[c] = "done"
  BY <1>3, <1>6 DEF C2bReady, C2bEnded
<1> QED  BY <1>3, <1>4, <1>5, <1>6 DEF HandlerReady

\* What is left of c2b.
LEMMA C2bLeftFacts ==
  ASSUME NEW x
  PROVE  /\ C2bLeft(x) \in 0 .. 2
         /\ x = "recv" => C2bLeft(x) = 2
         /\ x = "send" => C2bLeft(x) = 1
         /\ x \in {"off", "nil", "eof", "cancelled"} => C2bLeft(x) = 0
BY DEF C2bLeft

\* The same of the call, label by label.
LEMMA LeftFacts ==
  ASSUME NEW n \in Nat, NEW b, NEW x
  PROVE  /\ LeftAt("dial", b, n, x) = 6
         /\ LeftAt("b2c", "recv", n, x) = 5 + 2 * n
         /\ LeftAt("b2c", "send", n, x) = 4 + 2 * n
         /\ LeftAt("wait", b, n, x) = 1 + C2bLeft(x)
         /\ LeftAt("done", b, n, x) = C2bLeft(x)
BY DEF LeftAt

\* Every step of the handler brings the call closer to its end.
LEMMA HandlerShortens ==
  ASSUME GrpcInv, NEW c \in Call, CountInv(c), Handler(c)
  PROVE  CallLeft(c)' \in 0 .. CallLeft(c) - 1
<1>1. PICK j, k : /\ j = got[c]["backend"] /\ k = sent[c]["backend"]
                  /\ j \in Nat /\ k \in Nat /\ j <= k
  BY CountTypes DEF GrpcInv, CountInv
<1>2. PICK n, m : n = Backlog(c, "backend") /\ m = Backlog(c, "backend")'
  OBVIOUS
<1>3. PICK l, b, x : l = pc[c] /\ b = b2c[c] /\ x = c2b[c]
  OBVIOUS
<1>4. PICK h, a, y : h = pc'[c] /\ a = b2c'[c] /\ y = c2b'[c]
  OBVIOUS
<1>5. CallLeft(c) = LeftAt(l, b, n, x) /\ CallLeft(c)' = LeftAt(h, a, m, y)
  BY <1>2, <1>3, <1>4 DEF CallLeft
<1>6. n = k - j /\ n \in Nat
  BY <1>1, <1>2 DEF Backlog
<1>7. /\ sent' = sent
      /\ \/ l = "dial" /\ h = "b2c" /\ a = b /\ got' = got
         \/ l = "dial" /\ h = "done" /\ got' = got
         \/ l = "b2c" /\ h = "b2c" /\ b = "recv" /\ a = "send" /\ got' = got
         \/ l = "b2c" /\ h = "b2c" /\ b = "send" /\ a = "recv"
              /\ got'[c]["backend"] = j + 1
         \/ l = "b2c" /\ h = "wait" /\ got' = got
         \/ l = "wait" /\ h = "done" /\ x = y /\ got' = got
  BY <1>1, <1>3, <1>4, HandlerMoves
<1>8. (l = "dial" => n = 0 /\ b = "recv") /\ (b = "send" => j < k)
  BY <1>1, <1>3, <1>6 DEF CountInv
<1>9. b \in {"recv", "send"}
  BY <1>3 DEF GrpcInv, CallTypes
<1>10. CASE got' = got
  <2>1. m = n
    BY <1>2, <1>7, <1>10 DEF Backlog
  <2>2. CASE l = "dial" /\ h = "b2c" /\ a = b
    BY <1>5, <1>6, <1>8, <2>1, <2>2, LeftFacts
  <2>3. CASE l = "dial" /\ h = "done"
    BY <1>5, <1>6, <2>1, <2>3, LeftFacts, C2bLeftFacts
  <2>4. CASE l = "b2c" /\ h = "b2c" /\ b = "recv" /\ a = "send"
    BY <1>5, <1>6, <2>1, <2>4, LeftFacts
  <2>5. CASE l = "b2c" /\ h = "wait"
    <3>1. LeftAt(h, a, m, y) \in 1 .. 3
      BY <1>6, <2>1, <2>5, LeftFacts, C2bLeftFacts
    <3>2. LeftAt(l, b, n, x) \in {5 + 2 * n, 4 + 2 * n}
      BY <1>6, <1>9, <2>5, LeftFacts
    <3> QED  BY <1>5, <1>6, <3>1, <3>2
  <2>6. CASE l = "wait" /\ h = "done" /\ x = y
    <3>1. PICK z : z = C2bLeft(x) /\ z \in 0 .. 2
      BY C2bLeftFacts
    <3>2. LeftAt(l, b, n, x) = 1 + z /\ LeftAt(h, a, m, y) = z
      BY <1>6, <2>1, <2>6, <3>1, LeftFacts
    <3> QED  BY <1>5, <3>1, <3>2
  <2>7. got'[c]["backend"] # j + 1
    BY <1>1, <1>10
  <2> QED  BY <1>7, <2>2, <2>3, <2>4, <2>5, <2>6, <2>7
<1>11. CASE /\ l = "b2c" /\ h = "b2c" /\ b = "send" /\ a = "recv"
            /\ got'[c]["backend"] = j + 1
  <2>1. m = n - 1 /\ m \in Nat
    BY <1>1, <1>2, <1>6, <1>7, <1>8, <1>11 DEF Backlog
  <2>2. LeftAt(l, b, n, x) = 4 + 2 * n /\ LeftAt(h, a, m, y) = 5 + 2 * m
    BY <1>6, <1>11, <2>1, LeftFacts
  <2> QED  BY <1>5, <1>6, <2>1, <2>2
<1> QED  BY <1>7, <1>10, <1>11

\* So does every step of c2b once the backend's side has ended.
LEMMA C2bShortens ==
  ASSUME GrpcInv, NEW c \in Call, CountInv(c), C2b(c)
  PROVE  \/ pc[c] = "b2c" /\ CallLeft(c)' = CallLeft(c)
         \/ pc[c] # "b2c" /\ CallLeft(c)' \in 0 .. CallLeft(c) - 1
<1>0. PICK l, b, n, x, y : /\ l = pc[c] /\ b = b2c[c] /\ n = Backlog(c, "backend")
                           /\ x = c2b[c] /\ y = c2b'[c]
  OBVIOUS
<1>1. Backlog(c, "backend")' = n
  BY <1>0, C2bMoves DEF Backlog
<1>2. CallLeft(c) = LeftAt(l, b, n, x) /\ CallLeft(c)' = LeftAt(l, b, n, y)
  BY <1>0, <1>1, C2bMoves DEF CallLeft
<1>3. n \in Nat
  BY <1>0, CountTypes DEF GrpcInv, CountInv, Backlog
<1>4. CASE l = "b2c"
  BY <1>0, <1>2, <1>4 DEF LeftAt
<1>5. CASE l # "b2c"
  <2>1. \/ x = "recv" /\ y \in {"send", "nil", "cancelled"}
        \/ x = "send" /\ y = "eof"
    BY <1>0, <1>5, C2bMoves
  <2>2. PICK i, j : i = C2bLeft(x) /\ j = C2bLeft(y) /\ i \in 0 .. 2 /\ j \in 0 .. i - 1
    BY <2>1, C2bLeftFacts
  <2>3. l \in {"wait", "done"}
    BY <1>0, <1>5 DEF C2b, C2bStep, C2bRecv, C2bEof, C2bRecvError, C2bSend, C2bSendError,
       GrpcInv, CallInv, CallTypes
  <2>4. \/ CallLeft(c) = 1 + i /\ CallLeft(c)' = 1 + j
        \/ CallLeft(c) = i /\ CallLeft(c)' = j
    BY <1>2, <1>3, <2>2, <2>3, LeftFacts
  <2> QED  BY <1>0, <1>5, <2>2, <2>4
<1> QED  BY <1>4, <1>5

\* Of all others only the backend sets a call back.
LEMMA OthersKeepLeft ==
  ASSUME GrpcInv, NEW c \in Call, pc[c] # "new", ~Handler(c), ~C2b(c),
         Next \/ UNCHANGED vars
  PROVE  CallLeft(c)' = CallLeft(c) \/ BackendSend(c)
<1>1. ASSUME /\ pc'[c] = pc[c] /\ c2b'[c] = c2b[c] /\ b2c'[c] = b2c[c]
             /\ sent'[c]["backend"] = sent[c]["backend"] /\ got'[c] = got[c]
      PROVE  CallLeft(c)' = CallLeft(c)
  BY <1>1 DEF CallLeft, Backlog
<1>2. CASE Peer(c)
  BY <1>1, <1>2, PeerCounts
<1>3. CASE \E d \in Call : d # c /\ (Open(d) \/ Handler(d) \/ C2b(d) \/ Peer(d))
  BY <1>1, <1>3, OtherCalls DEF GrpcInv
<1>4. CASE GracefulStop \/ StopReturn \/ UNCHANGED vars
  BY <1>1, <1>4 DEF GracefulStop, StopReturn, vars, peerVars
<1>5. ~Open(c)
  BY DEF Open
<1> QED  BY <1>2, <1>3, <1>4, <1>5 DEF Next

\* For any number of calls and messages, streamHandler and its goroutine never
\* wait for each other once the backend has ended the call or the client has left
\* (a client that stays and does not read holds the handler up: see HeldUp),
\* and the steps they have left are used up by every step of the handler and, once
\* the stream is cancelled, of the goroutine (the safety half of CallsEnd).
THEOREM CallsWindDown ==
  Relaying => []NobodyIsStuck /\ [][CallGetsShorter]_<<protocol, vars, wsVars>>
<1> DEFINE CInv == IInv /\ \A c \in Call : CountInv(c)
<1>1. Start => CInv
  <2>1. ASSUME Start, NEW c \in Call
        PROVE  CountInv(c)
    <3>1. /\ pc[c] = "new" /\ c2b[c] = "off" /\ b2c[c] = "recv"
          /\ got[c] = [s \in Side |-> 0] /\ sent[c] = [s \in Side |-> 0]
      BY <2>1 DEF Start, Init
    <3>2. "backend" \in Side /\ \A s \in Side : got[c][s] = 0 /\ sent[c][s] = 0
      BY <3>1 DEF Side
    <3> QED  BY <3>1, <3>2 DEF CountInv
  <2> QED  BY <2>1, StartIInv
<1>2. [Relay]_<<protocol, vars, wsVars>> => Next \/ UNCHANGED vars
  BY DEF Relay
<1>3. CInv /\ [Relay]_<<protocol, vars, wsVars>> => CInv'
  BY <1>2, RelayIInv, CountKeeps DEF IInv
<1>4. CInv => NobodyIsStuck
  BY CountsUnstick DEF IInv
<1>5. CInv /\ [Relay]_<<protocol, vars, wsVars>> => CallGetsShorter
  BY <1>2, HandlerShortens, C2bShortens, OthersKeepLeft DEF IInv, CallGetsShorter
<1> QED  BY <1>1, <1>3, <1>4, <1>5, PTL DEF Relaying
=============================================================================
