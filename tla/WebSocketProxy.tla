--------------------------- MODULE WebSocketProxy ---------------------------
(***************************************************************************)
(* One WebSocket session (internal/proxy/websocket.go): Handle connects to *)
(* the backend, upgrades the client and runs two pumps, one per direction, *)
(* and returns when both have ended.  Sessions share nothing.              *)
(*                                                                         *)
(* The client and the backend are external: they send messages, send or    *)
(* answer a Close frame, or are lost, which the operating system reports   *)
(* as a read error.  So is gorilla/websocket, which answers a peer's Close *)
(* frame by itself and refuses every write on a connection on which a      *)
(* Close frame has been written.  Messages are counted: a pump holds at    *)
(* most one, so they cannot overtake each other.                           *)
(***************************************************************************)
EXTENDS Integers, FiniteSets

CONSTANTS
  MaxMsgs,   \* bound on the messages that a peer sends
  MaxLost    \* bound on lost peers

VARIABLES
  ws,      \* Handle: "new", "dial", "upgrade", "open", "done", "refused"
  pump,    \* per peer, the pump that reads from it: "off", "read", "write",
           \* "tell", "end"
  sent,    \* messages that each peer has sent
  moved,   \* messages of each peer that were written to the other one
  left,    \* peers that have sent a Close frame ...
  quit,    \* ... and those among them that no Close frame had reached
  told,    \* peers to which a Close frame has been written
  lost     \* peers whose connection broke

vars == <<ws, pump, sent, moved, left, quit, told, lost>>

Peer == {"client", "backend"}
Other(s) == IF s = "client" THEN "backend" ELSE "client"

Init ==
  /\ ws = "new" /\ pump = [s \in Peer |-> "off"]
  /\ sent = [s \in Peer |-> 0] /\ moved = [s \in Peer |-> 0]
  /\ left = {} /\ quit = {} /\ told = {} /\ lost = {}

-----------------------------------------------------------------------------
(* The peers.                                                              *)

Connected(s) ==
  /\ s \notin left \cup lost
  /\ ws \in IF s = "backend" THEN {"upgrade", "open"} ELSE {"open"}

Send(s) ==
  /\ Connected(s) /\ sent[s] < MaxMsgs
  /\ sent' = [sent EXCEPT ![s] = @ + 1]
  /\ UNCHANGED <<ws, pump, moved, left, quit, told, lost>>

\* A peer closes the session of its own accord ...
Leave(s) ==
  /\ Connected(s) /\ s \notin told
  /\ left' = left \cup {s} /\ quit' = quit \cup {s}
  /\ UNCHANGED <<ws, pump, sent, moved, told, lost>>

\* ... or answers a Close frame.
Answer(s) ==
  /\ Connected(s) /\ s \in told
  /\ left' = left \cup {s}
  /\ UNCHANGED <<ws, pump, sent, moved, quit, told, lost>>

Lose(s) ==
  /\ s \notin lost /\ ws \in IF s = "backend" THEN {"upgrade", "open"} ELSE {"open"}
  /\ Cardinality(lost) < MaxLost
  /\ lost' = lost \cup {s}
  /\ UNCHANGED <<ws, pump, sent, moved, left, quit, told>>

-----------------------------------------------------------------------------
(* Handle.                                                                 *)

\* A request with "Upgrade: websocket" has come in.  A backend without
\* endpoints and an unusable URL end it with 502, as a failed dial does.
Request ==
  /\ ws = "new"
  /\ ws' = "dial"
  /\ UNCHANGED <<pump, sent, moved, left, quit, told, lost>>

Dial ==
  /\ ws = "dial"
  /\ ws' \in {"upgrade", "refused"}
  /\ UNCHANGED <<pump, sent, moved, left, quit, told, lost>>

\* The client is upgraded and both pumps start; if that fails, the backend's
\* connection is closed again.
Upgrade ==
  /\ ws = "upgrade"
  /\ \/ ws' = "open" /\ pump' = [s \in Peer |-> "read"]
     \/ ws' = "refused" /\ UNCHANGED pump
  /\ UNCHANGED <<sent, moved, left, quit, told, lost>>

-----------------------------------------------------------------------------
(* proxyFrames, reading from s.                                            *)

Goto(s, l) == pump' = [pump EXCEPT ![s] = l]

\* ReadMessage returns a message.  What a lost peer has sent may or may not
\* still be read.
ReadMessage(s) ==
  /\ pump[s] = "read" /\ moved[s] < sent[s]
  /\ Goto(s, "write")
  /\ UNCHANGED <<ws, sent, moved, left, quit, told, lost>>

\* Mutant of ReadError: the pump ends as soon as the Close frame has arrived,
\* ahead of the messages that came before it.
ReadErrorEarly(s) ==
  /\ pump[s] = "read"
  /\ \/ s \in left /\ told' = told \cup {s}
     \/ s \in lost /\ UNCHANGED told
  /\ Goto(s, "tell")
  /\ UNCHANGED <<ws, sent, moved, left, quit, lost>>

\* ReadMessage fails: the peer's Close frame, which the library has answered,
\* or a lost connection.
ReadError(s) ==
  /\ pump[s] = "read"
  /\ \/ s \in left /\ moved[s] = sent[s] /\ told' = told \cup {s}
     \/ s \in lost /\ UNCHANGED told
  /\ Goto(s, "tell")
  /\ UNCHANGED <<ws, sent, moved, left, quit, lost>>

\* Mutant of Tell: the pump returns and leaves the other peer as it is.
TellNobody(s) ==
  /\ pump[s] = "tell"
  /\ Goto(s, "end")
  /\ UNCHANGED <<ws, sent, moved, left, quit, told, lost>>

\* The other peer gets a Close frame, unless it has had one, and the pump
\* returns.
Tell(s) ==
  /\ pump[s] = "tell"
  /\ told' = told \cup {Other(s)}
  /\ Goto(s, "end")
  /\ UNCHANGED <<ws, sent, moved, left, quit, lost>>

\* WriteMessage to the other peer, or its failure: after a Close frame
\* always, to a lost peer at some time.  The pump then returns, and closes
\* nothing.
WriteMessage(s) ==
  /\ pump[s] = "write"
  /\ \/ /\ Other(s) \notin told
        /\ moved' = [moved EXCEPT ![s] = @ + 1]
        /\ Goto(s, "read")
     \/ /\ Other(s) \in told \cup lost
        /\ Goto(s, "end")
        /\ UNCHANGED moved
  /\ UNCHANGED <<ws, sent, left, quit, told, lost>>

\* wg.Wait returns, and both connections are closed.
Return ==
  /\ ws = "open" /\ \A s \in Peer : pump[s] = "end"
  /\ ws' = "done"
  /\ UNCHANGED <<pump, sent, moved, left, quit, told, lost>>

-----------------------------------------------------------------------------
Pump(s) == ReadMessage(s) \/ ReadError(s) \/ Tell(s) \/ WriteMessage(s)

Next == \/ Request \/ Dial \/ Upgrade \/ Return
        \/ \E s \in Peer : \/ Send(s) \/ Leave(s) \/ Answer(s) \/ Lose(s)
                           \/ Pump(s)

\* The goroutines run, and a peer answers a Close frame that has reached it.
\* The code sets no deadline and sends no pings: without the answer, or the
\* loss of the peer, a session hangs.
Fairness == /\ WF_vars(Dial) /\ WF_vars(Upgrade) /\ WF_vars(Return)
            /\ \A s \in Peer : WF_vars(Pump(s)) /\ WF_vars(Answer(s))

-----------------------------------------------------------------------------
\* A peer that does not end the session itself gets all that the other one
\* sent: a Close frame reaches it, and the handler drops its connection, only
\* after the last message has been written to it, unless a connection broke.
LosesNothing ==
  \A s \in Peer :
    LET t == Other(s)
    IN  /\ t \in told \/ ws = "done"
        /\ t \notin quit /\ lost = {}
        => s \in left /\ moved[s] = sent[s]

\* A session of which one pump has ended comes to its end, whichever of read
\* error, write error and lost peer ended the pump: the other pump is never
\* left waiting on a connection that nobody was told to close.
SessionEnds == (\E s \in Peer : pump[s] = "end") ~> ws = "done"
=============================================================================
