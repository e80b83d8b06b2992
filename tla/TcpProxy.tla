------------------------------ MODULE TcpProxy ------------------------------
(***************************************************************************)
(* The raw TCP proxy (internal/proxy/tcp_proxy.go): the accept loop, one   *)
(* handler per connection with two copying goroutines, and Close, which    *)
(* the shutdown in cmd/da-proxy/main.go calls from another goroutine.      *)
(* Clients and backends are external: they write, close their sending      *)
(* side, or vanish.  Bytes are counted, not told apart.                    *)
(***************************************************************************)
EXTENDS Integers, FiniteSets

CONSTANTS
  Conn,       \* client connections
  MaxBytes,   \* per connection, a bound on what each of its peers writes
  MaxTcpFaults   \* bound on lost peers and failed accepts together

NoConn == "none"

ASSUME TcpAssumption ==
  MaxBytes \in [Conn -> Nat] /\ MaxTcpFaults \in Nat /\ NoConn \notin Conn

VARIABLES
  serve,      \* where Serve is: "start", "accept", "ended"
  accepted,   \* the connection that Accept returned and wg does not count yet
  registered, \* is p.listener set?
  open,       \* is the listener open?
  closed,     \* p.closed
  close,      \* where Close is: "no", "flagged", "parked" in wg.Wait, "woken"
              \* there, "returned", or "panicked": the process is dead
  due,        \* the connections that were being served when Close was called and
              \* are not finished yet
  at,         \* per connection: "new", "queued", "accepted", "dial", "copy",
              \* "join", "done", "failed" or "refused"
  up,         \* its client-to-backend goroutine: "off", "run", "end"
  wrote,      \* bytes each peer has written
  copied,     \* bytes of each peer that went to the other one
  fin,        \* peers that have closed their sending side
  dead,       \* peers that have vanished
  halfClosed, \* peers that were told (CloseWrite) that no more will come
  tcpFaults

connVars   == <<at, up, wrote, copied, fin, dead, halfClosed>>
serverVars == <<serve, accepted, registered, open, closed, close, due>>
tcpVars == <<serve, accepted, registered, open, closed, close, due, at, up, wrote, copied,
             fin, dead, halfClosed, tcpFaults>>

TcpSide == {"client", "backend"}

\* Mutant of Handled: the handler raises wg itself, after its dial.
HandledAfterDial == {c \in Conn : at[c] \in {"copy", "join"}}

\* The connections that wg counts.
Handled == {c \in Conn : at[c] \in {"dial", "copy", "join"}}

\* The connections that the proxy has taken and not finished with.
Served == {c \in Conn : at[c] \in {"accepted", "dial", "copy", "join"}}

TcpInit ==
  /\ serve = "start" /\ accepted = NoConn /\ registered = FALSE /\ open = TRUE
  /\ closed = FALSE /\ close = "no" /\ due = {}
  /\ at = [c \in Conn |-> "new"] /\ up = [c \in Conn |-> "off"]
  /\ wrote = [c \in Conn |-> [s \in TcpSide |-> 0]]
  /\ copied = [c \in Conn |-> [s \in TcpSide |-> 0]]
  /\ fin = [c \in Conn |-> {}] /\ dead = [c \in Conn |-> {}]
  /\ halfClosed = [c \in Conn |-> {}]
  /\ tcpFaults = 0

ConnGoto(c, l) == at' = [at EXCEPT ![c] = l]

\* The handler of c returns to l, and its deferred wg.Done wakes Close if Close
\* is parked and no other handler is counted.
Done(c, l) ==
  /\ ConnGoto(c, l)
  /\ close' = IF close = "parked" /\ Handled = {c} THEN "woken" ELSE close
  /\ due' = due \ {c}
  /\ UNCHANGED <<serve, accepted, registered, open, closed>>

-----------------------------------------------------------------------------
(* The peers.                                                              *)

\* A client connects; the kernel queues it until Accept takes it.
Connect(c) ==
  /\ at[c] = "new" /\ open
  /\ ConnGoto(c, "queued")
  /\ UNCHANGED <<serverVars, up, wrote, copied, fin, dead, halfClosed, tcpFaults>>

\* The peers that are connected to the proxy on connection c.
Peers(c) ==
  (IF at[c] \in {"queued", "accepted", "dial", "copy", "join"} THEN {"client"} ELSE {})
    \cup (IF at[c] \in {"copy", "join"} THEN {"backend"} ELSE {})

Write(c, s) ==
  /\ s \in Peers(c) \ (fin[c] \cup dead[c]) /\ wrote[c][s] < MaxBytes[c]
  /\ wrote' = [wrote EXCEPT ![c][s] = @ + 1]
  /\ UNCHANGED <<serverVars, at, up, copied, fin, dead, halfClosed, tcpFaults>>

PeerFinish(c, s) ==
  /\ s \in Peers(c) \ (fin[c] \cup dead[c])
  /\ fin' = [fin EXCEPT ![c] = @ \cup {s}]
  /\ UNCHANGED <<serverVars, at, up, wrote, copied, dead, halfClosed, tcpFaults>>

Vanish(c, s) ==
  /\ s \in Peers(c) \ dead[c] /\ tcpFaults < MaxTcpFaults
  /\ tcpFaults' = tcpFaults + 1
  /\ dead' = [dead EXCEPT ![c] = @ \cup {s}]
  /\ UNCHANGED <<serverVars, at, up, wrote, copied, fin, halfClosed>>

-----------------------------------------------------------------------------
(* Serve.                                                                  *)

Register ==
  /\ serve = "start"
  /\ registered' = TRUE
  /\ serve' = "accept"
  /\ UNCHANGED <<accepted, open, closed, close, due, connVars, tcpFaults>>

Accept(c) ==
  /\ serve = "accept" /\ accepted = NoConn /\ open /\ at[c] = "queued"
  /\ accepted' = c
  /\ ConnGoto(c, "accepted")
  /\ UNCHANGED <<serve, registered, open, closed, close, due, up, wrote, copied, fin,
                 dead, halfClosed, tcpFaults>>

\* wg.Add and the start of the handler, after Accept has returned.  Add that
\* raises wg from zero while Wait has been woken and not returned is a misuse of
\* the wait group: it panics, unless it comes after the last Done has reset wg.
Spawn ==
  /\ accepted # NoConn
  /\ ConnGoto(accepted, "dial")
  /\ accepted' = NoConn
  /\ \/ UNCHANGED close
     \/ close = "woken" /\ Handled = {} /\ close' = "panicked"
  /\ UNCHANGED <<serve, registered, open, closed, due, up, wrote, copied, fin,
                 dead, halfClosed, tcpFaults>>

\* Accept fails, on a closed listener always: Serve returns if Close has been
\* called and tries again otherwise.
AcceptError ==
  /\ serve = "accept" /\ accepted = NoConn
  /\ \/ ~open /\ UNCHANGED tcpFaults
     \/ open /\ tcpFaults < MaxTcpFaults /\ tcpFaults' = tcpFaults + 1
  /\ serve' = IF closed THEN "ended" ELSE serve
  /\ UNCHANGED <<accepted, registered, open, closed, close, due, connVars>>

-----------------------------------------------------------------------------
(* handleConn.                                                             *)

Dial(c) ==
  /\ at[c] = "dial"
  /\ ConnGoto(c, "copy")
  /\ up' = [up EXCEPT ![c] = "run"]
  /\ UNCHANGED <<serverVars, wrote, copied, fin, dead, halfClosed, tcpFaults>>

\* The backend refuses or times out: the client's connection is closed.
DialFail(c) ==
  /\ at[c] = "dial"
  /\ Done(c, "failed")
  /\ UNCHANGED <<up, wrote, copied, fin, dead, halfClosed, tcpFaults>>

\* Is there something for io.Copy to do that reads from s, or to end it?
CanMove(c, s) == s \notin dead[c] /\ copied[c][s] < wrote[c][s]
Broken(c, s, t) == s \in dead[c] \/ (CanMove(c, s) /\ t \in dead[c])
AtEof(c, s) == s \in fin[c] /\ s \notin dead[c] /\ copied[c][s] = wrote[c][s]

Move(c, s) == copied' = [copied EXCEPT ![c][s] = @ + 1]

\* Mutant of CopyUp: only EOF ends the goroutine, a lost peer does not.
CopyUpUntilEof(c) ==
  /\ up[c] = "run"
  /\ \/ /\ CanMove(c, "client") /\ "backend" \notin dead[c]
        /\ Move(c, "client")
        /\ UNCHANGED <<up, halfClosed>>
     \/ /\ AtEof(c, "client")
        /\ up' = [up EXCEPT ![c] = "end"]
        /\ halfClosed' = [halfClosed EXCEPT ![c] = @ \cup {"backend"}]
        /\ UNCHANGED copied
  /\ UNCHANGED <<serverVars, at, wrote, fin, dead, tcpFaults>>

\* The goroutine from client to backend: io.Copy, then CloseWrite whether it
\* ended in EOF or in an error.
CopyUp(c) ==
  /\ up[c] = "run"
  /\ \/ /\ CanMove(c, "client") /\ "backend" \notin dead[c]
        /\ Move(c, "client")
        /\ UNCHANGED <<up, halfClosed>>
     \/ /\ AtEof(c, "client") \/ Broken(c, "client", "backend")
        /\ up' = [up EXCEPT ![c] = "end"]
        /\ halfClosed' = [halfClosed EXCEPT ![c] = @ \cup {"backend"}]
        /\ UNCHANGED copied
  /\ UNCHANGED <<serverVars, at, wrote, fin, dead, tcpFaults>>

\* The foreground, from backend to client.
CopyDown(c) ==
  /\ at[c] = "copy"
  /\ \/ /\ CanMove(c, "backend") /\ "client" \notin dead[c]
        /\ Move(c, "backend")
        /\ UNCHANGED <<at, halfClosed>>
     \/ /\ AtEof(c, "backend") \/ Broken(c, "backend", "client")
        /\ ConnGoto(c, "join")
        /\ halfClosed' = [halfClosed EXCEPT ![c] = @ \cup {"client"}]
        /\ UNCHANGED copied
  /\ UNCHANGED <<serverVars, up, wrote, fin, dead, tcpFaults>>

\* Mutant of Join: the foreground does not wait for the goroutine.
JoinWithoutWait(c) ==
  /\ at[c] = "join"
  /\ Done(c, "done")
  /\ UNCHANGED <<up, wrote, copied, fin, dead, halfClosed, tcpFaults>>

\* <-done; latency, metrics and the log entry are recorded and the deferred
\* calls close both connections.
Join(c) ==
  /\ at[c] = "join" /\ up[c] = "end"
  /\ Done(c, "done")
  /\ UNCHANGED <<up, wrote, copied, fin, dead, halfClosed, tcpFaults>>

-----------------------------------------------------------------------------
(* Close.                                                                  *)

CloseFlag ==
  /\ close = "no"
  /\ closed' = TRUE
  /\ due' = {c \in Conn : at[c] \in {"dial", "copy", "join"}}
  /\ close' = "flagged"
  /\ UNCHANGED <<serve, accepted, registered, open, connVars, tcpFaults>>

\* Read p.listener under the mutex and close it, if Serve has set it; the
\* kernel resets the connections in its queue.  Then wg.Wait: return at once if
\* nobody is counted, park otherwise.  (What could come in between, a Spawn or
\* a Done, could as well come before.)
CloseListener ==
  /\ close = "flagged"
  /\ open' = ~registered
  /\ at' = [c \in Conn |-> IF registered /\ at[c] = "queued" THEN "refused" ELSE at[c]]
  /\ close' = IF Handled = {} THEN "returned" ELSE "parked"
  /\ UNCHANGED <<serve, accepted, registered, closed, due, up, wrote, copied, fin, dead,
                 halfClosed, tcpFaults>>

\* wg.Wait after the last Done: it returns, or panics if wg was raised again
\* ("WaitGroup is reused before previous Wait has returned").
CloseReturn ==
  /\ close = "woken"
  /\ close' = IF Handled = {} THEN "returned" ELSE "panicked"
  /\ UNCHANGED <<serve, accepted, registered, open, closed, due, connVars, tcpFaults>>

-----------------------------------------------------------------------------
HandleConn(c) == Dial(c) \/ DialFail(c) \/ CopyUp(c) \/ CopyDown(c) \/ Join(c)

TcpNext ==
  /\ close # "panicked"
  /\ \/ Register \/ Spawn \/ AcceptError
     \/ CloseFlag \/ CloseListener \/ CloseReturn
     \/ \E c \in Conn :
          \/ Connect(c) \/ Accept(c) \/ HandleConn(c)
          \/ \E s \in TcpSide : Write(c, s) \/ PeerFinish(c, s) \/ Vanish(c, s)

\* Goroutines run, and a peer that is still there ends its side at last: the
\* proxy sets no deadline of its own.  Nothing is assumed of the accept loop.
TcpFairness ==
  /\ WF_tcpVars(CloseListener \/ CloseReturn)
  /\ \A c \in Conn :
       /\ WF_tcpVars(Dial(c) \/ DialFail(c)) /\ WF_tcpVars(CopyUp(c))
       /\ WF_tcpVars(CopyDown(c)) /\ WF_tcpVars(Join(c))
       /\ \A s \in TcpSide : WF_tcpVars(PeerFinish(c, s))

TcpSpec == TcpInit /\ [][TcpNext]_tcpVars /\ TcpFairness

-----------------------------------------------------------------------------
\* Half-closing loses nothing: unless a peer is lost, a peer is told that no
\* more will come only when all that the other one sent has gone through, and
\* a connection ends only when both have been told, whichever finished first.
AllForwarded ==
  \A c \in Conn :
    dead[c] = {} =>
      /\ "backend" \in halfClosed[c] =>
           "client" \in fin[c] /\ copied[c].client = wrote[c].client
      /\ "client" \in halfClosed[c] =>
           "backend" \in fin[c] /\ copied[c].backend = wrote[c].backend
      /\ at[c] = "done" => halfClosed[c] = TcpSide

\* Close drains what was being served when it was called: it returns only when
\* the handlers of those connections have returned, through the dial and both
\* halves of the copy, whatever is accepted while it waits.
CloseDrainsServed == close = "returned" => due = {}

\* What the comment of Close says (tcp_proxy.go:66): "Close closes the listener
\* and waits for active connections to drain."  The code does not keep it: a
\* connection that Accept has returned and wg does not count yet is served
\* after Close, and so is every connection of a Serve that begins after it.
CloseDrains == close = "returned" => Served = {}

\* Close comes to its end once the peers end, even if connections are still
\* accepted while it runs.  That end may be the panic of the wait group.
CloseReturns == close = "flagged" ~> close \in {"returned", "panicked"}
=============================================================================
