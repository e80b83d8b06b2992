--------------------------- MODULE TcpProxyProofs ---------------------------
(***************************************************************************)
(* The TCP proxy for any number of connections and bytes: half-closing     *)
(* loses nothing (AllForwarded), and Close drains the connections that     *)
(* were being served when it was called (CloseDrainsServed).               *)
(***************************************************************************)
EXTENDS TcpProxy, TLAPS

-----------------------------------------------------------------------------
(* The inductive invariant.                                                *)

Label == {"new", "queued", "accepted", "dial", "copy", "join", "done", "failed", "refused"}

TypeInv ==
  /\ accepted \in Conn \cup {NoConn}
  /\ at \in [Conn -> Label]
  /\ up \in [Conn -> {"off", "run", "end"}]
  /\ wrote \in [Conn -> [TcpSide -> Nat]]
  /\ copied \in [Conn -> [TcpSide -> Nat]]
  /\ fin \in [Conn -> SUBSET TcpSide]
  /\ dead \in [Conn -> SUBSET TcpSide]
  /\ halfClosed \in [Conn -> SUBSET TcpSide]

\* All that peer s of connection c has written has gone through, and no more comes.
Through(c, s) == s \in fin[c] /\ copied[c][s] = wrote[c][s]

\* While no peer is lost, a peer is told of the end when the other's is through.
\* A direction that has ended has told its peer, and a handler that is done has
\* waited for both.
ConnInv(c) ==
  /\ dead[c] = {} => /\ "backend" \in halfClosed[c] => Through(c, "client")
                     /\ "client" \in halfClosed[c] => Through(c, "backend")
  /\ up[c] = "end" => "backend" \in halfClosed[c]
  /\ at[c] \in {"join", "done"} => "client" \in halfClosed[c]
  /\ at[c] = "done" => up[c] = "end"

\* The connections that Close owes are still counted, so that it finds none of
\* them when nobody is.
DueInv == due \subseteq Handled /\ (close = "returned" => due = {})

IInv == TypeInv /\ (\A c \in Conn : ConnInv(c)) /\ DueInv

-----------------------------------------------------------------------------
(* Nested functions.                                                       *)

\* One more byte of peer s of connection c.
LEMMA OneMore ==
  ASSUME NEW f \in [Conn -> [TcpSide -> Nat]], NEW c \in Conn, NEW s \in TcpSide,
         NEW g, g = [f EXCEPT ![c][s] = @ + 1]
  PROVE  /\ g \in [Conn -> [TcpSide -> Nat]] /\ g[c][s] = f[c][s] + 1
         /\ \A d \in Conn, t \in TcpSide : d # c \/ t # s => g[d][t] = f[d][t]
<1>1. PICK h : h = [f[c] EXCEPT ![s] = @ + 1]
  OBVIOUS
<1>2. /\ h \in [TcpSide -> Nat] /\ h[s] = f[c][s] + 1
      /\ \A t \in TcpSide : t # s => h[t] = f[c][t]
  BY <1>1
<1>3. g = [f EXCEPT ![c] = h]
  BY <1>1
<1>4. g[c] = h /\ \A d \in Conn : d # c => g[d] = f[d]
  BY <1>3
<1> QED  BY <1>2, <1>3, <1>4

-----------------------------------------------------------------------------
\* Nothing has happened at the start.
LEMMA InitFacts == TcpInit => IInv
<1> SUFFICES ASSUME TcpInit
             PROVE  IInv
  OBVIOUS
<1>1. TypeInv
  BY DEF TcpInit, TypeInv, Label, TcpSide
<1>2. \A c \in Conn : ConnInv(c)
  BY DEF TcpInit, ConnInv
<1>3. DueInv
  BY DEF TcpInit, DueInv
<1> QED  BY <1>1, <1>2, <1>3 DEF IInv

\* A peer writes, closes its sending side or vanishes.
LEMMA PeerKeeps ==
  ASSUME IInv, NEW c \in Conn, NEW s \in TcpSide,
         Write(c, s) \/ PeerFinish(c, s) \/ Vanish(c, s)
  PROVE  IInv'
<1>0. TypeInv /\ DueInv /\ \A d \in Conn : ConnInv(d)
  BY DEF IInv
<1>1. UNCHANGED <<accepted, close, due, at, up, copied, halfClosed>>
  BY DEF Write, PeerFinish, Vanish, serverVars
<1>2. TypeInv'
  <2>1. CASE Write(c, s)
    <3>1. wrote' \in [Conn -> [TcpSide -> Nat]]
      BY <1>0, <2>1, OneMore DEF Write, TypeInv
    <3> QED  BY <1>0, <1>1, <2>1, <3>1 DEF Write, TypeInv
  <2>2. CASE PeerFinish(c, s)
    <3>1. fin' \in [Conn -> SUBSET TcpSide]
      BY <1>0, <2>2 DEF PeerFinish, TypeInv
    <3>2. dead' = dead /\ wrote' = wrote
      BY <2>2 DEF PeerFinish
    <3> QED  BY <1>0, <1>1, <3>1, <3>2 DEF TypeInv
  <2>3. CASE Vanish(c, s)
    <3>1. dead' \in [Conn -> SUBSET TcpSide]
      BY <1>0, <2>3 DEF Vanish, TypeInv
    <3>2. fin' = fin /\ wrote' = wrote
      BY <2>3 DEF Vanish
    <3> QED  BY <1>0, <1>1, <3>1, <3>2 DEF TypeInv
  <2> QED  BY <2>1, <2>2, <2>3
<1>3. ASSUME NEW d \in Conn
      PROVE  ConnInv(d)'
  <2>1. CASE Write(c, s)
    <3>1. s \notin fin[c] /\ fin' = fin /\ dead' = dead
      BY <2>1 DEF Write
    <3>2. \A t \in TcpSide : d # c \/ t # s => wrote'[d][t] = wrote[d][t]
      BY <1>0, <2>1, OneMore DEF Write, TypeInv
    <3>3. "client" \in TcpSide /\ "backend" \in TcpSide
      BY DEF TcpSide
    <3> QED  BY <1>0, <1>1, <3>1, <3>2, <3>3 DEF ConnInv, Through
  <2>2. CASE PeerFinish(c, s)
    <3>1. dead' = dead /\ wrote' = wrote /\ fin[d] \subseteq fin'[d]
      BY <1>0, <2>2 DEF PeerFinish, TypeInv
    <3> QED  BY <1>0, <1>1, <3>1 DEF ConnInv, Through
  <2>3. CASE Vanish(c, s)
    <3>1. fin' = fin /\ wrote' = wrote /\ (dead'[d] = {} => dead[d] = {})
      BY <1>0, <2>3 DEF Vanish, TypeInv
    <3> QED  BY <1>0, <1>1, <3>1 DEF ConnInv, Through
  <2> QED  BY <2>1, <2>2, <2>3
<1>4. DueInv'
  BY <1>0, <1>1 DEF DueInv, Handled
<1> QED  BY <1>2, <1>3, <1>4 DEF IInv

\* A step that touches no bytes, moves the handlers of connections that are not
\* through to places that promise nothing, and tells no one.
LEMMA ServerKeepsConn ==
  ASSUME TypeInv, NEW c \in Conn, ConnInv(c),
         UNCHANGED <<wrote, copied, fin, dead, halfClosed>>,
         up'[c] = up[c] \/ up'[c] # "end",
         at'[c] = at[c] \/ at'[c] \notin {"join", "done"},
         at'[c] = "done" => up'[c] = up[c]
  PROVE  ConnInv(c)'
BY DEF ConnInv, Through

\* A step that stops counting nobody and neither adds to what Close owes nor
\* lets it return.
LEMMA DueKeeps ==
  ASSUME DueInv, Handled \subseteq Handled', due' = due,
         close' = close \/ close' # "returned"
  PROVE  DueInv'
BY DEF DueInv

\* A handler that returns is no longer owed.
LEMMA DoneKeeps ==
  ASSUME TypeInv, DueInv, NEW c \in Conn, NEW l \in {"done", "failed"}, Done(c, l)
  PROVE  DueInv'
<1>1. Handled \ {c} \subseteq Handled'
  BY DEF Done, ConnGoto, TypeInv, Handled
<1>2. due' = due \ {c} /\ (close' = "returned" => close = "returned")
  BY DEF Done
<1> QED  BY <1>1, <1>2 DEF DueInv

\* The accept loop, Close and the start and end of handlers.
LEMMA ServerKeeps ==
  ASSUME IInv,
         \/ Register \/ Spawn \/ AcceptError \/ CloseFlag \/ CloseListener \/ CloseReturn
         \/ \E c \in Conn : Connect(c) \/ Accept(c) \/ Dial(c) \/ DialFail(c)
  PROVE  IInv'
<1>0. TypeInv /\ DueInv /\ \A d \in Conn : ConnInv(d)
  BY DEF IInv
<1>1. CASE Register \/ AcceptError \/ CloseFlag \/ CloseReturn
  <2>1. UNCHANGED <<accepted, connVars>>
    BY <1>1 DEF Register, AcceptError, CloseFlag, CloseReturn
  <2>2. TypeInv'
    BY <1>0, <2>1 DEF connVars, TypeInv
  <2>3. \A d \in Conn : ConnInv(d)'
    BY <1>0, <2>1 DEF connVars, ConnInv, Through
  <2>4. DueInv'
    BY <1>0, <1>1, <2>1 DEF connVars, DueInv, Handled, Register, AcceptError, CloseFlag,
                            CloseReturn
  <2> QED  BY <2>2, <2>3, <2>4 DEF IInv
<1>2. CASE Spawn
  <2>1. accepted \in Conn
    BY <1>0, <1>2 DEF Spawn, TypeInv
  <2>2. TypeInv'
    BY <1>0, <1>2, <2>1 DEF Spawn, ConnGoto, TypeInv, Label
  <2>3. \A d \in Conn : ConnInv(d)'
    BY <1>0, <1>2, <2>1, ServerKeepsConn DEF Spawn, ConnGoto, TypeInv
  <2>4. Handled \subseteq Handled'
    BY <1>0, <1>2, <2>1 DEF Spawn, ConnGoto, TypeInv, Handled
  <2>5. DueInv'
    BY <1>0, <1>2, <2>4, DueKeeps DEF Spawn
  <2> QED  BY <2>2, <2>3, <2>5 DEF IInv
<1>3. CASE CloseListener
  <2>1. TypeInv'
    BY <1>0, <1>3 DEF CloseListener, TypeInv, Label
  <2>2. \A d \in Conn : ConnInv(d)'
    BY <1>0, <1>3, ServerKeepsConn DEF CloseListener, TypeInv
  <2>3. Handled' = Handled
    BY <1>0, <1>3 DEF CloseListener, TypeInv, Handled
  <2>4. DueInv'
    BY <1>0, <1>3, <2>3 DEF CloseListener, DueInv
  <2> QED  BY <2>1, <2>2, <2>4 DEF IInv
<1>4. ASSUME NEW c \in Conn, Connect(c) \/ Accept(c)
      PROVE  IInv'
  <2>1. TypeInv'
    BY <1>0, <1>4 DEF Connect, Accept, serverVars, ConnGoto, TypeInv, Label
  <2>2. \A d \in Conn : ConnInv(d)'
    BY <1>0, <1>4, ServerKeepsConn DEF Connect, Accept, ConnGoto, TypeInv
  <2>3. Handled \subseteq Handled'
    BY <1>0, <1>4 DEF Connect, Accept, ConnGoto, TypeInv, Handled
  <2>4. DueInv'
    BY <1>0, <1>4, <2>3, DueKeeps DEF Connect, Accept, serverVars
  <2> QED  BY <2>1, <2>2, <2>4 DEF IInv
<1>5. ASSUME NEW c \in Conn, Dial(c)
      PROVE  IInv'
  <2>1. TypeInv'
    BY <1>0, <1>5 DEF Dial, serverVars, ConnGoto, TypeInv, Label
  <2>2. \A d \in Conn : ConnInv(d)'
    BY <1>0, <1>5, ServerKeepsConn DEF Dial, ConnGoto, TypeInv
  <2>3. Handled \subseteq Handled'
    BY <1>0, <1>5 DEF Dial, ConnGoto, TypeInv, Handled
  <2>4. DueInv'
    BY <1>0, <1>5, <2>3, DueKeeps DEF Dial, serverVars
  <2> QED  BY <2>1, <2>2, <2>4 DEF IInv
<1>6. ASSUME NEW c \in Conn, DialFail(c)
      PROVE  IInv'
  <2>1. TypeInv'
    BY <1>0, <1>6 DEF DialFail, Done, ConnGoto, TypeInv, Label
  <2>2. \A d \in Conn : ConnInv(d)'
    BY <1>0, <1>6, ServerKeepsConn DEF DialFail, Done, ConnGoto, TypeInv
  <2>3. DueInv'
    BY <1>0, <1>6, DoneKeeps DEF DialFail
  <2> QED  BY <2>1, <2>2, <2>3 DEF IInv
<1> QED  BY <1>1, <1>2, <1>3, <1>4, <1>5, <1>6

\* The copying goroutines and the end of the handler.
LEMMA CopyKeeps ==
  ASSUME IInv, NEW c \in Conn, CopyUp(c) \/ CopyDown(c) \/ Join(c)
  PROVE  IInv'
<1>0. TypeInv /\ DueInv /\ \A d \in Conn : ConnInv(d)
  BY DEF IInv
<1>1. UNCHANGED <<accepted, wrote, fin, dead>>
  BY DEF CopyUp, CopyDown, Join, Done, serverVars
<1>2. "client" \in TcpSide /\ "backend" \in TcpSide
  BY DEF TcpSide
<1>3. DueInv'
  <2>1. CASE CopyUp(c) \/ CopyDown(c)
    <3>1. Handled \subseteq Handled'
      BY <1>0, <2>1 DEF CopyUp, CopyDown, ConnGoto, TypeInv, Handled
    <3> QED  BY <1>0, <2>1, <3>1, DueKeeps DEF CopyUp, CopyDown, serverVars
  <2>2. CASE Join(c)
    BY <1>0, <2>2, DoneKeeps DEF Join
  <2> QED  BY <2>1, <2>2
<1>4. ASSUME NEW s \in TcpSide, CanMove(c, s), Move(c, s), UNCHANGED <<at, up, halfClosed>>
      PROVE  TypeInv' /\ \A d \in Conn : ConnInv(d)'
  <2>1. /\ copied' \in [Conn -> [TcpSide -> Nat]]
        /\ \A d \in Conn, t \in TcpSide : d # c \/ t # s => copied'[d][t] = copied[d][t]
    BY <1>0, <1>4, OneMore DEF Move, TypeInv
  <2>2. TypeInv'
    BY <1>0, <1>1, <1>4, <2>1 DEF TypeInv
  <2>3. copied[c][s] # wrote[c][s]
    BY <1>0, <1>4 DEF CanMove, TypeInv
  <2>4. ASSUME NEW d \in Conn
        PROVE  ConnInv(d)'
    BY <1>0, <1>1, <1>2, <1>4, <2>1, <2>3 DEF ConnInv, Through
  <2> QED  BY <2>2, <2>4
<1>5. ASSUME NEW s \in TcpSide, NEW t \in TcpSide,
             AtEof(c, s) \/ Broken(c, s, t)
      PROVE  dead[c] = {} => Through(c, s)
  BY <1>5 DEF AtEof, Broken, Through
<1>6. CASE CopyUp(c)
  <2>1. CASE CanMove(c, "client") /\ Move(c, "client") /\ UNCHANGED <<up, halfClosed>>
    BY <1>2, <1>3, <1>4, <1>6, <2>1 DEF CopyUp, IInv
  <2>2. CASE /\ AtEof(c, "client") \/ Broken(c, "client", "backend")
             /\ up' = [up EXCEPT ![c] = "end"]
             /\ halfClosed' = [halfClosed EXCEPT ![c] = @ \cup {"backend"}]
             /\ UNCHANGED copied
    <3>1. TypeInv' /\ at' = at
      BY <1>0, <1>1, <1>2, <1>6, <2>2 DEF CopyUp, TypeInv
    <3>2. dead[c] = {} => Through(c, "client")
      BY <1>2, <1>5, <2>2
    <3>3. ASSUME NEW d \in Conn
          PROVE  ConnInv(d)'
      BY <1>0, <1>1, <2>2, <3>1, <3>2 DEF TypeInv, ConnInv, Through
    <3> QED  BY <1>3, <3>1, <3>3 DEF IInv
  <2> QED  BY <1>6, <2>1, <2>2 DEF CopyUp
<1>7. CASE CopyDown(c)
  <2>1. CASE CanMove(c, "backend") /\ Move(c, "backend") /\ UNCHANGED <<at, halfClosed>>
    BY <1>2, <1>3, <1>4, <1>7, <2>1 DEF CopyDown, IInv
  <2>2. CASE /\ AtEof(c, "backend") \/ Broken(c, "backend", "client")
             /\ at' = [at EXCEPT ![c] = "join"]
             /\ halfClosed' = [halfClosed EXCEPT ![c] = @ \cup {"client"}]
             /\ UNCHANGED copied
    <3>1. TypeInv' /\ up' = up
      BY <1>0, <1>1, <1>2, <1>7, <2>2 DEF CopyDown, TypeInv, Label
    <3>2. dead[c] = {} => Through(c, "backend")
      BY <1>2, <1>5, <2>2
    <3>3. ASSUME NEW d \in Conn
          PROVE  ConnInv(d)'
      BY <1>0, <1>1, <2>2, <3>1, <3>2 DEF TypeInv, ConnInv, Through
    <3> QED  BY <1>3, <3>1, <3>3 DEF IInv
  <2> QED  BY <1>7, <2>1, <2>2 DEF CopyDown, ConnGoto
<1>8. CASE Join(c)
  <2>1. TypeInv'
    BY <1>0, <1>8 DEF Join, Done, ConnGoto, TypeInv, Label
  <2>2. \A d \in Conn : ConnInv(d)'
    BY <1>0, <1>8 DEF Join, Done, ConnGoto, TypeInv, ConnInv, Through
  <2> QED  BY <1>3, <2>1, <2>2 DEF IInv
<1> QED  BY <1>6, <1>7, <1>8

\* Every step keeps the invariant.
LEMMA StepKeeps ==
  ASSUME IInv, [TcpNext]_tcpVars
  PROVE  IInv'
<1>1. CASE UNCHANGED tcpVars
  BY <1>1 DEF IInv, tcpVars, TypeInv, ConnInv, Through, DueInv, Handled
<1>2. CASE TcpNext
  BY <1>2, PeerKeeps, ServerKeeps, CopyKeeps DEF TcpNext, HandleConn
<1> QED  BY <1>1, <1>2

\* The inductive invariant of the TCP proxy.
THEOREM Invariance == TcpSpec => []IInv
<1>1. IInv /\ [TcpNext]_tcpVars => IInv'
  BY StepKeeps
<1> QED  BY <1>1, InitFacts, PTL DEF TcpSpec

\* Half-closing loses nothing: unless a peer is lost, a peer is told that no more
\* will come only when all that the other one sent has gone through, and a
\* connection ends only when both have been told, whichever finished first.
THEOREM AllForwardedHolds == TcpSpec => []AllForwarded
<1>1. IInv => AllForwarded
  BY DEF IInv, TypeInv, ConnInv, Through, AllForwarded, TcpSide
<1> QED  BY <1>1, Invariance, PTL

\* Close of the TCP proxy returns only when every connection that was being
\* served when it was called has been finished, for any number of connections,
\* whatever is accepted, spawned, dialled or lost meanwhile.
THEOREM CloseDrainsServedHolds == TcpSpec => []CloseDrainsServed
<1>1. IInv => CloseDrainsServed
  BY DEF IInv, DueInv, CloseDrainsServed
<1> QED  BY <1>1, Invariance, PTL
=============================================================================
