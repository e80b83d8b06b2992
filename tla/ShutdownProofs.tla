--------------------------- MODULE ShutdownProofs ---------------------------
(***************************************************************************)
(* The shutdown in cmd/da-proxy/main.go for any number of requests,        *)
(* sessions, calls, connections and streams: who may still push into the   *)
(* closed log store (PushesAreInTime), and that what main waits for only   *)
(* gets less (ShutdownOnlyDrains).                                         *)
(***************************************************************************)
EXTENDS Shutdown, TLAPS

Labels == {"run", "grpc", "tcp", "drain", "proxy", "admin", "metrics", "cache", "sink",
           "sleep", "exited"}

\* The steps after proxyServer.Shutdown, without the end of the process.
AfterProxy == {"admin", "metrics", "cache", "sink", "sleep"}

States == {"idle", "accepted", "active", "hijacked", "ended"}

TypeInv ==
  /\ main \in Labels /\ late \in Labels \cup {"no"}
  /\ work \in [Work -> States]
  /\ strays \subseteq Tcp /\ panicked \subseteq Work /\ aborted \in BOOLEAN
  /\ sink \in {"open", "closing", "closed"}

\* The time ran out at a step that main has reached.
LateInv ==
  /\ late # "run"
  /\ main = "run" => late = "no"
  /\ main \in {"grpc", "tcp", "drain", "proxy"} => late \in {"no"} \cup OwnTime

\* What main has waited for is over, except for what came too late to be
\* waited for.
WaitedInv ==
  /\ main \notin {"run", "grpc", "exited"} => Active(Grpc) = {}
  /\ main \in {"proxy"} \cup AfterProxy => Active(Tcp) \subseteq strays
  /\ main \in AfterProxy /\ HttpBusy => late \in OwnTime

\* Only sessions are hijacked, only the last steps find the channel closed and
\* an aborted process has ended.
ShapeInv ==
  /\ \A w \in Work : work[w] = "hijacked" => w \in WsSession
  /\ sink # "open" => main \in {"sleep", "exited"}
  /\ aborted => main = "exited"

IInv == TypeInv /\ LateInv /\ WaitedInv /\ ShapeInv /\ PushesAreInTime

-----------------------------------------------------------------------------
(* The order of main's steps.                                              *)

\* Place finds each step of Order where it stands.
LEMMA PlaceFacts ==
  /\ Place("run") = 1 /\ Place("grpc") = 2 /\ Place("tcp") = 3
  /\ Place("drain") = 4 /\ Place("proxy") = 5 /\ Place("admin") = 6
  /\ Place("metrics") = 7 /\ Place("cache") = 8 /\ Place("sink") = 9
  /\ Place("sleep") = 10 /\ Place("exited") = 11
<1>1. DOMAIN Order = 1 .. 11
  BY DEF Order
<1>2. \A i, j \in DOMAIN Order : Order[i] = Order[j] => i = j
  BY <1>1 DEF Order
<1>3. ASSUME NEW i \in DOMAIN Order
      PROVE  Place(Order[i]) = i
  BY <1>2 DEF Place
<1> QED  BY <1>1, <1>3 DEF Order

\* Each of main's steps leads to the next one of Order.
LEMMA StepFacts ==
  /\ Step("run") => main = "run" /\ main' = "grpc"
  /\ Step("grpc") => main = "grpc" /\ main' = "tcp"
  /\ Step("drain") => main = "drain" /\ main' = "proxy"
  /\ Step("proxy") => main = "proxy" /\ main' = "admin"
  /\ Step("admin") => main = "admin" /\ main' = "metrics"
  /\ Step("metrics") => main = "metrics" /\ main' = "cache"
  /\ Step("cache") => main = "cache" /\ main' = "sink"
  /\ Step("sink") => main = "sink" /\ main' = "sleep"
  /\ Step("sleep") => main = "sleep" /\ main' = "exited"
BY PlaceFacts DEF Step, Order

\* What still comes before the Shutdown of the two HTTP servers.
LEMMA BeforeFacts ==
  ASSUME main \in Labels
  PROVE  /\ Before("proxy") <=> main \in {"run", "grpc", "tcp", "drain"}
         /\ Before("drain") <=> main \in {"run", "grpc", "tcp"}
BY PlaceFacts DEF Before, Labels

-----------------------------------------------------------------------------
(* What serves and is served.                                              *)

\* Serve of the gRPC proxy keeps the invariant, its fatal error included.
LEMMA GrpcServeKeeps ==
  ASSUME IInv, GrpcServe
  PROVE  IInv'
<1> USE DEF GrpcServe, Alive, IInv, Labels, AfterProxy
<1>1. TypeInv'
  BY DEF TypeInv
<1>2. LateInv'
  BY DEF LateInv, OwnTime
<1>3. WaitedInv'
  BY DEF WaitedInv, Active, HttpBusy
<1>4. ShapeInv' /\ PushesAreInTime'
  BY DEF ShapeInv, PushesAreInTime
<1> QED  BY <1>1, <1>2, <1>3, <1>4

\* An activity begins only before the server that serves it is told to stop.
LEMMA BeginKeeps ==
  ASSUME IInv, NEW w \in Work, Begin(w)
  PROVE  IInv'
<1> USE DEF IInv
<1>1. TypeInv' /\ LateInv' /\ PushesAreInTime'
  BY DEF Begin, TypeInv, LateInv, PushesAreInTime, States
<1>2. \A x \in Work : work'[x] = IF x = w THEN "active" ELSE work[x]
  BY DEF Begin, TypeInv
<1>3. ShapeInv'
  BY <1>2 DEF Begin, ShapeInv
<1>4. WaitedInv'
  <2>1. CASE w \in Http \cup WsSession /\ Before("proxy")
    <3>1. main \in {"run", "grpc", "tcp", "drain"} /\ main' = main
      BY <2>1, BeforeFacts DEF Begin, TypeInv
    <3>2. Active(Grpc)' = Active(Grpc)
      BY <2>1, <1>2, KindsAssumption DEF Active, Work
    <3> QED  BY <3>1, <3>2 DEF WaitedInv, AfterProxy
  <2>2. CASE w \in Stream
    <3>1. /\ Active(Grpc)' = Active(Grpc) /\ Active(Tcp)' = Active(Tcp)
          /\ Active(Http \cup WsSession)' = Active(Http \cup WsSession)
      BY <2>2, <1>2, KindsAssumption DEF Active, Work
    <3> QED  BY <3>1 DEF WaitedInv, HttpBusy, Begin
  <2>3. CASE w \in Grpc /\ main = "run"
    BY <2>3 DEF WaitedInv, AfterProxy, Begin
  <2> QED  BY <2>1, <2>2, <2>3 DEF Begin
<1> QED  BY <1>1, <1>3, <1>4

\* A connection that Close did not see is a stray from its first moment.
LEMMA TcpKeeps ==
  ASSUME IInv, NEW w \in Tcp, TcpAccept(w) \/ TcpSpawn(w)
  PROVE  IInv'
<1> USE DEF IInv
<1>1. w \in Work /\ w \notin Grpc \cup Http \cup WsSession
  BY KindsAssumption DEF Work
<1>2. TypeInv'
  BY <1>1 DEF TcpAccept, TcpSpawn, TypeInv, States, Labels
<1>3. LateInv' /\ PushesAreInTime'
  BY DEF TcpAccept, TcpSpawn, LateInv, PushesAreInTime, OwnTime
<1>4. \A x \in Work : x # w => work'[x] = work[x]
  BY DEF TcpAccept, TcpSpawn, TypeInv
<1>5. work'[w] \in {"accepted", "active"}
  BY <1>1 DEF TcpAccept, TcpSpawn, TypeInv
<1>6. ShapeInv'
  BY <1>4, <1>5 DEF TcpAccept, TcpSpawn, ShapeInv, Alive
<1>7. /\ Active(Grpc)' = Active(Grpc)
      /\ Active(Http \cup WsSession)' = Active(Http \cup WsSession)
  BY <1>1, <1>4 DEF Active, Work
<1>8. Active(Tcp)' \subseteq Active(Tcp) \cup {w}
  BY <1>4 DEF Active, Work
<1>9. main \in {"proxy"} \cup AfterProxy => Active(Tcp)' \subseteq strays'
  <2>1. CASE TcpAccept(w)
    <3>1. w \notin Active(Tcp)'
      BY <2>1, <1>1 DEF TcpAccept, Active, TypeInv
    <3> QED  BY <2>1, <3>1, <1>8 DEF TcpAccept, WaitedInv
  <2>2. CASE TcpSpawn(w)
    <3>1. main \in {"proxy"} \cup AfterProxy => strays' = strays \cup {w}
      BY <2>2, BeforeFacts DEF TcpSpawn, TypeInv, AfterProxy
    <3> QED  BY <3>1, <1>8 DEF WaitedInv
  <2> QED  BY <2>1, <2>2
<1>10. WaitedInv'
  BY <1>7, <1>9 DEF WaitedInv, HttpBusy, TcpAccept, TcpSpawn, AfterProxy
<1> QED  BY <1>2, <1>3, <1>6, <1>10

\* An upgraded session is no longer a request that anybody waits for.
LEMMA HijackKeeps ==
  ASSUME IInv, NEW w \in WsSession, Hijack(w)
  PROVE  IInv'
<1> USE DEF IInv
<1>1. w \in Work
  BY DEF Work
<1>2. TypeInv' /\ LateInv' /\ PushesAreInTime'
  BY <1>1 DEF Hijack, TypeInv, LateInv, PushesAreInTime, States
<1>3. \A x \in Work : work'[x] = IF x = w THEN "hijacked" ELSE work[x]
  BY DEF Hijack, TypeInv
<1>4. ShapeInv'
  BY <1>3 DEF Hijack, ShapeInv
<1>5. /\ Active(Grpc)' \subseteq Active(Grpc) /\ Active(Tcp)' \subseteq Active(Tcp)
      /\ HttpBusy' => HttpBusy
  BY <1>3 DEF Active, HttpBusy, Work
<1>6. WaitedInv'
  BY <1>5 DEF WaitedInv, Hijack
<1> QED  BY <1>2, <1>4, <1>6

\* Who finishes while the channel is closed is nobody that main has waited
\* for in time.
LEMMA FinishKeeps ==
  ASSUME IInv, NEW w \in Work, Finish(w)
  PROVE  IInv'
<1> USE DEF IInv
<1>1. \A x \in Work : work'[x] = IF x = w THEN "ended" ELSE work[x]
  BY DEF Finish, TypeInv
<1>2. /\ \/ UNCHANGED <<panicked, main, aborted>>
         \/ /\ w \notin Stream /\ sink = "closed" /\ panicked' = panicked \cup {w}
            /\ \/ w \in Grpc \cup Tcp /\ main' = "exited" /\ aborted' = TRUE
               \/ w \notin Grpc \cup Tcp /\ UNCHANGED <<main, aborted>>
      /\ UNCHANGED <<late, grpc, tcp, strays, sink>>
  BY DEF Finish, Push
<1>3. main # "exited" /\ ~aborted
  BY DEF Finish, Alive, ShapeInv
<1>4. TypeInv'
  <2>1. work' \in [Work -> States]
    BY DEF Finish, TypeInv, States
  <2> QED  BY <1>2, <2>1 DEF TypeInv, Labels
<1>5. LateInv'
  BY <1>2 DEF LateInv, OwnTime
<1>6. ShapeInv'
  BY <1>1, <1>2, <1>3 DEF ShapeInv
<1>7. /\ Active(Grpc)' \subseteq Active(Grpc) /\ Active(Tcp)' \subseteq Active(Tcp)
      /\ HttpBusy' => HttpBusy
  BY <1>1 DEF Active, HttpBusy, Work
<1>8. WaitedInv'
  BY <1>2, <1>3, <1>7 DEF WaitedInv, AfterProxy
<1>9. PushesAreInTime'
  <2>1. CASE panicked' = panicked
    BY <1>2, <2>1 DEF PushesAreInTime
  <2>2. CASE sink = "closed" /\ panicked' = panicked \cup {w}
    <3>1. main = "sleep"
      BY <1>3, <2>2 DEF ShapeInv
    <3>2. work[w] \in {"active", "hijacked"} /\ (w \notin WsSession => work[w] = "active")
      BY DEF Finish, ShapeInv
    <3>3. w \notin Grpc
      BY <3>1, <3>2, KindsAssumption DEF WaitedInv, Active
    <3>4. w \in Tcp => w \in strays
      BY <3>1, <3>2, KindsAssumption DEF WaitedInv, Active, AfterProxy
    <3>5. w \in Http => late \in OwnTime
      BY <1>3, <3>1, <3>2, KindsAssumption DEF WaitedInv, Active, HttpBusy, AfterProxy
    <3> QED  BY <1>2, <2>2, <3>3, <3>4, <3>5 DEF PushesAreInTime
  <2> QED  BY <1>2, <2>1, <2>2
<1> QED  BY <1>4, <1>5, <1>6, <1>8, <1>9

-----------------------------------------------------------------------------
(* main.                                                                   *)

\* The 30 seconds that run out late are nobody's excuse.
LEMMA ExpireKeeps ==
  ASSUME IInv, Expire
  PROVE  IInv'
<1> USE DEF IInv, Expire, Waiting
<1>1. TypeInv' /\ LateInv'
  BY DEF TypeInv, LateInv, OwnTime
<1>2. WaitedInv'
  BY DEF WaitedInv, Active, HttpBusy, OwnTime
<1>3. ShapeInv' /\ PushesAreInTime'
  BY DEF ShapeInv, PushesAreInTime, OwnTime
<1> QED  BY <1>1, <1>2, <1>3

\* main takes its steps only when those it waits for have ended, or when the
\* time is over.
LEMMA MainKeeps ==
  ASSUME IInv, Signal \/ Main
  PROVE  IInv'
<1> USE DEF IInv
<1>1. UNCHANGED <<late, work, strays, panicked, aborted>>
  BY DEF Signal, Main, GrpcStop, TcpClose, TcpDrained, ProxyShutdown, AdminShutdown,
         Deferred, SinkClose, Exit
<1>2. \A K : Active(K)' = Active(K)
  BY <1>1 DEF Active
<1>3. HttpBusy' = HttpBusy
  BY <1>2 DEF HttpBusy
<1>4. PushesAreInTime'
  BY <1>1 DEF PushesAreInTime
<1>5. ~aborted
  BY StepFacts DEF ShapeInv, Signal, Main, GrpcStop, TcpClose, TcpDrained, ProxyShutdown,
                   AdminShutdown, Deferred, SinkClose, Exit
<1> SUFFICES TypeInv' /\ LateInv' /\ WaitedInv' /\ ShapeInv'
  BY <1>4
<1> USE <1>1, <1>2, <1>3, <1>5, StepFacts
     DEF TypeInv, LateInv, WaitedInv, ShapeInv, Labels, OwnTime, AfterProxy
<1>6. CASE Signal
  BY <1>6 DEF Signal
<1>7. CASE GrpcStop
  BY <1>7 DEF GrpcStop
<1>8. CASE TcpClose
  BY <1>8 DEF TcpClose
<1>9. CASE ProxyShutdown
  BY <1>9 DEF ProxyShutdown
<1>10. CASE AdminShutdown
  BY <1>10 DEF AdminShutdown
<1>11. CASE Deferred
  BY <1>11 DEF Deferred
<1>12. CASE SinkClose
  BY <1>12 DEF SinkClose
<1>13. CASE Exit
  BY <1>13 DEF Exit
<1>14. CASE TcpDrained
  BY <1>14 DEF TcpDrained
<1> QED  BY <1>6, <1>7, <1>8, <1>9, <1>10, <1>11, <1>12, <1>13, <1>14 DEF Main

-----------------------------------------------------------------------------
\* The process begins with nothing waited for and nothing lost.
LEMMA InitIInv == ShutdownInit => IInv
BY DEF ShutdownInit, IInv, TypeInv, LateInv, WaitedInv, ShapeInv, PushesAreInTime,
   Labels, States,
       AfterProxy

\* Every step keeps the invariant.
LEMMA NextIInv == IInv /\ [ShutdownNext]_procVars => IInv'
<1> SUFFICES ASSUME IInv, [ShutdownNext]_procVars
             PROVE  IInv'
  OBVIOUS
<1>1. CASE Signal \/ Main
  BY <1>1, MainKeeps
<1>2. CASE Expire
  BY <1>2, ExpireKeeps
<1>3. CASE ChannelClose
  <2> USE <1>3 DEF ChannelClose, IInv, Alive
  <2>1. TypeInv' /\ LateInv' /\ ShapeInv' /\ PushesAreInTime'
    BY DEF TypeInv, LateInv, ShapeInv, PushesAreInTime
  <2>2. WaitedInv'
    BY DEF WaitedInv, Active, HttpBusy
  <2> QED  BY <2>1, <2>2
<1>4. CASE GrpcServe
  BY <1>4, GrpcServeKeeps
<1>5. CASE TcpServe \/ UNCHANGED procVars
  <2>1. UNCHANGED <<main, late, work, strays, sink, panicked, aborted>>
    BY <1>5 DEF TcpServe, procVars
  <2>2. TypeInv' /\ LateInv' /\ ShapeInv' /\ PushesAreInTime'
    BY <2>1 DEF IInv, TypeInv, LateInv, ShapeInv, PushesAreInTime
  <2>3. WaitedInv'
    BY <2>1 DEF IInv, WaitedInv, Active, HttpBusy
  <2> QED  BY <2>2, <2>3 DEF IInv
<1>6. CASE \E w \in Work : Begin(w) \/ Finish(w)
  BY <1>6, BeginKeeps, FinishKeeps
<1>7. CASE \E w \in WsSession : Hijack(w)
  BY <1>7, HijackKeeps
<1>8. CASE \E w \in Tcp : TcpAccept(w) \/ TcpSpawn(w)
  BY <1>8, TcpKeeps
<1> QED  BY <1>1, <1>2, <1>3, <1>4, <1>5, <1>6, <1>7, <1>8 DEF ShutdownNext

\* Nobody pushes into the closed channel of the log store whom main has
\* waited for in time; in particular no gRPC call takes the process down.
THEOREM PushesAreInTimeHolds == ShutdownSpec => []PushesAreInTime
<1>1. IInv => PushesAreInTime
  BY DEF IInv
<1> QED  BY InitIInv, NextIInv, <1>1, PTL DEF ShutdownSpec

-----------------------------------------------------------------------------
(* What main waits for only gets less.                                     *)

\* The connections that Accept has returned and that have not ended.
Connected == {w \in Tcp : work[w] \in {"accepted", "active"}}

\* main never goes back, and those it waits for at a step, or has stopped
\* waiting for, are joined by nobody.  Close of the TCP proxy is the one that
\* can be kept waiting by newcomers: if Serve begins after it.
OnlyDrains ==
  /\ Place(main)' >= Place(main)
  /\ ~Before("grpc") => Active(Grpc)' \subseteq Active(Grpc)
  /\ ~Before("drain") /\ tcp = "serving" =>
       tcp' = "serving" /\ Connected' \subseteq Connected
  /\ ~Before("proxy") => Active(Http \cup WsSession)' \subseteq Active(Http \cup WsSession)
  /\ ~Before("admin") => Active(Stream)' \subseteq Active(Stream)

\* Where main is, in numbers.
LEMMA PlaceOrder ==
  ASSUME NEW l \in Labels
  PROVE  /\ Place(l) \in 1 .. 11 /\ Place("exited") >= Place(l)
         /\ (Place(l) < Place("grpc")) <=> l = "run"
         /\ (Place(l) < Place("drain")) <=> l \in {"run", "grpc", "tcp"}
         /\ (Place(l) < Place("proxy")) <=> l \in {"run", "grpc", "tcp", "drain"}
         /\ (Place(l) < Place("admin")) <=> l \in {"run", "grpc", "tcp", "drain", "proxy"}
BY PlaceFacts DEF Labels

\* main takes its steps in the order of Order, or the process is aborted.
LEMMA MainGoesOn ==
  ASSUME IInv, ShutdownNext
  PROVE  Place(main)' >= Place(main)
<1>1. PICK l, k : l = main /\ k = main' /\ l \in Labels /\ k \in Labels
  BY NextIInv DEF IInv, TypeInv
<1>2. CASE Signal \/ Main
  <2>1. <<l, k>> \in {<<"run", "grpc">>, <<"grpc", "tcp">>, <<"tcp", "proxy">>,
                     <<"tcp", "drain">>, <<"drain", "proxy">>,
                     <<"proxy", "admin">>, <<"admin", "metrics">>, <<"metrics", "cache">>,
                     <<"cache", "sink">>, <<"sink", "sleep">>, <<"sleep", "exited">>}
    BY <1>1, <1>2, StepFacts DEF Signal, Main, GrpcStop, TcpClose, TcpDrained,
       ProxyShutdown, AdminShutdown, Deferred, SinkClose, Exit
  <2>2. Place(k) >= Place(l)
    BY <2>1, PlaceFacts
  <2> QED  BY <1>1, <2>2
<1>3. CASE ~(Signal \/ Main)
  <2>1. k = l \/ k = "exited"
    BY <1>1, <1>3 DEF ShutdownNext, Expire, ChannelClose, GrpcServe, TcpServe, Begin,
       Finish, Push,
       Hijack, TcpAccept, TcpSpawn
  <2>2. Place(k) >= Place(l)
    BY <1>1, <2>1, PlaceOrder
  <2> QED  BY <1>1, <2>2
<1> QED  BY <1>2, <1>3

\* Nobody begins at a server that has been told to stop.
LEMMA NobodyJoins ==
  ASSUME IInv, ShutdownNext, NEW w \in Work
  PROVE  /\ w \in Grpc /\ main # "run" /\ work'[w] = "active" => work[w] = "active"
         /\ w \in Http \cup WsSession /\ main \notin {"run", "grpc", "tcp", "drain"}
              /\ work'[w] = "active" => work[w] = "active"
         /\ w \in Stream /\ main \notin {"run", "grpc", "tcp", "drain", "proxy"}
              /\ work'[w] = "active" => work[w] = "active"
         /\ w \in Tcp /\ main \notin {"run", "grpc", "tcp"} /\ tcp = "serving"
              /\ work'[w] \in {"accepted", "active"} => work[w] \in {"accepted", "active"}
<1>1. main \in Labels /\ work \in [Work -> States]
  BY DEF IInv, TypeInv
<1>2. /\ Before("proxy") <=> main \in {"run", "grpc", "tcp", "drain"}
      /\ Before("drain") <=> main \in {"run", "grpc", "tcp"}
      /\ Before("admin") <=> main \in {"run", "grpc", "tcp", "drain", "proxy"}
  BY <1>1, PlaceOrder DEF Before
<1>3. CASE work' = work
  BY <1>3
<1>4. CASE \E x \in Work : Begin(x)
  <2>1. PICK x \in Work : Begin(x)
    BY <1>4
  <2>2. w # x => work'[w] = work[w]
    BY <1>1, <2>1 DEF Begin
  <2>3. w = x => \/ w \in Http \cup WsSession /\ main \in {"run", "grpc", "tcp", "drain"}
                 \/ w \in Stream /\ main \in {"run", "grpc", "tcp", "drain", "proxy"}
                 \/ w \in Grpc /\ main = "run"
    BY <1>2, <2>1 DEF Begin
  <2> QED  BY <2>2, <2>3, KindsAssumption
<1>5. CASE (\E x \in Work : Finish(x)) \/ (\E x \in WsSession : Hijack(x))
  <2>1. work'[w] = work[w] \/ work'[w] \in {"ended", "hijacked"}
    BY <1>1, <1>5 DEF Finish, Hijack, Work
  <2> QED  BY <2>1
<1>6. CASE \E x \in Tcp : TcpAccept(x) \/ TcpSpawn(x)
  <2>1. PICK x \in Tcp : TcpAccept(x) \/ TcpSpawn(x)
    BY <1>6
  <2>2. w # x => work'[w] = work[w]
    BY <1>1, <2>1 DEF TcpAccept, TcpSpawn
  <2>3. w = x => w \notin Grpc /\ w \notin Http \cup WsSession /\ w \notin Stream
    BY KindsAssumption
  <2>4. w = x => work[w] = "accepted" \/ main \in {"run", "grpc", "tcp"} \/ tcp # "serving"
    BY <1>2, <2>1 DEF TcpAccept, TcpSpawn
  <2> QED  BY <2>2, <2>3, <2>4
<1> QED  BY <1>3, <1>4, <1>5, <1>6 DEF ShutdownNext, Signal, Expire, Main,
            ChannelClose, GrpcServe, TcpServe, GrpcStop, TcpClose, TcpDrained,
            ProxyShutdown, AdminShutdown, Deferred, SinkClose, Exit

\* The shutdown of main.go goes forward only, and whatever it waits for, for any
\* number of activities, gets less and never more: each wait ends with those it
\* found (the safety half of ShutdownEnds).  The exception is a TCP proxy whose
\* Serve begins after its Close.
THEOREM ShutdownOnlyDrains == ShutdownSpec => [][OnlyDrains]_procVars
<1>1. ASSUME IInv, ShutdownNext
      PROVE  OnlyDrains
  <2>1. main \in Labels
    BY <1>1 DEF IInv, TypeInv
  <2>2. /\ Before("grpc") <=> main = "run"
        /\ Before("drain") <=> main \in {"run", "grpc", "tcp"}
        /\ Before("proxy") <=> main \in {"run", "grpc", "tcp", "drain"}
        /\ Before("admin") <=> main \in {"run", "grpc", "tcp", "drain", "proxy"}
    BY <2>1, PlaceOrder DEF Before
  <2>3. Place(main)' >= Place(main)
    BY <1>1, MainGoesOn
  <2>4. ~Before("grpc") => Active(Grpc)' \subseteq Active(Grpc)
    BY <1>1, <2>2, NobodyJoins DEF Active, Work
  <2>5. ~Before("drain") /\ tcp = "serving" => Connected' \subseteq Connected
    BY <1>1, <2>2, NobodyJoins DEF Connected, Work
  <2>6. tcp = "serving" => tcp' = "serving"
    BY <1>1 DEF ShutdownNext, Signal, Expire, Main, ChannelClose, GrpcServe, TcpServe,
       Begin, Finish, Hijack, TcpAccept, TcpSpawn, GrpcStop, TcpClose, TcpDrained,
       ProxyShutdown, AdminShutdown, Deferred, SinkClose, Exit
  <2>7. ~Before("proxy") =>
          Active(Http \cup WsSession)' \subseteq Active(Http \cup WsSession)
    BY <1>1, <2>2, NobodyJoins DEF Active, Work
  <2>8. ~Before("admin") => Active(Stream)' \subseteq Active(Stream)
    BY <1>1, <2>2, NobodyJoins DEF Active, Work
  <2> QED  BY <2>3, <2>4, <2>5, <2>6, <2>7, <2>8 DEF OnlyDrains
<1> QED  BY <1>1, InitIInv, NextIInv, PTL DEF ShutdownSpec
=============================================================================
