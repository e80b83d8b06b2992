------------------------- MODULE ProxyHandlerProofs -------------------------
(***************************************************************************)
(* Proofs about ProxyHandler, for every configuration of the pools, every  *)
(* set of requests and every number of concurrent requests.  Besides the   *)
(* properties that the runs check, RetryWalkIsBounded: the walk over the   *)
(* pools cannot go on for ever.                                            *)
(***************************************************************************)
EXTENDS ProxyHandler, TLAPS

-----------------------------------------------------------------------------
(* The operators of Routing.                                               *)

\* Every backend has an archival companion (maybe itself) and a sequence of
\* endpoints to draw targets from.
LEMMA BackendFacts ==
  \A b \in Backend : /\ archivalBackend(b) \in Backend
                     /\ Pool[b] \in Seq(Endpoint)
                     /\ TargetPool(b) \in Seq(Endpoint)
BY PoolAssumption, Zenon DEF archivalBackend, TargetPool, Backend, NodeRPC, AppRPC,
   NodeArchivalRPC, AppArchivalRPC

\* Route always chooses one of the HTTP backends, and an archival one only
\* with height routing on.
LEMMA RouteFacts ==
  ASSUME NEW req, NEW hd
  PROVE  /\ RouteBackend(req, hd) \in Backend
         /\ RouteBackend(req, hd) \in {NodeArchivalRPC, AppArchivalRPC}
              => PruningWindow > 0
BY DEF RouteBackend, resolveBackend, IsArchival, archivalBackend, Backend, NodeRPC,
   AppRPC, NodeArchivalRPC, AppArchivalRPC

\* The range of a sequence is its head and the range of its tail.
LEMMA RangeFacts ==
  ASSUME NEW S, NEW s \in Seq(S)
  PROVE  /\ Range(s) \subseteq S
         /\ s = << >> => Range(s) = {}
         /\ s # << >> => /\ Head(s) \in S /\ Tail(s) \in Seq(S)
                         /\ Range(s) \subseteq {Head(s)} \cup Range(Tail(s))
<1>1. Range(s) \subseteq S
  BY DEF Range
<1>2. s = << >> => Range(s) = {}
  BY DEF Range
<1>3. ASSUME s # << >>
      PROVE  /\ Head(s) \in S /\ Tail(s) \in Seq(S)
             /\ Range(s) \subseteq {Head(s)} \cup Range(Tail(s))
  <2>1. Len(s) \in Nat /\ Len(s) > 0 /\ Head(s) = s[1] /\ DOMAIN s = 1 .. Len(s)
    BY <1>3
  <2>2. Tail(s) \in Seq(S) /\ DOMAIN Tail(s) = 1 .. Len(s) - 1
    BY <1>3
  <2>3. \A i \in 1 .. Len(s) - 1 : Tail(s)[i] = s[i + 1]
    BY <1>3
  <2>4. ASSUME NEW i \in 1 .. Len(s), i # 1
        PROVE  s[i] \in Range(Tail(s))
    <3>1. i - 1 \in 1 .. Len(s) - 1 /\ s[i] = Tail(s)[i - 1]
      BY <2>1, <2>3, <2>4
    <3> QED  BY <3>1, <2>2 DEF Range
  <2> QED  BY <1>3, <2>1, <2>2, <2>4 DEF Range
<1> QED  BY <1>1, <1>2, <1>3

\* A node that holds the block never says that it is not available.
LEMMA HolderAnswers ==
  ASSUME NEW e, NEW req, NEW a \in Responses(e, req), NodeHeight(req) \in held[e]
  PROVE  ~isPrunedError(a)
BY DEF Responses, NodeAnswers, isPrunedError, Answer, RPCError, BadGateway

-----------------------------------------------------------------------------
(* Type correctness.                                                       *)


\* The answers the proxy makes up itself are answers.
LEMMA AnswerFacts ==
  /\ NoAnswer \in Answers /\ BadGateway \in Answers
  /\ 400 \in Status /\ 403 \in Status /\ 413 \in Status
  /\ \A s \in Status : Answer(s, "refused") \in Answers
  /\ NoReply \in Reply
  /\ \A a \in Answers, b \in Backend \cup {""} : [answer |-> a, header |-> b] \in Reply
<1>1. \A s \in Status, k \in Kind : Answer(s, k) \in Answers
  BY DEF Answer, Answers
<1>2. \A a \in Answers, b \in Backend \cup {""} : [answer |-> a, header |-> b] \in Reply
  BY DEF Reply
<1>3. /\ 0 \in Status /\ 502 \in Status
      /\ 400 \in Status /\ 403 \in Status /\ 413 \in Status
  BY DEF Status
<1>4. "none" \in Kind /\ "unavailable" \in Kind /\ "refused" \in Kind
  BY DEF Kind
<1>5. NoAnswer \in Answers
  BY <1>1, <1>3, <1>4 DEF NoAnswer
<1>6. BadGateway \in Answers
  BY <1>1, <1>3, <1>4 DEF BadGateway
<1>7. \A s \in Status : Answer(s, "refused") \in Answers
  BY <1>1, <1>4
<1>8. NoReply \in Reply
  BY <1>2, <1>5 DEF NoReply
<1> QED  BY <1>2, <1>3, <1>5, <1>6, <1>7, <1>8

\* Every label the actions go to is a label.
LEMMA LabelFacts ==
  /\ "idle" \in Label /\ "lookup" \in Label /\ "direct" \in Label
  /\ "first" \in Label /\ "pool" \in Label /\ "archival" \in Label
  /\ "flush" \in Label /\ "done" \in Label /\ "aborted" \in Label
BY DEF Label

\* Where HandleRequest sends a request is well typed.
LEMMA DispatchTypes ==
  ASSUME TypeOK, NEW r \in Req, NEW req, NEW b, NEW e, Dispatch(r, req, b, e)
  PROVE  pc' \in [Req -> Label] /\ out' \in [Req -> Reply]
<1>1. pc \in [Req -> Label] /\ out \in [Req -> Reply]
  BY DEF TypeOK
<1>2. pc' \in [Req -> Label]
  BY <1>1, LabelFacts DEF Dispatch
<1>3. [answer |-> BadGateway, header |-> ""] \in Reply
  BY AnswerFacts
<1>4. out' \in [Req -> Reply]
  BY <1>1, <1>3 DEF Dispatch
<1> QED  BY <1>2, <1>4

\* HandleRequest keeps the types.
LEMMA HandleRequestTypes ==
  ASSUME TypeOK, NEW r \in Req, NEW req \in Request, HandleRequest(r, req)
  PROVE  TypeOK'
<1>1. q' \in [Req -> Request \cup {NoRequest}]
  BY DEF TypeOK, HandleRequest
<1>2. ASSUME NEW status \in Status, Refuse(r, status)
      PROVE  /\ pc' \in [Req -> Label] /\ out' \in [Req -> Reply]
             /\ UNCHANGED <<backend, target, could>>
  <2>1. Answer(status, "refused") \in Answers
    BY <1>2, AnswerFacts
  <2>2. [answer |-> Answer(status, "refused"), header |-> ""] \in Reply
    BY <2>1, AnswerFacts
  <2> QED  BY <1>2, <2>2, LabelFacts DEF TypeOK, Refuse
<1>3. ASSUME NEW b \in Backend, NEW e \in Range(TargetPool(b)),
             backend' = [backend EXCEPT ![r] = b],
             target' = [target EXCEPT ![r] = e],
             IF ShouldCache(req)
               THEN pc' = [pc EXCEPT ![r] = "lookup"] /\ UNCHANGED out
               ELSE Dispatch(r, req, b, e),
             could' = [could EXCEPT ![r] =
                         {f \in Candidates(b) : NodeHeight(req) \in held[f]}]
      PROVE  /\ pc' \in [Req -> Label] /\ out' \in [Req -> Reply]
             /\ backend' \in [Req -> Backend \cup {""}]
             /\ target' \in [Req -> Endpoint \cup {""}]
             /\ could' \in [Req -> SUBSET Endpoint]
  <2>1. pc' \in [Req -> Label] /\ out' \in [Req -> Reply]
    <3>1. CASE ShouldCache(req)
      BY <1>3, <3>1, LabelFacts DEF TypeOK
    <3>2. CASE ~ShouldCache(req)
      <4>1. Dispatch(r, req, b, e)
        BY <1>3, <3>2
      <4> QED  BY <4>1, DispatchTypes
    <3> QED  BY <3>1, <3>2
  <2>2. e \in Endpoint
    BY <1>3, BackendFacts, RangeFacts
  <2>3. Candidates(b) \subseteq Endpoint
    BY <1>3, BackendFacts, RangeFacts DEF Candidates
  <2> QED  BY <1>3, <2>1, <2>2, <2>3 DEF TypeOK
<1>4. /\ pc' \in [Req -> Label] /\ out' \in [Req -> Reply]
      /\ backend' \in [Req -> Backend \cup {""}]
      /\ target' \in [Req -> Endpoint \cup {""}]
      /\ could' \in [Req -> SUBSET Endpoint]
  <2>1. ASSUME NEW status \in Status, Refuse(r, status)
        PROVE  /\ pc' \in [Req -> Label] /\ out' \in [Req -> Reply]
               /\ backend' \in [Req -> Backend \cup {""}]
               /\ target' \in [Req -> Endpoint \cup {""}]
               /\ could' \in [Req -> SUBSET Endpoint]
    <3>1. /\ pc' \in [Req -> Label] /\ out' \in [Req -> Reply]
          /\ UNCHANGED <<backend, target, could>>
      BY <2>1, <1>2
    <3> QED  BY <3>1 DEF TypeOK
  <2>2. CASE Accept(r, req)
    <3> DEFINE b == RouteBackend(req, head)
    <3>1. b \in Backend
      BY RouteFacts
    <3>2. PICK e \in Range(TargetPool(b)) :
             /\ target' = [target EXCEPT ![r] = e]
             /\ IF ShouldCache(req)
                  THEN pc' = [pc EXCEPT ![r] = "lookup"] /\ UNCHANGED out
                  ELSE Dispatch(r, req, b, e)
      BY <2>2 DEF Accept
    <3>3. /\ backend' = [backend EXCEPT ![r] = b]
          /\ could' = [could EXCEPT ![r] =
                        {f \in Candidates(b) : NodeHeight(req) \in held[f]}]
      BY <2>2 DEF Accept
    <3> HIDE DEF b
    <3> QED  BY <3>1, <3>2, <3>3, <1>3
  <2>3. Refuse(r, 413) \/ Refuse(r, 400) \/ Refuse(r, 403) \/ Accept(r, req)
    BY DEF HandleRequest
  <2> QED  BY <2>1, <2>2, <2>3, AnswerFacts
<1> QED  BY <1>1, <1>4 DEF TypeOK, HandleRequest, nodeVars

\* An exchange with an endpoint keeps the types of its answer.
LEMMA ExchangeTypes ==
  ASSUME TypeOK, NEW r \in Req, NEW e \in Endpoint \cup {""}, NEW a \in Answers,
         Exchange(r, e, a)
  PROVE  buf' \in [Req -> Answers] /\ from' \in [Req -> Endpoint \cup {""}]
BY DEF TypeOK, Exchange

\* Choosing what to flush keeps the types.
LEMMA FlushAsTypes ==
  ASSUME TypeOK, NEW r \in Req, NEW b \in Backend \cup {""}, FlushAs(r, b)
  PROVE  pc' \in [Req -> Label] /\ out' \in [Req -> Reply]
BY LabelFacts DEF TypeOK, FlushAs, Reply

\* The labels of a request that has been routed and not yet answered.
Routed == {"lookup", "direct", "first", "pool", "archival", "flush"}

\* A request under way has a body, a backend and a target of its pool; an
\* archival backend is chosen only with height routing on.
RoutedRight ==
  \A r \in Req :
    /\ pc[r] # "idle" => q[r] \in Request
    /\ pc[r] \in Routed =>
         /\ backend[r] \in Backend
         /\ target[r] \in Range(TargetPool(backend[r]))
         /\ backend[r] \in {NodeArchivalRPC, AppArchivalRPC} => PruningWindow > 0


\* A request under way has a well-typed backend, target and cache key.
LEMMA RoutedFacts ==
  ASSUME TypeOK, RoutedRight, NEW r \in Req, pc[r] \in Routed
  PROVE  /\ backend[r] \in Backend /\ target[r] \in Endpoint
         /\ CacheKey(q[r]) \in CacheKeys
<1>1. backend[r] \in Backend /\ target[r] \in Range(TargetPool(backend[r]))
  BY DEF RoutedRight
<1>2. target[r] \in Endpoint
  BY <1>1, BackendFacts, RangeFacts
<1>3. q[r] \in Request
  BY DEF RoutedRight, Routed
<1> QED  BY <1>1, <1>2, <1>3 DEF CacheKeys

\* Every step of a request keeps the types.
LEMMA StepTypes ==
  ASSUME TypeOK, RoutedRight, NEW r \in Req, Step(r)
  PROVE  TypeOK'
<1> USE LabelFacts
<1>1. CASE CacheHit(r)
  <2>1. backend[r] \in Backend /\ CacheKey(q[r]) \in CacheKeys
    BY <1>1, RoutedFacts DEF CacheHit, Routed
  <2>2. [answer |-> cache[CacheKey(q[r])], header |-> backend[r]] \in Reply
    BY <2>1, AnswerFacts DEF TypeOK
  <2> QED  BY <1>1, <2>2 DEF TypeOK, CacheHit, nodeVars, requestVars
<1>2. CASE CacheMiss(r)
  <2>1. pc' \in [Req -> Label] /\ out' \in [Req -> Reply]
    BY <1>2, DispatchTypes DEF CacheMiss
  <2> QED  BY <1>2, <2>1 DEF TypeOK, CacheMiss, nodeVars, requestVars
<1>3. CASE proxyDirect(r)
  <2>1. backend[r] \in Backend /\ target[r] \in Endpoint
    BY <1>3, RoutedFacts DEF proxyDirect, Routed
  <2>2. pc' \in [Req -> Label] /\ out' \in [Req -> Reply]
    BY <1>3, <2>1, FlushAsTypes DEF proxyDirect
  <2>3. buf' \in [Req -> Answers] /\ from' \in [Req -> Endpoint \cup {""}]
    BY <1>3, <2>1, ExchangeTypes DEF proxyDirect
  <2> QED  BY <1>3, <2>2, <2>3 DEF TypeOK, proxyDirect, nodeVars, requestVars
<1>4. CASE TryFirst(r)
  <2>1. backend[r] \in Backend /\ target[r] \in Endpoint
    BY <1>4, RoutedFacts DEF TryFirst, Routed
  <2>2. PICK a \in Answers :
          /\ Exchange(r, target[r], a)
          /\ IF isPrunedError(a)
               THEN /\ pc' = [pc EXCEPT ![r] = "pool"]
                    /\ todo' = [todo EXCEPT ![r] = AllEndpoints(backend[r])]
                    /\ UNCHANGED out
               ELSE FlushAs(r, backend[r]) /\ UNCHANGED todo
    BY <1>4 DEF TryFirst
  <2>3. buf' \in [Req -> Answers] /\ from' \in [Req -> Endpoint \cup {""}]
    BY <2>1, <2>2, ExchangeTypes
  <2>4. AllEndpoints(backend[r]) \in Seq(Endpoint)
    BY <2>1, BackendFacts DEF AllEndpoints
  <2>5. /\ pc' \in [Req -> Label] /\ out' \in [Req -> Reply]
        /\ todo' \in [Req -> Seq(Endpoint)]
    <3>1. CASE isPrunedError(a)
      BY <3>1, <2>2, <2>4 DEF TypeOK
    <3>2. CASE ~isPrunedError(a)
      <4>1. FlushAs(r, backend[r]) /\ UNCHANGED todo
        BY <3>2, <2>2
      <4> QED  BY <4>1, <2>1, FlushAsTypes DEF TypeOK
    <3> QED  BY <3>1, <3>2
  <2> QED  BY <1>4, <2>3, <2>5 DEF TypeOK, TryFirst, nodeVars, requestVars
<1>5. CASE TryPool(r)
  <2>1. backend[r] \in Backend
    BY <1>5, RoutedFacts DEF TryPool, Routed
  <2>2. Head(todo[r]) \in Endpoint /\ Tail(todo[r]) \in Seq(Endpoint)
    BY <1>5, RangeFacts DEF TryPool, TypeOK
  <2>3. todo' \in [Req -> Seq(Endpoint)]
    BY <1>5, <2>2 DEF TryPool, TypeOK
  <2>4. /\ pc' \in [Req -> Label] /\ out' \in [Req -> Reply]
        /\ buf' \in [Req -> Answers] /\ from' \in [Req -> Endpoint \cup {""}]
    <3>1. CASE Head(todo[r]) \in {target[r]} \cup Unparsable
      BY <1>5, <3>1 DEF TryPool, TypeOK
    <3>2. CASE Head(todo[r]) \notin {target[r]} \cup Unparsable
      <4>1. PICK a \in Answers :
              /\ Exchange(r, Head(todo[r]), a)
              /\ IF isPrunedError(a) THEN UNCHANGED <<pc, out>>
                                     ELSE FlushAs(r, backend[r])
        BY <1>5, <3>2 DEF TryPool
      <4>2. buf' \in [Req -> Answers] /\ from' \in [Req -> Endpoint \cup {""}]
        BY <2>2, <4>1, ExchangeTypes
      <4>3. pc' \in [Req -> Label] /\ out' \in [Req -> Reply]
        BY <2>1, <4>1, FlushAsTypes DEF TypeOK
      <4> QED  BY <4>2, <4>3
    <3> QED  BY <3>1, <3>2
  <2> QED  BY <1>5, <2>3, <2>4 DEF TypeOK, TryPool, nodeVars, requestVars
<1>6. CASE EndPool(r)
  <2>1. backend[r] \in Backend
    BY <1>6, RoutedFacts DEF EndPool, Routed
  <2>2. AllEndpoints(archivalBackend(backend[r])) \in Seq(Endpoint)
    BY <2>1, BackendFacts DEF AllEndpoints
  <2>3. /\ pc' \in [Req -> Label] /\ out' \in [Req -> Reply]
        /\ todo' \in [Req -> Seq(Endpoint)]
    <3>1. CASE HasArchivalBackend(backend[r])
      BY <1>6, <3>1, <2>2 DEF TypeOK, EndPool
    <3>2. CASE ~HasArchivalBackend(backend[r])
      <4>1. FlushAs(r, backend[r]) /\ UNCHANGED todo
        BY <1>6, <3>2 DEF EndPool
      <4> QED  BY <4>1, <2>1, FlushAsTypes DEF TypeOK
    <3> QED  BY <3>1, <3>2
  <2> QED  BY <1>6, <2>3 DEF TypeOK, EndPool, nodeVars, requestVars
<1>7. CASE TryArchival(r)
  <2>1. archivalBackend(backend[r]) \in Backend
    BY <1>7, RoutedFacts, BackendFacts DEF TryArchival, Routed
  <2>2. Head(todo[r]) \in Endpoint /\ Tail(todo[r]) \in Seq(Endpoint)
    BY <1>7, RangeFacts DEF TryArchival, TypeOK
  <2>3. todo' \in [Req -> Seq(Endpoint)]
    BY <1>7, <2>2 DEF TryArchival, TypeOK
  <2>4. /\ pc' \in [Req -> Label] /\ out' \in [Req -> Reply]
        /\ buf' \in [Req -> Answers] /\ from' \in [Req -> Endpoint \cup {""}]
    <3>1. CASE Head(todo[r]) \in Unparsable
      BY <1>7, <3>1 DEF TryArchival, TypeOK
    <3>2. CASE Head(todo[r]) \notin Unparsable
      <4>1. PICK a \in Answers :
              /\ Exchange(r, Head(todo[r]), a)
              /\ IF isPrunedError(a)
                   THEN UNCHANGED <<pc, out>>
                   ELSE FlushAs(r, archivalBackend(backend[r]))
        BY <1>7, <3>2 DEF TryArchival
      <4>2. buf' \in [Req -> Answers] /\ from' \in [Req -> Endpoint \cup {""}]
        BY <2>2, <4>1, ExchangeTypes
      <4>3. pc' \in [Req -> Label] /\ out' \in [Req -> Reply]
        BY <2>1, <4>1, FlushAsTypes DEF TypeOK
      <4> QED  BY <4>2, <4>3
    <3> QED  BY <3>1, <3>2
  <2> QED  BY <1>7, <2>3, <2>4 DEF TypeOK, TryArchival, nodeVars, requestVars
<1>8. CASE EndArchival(r)
  <2>1. backend[r] \in Backend
    BY <1>8, RoutedFacts DEF EndArchival, Routed
  <2>2. pc' \in [Req -> Label] /\ out' \in [Req -> Reply]
    BY <1>8, <2>1, FlushAsTypes DEF EndArchival
  <2> QED  BY <1>8, <2>2 DEF TypeOK, EndArchival, nodeVars, requestVars
<1>9. CASE AbortHandler(r)
  BY <1>9 DEF TypeOK, AbortHandler, nodeVars, requestVars
<1>10. CASE Flush(r)
  <2>1. buf[r] \in Answers
    BY DEF TypeOK
  <2>2. pc' \in [Req -> Label]
    BY <1>10 DEF TypeOK, Flush
  <2>3. out' \in [Req -> Reply]
    BY <1>10, <2>1 DEF TypeOK, Flush, Reply
  <2>4. cache' \in [CacheKeys -> Answers]
    <3>1. cache \in [CacheKeys -> Answers]
      BY DEF TypeOK
    <3>2. UNCHANGED cache \/ cache' = [cache EXCEPT ![CacheKey(q[r])] = buf[r]]
      BY <1>10 DEF Flush
    <3> QED  BY <2>1, <3>1, <3>2
  <2> QED  BY <1>10, <2>2, <2>3, <2>4 DEF TypeOK, Flush, nodeVars, requestVars
<1> QED  BY <1>1, <1>2, <1>3, <1>4, <1>5, <1>6, <1>7, <1>8, <1>9, <1>10 DEF Step

\* Routing stays right: HandleRequest establishes it, and the labels of a
\* request under way are only reached from one another.
LEMMA RoutedStep ==
  ASSUME TypeOK, RoutedRight, [Next]_vars
  PROVE  RoutedRight'
<1>1. CASE UNCHANGED <<pc, q, backend, target>>
  BY <1>1 DEF RoutedRight
<1>2. ASSUME NEW r \in Req, Step(r)
      PROVE  /\ UNCHANGED <<q, backend, target>> /\ pc[r] \in Routed
             /\ \A s \in Req \ {r} : pc'[s] = pc[s]
  BY <1>2 DEF TypeOK, Step, CacheHit, CacheMiss, Dispatch, proxyDirect, TryFirst, TryPool,
     EndPool, TryArchival, EndArchival, AbortHandler, Flush, FlushAs, requestVars, Routed
<1>3. ASSUME NEW r \in Req, Step(r)
      PROVE  RoutedRight'
  <2>1. pc[r] # "idle"
    BY <1>2, <1>3 DEF Routed
  <2> QED  BY <1>2, <1>3, <2>1 DEF RoutedRight
<1>4. ASSUME NEW r \in Req, NEW req \in Request, HandleRequest(r, req)
      PROVE  RoutedRight'
  <2>1. q' = [q EXCEPT ![r] = req] /\ q'[r] = req
    BY <1>4 DEF HandleRequest, TypeOK
  <2>2. CASE pc' = [pc EXCEPT ![r] = "done"] /\ UNCHANGED <<backend, target>>
    <3>1. pc'[r] = "done" /\ \A s \in Req \ {r} : pc'[s] = pc[s] /\ q'[s] = q[s]
      BY <2>1, <2>2 DEF TypeOK
    <3> QED  BY <2>1, <2>2, <3>1 DEF RoutedRight, Routed
  <2>3. CASE Accept(r, req)
    <3> DEFINE b == RouteBackend(req, head)
    <3>1. b \in Backend /\ (b \in {NodeArchivalRPC, AppArchivalRPC} => PruningWindow > 0)
      BY RouteFacts
    <3>2. backend' = [backend EXCEPT ![r] = b]
      BY <2>3 DEF Accept
    <3>3. PICK e \in Range(TargetPool(b)) : target' = [target EXCEPT ![r] = e]
      BY <2>3 DEF Accept
    <3> HIDE DEF b
    <3>4. /\ backend'[r] = b /\ target'[r] = e
          /\ \A s \in Req \ {r} : /\ backend'[s] = backend[s] /\ target'[s] = target[s]
                                  /\ q'[s] = q[s]
      BY <2>1, <3>2, <3>3 DEF TypeOK
    <3>5. \A s \in Req \ {r} : pc'[s] = pc[s]
      BY <2>3 DEF Accept, Dispatch, TypeOK
    <3> QED  BY <2>1, <3>1, <3>4, <3>5 DEF RoutedRight
  <2> QED  BY <1>4, <2>2, <2>3 DEF HandleRequest, Refuse
<1>5. ASSUME NEW r \in Req, Recycle(r)
      PROVE  RoutedRight'
  <2>1. pc'[r] = "idle" /\ \A s \in Req \ {r} : pc'[s] = pc[s]
    BY <1>5 DEF Recycle, TypeOK
  <2>2. \A s \in Req \ {r} : /\ q'[s] = q[s] /\ backend'[s] = backend[s]
                            /\ target'[s] = target[s]
    BY <1>5 DEF Recycle, TypeOK
  <2> QED  BY <2>1, <2>2 DEF RoutedRight, Routed
<1> QED  BY <1>1, <1>3, <1>4, <1>5 DEF Next, vars, Grow, Prune, pollHeadHeight,
            CacheExpire, requestVars

\* The bounds are numbers.
LEMMA BoundFacts == MaxHeight \in Nat /\ MaxNodeSteps \in Nat
BY RequestAssumption, Zenon

\* The empty sequence is a sequence of endpoints.
LEMMA EmptySeq == << >> \in Seq(Endpoint)
OBVIOUS

\* The initial states are well typed, and nothing is under way.
LEMMA InitTypes == Init => TypeOK /\ RoutedRight
<1> SUFFICES ASSUME Init PROVE TypeOK /\ RoutedRight
  OBVIOUS
<1>1. held \in [Endpoint -> SUBSET Height]
  BY RequestAssumption DEF Init
<1>2. nodeSteps \in 0 .. MaxNodeSteps /\ head \in 0 .. MaxHeight
  <2>1. nodeSteps = 0 /\ head = 0
    BY DEF Init
  <2> QED  BY <2>1, BoundFacts
<1>3. cache \in [CacheKeys -> Answers]
  BY AnswerFacts DEF Init
<1>4. pc \in [Req -> Label] /\ buf \in [Req -> Answers] /\ out \in [Req -> Reply]
  BY AnswerFacts, LabelFacts DEF Init
<1>5. /\ q \in [Req -> Request \cup {NoRequest}]
      /\ backend \in [Req -> Backend \cup {""}]
      /\ target \in [Req -> Endpoint \cup {""}]
      /\ from \in [Req -> Endpoint \cup {""}]
  BY DEF Init
<1>6. todo \in [Req -> Seq(Endpoint)] /\ could \in [Req -> SUBSET Endpoint]
  BY EmptySeq, Zenon DEF Init
<1>7. TypeOK
  BY <1>1, <1>2, <1>3, <1>4, <1>5, <1>6 DEF TypeOK
<1>8. RoutedRight
  BY DEF Init, RoutedRight, Routed
<1> QED  BY <1>7, <1>8

\* Every step keeps the types.
LEMMA NextTypes ==
  ASSUME TypeOK, RoutedRight, [Next]_vars
  PROVE  TypeOK'
<1>1. CASE UNCHANGED vars
  BY <1>1 DEF TypeOK, vars
<1>2. ASSUME NEW e \in Endpoint, Grow(e)
      PROVE  TypeOK'
  <2>1. PICK h \in Height : held' = [held EXCEPT ![e] = @ \cup {h}]
    BY <1>2 DEF Grow
  <2>2. held' \in [Endpoint -> SUBSET Height]
    BY <2>1 DEF TypeOK
  <2>3. nodeSteps' \in 0 .. MaxNodeSteps
    <3>1. /\ nodeSteps \in 0 .. MaxNodeSteps /\ nodeSteps < MaxNodeSteps
          /\ nodeSteps' = nodeSteps + 1
      BY <1>2 DEF TypeOK, Grow
    <3> QED  BY <3>1, BoundFacts
  <2> QED  BY <1>2, <2>2, <2>3 DEF TypeOK, Grow, requestVars
<1>3. ASSUME NEW e \in Endpoint, Prune(e)
      PROVE  TypeOK'
  <2>1. held' \in [Endpoint -> SUBSET Height]
    BY <1>3 DEF TypeOK, Prune
  <2>2. nodeSteps' \in 0 .. MaxNodeSteps
    <3>1. /\ nodeSteps \in 0 .. MaxNodeSteps /\ nodeSteps < MaxNodeSteps
          /\ nodeSteps' = nodeSteps + 1
      BY <1>3 DEF TypeOK, Prune
    <3> QED  BY <3>1, BoundFacts
  <2>3. could' \in [Req -> SUBSET Endpoint]
    <3>1. PICK h : could' = [r \in Req |-> IF NodeHeight(q[r]) = h
                                             THEN could[r] \ {e} ELSE could[r]]
      BY <1>3 DEF Prune
    <3> QED  BY <3>1 DEF TypeOK
  <2> QED  BY <1>3, <2>1, <2>2, <2>3 DEF TypeOK, Prune, requestVars
<1>4. CASE pollHeadHeight
  <2>1. Pool[AppRPC][1] \in Endpoint
    BY PoolAssumption DEF Backend
  <2>2. held[Pool[AppRPC][1]] \subseteq Height
    BY <2>1 DEF TypeOK
  <2>3. head' \in 0 .. MaxHeight
    BY <1>4, <2>2, BoundFacts DEF pollHeadHeight, Height
  <2> QED  BY <1>4, <2>3 DEF TypeOK, pollHeadHeight, nodeVars, requestVars
<1>5. ASSUME NEW k \in CacheKeys, CacheExpire(k)
      PROVE  TypeOK'
  <2>1. cache' \in [CacheKeys -> Answers]
    BY <1>5, AnswerFacts DEF TypeOK, CacheExpire
  <2> QED  BY <1>5, <2>1 DEF TypeOK, CacheExpire, nodeVars, requestVars
<1>6. ASSUME NEW r \in Req, Recycle(r)
      PROVE  TypeOK'
  <2>1. /\ pc' \in [Req -> Label] /\ buf' \in [Req -> Answers]
        /\ out' \in [Req -> Reply]
    BY <1>6, LabelFacts, AnswerFacts DEF TypeOK, Recycle
  <2>2. /\ q' \in [Req -> Request \cup {NoRequest}]
        /\ backend' \in [Req -> Backend \cup {""}]
        /\ target' \in [Req -> Endpoint \cup {""}]
        /\ from' \in [Req -> Endpoint \cup {""}]
    BY <1>6 DEF TypeOK, Recycle
  <2>3. todo' \in [Req -> Seq(Endpoint)] /\ could' \in [Req -> SUBSET Endpoint]
    BY <1>6, EmptySeq DEF TypeOK, Recycle
  <2> QED  BY <1>6, <2>1, <2>2, <2>3 DEF TypeOK, Recycle, nodeVars
<1> QED  BY <1>1, <1>2, <1>3, <1>4, <1>5, <1>6, HandleRequestTypes, StepTypes DEF Next

\* TypeOK for any pools, requests and number of concurrent requests: the
\* handler never reads the endpoints of a backend it did not choose, nor a
\* cache key of a request it has not read.
THEOREM TypeCorrect == Spec => []TypeOK
<1>1. Init => TypeOK /\ RoutedRight
  BY InitTypes
<1>2. TypeOK /\ RoutedRight /\ [Next]_vars => (TypeOK /\ RoutedRight)'
  BY NextTypes, RoutedStep
<1> QED  BY <1>1, <1>2, PTL DEF Spec

-----------------------------------------------------------------------------
(* The cache.                                                              *)

\* The answers that a request may get from somebody: a request for a height
\* in its body gets that block, an error or a bad gateway, and nobody else
\* but a GET for a height gets a block.
Fits(req, a) ==
  /\ req.body = "single" /\ ExtractHeight(req) # 0
       => a.kind \in {"block", "rpcerror", "pruned"} \/ a = BadGateway
  /\ a.kind = "block"
       => req.body = "none" \/ (req.body = "single" /\ ExtractHeight(req) # 0)

\* The answer in hand is one that fits the request.
Fetched ==
  \A r \in Req :
    pc[r] \in {"pool", "archival", "flush"} => Fits(q[r], buf[r])

\* What a node answers fits the request.
LEMMA FittingAnswers ==
  ASSUME NEW e, NEW req, NEW a \in Responses(e, req)
  PROVE  Fits(req, a)
<1>1. a \in NodeAnswers(held[e], req) \/ a = BadGateway
  BY DEF Responses
<1>2. ASSUME req.body = "single", ExtractHeight(req) # 0
      PROVE  a.kind \in {"block", "rpcerror", "pruned"} \/ a = BadGateway
  <2>1. NodeHeight(req) # 0 /\ req.body # "batch"
    BY <1>2 DEF NodeHeight
  <2> QED  BY <1>1, <2>1 DEF NodeAnswers, Answer, RPCError
<1>3. ASSUME a.kind = "block", req.body # "none"
      PROVE  req.body = "single" /\ ExtractHeight(req) # 0
  <2>1. req.body # "batch" /\ NodeHeight(req) # 0
    BY <1>1, <1>3 DEF NodeAnswers, Answer, RPCError, BadGateway
  <2>2. ExtractHeight(req) # 0
    BY <1>3, <2>1 DEF NodeHeight
  <2> QED  BY <2>2 DEF ExtractHeight
<1> QED  BY <1>2, <1>3 DEF Fits

\* A cacheable request whose key height is the one in its body is a request
\* for that height.
LEMMA CacheableHeight ==
  ASSUME NEW req \in Request, ShouldCache(req), req.body = "single",
         req.param = RequestHeight(req)
  PROVE  ExtractHeight(req) # 0
<1>1. req.method \in heightBearingMethods
  BY DEF ShouldCache, IsCacheable, cacheableMethods, tendermintMethods, heightBearingMethods
<1>2. req.param > 0
  BY DEF ShouldCache, IsCacheable
<1>3. req.param \in Int
  BY RequestAssumption, Zenon
<1>4. ExtractHeight(req) = req.param
  BY <1>1 DEF ExtractHeight
<1> QED  BY <1>2, <1>3, <1>4

\* A request without a body is never cached, and the key of a request for a
\* height has that height.
LEMMA KeyHeight ==
  ASSUME NEW req \in Request, ShouldCache(req)
  PROVE  /\ req.body # "none"
         /\ req.body = "single" /\ ExtractHeight(req) # 0
              => CacheKey(req).body[2] = CacheKey(req).height
<1>1. req.method \in cacheableMethods
  BY DEF ShouldCache, IsCacheable
<1>2. req.method # NoMethod
  <2>1. NoMethod[1] = ""
    BY Zenon DEF NoMethod
  <2>2. \A S, e : \A x \in {<<m, e>> : m \in S} : x[1] \in S
    OBVIOUS
  <2>3. \A x \in tendermintMethods :
          x[1] \in {"block", "block_results", "validators", "commit", "header"}
    BY <2>2, Zenon DEF tendermintMethods
  <2>4. \A x \in cacheableMethods \ tendermintMethods : x[1] \in {"header", "blob", "share"}
    BY DEF cacheableMethods
  <2>5. "" \notin {"block", "block_results", "validators", "commit", "header", "blob",
                   "share"}
    BY Zenon
  <2> QED  BY <1>1, <2>1, <2>3, <2>4, <2>5, Zenon
<1>3. req.body # "none"
  BY <1>2, RequestAssumption, Zenon
<1>4. ASSUME ExtractHeight(req) # 0
      PROVE  RequestHeight(req) = req.param
  BY <1>4 DEF RequestHeight, ExtractHeight
<1> QED  BY <1>3, <1>4 DEF CacheKey

\* A request that arrives touches no other one.
LEMMA HandleRequestFrame ==
  ASSUME TypeOK, NEW r \in Req, NEW req \in Request, HandleRequest(r, req)
  PROVE  /\ pc'[r] # "idle"
         /\ \A s \in Req \ {r} :
              /\ pc'[s] = pc[s] /\ q'[s] = q[s] /\ backend'[s] = backend[s]
              /\ target'[s] = target[s] /\ out'[s] = out[s] /\ could'[s] = could[s]
<1>1. \A s \in Req \ {r} : q'[s] = q[s]
  BY DEF HandleRequest, TypeOK
<1>2. ASSUME NEW status, Refuse(r, status)
      PROVE  /\ pc'[r] # "idle" /\ UNCHANGED <<backend, target, could>>
             /\ \A s \in Req \ {r} : pc'[s] = pc[s] /\ out'[s] = out[s]
  <2>1. PICK x : out' = [out EXCEPT ![r] = x]
    BY <1>2 DEF Refuse
  <2>2. \A s \in Req \ {r} : out'[s] = out[s]
    BY <2>1 DEF TypeOK
  <2> QED  BY <1>2, <2>2 DEF Refuse, TypeOK
<1>3. CASE Accept(r, req)
  <2>1. PICK b, e : /\ backend' = [backend EXCEPT ![r] = b]
                    /\ target' = [target EXCEPT ![r] = e]
                    /\ IF ShouldCache(req)
                         THEN pc' = [pc EXCEPT ![r] = "lookup"] /\ UNCHANGED out
                         ELSE Dispatch(r, req, b, e)
    BY <1>3 DEF Accept
  <2>2. \A s \in Req \ {r} : backend'[s] = backend[s] /\ target'[s] = target[s]
    BY <2>1 DEF TypeOK
  <2>3. \A s \in Req \ {r} : could'[s] = could[s]
    BY <1>3 DEF Accept, TypeOK
  <2>4. pc'[r] # "idle" /\ \A s \in Req \ {r} : pc'[s] = pc[s] /\ out'[s] = out[s]
    <3>1. CASE ShouldCache(req)
      BY <2>1, <3>1 DEF TypeOK
    <3>2. CASE Dispatch(r, req, b, e)
      BY <3>2 DEF Dispatch, TypeOK
    <3> QED  BY <2>1, <3>1, <3>2
  <2> QED  BY <1>1, <2>2, <2>3, <2>4
<1>4. CASE \E status : Refuse(r, status)
  BY <1>1, <1>2, <1>4
<1> QED  BY <1>3, <1>4 DEF HandleRequest

\* A step of request r touches no other request, and no routing decision.
LEMMA StepFrame ==
  ASSUME TypeOK, NEW r \in Req, Step(r)
  PROVE  /\ UNCHANGED <<held, head, q, backend, target, could>>
         /\ \A s \in Req \ {r} : /\ pc'[s] = pc[s] /\ buf'[s] = buf[s]
                                 /\ from'[s] = from[s]
                                 /\ todo'[s] = todo[s] /\ out'[s] = out[s]
<1> USE DEF nodeVars, requestVars
<1>1. CASE CacheHit(r)      BY <1>1 DEF TypeOK, CacheHit
<1>2. CASE CacheMiss(r)     BY <1>2 DEF TypeOK, CacheMiss, Dispatch
<1>3. CASE proxyDirect(r)   BY <1>3 DEF TypeOK, proxyDirect, Exchange, FlushAs
<1>4. CASE TryFirst(r)
  <2>1. PICK a \in Answers :
          /\ Exchange(r, target[r], a)
          /\ \/ /\ pc' = [pc EXCEPT ![r] = "pool"]
                /\ todo' = [todo EXCEPT ![r] = AllEndpoints(backend[r])]
                /\ UNCHANGED out
             \/ FlushAs(r, backend[r]) /\ UNCHANGED todo
    BY <1>4 DEF TryFirst
  <2>2. \A s \in Req \ {r} : buf'[s] = buf[s] /\ from'[s] = from[s]
    BY <2>1 DEF TypeOK, Exchange
  <2>3. \A s \in Req \ {r} : pc'[s] = pc[s] /\ todo'[s] = todo[s] /\ out'[s] = out[s]
    BY <2>1 DEF TypeOK, FlushAs
  <2> QED  BY <1>4, <2>2, <2>3 DEF TryFirst
<1>5. CASE TryPool(r)
  <2>1. CASE Head(todo[r]) \in {target[r]} \cup Unparsable
    BY <1>5, <2>1 DEF TypeOK, TryPool
  <2>2. CASE Head(todo[r]) \notin {target[r]} \cup Unparsable
    <3>1. PICK a \in Answers :
            /\ Exchange(r, Head(todo[r]), a)
            /\ IF isPrunedError(a) THEN UNCHANGED <<pc, out>>
                                   ELSE FlushAs(r, backend[r])
      BY <1>5, <2>2 DEF TryPool
    <3>2. \A s \in Req \ {r} : /\ pc'[s] = pc[s] /\ buf'[s] = buf[s]
                              /\ from'[s] = from[s] /\ out'[s] = out[s]
      BY <3>1 DEF TypeOK, Exchange, FlushAs
    <3> QED  BY <1>5, <3>2 DEF TypeOK, TryPool
  <2> QED  BY <2>1, <2>2
<1>6. CASE EndPool(r)       BY <1>6 DEF TypeOK, EndPool, FlushAs
<1>7. CASE TryArchival(r)   BY <1>7 DEF TypeOK, TryArchival, Exchange, FlushAs
<1>8. CASE EndArchival(r)   BY <1>8 DEF TypeOK, EndArchival, FlushAs
<1>9. CASE AbortHandler(r)  BY <1>9 DEF TypeOK, AbortHandler
<1>10. CASE Flush(r)        BY <1>10 DEF TypeOK, Flush
<1> QED  BY <1>1, <1>2, <1>3, <1>4, <1>5, <1>6, <1>7, <1>8, <1>9, <1>10 DEF Step

\* What request r has in hand after a step is a fresh answer, or what it had
\* in hand before.
LEMMA StepAnswer ==
  ASSUME TypeOK, NEW r \in Req, Step(r), pc'[r] \in {"pool", "archival", "flush"}
  PROVE  \/ \E e \in Endpoint \cup {""} : buf'[r] \in Responses(e, q[r])
         \/ buf'[r] = buf[r] /\ pc[r] \in {"pool", "archival"}
<1> USE DEF nodeVars, requestVars
<1>0. ASSUME NEW e \in Endpoint \cup {""}, NEW a \in Answers, Exchange(r, e, a)
      PROVE  \E f \in Endpoint \cup {""} : buf'[r] \in Responses(f, q[r])
  BY <1>0 DEF TypeOK, Exchange
<1>1. target[r] \in Endpoint \cup {""}
  BY DEF TypeOK
<1>2. ASSUME todo[r] # << >> PROVE Head(todo[r]) \in Endpoint
  BY <1>2, RangeFacts DEF TypeOK
<1>3. CASE CacheHit(r)      BY <1>3 DEF TypeOK, CacheHit
<1>4. CASE CacheMiss(r)     BY <1>4 DEF TypeOK, CacheMiss, Dispatch
<1>5. CASE proxyDirect(r)   BY <1>0, <1>1, <1>5 DEF proxyDirect
<1>6. CASE TryFirst(r)      BY <1>0, <1>1, <1>6 DEF TryFirst
<1>7. CASE TryPool(r)       BY <1>0, <1>2, <1>7 DEF TryPool
<1>8. CASE EndPool(r)       BY <1>8 DEF EndPool
<1>9. CASE TryArchival(r)   BY <1>0, <1>2, <1>9 DEF TryArchival
<1>10. CASE EndArchival(r)  BY <1>10 DEF EndArchival
<1>11. CASE AbortHandler(r) BY <1>11 DEF TypeOK, AbortHandler
<1>12. CASE Flush(r)        BY <1>12 DEF TypeOK, Flush
<1> QED  BY <1>3, <1>4, <1>5, <1>6, <1>7, <1>8, <1>9, <1>10, <1>11, <1>12 DEF Step

\* Every step keeps Fetched.
LEMMA FetchedStep ==
  ASSUME TypeOK, RoutedRight, Fetched, [Next]_vars
  PROVE  Fetched'
<1>1. CASE UNCHANGED <<pc, q, buf>>
  BY <1>1 DEF Fetched
<1>2. ASSUME NEW r \in Req, Step(r)
      PROVE  Fetched'
  <2> SUFFICES ASSUME NEW s \in Req, pc'[s] \in {"pool", "archival", "flush"}
               PROVE  Fits(q'[s], buf'[s])
    BY DEF Fetched
  <2>1. UNCHANGED q
    BY <1>2, StepFrame
  <2>2. CASE s # r
    BY <1>2, <2>1, <2>2, StepFrame DEF Fetched
  <2>3. CASE s = r
    <3>1. CASE \E e \in Endpoint \cup {""} : buf'[r] \in Responses(e, q[r])
      BY <2>1, <2>3, <3>1, FittingAnswers
    <3>2. CASE buf'[r] = buf[r] /\ pc[r] \in {"pool", "archival"}
      BY <2>1, <2>3, <3>2 DEF Fetched
    <3> QED  BY <1>2, <2>3, <3>1, <3>2, StepAnswer
  <2> QED  BY <2>2, <2>3
<1>3. ASSUME NEW r \in Req, NEW req \in Request, HandleRequest(r, req)
      PROVE  Fetched'
  <2>1. UNCHANGED buf /\ \A s \in Req \ {r} : q'[s] = q[s]
    BY <1>3 DEF HandleRequest, TypeOK
  <2>2. \A s \in Req \ {r} : pc'[s] = pc[s]
    BY <1>3 DEF HandleRequest, Refuse, Accept, Dispatch, TypeOK
  <2>3. pc'[r] \notin {"pool", "archival", "flush"}
    BY <1>3 DEF HandleRequest, Refuse, Accept, Dispatch, TypeOK
  <2> QED  BY <2>1, <2>2, <2>3 DEF Fetched
<1>4. ASSUME NEW r \in Req, Recycle(r)
      PROVE  Fetched'
  <2>1. pc'[r] = "idle"
    BY <1>4 DEF Recycle, TypeOK
  <2>2. \A s \in Req \ {r} : pc'[s] = pc[s] /\ q'[s] = q[s] /\ buf'[s] = buf[s]
    BY <1>4 DEF Recycle, TypeOK
  <2> QED  BY <2>1, <2>2 DEF Fetched
<1> QED  BY <1>1, <1>2, <1>3, <1>4 DEF Next, vars, Grow, Prune, pollHeadHeight,
            CacheExpire, requestVars

\* Every step keeps CacheSound: only Flush stores, and it stores the answer
\* in hand.
LEMMA CacheSoundStep ==
  ASSUME TypeOK, RoutedRight, Fetched, CacheSound, [Next]_vars
  PROVE  CacheSound'
<1>1. CASE UNCHANGED cache
  BY <1>1 DEF CacheSound
<1>2. ASSUME NEW k \in CacheKeys, CacheExpire(k)
      PROVE  CacheSound'
  <2>1. cache \in [CacheKeys -> Answers] /\ cache' = [cache EXCEPT ![k] = NoAnswer]
    BY <1>2 DEF CacheExpire, TypeOK
  <2>2. \A j \in CacheKeys : cache'[j] = cache[j] \/ cache'[j] = NoAnswer
    BY <2>1
  <2> QED  BY <2>2 DEF CacheSound
<1>3. ASSUME NEW r \in Req, Flush(r), ~ UNCHANGED cache
      PROVE  CacheSound'
  <2> DEFINE key == CacheKey(q[r])
  <2>1. /\ ShouldCache(q[r]) /\ buf[r].status = 200 /\ ~isPrunedError(buf[r])
        /\ cache' = [cache EXCEPT ![key] = buf[r]] /\ pc[r] = "flush"
    BY <1>3 DEF Flush
  <2>2. buf[r].kind # "pruned"
    BY <2>1 DEF isPrunedError
  <2>3. q[r] \in Request /\ Fits(q[r], buf[r])
    BY <2>1 DEF RoutedRight, Fetched
  <2>4. ASSUME key.body[1] = "single", key.body[2] = key.height
        PROVE  buf[r].kind \in {"block", "rpcerror"}
    <3>1. q[r].body = "single" /\ q[r].param = RequestHeight(q[r])
      BY <2>4 DEF CacheKey
    <3>2. ExtractHeight(q[r]) # 0
      BY <2>1, <2>3, <3>1, CacheableHeight
    <3>3. buf[r].kind \in {"block", "rpcerror", "pruned"} \/ buf[r] = BadGateway
      BY <2>3, <3>1, <3>2 DEF Fits
    <3>4. buf[r] # BadGateway
      BY <2>1 DEF BadGateway, Answer
    <3> QED  BY <2>2, <3>3, <3>4
  <2>5. ASSUME buf[r].kind = "block"
        PROVE  key.body[1] = "single" /\ key.body[2] = key.height
    <3>1. q[r].body = "single" /\ ExtractHeight(q[r]) # 0
      BY <2>1, <2>3, <2>5, KeyHeight DEF Fits
    <3>2. key.body[1] = q[r].body
      BY DEF CacheKey
    <3> QED  BY <2>1, <2>3, <3>1, <3>2, KeyHeight
  <2> HIDE DEF key
  <2>6. \A k \in CacheKeys : cache'[k] = IF k = key THEN buf[r] ELSE cache[k]
    <3>1. cache \in [CacheKeys -> Answers]
      BY DEF TypeOK
    <3> QED  BY <2>1, <3>1
  <2> QED  BY <2>1, <2>2, <2>4, <2>5, <2>6 DEF CacheSound
<1>4. ASSUME NEW r \in Req, Step(r), ~Flush(r)
      PROVE  UNCHANGED cache
  BY <1>4 DEF Step, CacheHit, CacheMiss, proxyDirect, TryFirst, TryPool, EndPool,
     TryArchival, EndArchival, AbortHandler
<1>5. ASSUME NEW r \in Req, Step(r)
      PROVE  CacheSound'
  BY <1>1, <1>3, <1>4, <1>5
<1> QED  BY <1>1, <1>2, <1>5 DEF Next, vars, Grow, Prune, pollHeadHeight, HandleRequest,
            Recycle

\* CacheSound, for any pools and requests: the answers in the cache are
\* complete, none is a pruned-block error, a block is stored under its own
\* height, and an answer stored for a height in a request body was never
\* computed from the head.
THEOREM CacheIsSound == Spec => []CacheSound
<1>1. Init => TypeOK /\ RoutedRight /\ Fetched /\ CacheSound
  <2>1. Init => Fetched
    BY DEF Init, Fetched
  <2>2. Init => \A k \in CacheKeys : cache[k] = NoAnswer
    BY DEF Init
  <2>3. Init => CacheSound
    BY <2>2 DEF CacheSound
  <2> QED  BY <2>1, <2>3, InitTypes
<1>2. TypeOK /\ RoutedRight /\ Fetched /\ CacheSound /\ [Next]_vars
        => (TypeOK /\ RoutedRight /\ Fetched /\ CacheSound)'
  BY NextTypes, RoutedStep, FetchedStep, CacheSoundStep
<1> QED  BY <1>1, <1>2, PTL DEF Spec
-----------------------------------------------------------------------------
(* Scopes and allowlists.                                                  *)

\* The requests whose tokens do not allow the method that Route reads.
Forbidden ==
  {req \in Request : req.body \in {"single", "batch"} /\ ~IsMethodAllowed(req)}

\* The reply that HandleRequest gives to them.
Denied == [answer |-> Answer(403, "refused"), header |-> ""]

\* A forbidden call is over as soon as it has been read: it never gets to the
\* cache or to a node, and an idle goroutine has no answer left over.
ForbiddenStops ==
  \A r \in Req :
    /\ pc[r] = "idle" => from[r] = ""
    /\ pc[r] # "idle" /\ q[r] \in Forbidden
         => pc[r] = "done" /\ out[r] = Denied /\ from[r] = ""

\* Every step keeps ForbiddenStops: a forbidden call is refused by
\* HandleRequest, and only a routed request takes any of the steps after it.
LEMMA ForbiddenStopsStep ==
  ASSUME TypeOK, RoutedRight, ForbiddenStops, [Next]_vars
  PROVE  ForbiddenStops'
<1>1. CASE UNCHANGED <<pc, q, from, out>>
  BY <1>1 DEF ForbiddenStops
<1>2. ASSUME NEW r \in Req, Step(r)
      PROVE  ForbiddenStops'
  <2>1. pc[r] \in Routed /\ pc'[r] # "idle"
    BY <1>2 DEF TypeOK, Step, CacheHit, CacheMiss, Dispatch, proxyDirect, TryFirst,
       TryPool, EndPool, TryArchival, EndArchival, AbortHandler, Flush, FlushAs, Routed
  <2>2. q[r] \notin Forbidden
    BY <2>1 DEF ForbiddenStops, Routed
  <2>3. UNCHANGED q /\ \A s \in Req \ {r} :
                         pc'[s] = pc[s] /\ from'[s] = from[s] /\ out'[s] = out[s]
    BY <1>2, StepFrame
  <2> QED  BY <2>1, <2>2, <2>3 DEF ForbiddenStops
<1>3. ASSUME NEW r \in Req, NEW req \in Request, HandleRequest(r, req)
      PROVE  ForbiddenStops'
  <2>1. /\ from' = from /\ from[r] = "" /\ q'[r] = req
        /\ \A s \in Req \ {r} : q'[s] = q[s]
    BY <1>3 DEF HandleRequest, TypeOK, ForbiddenStops
  <2>2. /\ pc'[r] # "idle"
        /\ \A s \in Req \ {r} : pc'[s] = pc[s] /\ out'[s] = out[s]
    BY <1>3, HandleRequestFrame
  <2>3. ASSUME req \in Forbidden
        PROVE  pc'[r] = "done" /\ out'[r] = Denied
    <3>1. Refuse(r, 403)
      BY <1>3, <2>3 DEF HandleRequest, Forbidden
    <3> QED  BY <3>1 DEF Refuse, TypeOK, Denied
  <2> QED  BY <2>1, <2>2, <2>3 DEF ForbiddenStops
<1>4. ASSUME NEW r \in Req, Recycle(r)
      PROVE  ForbiddenStops'
  <2>1. pc'[r] = "idle" /\ from'[r] = ""
    BY <1>4 DEF Recycle, TypeOK
  <2>2. \A s \in Req \ {r} : /\ pc'[s] = pc[s] /\ q'[s] = q[s]
                            /\ from'[s] = from[s] /\ out'[s] = out[s]
    BY <1>4 DEF Recycle, TypeOK
  <2> QED  BY <2>1, <2>2 DEF ForbiddenStops
<1> QED  BY <1>1, <1>2, <1>3, <1>4 DEF Next, vars, Grow, Prune, pollHeadHeight,
            CacheExpire, requestVars

\* RoutedMethodIsAllowed, for any tokens, pools and requests and however many
\* goroutines run: a request whose method, the one that Route reads in its
\* body and of a batch the first, is outside the token's scope or allowlist is
\* answered 403, by neither a node nor the cache.
THEOREM RoutedMethodIsAllowedHolds == Spec => []RoutedMethodIsAllowed
<1>1. Init => TypeOK /\ RoutedRight /\ ForbiddenStops
  <2>1. Init => ForbiddenStops
    BY DEF Init, ForbiddenStops
  <2> QED  BY <2>1, InitTypes
<1>2. TypeOK /\ RoutedRight /\ ForbiddenStops /\ [Next]_vars
        => (TypeOK /\ RoutedRight /\ ForbiddenStops)'
  BY NextTypes, RoutedStep, ForbiddenStopsStep
<1>3. RoutedRight /\ ForbiddenStops => RoutedMethodIsAllowed
  <2>1. Denied.answer.status = 403
    BY DEF Denied, Answer
  <2> QED  BY <2>1 DEF RoutedRight, ForbiddenStops, RoutedMethodIsAllowed, Forbidden, Done
<1> QED  BY <1>1, <1>2, <1>3, PTL DEF Spec

-----------------------------------------------------------------------------
(* The retry walk.  proxyWithRetry gives up only when every endpoint that  *)
(* could have served the block has been asked or has lost it.  The         *)
(* invariant says where the endpoints that still have the block are while  *)
(* the walk advances.                                                      *)

\* The archival endpoints that the walk goes on to after the pool of b.
Behind(b) == IF HasArchivalBackend(b) THEN Range(Pool[archivalBackend(b)]) ELSE {}

\* The endpoints that still have the block are ahead of the walk of request
\* r, and there are none once it has given up.
Ahead(r) ==
  /\ pc[r] = "idle" => could[r] = {}
  /\ pc[r] \in {"lookup", "direct", "first"} => could[r] \subseteq Candidates(backend[r])
  /\ pc[r] = "direct" /\ RequestHeight(q[r]) > 0 => could[r] \subseteq {target[r]}
  /\ pc[r] = "pool" => /\ target[r] \notin could[r]
                       /\ could[r] \subseteq Range(todo[r]) \cup Behind(backend[r])
  /\ pc[r] = "archival" => could[r] \subseteq Range(todo[r])
  /\ pc[r] = "flush" /\ RequestHeight(q[r]) > 0 /\ isPrunedError(buf[r])
       => could[r] = {}
  /\ pc[r] = "done" /\ RequestHeight(q[r]) > 0 /\ isPrunedError(out[r].answer)
       => could[r] = {}

\* The endpoints in could hold the block now, and can be asked for it.
Holds(r) ==
  \A e \in could[r] : /\ e \in Endpoint /\ e \notin Unparsable
                      /\ NodeHeight(q[r]) \in held[e]

WalkInv == \A r \in Req : Ahead(r) /\ Holds(r)

-----------------------------------------------------------------------------
\* With an archival pool wherever height routing needs one, targets are drawn
\* from the backend's own pool, and every candidate is in that pool or behind.
LEMMA CandidatesFacts ==
  ASSUME ArchivalConfigured, NEW b \in Backend,
         b \in {NodeArchivalRPC, AppArchivalRPC} => PruningWindow > 0
  PROVE  /\ Pool[b] # << >> /\ TargetPool(b) = Pool[b]
         /\ Candidates(b) \subseteq Range(Pool[b]) \cup Behind(b)
<1>1. Pool[b] # << >>
  <2>1. CASE b = NodeRPC \/ b = AppRPC
    BY <2>1, PoolAssumption
  <2>2. CASE b = NodeArchivalRPC \/ b = AppArchivalRPC
    BY <2>2 DEF ArchivalConfigured
  <2> QED  BY <2>1, <2>2 DEF Backend
<1>2. TargetPool(b) = Pool[b]
  BY <1>1 DEF TargetPool
<1>3. Range(Pool[archivalBackend(b)]) \subseteq Range(Pool[b]) \cup Behind(b)
  <2>1. CASE HasArchivalBackend(b)
    BY <2>1 DEF Behind
  <2>2. CASE archivalBackend(b) = b
    BY <2>2
  <2>3. CASE Pool[archivalBackend(b)] = << >>
    BY <2>3, BackendFacts, RangeFacts
  <2> QED  BY <2>1, <2>2, <2>3 DEF HasArchivalBackend, AllEndpoints
<1> QED  BY <1>1, <1>2, <1>3 DEF Candidates

\* The direct path is taken for a height only where there is nobody else to
\* ask than the target.
LEMMA DirectFacts ==
  ASSUME ArchivalConfigured, NEW b \in Backend, NEW req,
         b \in {NodeArchivalRPC, AppArchivalRPC} => PruningWindow > 0,
         NEW e \in Range(TargetPool(b)), RequestHeight(req) > 0, ~CanRetry(req, b)
  PROVE  Candidates(b) \subseteq {e}
<1>1. ~HasArchivalBackend(b) /\ ~(Len(Pool[b]) > 1)
  BY DEF CanRetry, AllEndpoints
<1>2. Candidates(b) \subseteq Range(Pool[b]) /\ e \in Range(Pool[b])
  BY <1>1, CandidatesFacts DEF Behind
<1>3. \A x, y \in Range(Pool[b]) : x = y
  <2>1. Pool[b] \in Seq(Endpoint)
    BY BackendFacts
  <2>2. \A i \in DOMAIN Pool[b] : i = 1
    BY <1>1, <2>1
  <2> QED  BY <2>2 DEF Range
<1> QED  BY <1>2, <1>3

\* Losing candidates keeps the rest of them ahead.
LEMMA AheadShrinks ==
  ASSUME NEW r \in Req, Ahead(r), could'[r] \subseteq could[r],
         UNCHANGED <<pc, q, backend, target, todo, buf, out>>
  PROVE  Ahead(r)'
BY DEF Ahead, Behind

\* A request nothing happens to.
LEMMA AheadUnchanged ==
  ASSUME NEW r \in Req, Ahead(r), pc'[r] = pc[r], q'[r] = q[r],
         backend'[r] = backend[r], target'[r] = target[r], todo'[r] = todo[r],
         buf'[r] = buf[r], out'[r] = out[r], could'[r] = could[r]
  PROVE  Ahead(r)'
BY DEF Ahead, Behind

-----------------------------------------------------------------------------
\* A reply made up of an answer and a header has that answer.
LEMMA ReplyAnswer ==
  \A x, a, h : x = [answer |-> a, header |-> h] => x.answer = a
OBVIOUS

\* Replacing the answer of a reply puts that answer in it.
LEMMA ReplyExcept ==
  \A x, a : \A y \in Reply : x = [y EXCEPT !.answer = a] => x.answer = a
BY DEF Reply

\* Dispatch goes to one of three places.
LEMMA DispatchOutcome ==
  ASSUME TypeOK, NEW r \in Req, NEW req, NEW b, NEW e, Dispatch(r, req, b, e)
  PROVE  \/ pc'[r] = "first"
         \/ pc'[r] = "direct" /\ ~CanRetry(req, b)
         \/ pc'[r] = "done" /\ out'[r].answer = BadGateway
<1>0. pc \in [Req -> Label] /\ out \in [Req -> Reply]
  BY DEF TypeOK
<1>1. CASE e \in Unparsable
  <2>1. out'[r] = [answer |-> BadGateway, header |-> ""]
    BY <1>0, <1>1 DEF Dispatch
  <2>2. out'[r].answer = BadGateway
    BY <2>1, ReplyAnswer
  <2>3. pc'[r] = "done"
    BY <1>0, <1>1 DEF Dispatch
  <2> QED  BY <2>2, <2>3
<1>2. CASE e \notin Unparsable
  BY <1>0, <1>2 DEF Dispatch
<1> QED  BY <1>1, <1>2

\* HandleRequest starts the walk with every candidate ahead of it.
LEMMA HandleRequestWalk ==
  ASSUME ArchivalConfigured, TypeOK, NEW r \in Req, NEW req \in Request,
         HandleRequest(r, req), Ahead(r), Holds(r)
  PROVE  Ahead(r)' /\ Holds(r)'
<1>1. q'[r] = req /\ UNCHANGED held /\ pc[r] = "idle"
  BY DEF HandleRequest, TypeOK, nodeVars
<1>2. ASSUME NEW status, Refuse(r, status)
      PROVE  Ahead(r)' /\ Holds(r)'
  <2>1. could'[r] = {} /\ pc'[r] = "done"
    BY <1>1, <1>2 DEF Refuse, TypeOK, Ahead
  <2> QED  BY <2>1 DEF Ahead, Holds
<1>3. CASE Accept(r, req)
  <2> DEFINE b == RouteBackend(req, head)
  <2>1. b \in Backend /\ (b \in {NodeArchivalRPC, AppArchivalRPC} => PruningWindow > 0)
    BY RouteFacts
  <2>2. backend' = [backend EXCEPT ![r] = b]
    BY <1>3 DEF Accept
  <2>3. could' = [could EXCEPT ![r] = {f \in Candidates(b) : NodeHeight(req) \in held[f]}]
    BY <1>3 DEF Accept
  <2>4. PICK e \in Range(TargetPool(b)) :
          /\ target' = [target EXCEPT ![r] = e]
          /\ IF ShouldCache(req)
               THEN pc' = [pc EXCEPT ![r] = "lookup"] /\ UNCHANGED out
               ELSE Dispatch(r, req, b, e)
    BY <1>3 DEF Accept
  <2> HIDE DEF b
  <2>5. backend'[r] = b /\ target'[r] = e
    BY <2>2, <2>4 DEF TypeOK
  <2>6. could'[r] = {f \in Candidates(b) : NodeHeight(req) \in held[f]}
    BY <2>3 DEF TypeOK
  <2>7. Candidates(b) \subseteq Endpoint \ Unparsable
    BY <2>1, BackendFacts, RangeFacts DEF Candidates
  <2>8. \/ pc'[r] \in {"lookup", "first"}
        \/ pc'[r] = "direct" /\ ~CanRetry(req, b)
        \/ pc'[r] = "done" /\ out'[r].answer = BadGateway
    <3>1. CASE ShouldCache(req)
      BY <2>4, <3>1 DEF TypeOK
    <3>2. CASE ~ShouldCache(req)
      <4>1. Dispatch(r, req, b, e)
        BY <2>4, <3>2
      <4> QED  BY <4>1, DispatchOutcome
    <3> QED  BY <3>1, <3>2
  <2>9. ~isPrunedError(BadGateway)
    BY DEF isPrunedError, BadGateway, Answer
  <2>10. Holds(r)'
    BY <1>1, <2>6, <2>7 DEF Holds
  <2>11. Ahead(r)'
    <3>1. could'[r] \subseteq Candidates(b)
      BY <2>6
    <3>2. CASE pc'[r] \in {"lookup", "first"}
      BY <2>5, <3>1, <3>2 DEF Ahead
    <3>3. CASE pc'[r] = "direct" /\ ~CanRetry(req, b)
      <4>1. RequestHeight(req) > 0 => Candidates(b) \subseteq {e}
        BY <2>1, <2>4, <3>3, DirectFacts
      <4> QED  BY <1>1, <2>5, <3>1, <3>3, <4>1 DEF Ahead
    <3>4. CASE pc'[r] = "done" /\ out'[r].answer = BadGateway
      BY <2>9, <3>4 DEF Ahead
    <3> QED  BY <2>8, <3>2, <3>3, <3>4
  <2> QED  BY <2>10, <2>11
<1> QED  BY <1>2, <1>3 DEF HandleRequest

\* An exchange that yields a pruned-block error crosses its endpoint off.
LEMMA PrunedCrossesOff ==
  ASSUME NEW r \in Req, Holds(r), NEW e, NEW a, Exchange(r, e, a), isPrunedError(a)
  PROVE  e \notin could[r]
<1>1. a \in Responses(e, q[r])
  BY DEF Exchange
<1>2. NodeHeight(q[r]) \notin held[e]
  BY <1>1, HolderAnswers
<1> QED  BY <1>2 DEF Holds

\* The answer in hand after an exchange.
LEMMA ExchangeAnswer ==
  ASSUME TypeOK, NEW r \in Req, NEW e, NEW a \in Answers, Exchange(r, e, a)
  PROVE  buf'[r] = a
BY DEF TypeOK, Exchange

\* Going to flush with an answer that is no pruned-block error, or with no
\* candidate left, keeps the walk right.
LEMMA FlushAsWalk ==
  ASSUME TypeOK, NEW r \in Req, NEW b, FlushAs(r, b), UNCHANGED could,
         isPrunedError(buf'[r]) => could[r] = {}
  PROVE  Ahead(r)'
<1>1. pc'[r] = "flush" /\ could'[r] = could[r]
  BY DEF FlushAs, TypeOK
<1> QED  BY <1>1 DEF Ahead

\* Every step of a request keeps its own walk right.
LEMMA StepWalk ==
  ASSUME ArchivalConfigured, TypeOK, RoutedRight, CacheSound,
         NEW r \in Req, Step(r), Ahead(r), Holds(r)
  PROVE  Ahead(r)'
<1>0. UNCHANGED <<held, q, backend, target, could>>
  BY StepFrame
<1>1. CASE CacheHit(r)
  <2>1. /\ pc'[r] = "done"
        /\ out'[r] = [answer |-> cache[CacheKey(q[r])], header |-> backend[r]]
    BY <1>1 DEF CacheHit, TypeOK
  <2>2. out'[r].answer = cache[CacheKey(q[r])]
    BY <2>1, ReplyAnswer
  <2>3. CacheKey(q[r]) \in CacheKeys /\ cache[CacheKey(q[r])] # NoAnswer
    BY <1>1, RoutedFacts DEF CacheHit, Routed
  <2>4. ~isPrunedError(cache[CacheKey(q[r])])
    BY <2>3 DEF CacheSound, isPrunedError
  <2> QED  BY <2>1, <2>2, <2>4 DEF Ahead
<1>2. CASE CacheMiss(r)
  <2>1. /\ backend[r] \in Backend /\ target[r] \in Range(TargetPool(backend[r]))
        /\ backend[r] \in {NodeArchivalRPC, AppArchivalRPC} => PruningWindow > 0
        /\ could[r] \subseteq Candidates(backend[r])
    BY <1>2 DEF RoutedRight, Routed, CacheMiss, Ahead
  <2>2. ~isPrunedError(BadGateway)
    BY DEF isPrunedError, BadGateway, Answer
  <2>3. \/ pc'[r] = "first"
        \/ pc'[r] = "direct" /\ ~CanRetry(q[r], backend[r])
        \/ pc'[r] = "done" /\ out'[r].answer = BadGateway
    BY <1>2, DispatchOutcome DEF CacheMiss
  <2>4. ~CanRetry(q[r], backend[r]) /\ RequestHeight(q[r]) > 0
          => Candidates(backend[r]) \subseteq {target[r]}
    BY <2>1, DirectFacts
  <2>5. CASE pc'[r] = "first"
    BY <1>0, <2>1, <2>5 DEF Ahead
  <2>6. CASE pc'[r] = "direct" /\ ~CanRetry(q[r], backend[r])
    BY <1>0, <2>1, <2>4, <2>6 DEF Ahead
  <2>7. CASE pc'[r] = "done" /\ out'[r].answer = BadGateway
    BY <2>2, <2>7 DEF Ahead
  <2> QED  BY <2>3, <2>5, <2>6, <2>7
<1>3. CASE proxyDirect(r)
  <2>1. PICK a \in Answers : Exchange(r, target[r], a)
    BY <1>3 DEF proxyDirect
  <2>2. buf'[r] = a
    BY <2>1, ExchangeAnswer
  <2>3. pc'[r] = "flush"
    BY <1>3 DEF proxyDirect, FlushAs, TypeOK
  <2>4. isPrunedError(a) /\ RequestHeight(q[r]) > 0 => could[r] = {}
    BY <1>3, <2>1, PrunedCrossesOff DEF proxyDirect, Ahead
  <2> QED  BY <1>0, <2>2, <2>3, <2>4 DEF Ahead
<1>4. CASE TryFirst(r)
  <2>1. PICK a \in Answers :
          /\ Exchange(r, target[r], a)
          /\ IF isPrunedError(a)
               THEN /\ pc' = [pc EXCEPT ![r] = "pool"]
                    /\ todo' = [todo EXCEPT ![r] = AllEndpoints(backend[r])]
                    /\ UNCHANGED out
               ELSE FlushAs(r, backend[r]) /\ UNCHANGED todo
    BY <1>4 DEF TryFirst
  <2>2. buf'[r] = a
    BY <2>1, ExchangeAnswer
  <2>3. CASE ~isPrunedError(a)
    BY <1>0, <2>1, <2>2, <2>3, FlushAsWalk
  <2>4. CASE isPrunedError(a)
    <3>1. target[r] \notin could[r]
      BY <2>1, <2>4, PrunedCrossesOff
    <3>2. pc'[r] = "pool" /\ todo'[r] = Pool[backend[r]]
      BY <2>1, <2>4 DEF AllEndpoints, TypeOK
    <3>3. /\ backend[r] \in Backend
          /\ backend[r] \in {NodeArchivalRPC, AppArchivalRPC} => PruningWindow > 0
      BY <1>4 DEF RoutedRight, Routed, TryFirst
    <3>4. could[r] \subseteq Range(Pool[backend[r]]) \cup Behind(backend[r])
      BY <1>4, <3>3, CandidatesFacts DEF TryFirst, Ahead
    <3> QED  BY <1>0, <3>1, <3>2, <3>4 DEF Ahead, Behind
  <2> QED  BY <2>3, <2>4
<1>5. CASE TryPool(r)
  <2>1. pc[r] = "pool" /\ todo[r] # << >> /\ todo'[r] = Tail(todo[r])
    BY <1>5 DEF TryPool, TypeOK
  <2>2. Range(todo[r]) \subseteq {Head(todo[r])} \cup Range(Tail(todo[r]))
    BY <2>1, RangeFacts DEF TypeOK
  <2>3. /\ target[r] \notin could[r]
        /\ could[r] \subseteq Range(todo[r]) \cup Behind(backend[r])
    BY <2>1 DEF Ahead
  <2>4. ASSUME Head(todo[r]) \notin could[r], pc'[r] = "pool"
        PROVE  Ahead(r)'
    <3>1. could[r] \subseteq Range(Tail(todo[r])) \cup Behind(backend[r])
      BY <2>2, <2>3, <2>4
    <3> QED  BY <1>0, <2>1, <2>3, <2>4, <3>1 DEF Ahead, Behind
  <2>5. CASE Head(todo[r]) \in {target[r]} \cup Unparsable
    <3>1. Head(todo[r]) \notin could[r]
      BY <2>3, <2>5 DEF Holds
    <3>2. pc'[r] = "pool"
      BY <1>5, <2>1, <2>5 DEF TryPool
    <3> QED  BY <2>4, <3>1, <3>2
  <2>6. CASE Head(todo[r]) \notin {target[r]} \cup Unparsable
    <3>1. PICK a \in Answers :
            /\ Exchange(r, Head(todo[r]), a)
            /\ IF isPrunedError(a) THEN UNCHANGED <<pc, out>>
                                   ELSE FlushAs(r, backend[r])
      BY <1>5, <2>6 DEF TryPool
    <3>2. CASE isPrunedError(a)
      BY <2>1, <2>4, <3>1, <3>2, PrunedCrossesOff
    <3>3. CASE ~isPrunedError(a)
      BY <1>0, <3>1, <3>3, ExchangeAnswer, FlushAsWalk
    <3> QED  BY <3>2, <3>3
  <2> QED  BY <2>5, <2>6
<1>6. CASE EndPool(r)
  <2>1. /\ pc[r] = "pool" /\ Range(todo[r]) = {} /\ UNCHANGED buf
        /\ could[r] \subseteq Behind(backend[r])
    <3>1. pc[r] = "pool" /\ todo[r] = << >> /\ UNCHANGED buf
      BY <1>6 DEF EndPool
    <3>2. Range(todo[r]) = {}
      BY <3>1, RangeFacts DEF TypeOK
    <3> QED  BY <3>1, <3>2 DEF Ahead
  <2>2. CASE HasArchivalBackend(backend[r])
    <3>1. pc'[r] = "archival" /\ todo'[r] = Pool[archivalBackend(backend[r])]
      BY <1>6, <2>2 DEF EndPool, AllEndpoints, TypeOK
    <3> QED  BY <1>0, <2>1, <2>2, <3>1 DEF Ahead, Behind
  <2>3. CASE ~HasArchivalBackend(backend[r])
    <3>1. could[r] = {} /\ FlushAs(r, backend[r])
      BY <1>6, <2>1, <2>3 DEF EndPool, Behind
    <3> QED  BY <1>0, <3>1, FlushAsWalk
  <2> QED  BY <2>2, <2>3
<1>7. CASE TryArchival(r)
  <2>1. pc[r] = "archival" /\ todo[r] # << >> /\ todo'[r] = Tail(todo[r])
    BY <1>7 DEF TryArchival, TypeOK
  <2>2. could[r] \subseteq {Head(todo[r])} \cup Range(Tail(todo[r]))
    <3>1. Range(todo[r]) \subseteq {Head(todo[r])} \cup Range(Tail(todo[r]))
      BY <2>1, RangeFacts DEF TypeOK
    <3>2. could[r] \subseteq Range(todo[r])
      BY <2>1 DEF Ahead
    <3> QED  BY <3>1, <3>2
  <2>3. ASSUME Head(todo[r]) \notin could[r], pc'[r] = "archival"
        PROVE  Ahead(r)'
    <3>1. could'[r] \subseteq Range(todo'[r])
      BY <1>0, <2>1, <2>2, <2>3
    <3> QED  BY <2>3, <3>1 DEF Ahead
  <2>4. CASE Head(todo[r]) \in Unparsable
    <3>1. Head(todo[r]) \notin could[r]
      BY <2>4 DEF Holds
    <3>2. pc'[r] = "archival"
      BY <1>7, <2>1, <2>4 DEF TryArchival
    <3> QED  BY <2>3, <3>1, <3>2
  <2>5. CASE Head(todo[r]) \notin Unparsable
    <3>1. PICK a \in Answers :
            /\ Exchange(r, Head(todo[r]), a)
            /\ IF isPrunedError(a)
                 THEN UNCHANGED <<pc, out>>
                 ELSE FlushAs(r, archivalBackend(backend[r]))
      BY <1>7, <2>5 DEF TryArchival
    <3>2. CASE isPrunedError(a)
      BY <2>1, <2>3, <3>1, <3>2, PrunedCrossesOff
    <3>3. CASE ~isPrunedError(a)
      BY <1>0, <3>1, <3>3, ExchangeAnswer, FlushAsWalk
    <3> QED  BY <3>2, <3>3
  <2> QED  BY <2>4, <2>5
<1>8. CASE EndArchival(r)
  <2>1. pc[r] = "archival" /\ todo[r] = << >> /\ FlushAs(r, backend[r])
    BY <1>8 DEF EndArchival
  <2>2. could[r] = {}
    <3>1. Range(todo[r]) = {}
      BY <2>1, RangeFacts DEF TypeOK
    <3>2. could[r] \subseteq Range(todo[r])
      BY <2>1 DEF Ahead
    <3> QED  BY <3>1, <3>2
  <2> QED  BY <1>0, <2>1, <2>2, FlushAsWalk
<1>9. CASE AbortHandler(r)
  <2>1. pc'[r] = "aborted"
    BY <1>9 DEF AbortHandler, TypeOK
  <2> QED  BY <2>1 DEF Ahead
<1>10. CASE Flush(r)
  <2>1. pc[r] = "flush" /\ pc'[r] = "done"
    BY <1>10 DEF Flush, TypeOK
  <2>2. out'[r].answer = buf[r]
    <3>1. out \in [Req -> Reply] /\ out' = [out EXCEPT ![r].answer = buf[r]]
      BY <1>10 DEF Flush, TypeOK
    <3>2. out[r] \in Reply /\ out'[r] = [out[r] EXCEPT !.answer = buf[r]]
      BY <3>1
    <3> QED  BY <3>2, ReplyExcept
  <2>3. RequestHeight(q[r]) > 0 /\ isPrunedError(buf[r]) => could[r] = {}
    BY <2>1 DEF Ahead
  <2> QED  BY <1>0, <2>1, <2>2, <2>3 DEF Ahead
<1> QED  BY <1>1, <1>2, <1>3, <1>4, <1>5, <1>6, <1>7, <1>8, <1>9, <1>10 DEF Step

\* Every step keeps every walk right.
LEMMA WalkStep ==
  ASSUME ArchivalConfigured, TypeOK, RoutedRight, CacheSound, WalkInv, [Next]_vars
  PROVE  WalkInv'
<1> SUFFICES ASSUME NEW s \in Req PROVE Ahead(s)' /\ Holds(s)'
  BY DEF WalkInv
<1>0. Ahead(s) /\ Holds(s)
  BY DEF WalkInv
<1>1. CASE UNCHANGED <<held, pc, q, backend, target, todo, buf, out, could>>
  BY <1>0, <1>1, AheadUnchanged DEF Holds
<1>2. ASSUME NEW e \in Endpoint, Grow(e)
      PROVE  Ahead(s)' /\ Holds(s)'
  <2>1. UNCHANGED <<pc, q, backend, target, todo, buf, out, could>>
    BY <1>2 DEF Grow, requestVars
  <2>2. \A f \in Endpoint : held[f] \subseteq held'[f]
    BY <1>2 DEF Grow, TypeOK
  <2> QED  BY <1>0, <2>1, <2>2, AheadUnchanged DEF Holds
<1>3. ASSUME NEW e \in Endpoint, Prune(e)
      PROVE  Ahead(s)' /\ Holds(s)'
  <2>1. UNCHANGED <<pc, q, backend, target, todo, buf, out>>
    BY <1>3 DEF Prune, requestVars
  <2>2. PICK h \in held[e] :
          /\ held' = [held EXCEPT ![e] = @ \ {h}]
          /\ could' = [r \in Req |-> IF NodeHeight(q[r]) = h
                                       THEN could[r] \ {e} ELSE could[r]]
    BY <1>3 DEF Prune
  <2>3. could'[s] = IF NodeHeight(q[s]) = h THEN could[s] \ {e} ELSE could[s]
    BY <2>2
  <2>4. \A f \in Endpoint : held'[f] = IF f = e THEN held[f] \ {h} ELSE held[f]
    BY <2>2 DEF TypeOK
  <2>5. Holds(s)'
    BY <1>0, <2>1, <2>3, <2>4 DEF Holds
  <2>6. Ahead(s)'
    BY <1>0, <2>1, <2>3, AheadShrinks
  <2> QED  BY <2>5, <2>6
<1>4. ASSUME NEW r \in Req, NEW req \in Request, HandleRequest(r, req)
      PROVE  Ahead(s)' /\ Holds(s)'
  <2>1. CASE s = r
    BY <1>0, <1>4, <2>1, HandleRequestWalk
  <2>2. CASE s # r
    <3>1. UNCHANGED <<held, todo, buf>> /\ q'[s] = q[s]
      BY <1>4, <2>2 DEF HandleRequest, TypeOK, nodeVars
    <3>2. /\ pc'[s] = pc[s] /\ backend'[s] = backend[s] /\ target'[s] = target[s]
          /\ out'[s] = out[s] /\ could'[s] = could[s]
      BY <1>0, <1>4, <2>2, HandleRequestFrame
    <3> QED  BY <1>0, <3>1, <3>2, AheadUnchanged DEF Holds
  <2> QED  BY <2>1, <2>2
<1>5. ASSUME NEW r \in Req, Step(r)
      PROVE  Ahead(s)' /\ Holds(s)'
  <2>1. UNCHANGED <<held, q, backend, target, could>>
    BY <1>5, StepFrame
  <2>2. Holds(s)'
    BY <1>0, <2>1 DEF Holds
  <2>3. CASE s = r
    BY <1>0, <1>5, <2>2, <2>3, StepWalk
  <2>4. CASE s # r
    BY <1>0, <1>5, <2>1, <2>2, <2>4, StepFrame, AheadUnchanged
  <2> QED  BY <2>3, <2>4
<1>6. ASSUME NEW r \in Req, Recycle(r)
      PROVE  Ahead(s)' /\ Holds(s)'
  <2>1. UNCHANGED held
    BY <1>6 DEF Recycle, nodeVars
  <2>2. CASE s = r
    <3>1. could'[s] = {} /\ pc'[s] = "idle"
      BY <1>6, <2>2 DEF Recycle, TypeOK
    <3> QED  BY <3>1 DEF Ahead, Holds
  <2>3. CASE s # r
    <3>1. /\ pc'[s] = pc[s] /\ q'[s] = q[s] /\ backend'[s] = backend[s]
          /\ target'[s] = target[s] /\ todo'[s] = todo[s] /\ buf'[s] = buf[s]
          /\ out'[s] = out[s] /\ could'[s] = could[s]
      BY <1>6, <2>3 DEF Recycle, TypeOK
    <3> QED  BY <1>0, <2>1, <3>1, AheadUnchanged DEF Holds
  <2> QED  BY <2>2, <2>3
<1>7. CASE pollHeadHeight \/ \E k \in CacheKeys : CacheExpire(k)
  BY <1>1, <1>7 DEF pollHeadHeight, CacheExpire, nodeVars, requestVars
<1> QED  BY <1>1, <1>2, <1>3, <1>4, <1>5, <1>6, <1>7 DEF Next, vars

\* PrunedOnlyIfExhausted, for any number of endpoints and of concurrent
\* requests and whatever the nodes prune meanwhile, in every configuration
\* whose archival pools are there when height routing is on.
THEOREM RetryIsExhaustive ==
  ASSUME ArchivalConfigured
  PROVE  Spec => []PrunedOnlyIfExhausted
<1> DEFINE IInv == TypeOK /\ RoutedRight /\ Fetched /\ CacheSound /\ WalkInv
<1>1. Init => IInv
  <2>1. Init => Fetched
    BY DEF Init, Fetched
  <2>2. Init => \A k \in CacheKeys : cache[k] = NoAnswer
    BY DEF Init
  <2>3. Init => CacheSound
    BY <2>2 DEF CacheSound
  <2>4. Init => WalkInv
    BY DEF Init, WalkInv, Ahead, Holds
  <2> QED  BY <2>1, <2>3, <2>4, InitTypes
<1>2. IInv /\ [Next]_vars => IInv'
  BY NextTypes, RoutedStep, FetchedStep, CacheSoundStep, WalkStep
<1>3. IInv => PrunedOnlyIfExhausted
  BY DEF WalkInv, Ahead, PrunedOnlyIfExhausted, Done
<1> QED  BY <1>1, <1>2, <1>3, PTL DEF Spec

-----------------------------------------------------------------------------
(* The walk ends.                                                          *)

\* The longest way of a request that was routed to b: look in the cache, ask
\* the target, go through both pools, note that each is at its end, and answer.
LongestWay(b) == 5 + Len(AllEndpoints(b)) + Len(AllEndpoints(archivalBackend(b)))

\* The steps left at label l of a request to b that has still to visit t.
Left(l, b, t) ==
  CASE l = "lookup"   -> LongestWay(b)
    [] l = "first"    -> LongestWay(b) - 1
    [] l = "pool"     -> 3 + Len(AllEndpoints(archivalBackend(b))) + Len(t)
    [] l = "archival" -> 2 + Len(t)
    [] l = "direct"   -> 2
    [] l = "flush"    -> 1
    [] OTHER          -> 0

\* The steps that request r can still take at most.
StepsLeft(r) == Left(pc[r], backend[r], todo[r])

\* A request that is under way has one, and no more than the longest way.
WayIsBounded ==
  \A r \in Req : pc[r] \in Routed => StepsLeft(r) \in 1 .. LongestWay(backend[r])

\* Every step of a request brings it closer to its end, and no step of another
\* request, of a node, of the cache or of the health checker sets it back.
WayGetsShorter ==
  \A r \in Req :
    /\ Step(r) => StepsLeft(r)' \in 0 .. StepsLeft(r) - 1
    /\ pc[r] # "idle" /\ ~Step(r) => StepsLeft(r)' = StepsLeft(r)

\* What a loop has still to visit is a part of its pool.
PartLeft ==
  \A r \in Req :
    /\ pc[r] = "pool" => Len(todo[r]) <= Len(AllEndpoints(backend[r]))
    /\ pc[r] = "archival" =>
         Len(todo[r]) <= Len(AllEndpoints(archivalBackend(backend[r])))

\* Pools have a length.
LEMMA LenFacts ==
  ASSUME NEW b \in Backend
  PROVE  Len(AllEndpoints(b)) \in Nat /\ Len(AllEndpoints(archivalBackend(b))) \in Nat
<1>1. AllEndpoints(b) \in Seq(Endpoint)
  BY BackendFacts DEF AllEndpoints
<1>2. AllEndpoints(archivalBackend(b)) \in Seq(Endpoint)
  BY BackendFacts DEF AllEndpoints
<1> QED  BY <1>1, <1>2

\* The steps left, label by label.
LEMMA LeftFacts ==
  ASSUME NEW b, NEW t
  PROVE  /\ Left("lookup", b, t) = LongestWay(b)
         /\ Left("first", b, t) = LongestWay(b) - 1
         /\ Left("pool", b, t) = 3 + Len(AllEndpoints(archivalBackend(b))) + Len(t)
         /\ Left("archival", b, t) = 2 + Len(t)
         /\ Left("direct", b, t) = 2 /\ Left("flush", b, t) = 1
         /\ Left("done", b, t) = 0 /\ Left("aborted", b, t) = 0 /\ Left("idle", b, t) = 0
BY DEF Left

\* So has what a loop has still to visit.
LEMMA TodoLength ==
  ASSUME TypeOK, NEW r \in Req
  PROVE  todo[r] \in Seq(Endpoint) /\ Len(todo[r]) \in Nat
<1>1. todo[r] \in Seq(Endpoint)
  BY DEF TypeOK
<1> QED  BY <1>1

\* A step of a request that ends its walk shortens its way.
LEMMA LastSteps ==
  ASSUME TypeOK, RoutedRight, NEW r \in Req, pc[r] \in Routed,
         pc'[r] \in {"done", "aborted"}
  PROVE  StepsLeft(r)' \in 0 .. StepsLeft(r) - 1
<1>1. StepsLeft(r)' = 0
  BY LeftFacts DEF StepsLeft
<1>2. backend[r] \in Backend /\ Len(todo[r]) \in Nat
  BY RoutedFacts, TodoLength
<1>3. StepsLeft(r) \in Nat /\ StepsLeft(r) > 0
  BY <1>2, LenFacts, LeftFacts DEF StepsLeft, LongestWay, Routed
<1> QED  BY <1>1, <1>3

\* So does one that goes on to the answer.
LEMMA FlushIsLast ==
  ASSUME TypeOK, RoutedRight, NEW r \in Req, pc[r] \in Routed, pc[r] # "flush",
         pc'[r] = "flush"
  PROVE  StepsLeft(r)' \in 0 .. StepsLeft(r) - 1
<1>1. StepsLeft(r)' = 1
  BY LeftFacts DEF StepsLeft
<1>2. backend[r] \in Backend /\ Len(todo[r]) \in Nat
  BY RoutedFacts, TodoLength
<1>3. StepsLeft(r) \in Nat /\ StepsLeft(r) > 1
  BY <1>2, LenFacts, LeftFacts DEF StepsLeft, LongestWay, Routed
<1> QED  BY <1>1, <1>3

\* A tail is shorter by one.
LEMMA TailLength ==
  ASSUME NEW S, NEW s \in Seq(S), s # << >>
  PROVE  Len(s) \in Nat /\ Len(s) > 0 /\ Len(Tail(s)) = Len(s) - 1
OBVIOUS

\* A loop that goes on has one endpoint less to visit.
LEMMA LoopShortens ==
  ASSUME TypeOK, RoutedRight, NEW r \in Req, pc[r] \in {"pool", "archival"},
         todo[r] # << >>, pc' = pc, backend' = backend,
         todo' = [todo EXCEPT ![r] = Tail(@)]
  PROVE  StepsLeft(r)' \in 0 .. StepsLeft(r) - 1
<1>1. todo'[r] = Tail(todo[r]) /\ todo[r] \in Seq(Endpoint)
  BY TodoLength DEF TypeOK
<1>2. PICK t, u, n : t = todo[r] /\ u = todo'[r]
                     /\ n = Len(AllEndpoints(archivalBackend(backend[r])))
  OBVIOUS
<1>3. Len(t) \in Nat /\ Len(t) > 0 /\ Len(u) = Len(t) - 1
  BY <1>1, <1>2, TailLength
<1>4. n \in Nat
  BY <1>2, RoutedFacts, LenFacts DEF Routed
<1>5. CASE pc[r] = "pool"
  <2>1. StepsLeft(r) = 3 + n + Len(t)
    BY <1>2, <1>5, LeftFacts DEF StepsLeft
  <2>2. StepsLeft(r)' = Left("pool", backend[r], u)
    BY <1>2, <1>5 DEF StepsLeft
  <2>3. StepsLeft(r)' = 3 + n + Len(u)
    BY <1>2, <2>2, LeftFacts
  <2> QED  BY <1>3, <1>4, <2>1, <2>3
<1>6. CASE pc[r] = "archival"
  <2>1. StepsLeft(r) = 2 + Len(t)
    BY <1>2, <1>6, LeftFacts DEF StepsLeft
  <2>2. StepsLeft(r)' = Left("archival", backend[r], u)
    BY <1>2, <1>6 DEF StepsLeft
  <2>3. StepsLeft(r)' = 2 + Len(u)
    BY <1>2, <2>2, LeftFacts
  <2> QED  BY <1>3, <2>1, <2>3
<1> QED  BY <1>5, <1>6

\* Every step of a request shortens its way.
LEMMA StepShortens ==
  ASSUME TypeOK, RoutedRight, NEW r \in Req, Step(r)
  PROVE  StepsLeft(r)' \in 0 .. StepsLeft(r) - 1
<1> USE DEF nodeVars, requestVars
<1>0. pc[r] \in Routed
  BY DEF Step, CacheHit, CacheMiss, proxyDirect, TryFirst, TryPool, EndPool, TryArchival,
     EndArchival, AbortHandler, Flush, Routed
<1>1. backend[r] \in Backend /\ backend' = backend
  BY <1>0, RoutedFacts, StepFrame
<1>2. /\ Len(AllEndpoints(backend[r])) \in Nat
      /\ Len(AllEndpoints(archivalBackend(backend[r]))) \in Nat
  BY <1>1, LenFacts
<1>3. ASSUME NEW b, FlushAs(r, b)
      PROVE  pc'[r] = "flush"
  BY <1>3 DEF FlushAs, TypeOK
<1>4. CASE CacheHit(r) \/ Flush(r) \/ AbortHandler(r)
  <2>1. pc'[r] \in {"done", "aborted"}
    BY <1>4 DEF CacheHit, Flush, AbortHandler, TypeOK
  <2> QED  BY <1>0, <2>1, LastSteps
<1>5. CASE CacheMiss(r)
  <2>1. pc[r] = "lookup" /\ pc'[r] \in {"done", "first", "direct"}
    BY <1>5 DEF CacheMiss, Dispatch, TypeOK
  <2>2. CASE pc'[r] = "done"
    BY <1>0, <2>2, LastSteps
  <2>3. CASE pc'[r] \in {"first", "direct"}
    BY <1>1, <1>2, <2>1, <2>3, LeftFacts DEF StepsLeft, LongestWay
  <2> QED  BY <2>1, <2>2, <2>3
<1>6. CASE proxyDirect(r) \/ EndArchival(r)
  <2>1. pc[r] # "flush" /\ pc'[r] = "flush"
    BY <1>3, <1>6 DEF proxyDirect, EndArchival
  <2> QED  BY <1>0, <2>1, FlushIsLast
<1>7. CASE TryFirst(r)
  <2>1. CASE pc'[r] = "flush"
    BY <1>0, <1>7, <2>1, FlushIsLast DEF TryFirst
  <2>2. CASE pc'[r] # "flush"
    <3>1. /\ pc' = [pc EXCEPT ![r] = "pool"]
          /\ todo' = [todo EXCEPT ![r] = AllEndpoints(backend[r])]
      BY <1>3, <1>7, <2>2 DEF TryFirst
    <3>2. pc[r] = "first" /\ pc'[r] = "pool" /\ todo'[r] = AllEndpoints(backend[r])
      BY <1>7, <3>1 DEF TypeOK, TryFirst
    <3>3. StepsLeft(r)' = 3 + Len(AllEndpoints(archivalBackend(backend[r])))
                            + Len(AllEndpoints(backend[r]))
      BY <1>1, <3>2, LeftFacts DEF StepsLeft
    <3>4. StepsLeft(r) = LongestWay(backend[r]) - 1
      BY <3>2, LeftFacts DEF StepsLeft
    <3> QED  BY <1>2, <3>3, <3>4 DEF LongestWay
  <2> QED  BY <2>1, <2>2
<1>8. CASE TryPool(r) \/ TryArchival(r)
  <2>1. /\ pc[r] \in {"pool", "archival"} /\ todo[r] # << >>
        /\ todo' = [todo EXCEPT ![r] = Tail(@)]
    BY <1>8 DEF TryPool, TryArchival
  <2>2. pc' = pc \/ pc'[r] = "flush"
    BY <1>3, <1>8 DEF TryPool, TryArchival
  <2>3. CASE pc' = pc
    BY <1>1, <2>1, <2>3, LoopShortens
  <2>4. CASE pc'[r] = "flush"
    BY <1>0, <2>1, <2>4, FlushIsLast
  <2> QED  BY <2>2, <2>3, <2>4
<1>9. CASE EndPool(r)
  <2>1. CASE pc'[r] = "flush"
    BY <1>0, <1>9, <2>1, FlushIsLast DEF EndPool
  <2>2. CASE pc'[r] # "flush"
    <3>1. /\ pc' = [pc EXCEPT ![r] = "archival"]
          /\ todo' = [todo EXCEPT ![r] = AllEndpoints(archivalBackend(backend[r]))]
      BY <1>3, <1>9, <2>2 DEF EndPool
    <3>2. /\ pc[r] = "pool" /\ todo[r] = << >> /\ pc'[r] = "archival"
          /\ todo'[r] = AllEndpoints(archivalBackend(backend[r]))
      BY <1>9, <3>1 DEF TypeOK, EndPool
    <3>3. StepsLeft(r)' = 2 + Len(AllEndpoints(archivalBackend(backend[r])))
      BY <3>2, LeftFacts DEF StepsLeft
    <3>4. StepsLeft(r) = 3 + Len(AllEndpoints(archivalBackend(backend[r]))) + Len(<< >>)
      BY <3>2, LeftFacts DEF StepsLeft
    <3>5. Len(<< >>) = 0
      OBVIOUS
    <3> QED  BY <1>2, <3>3, <3>4, <3>5
  <2> QED  BY <2>1, <2>2
<1> QED  BY <1>4, <1>5, <1>6, <1>7, <1>8, <1>9 DEF Step

\* Nobody else has a hand in a request that is under way.
LEMMA OthersFrame ==
  ASSUME TypeOK, [Next]_vars, NEW r \in Req, ~Step(r),
         pc[r] \notin {"idle", "done", "aborted"}
  PROVE  pc'[r] = pc[r] /\ backend'[r] = backend[r] /\ todo'[r] = todo[r]
<1>1. CASE UNCHANGED <<pc, backend, todo>>
  BY <1>1
<1>2. ASSUME NEW s \in Req, NEW req \in Request, HandleRequest(s, req)
      PROVE  pc'[r] = pc[r] /\ backend'[r] = backend[r] /\ todo'[r] = todo[r]
  <2>1. r \in Req \ {s} /\ UNCHANGED todo
    BY <1>2 DEF HandleRequest
  <2> QED  BY <1>2, <2>1, HandleRequestFrame
<1>3. ASSUME NEW s \in Req, Step(s)
      PROVE  pc'[r] = pc[r] /\ backend'[r] = backend[r] /\ todo'[r] = todo[r]
  BY <1>3, StepFrame
<1>4. ASSUME NEW s \in Req, Recycle(s)
      PROVE  pc'[r] = pc[r] /\ backend'[r] = backend[r] /\ todo'[r] = todo[r]
  BY <1>4 DEF Recycle, TypeOK
<1> QED  BY <1>1, <1>2, <1>3, <1>4 DEF Next, vars, Grow, Prune, pollHeadHeight,
            CacheExpire, requestVars

\* A request that is over stays where it is or is followed by the next one.
LEMMA OverFrame ==
  ASSUME TypeOK, [Next]_vars, NEW r \in Req, pc[r] \in {"done", "aborted"}
  PROVE  pc'[r] \in {pc[r], "idle"}
<1>1. CASE UNCHANGED pc
  BY <1>1
<1>2. ASSUME NEW s \in Req, NEW req \in Request, HandleRequest(s, req)
      PROVE  pc'[r] \in {pc[r], "idle"}
  <2>1. r \in Req \ {s}
    BY <1>2 DEF HandleRequest
  <2> QED  BY <1>2, <2>1, HandleRequestFrame
<1>3. ASSUME NEW s \in Req, Step(s)
      PROVE  pc'[r] \in {pc[r], "idle"}
  <2>1. r \in Req \ {s}
    BY <1>3 DEF Step, CacheHit, CacheMiss, proxyDirect, TryFirst, TryPool, EndPool,
       TryArchival, EndArchival, AbortHandler, Flush
  <2> QED  BY <1>3, <2>1, StepFrame
<1>4. ASSUME NEW s \in Req, Recycle(s)
      PROVE  pc'[r] \in {pc[r], "idle"}
  BY <1>4 DEF Recycle, TypeOK
<1> QED  BY <1>1, <1>2, <1>3, <1>4 DEF Next, vars, Grow, Prune, pollHeadHeight,
            CacheExpire, requestVars

\* A request that begins is not yet in one of the loops.
LEMMA BeginFrame ==
  ASSUME TypeOK, [Next]_vars, NEW r \in Req, pc[r] = "idle"
  PROVE  pc'[r] \notin {"pool", "archival"}
<1>1. CASE UNCHANGED pc
  BY <1>1
<1>2. ASSUME NEW s \in Req, NEW req \in Request, HandleRequest(s, req)
      PROVE  pc'[r] \notin {"pool", "archival"}
  <2>1. CASE r = s
    BY <1>2, <2>1 DEF HandleRequest, Refuse, Accept, Dispatch, TypeOK
  <2>2. CASE r # s
    BY <1>2, <2>2, HandleRequestFrame
  <2> QED  BY <2>1, <2>2
<1>3. ASSUME NEW s \in Req, Step(s)
      PROVE  pc'[r] \notin {"pool", "archival"}
  <2>1. r \in Req \ {s}
    BY <1>3 DEF Step, CacheHit, CacheMiss, proxyDirect, TryFirst, TryPool, EndPool,
       TryArchival, EndArchival, AbortHandler, Flush
  <2> QED  BY <1>3, <2>1, StepFrame
<1>4. ASSUME NEW s \in Req, Recycle(s)
      PROVE  pc'[r] \notin {"pool", "archival"}
  BY <1>4 DEF Recycle, TypeOK
<1> QED  BY <1>1, <1>2, <1>3, <1>4 DEF Next, vars, Grow, Prune, pollHeadHeight,
            CacheExpire, requestVars

\* A step into a loop, or within one, leaves a part of its pool.
LEMMA StepPart ==
  ASSUME TypeOK, RoutedRight, PartLeft, NEW r \in Req, Step(r)
  PROVE  /\ pc'[r] = "pool" => Len(todo'[r]) <= Len(AllEndpoints(backend[r]))
         /\ pc'[r] = "archival" =>
              Len(todo'[r]) <= Len(AllEndpoints(archivalBackend(backend[r])))
<1> USE DEF nodeVars, requestVars
<1>0. ASSUME NEW b, FlushAs(r, b)
      PROVE  pc'[r] = "flush"
  BY <1>0 DEF FlushAs, TypeOK
<1>1. pc[r] \in Routed
  BY DEF Step, CacheHit, CacheMiss, proxyDirect, TryFirst, TryPool, EndPool, TryArchival,
     EndArchival, AbortHandler, Flush, Routed
<1>2. PICK p, n : /\ p = Len(AllEndpoints(backend[r])) /\ p \in Nat
                  /\ n = Len(AllEndpoints(archivalBackend(backend[r]))) /\ n \in Nat
  BY <1>1, RoutedFacts, LenFacts
<1>3. CASE CacheHit(r) \/ CacheMiss(r) \/ AbortHandler(r) \/ Flush(r)
  BY <1>3 DEF CacheHit, CacheMiss, Dispatch, AbortHandler, Flush, TypeOK
<1>4. CASE proxyDirect(r) \/ EndArchival(r)
  <2>1. pc'[r] = "flush"
    BY <1>0, <1>4 DEF proxyDirect, EndArchival
  <2> QED  BY <2>1
<1>5. CASE TryFirst(r)
  <2>1. \/ pc'[r] = "flush"
        \/ pc'[r] = "pool" /\ todo' = [todo EXCEPT ![r] = AllEndpoints(backend[r])]
    BY <1>0, <1>5 DEF TryFirst, TypeOK
  <2>2. \/ pc'[r] = "flush"
        \/ pc'[r] = "pool" /\ todo'[r] = AllEndpoints(backend[r])
    BY <2>1 DEF TypeOK
  <2>3. pc'[r] = "flush" \/ (pc'[r] = "pool" /\ Len(todo'[r]) = p)
    BY <1>2, <2>2
  <2> QED  BY <1>2, <2>3
<1>6. CASE EndPool(r)
  <2>1. \/ pc'[r] = "flush"
        \/ /\ pc'[r] = "archival"
           /\ todo' = [todo EXCEPT ![r] = AllEndpoints(archivalBackend(backend[r]))]
    BY <1>0, <1>6 DEF EndPool, TypeOK
  <2>2. \/ pc'[r] = "flush"
        \/ pc'[r] = "archival" /\ todo'[r] = AllEndpoints(archivalBackend(backend[r]))
    BY <2>1 DEF TypeOK
  <2>3. pc'[r] = "flush" \/ (pc'[r] = "archival" /\ Len(todo'[r]) = n)
    BY <1>2, <2>2
  <2> QED  BY <1>2, <2>3
<1>7. CASE TryPool(r) \/ TryArchival(r)
  <2>1. /\ todo[r] # << >> /\ todo' = [todo EXCEPT ![r] = Tail(@)]
        /\ pc' = pc \/ pc'[r] = "flush"
    BY <1>0, <1>7 DEF TryPool, TryArchival
  <2>2. PICK t, u : /\ t = todo[r] /\ u = todo'[r]
                    /\ u = Tail(t) /\ t \in Seq(Endpoint) /\ t # << >>
    BY <2>1, TodoLength DEF TypeOK
  <2>3. Len(t) \in Nat /\ Len(u) = Len(t) - 1
    BY <2>2, TailLength
  <2>4. (pc[r] = "pool" => Len(t) <= p) /\ (pc[r] = "archival" => Len(t) <= n)
    BY <1>2, <2>2 DEF PartLeft
  <2>5. (pc'[r] = "pool" => Len(u) <= p) /\ (pc'[r] = "archival" => Len(u) <= n)
    BY <1>2, <2>1, <2>3, <2>4
  <2> QED  BY <1>2, <2>2, <2>5
<1> QED  BY <1>3, <1>4, <1>5, <1>6, <1>7 DEF Step

\* Every step leaves the loops a part of their pools.
LEMMA PartLeftStep ==
  ASSUME TypeOK, RoutedRight, PartLeft, [Next]_vars
  PROVE  PartLeft'
<1> SUFFICES ASSUME NEW r \in Req
             PROVE  /\ pc'[r] = "pool" =>
                         Len(todo'[r]) <= Len(AllEndpoints(backend'[r]))
                    /\ pc'[r] = "archival" =>
                         Len(todo'[r]) <= Len(AllEndpoints(archivalBackend(backend'[r])))
  BY DEF PartLeft
<1>1. CASE Step(r)
  <2>1. backend' = backend
    BY <1>1, StepFrame
  <2> QED  BY <1>1, <2>1, StepPart
<1>2. CASE pc[r] = "idle"
  BY <1>2, BeginFrame
<1>3. CASE pc[r] \in {"done", "aborted"}
  BY <1>3, OverFrame
<1>4. CASE ~Step(r) /\ pc[r] \notin {"idle", "done", "aborted"}
  BY <1>4, OthersFrame DEF PartLeft
<1> QED  BY <1>1, <1>2, <1>3, <1>4

\* Nobody else changes the way of a request that is under way.
LEMMA OthersKeepWay ==
  ASSUME TypeOK, [Next]_vars, NEW r \in Req, ~Step(r), pc[r] # "idle"
  PROVE  StepsLeft(r)' = StepsLeft(r)
<1>1. CASE pc[r] \in {"done", "aborted"}
  <2>1. pc'[r] \in {"done", "aborted", "idle"}
    BY <1>1, OverFrame
  <2>2. StepsLeft(r) = 0 /\ StepsLeft(r)' = 0
    BY <1>1, <2>1, LeftFacts DEF StepsLeft
  <2> QED  BY <2>2
<1>2. CASE pc[r] \notin {"done", "aborted"}
  BY <1>2, OthersFrame DEF StepsLeft
<1> QED  BY <1>1, <1>2

\* With a part of a pool to visit the way is bounded.
LEMMA PartBounds == TypeOK /\ RoutedRight /\ PartLeft => WayIsBounded
<1> SUFFICES ASSUME TypeOK, RoutedRight, PartLeft, NEW r \in Req, pc[r] \in Routed
             PROVE  StepsLeft(r) \in 1 .. LongestWay(backend[r])
  BY DEF WayIsBounded
<1>1. PICK b, t, p, n, k : /\ b = backend[r] /\ t = todo[r]
                           /\ p = Len(AllEndpoints(b)) /\ p \in Nat
                           /\ n = Len(AllEndpoints(archivalBackend(b))) /\ n \in Nat
                           /\ k = Len(t) /\ k \in Nat
  BY RoutedFacts, LenFacts, TodoLength
<1>2. p \in Nat /\ n \in Nat /\ k \in Nat /\ LongestWay(backend[r]) = 5 + p + n
  BY <1>1 DEF LongestWay
<1>3. (pc[r] = "pool" => k <= p) /\ (pc[r] = "archival" => k <= n)
  BY <1>1 DEF PartLeft
<1>4. CASE pc[r] = "lookup"
  <2>1. StepsLeft(r) = 5 + p + n
    BY <1>2, <1>4, LeftFacts DEF StepsLeft
  <2> QED  BY <1>2, <2>1
<1>5. CASE pc[r] = "first"
  <2>1. StepsLeft(r) = LongestWay(backend[r]) - 1
    BY <1>5, LeftFacts DEF StepsLeft
  <2> QED  BY <1>2, <2>1
<1>6. CASE pc[r] = "pool"
  <2>1. StepsLeft(r) = 3 + n + k
    BY <1>1, <1>6, LeftFacts DEF StepsLeft
  <2> QED  BY <1>2, <1>3, <1>6, <2>1
<1>7. CASE pc[r] = "archival"
  <2>1. StepsLeft(r) = 2 + k
    BY <1>1, <1>7, LeftFacts DEF StepsLeft
  <2> QED  BY <1>2, <1>3, <1>7, <2>1
<1>8. CASE pc[r] \in {"direct", "flush"}
  <2>1. StepsLeft(r) \in {1, 2}
    BY <1>8, LeftFacts DEF StepsLeft
  <2> QED  BY <1>2, <2>1
<1> QED  BY <1>4, <1>5, <1>6, <1>7, <1>8 DEF Routed

\* The retry loops end: for any pools, any answers of the nodes and any number
\* of concurrent requests, a request takes no more steps than it has endpoints to
\* visit and five, each of its steps uses one of them up, and nobody else lengthens
\* its way (the safety half of EveryRequestEnds).
THEOREM RetryWalkIsBounded == Spec => []WayIsBounded /\ [][WayGetsShorter]_vars
<1> DEFINE IInv == TypeOK /\ RoutedRight /\ PartLeft
<1>1. Init => IInv
  <2>1. Init => \A r \in Req : pc[r] = "idle"
    BY DEF Init
  <2>2. Init => PartLeft
    BY <2>1 DEF PartLeft
  <2> QED  BY <2>2, InitTypes
<1>2. IInv /\ [Next]_vars => IInv'
  BY NextTypes, RoutedStep, PartLeftStep
<1>3. IInv => WayIsBounded
  BY PartBounds
<1>4. IInv /\ [Next]_vars => [WayGetsShorter]_vars
  <2> SUFFICES ASSUME IInv, [Next]_vars
               PROVE  WayGetsShorter
    OBVIOUS
  <2> QED  BY StepShortens, OthersKeepWay DEF WayGetsShorter
<1> QED  BY <1>1, <1>2, <1>3, <1>4, PTL DEF Spec
=============================================================================
