---------------------------- MODULE ProxyHandler ----------------------------
(***************************************************************************)
(* The HTTP request handler (internal/proxy/handler.go) with what it       *)
(* shares between requests: the head height that the health checker polls  *)
(* and the response cache in Redis.  Requests run concurrently, one        *)
(* goroutine each.  The nodes behind the endpoints are external: a node    *)
(* holds a set of heights that grows at the top and is pruned at the       *)
(* bottom, while requests are under way, and any single exchange with a    *)
(* node may fail.                                                          *)
(***************************************************************************)
EXTENDS Routing

CONSTANTS
  Req,          \* request goroutines
  Request,      \* the requests clients may send (records, see Routing)
  InitialHeld,  \* the heights each endpoint's node may hold at the start
  Unparsable,   \* configured endpoints that url.Parse rejects
  MaxHeight,    \* the chain is 1 .. MaxHeight
  MaxNodeSteps  \* bound on the changes of the nodes' stores

Height == 1 .. MaxHeight

ASSUME RequestAssumption ==
  /\ MaxHeight \in Nat /\ MaxNodeSteps \in Nat
  /\ InitialHeld \subseteq [Endpoint -> SUBSET Height]
  /\ \A r \in Request :
       /\ r.body \in BodyForm
       /\ r.param \in Int /\ r.query \in Int
       /\ r.method = NoMethod <=> r.body \in {"none", "oversize", "malformed"}

VARIABLES
  held,      \* endpoint -> the heights its node can serve
  nodeSteps, \* how often the nodes' stores have changed
  head,      \* HeightTracker.headHeight
  cache,     \* cache key -> answer, or NoAnswer
  pc,        \* where each request is
  q,         \* the request itself
  backend,   \* decision.Backend
  target,    \* decision.TargetURL
  todo,      \* endpoints the loops of proxyWithRetry have still to visit
  buf,       \* the answer of the latest attempt
  from,      \* history: the endpoint that gave it
  out,       \* the reply: its answer and its X-DA-Backend header
  could      \* history: endpoints of the request's pools that have held its
             \* block ever since the request was routed

nodeVars    == <<held, nodeSteps>>
requestVars == <<q, backend, target>>
vars == <<held, nodeSteps, head, cache, pc, q, backend, target, todo, buf,
          from, out, could>>

-----------------------------------------------------------------------------
(* Answers.  A body is told apart only as far as the handler or a property *)
(* tells it apart: the block asked for, an answer computed from the        *)
(* current head, a batch answer, an error saying that the block is not     *)
(* there (one of the phrases of isPrunedError), any other JSON-RPC error,  *)
(* or an error of the proxy itself.                                        *)

Status  == {0, 200, 400, 403, 413, 500, 502}
Kind    == {"none", "block", "latest", "batch", "pruned", "rpcerror",
            "unavailable", "refused"}
Answers == [status : Status, kind : Kind]
Reply   == [answer : Answers, header : Backend \cup {""}]
Label   == {"idle", "lookup", "direct", "first", "pool", "archival", "flush",
            "done", "aborted"}

Answer(s, k) == [status |-> s, kind |-> k]
NoAnswer == Answer(0, "none")
RPCError(s) == Answer(s, "rpcerror")

\* What the ErrorHandler of the reverse proxy writes when the exchange with
\* the node fails.
BadGateway == Answer(502, "unavailable")

isPrunedError(a) == a.status \in {200, 500} /\ a.kind = "pruned"

\* The height a node reads out of a request: a POST is answered from its
\* body alone, a GET from its query string.
NodeHeight(r) == IF r.body = "none" THEN r.query ELSE ExtractHeight(r)

\* What a node that holds the heights hs may answer.  Errors come with
\* status 200 or 500.
NodeAnswers(hs, r) ==
  IF r.body = "batch" THEN {Answer(200, "batch"), RPCError(200), RPCError(500)}
  ELSE IF NodeHeight(r) = 0 THEN {Answer(200, "latest"), RPCError(200), RPCError(500)}
  ELSE IF NodeHeight(r) \in hs THEN {Answer(200, "block"), RPCError(200), RPCError(500)}
  ELSE {Answer(200, "pruned"), Answer(500, "pruned")}

\* What an exchange with the node behind endpoint e may yield.
Responses(e, r) == NodeAnswers(held[e], r) \cup {BadGateway}

CacheKeys == {CacheKey(r) : r \in Request}

\* The endpoints a request routed to b may be served by: the pool its target
\* came from and, if that is a pruned one, the archival companion.
Candidates(b) ==
  (Range(TargetPool(b)) \cup Range(Pool[archivalBackend(b)])) \ Unparsable

\* HandleRequest: use the retry path?
CanRetry(r, b) ==
  RequestHeight(r) > 0 /\ (Len(AllEndpoints(b)) > 1 \/ HasArchivalBackend(b))

ShouldCache(r) == IsCacheable(r.method, RequestHeight(r))

-----------------------------------------------------------------------------
NoRequest == [body |-> "none", method |-> NoMethod, rest |-> {}, param |-> 0,
              query |-> 0, scope |-> "", allowed |-> {}]
NoReply   == [answer |-> NoAnswer, header |-> ""]

Init ==
  /\ held \in InitialHeld
  /\ nodeSteps = 0
  /\ head = 0
  /\ cache = [k \in CacheKeys |-> NoAnswer]
  /\ pc = [r \in Req |-> "idle"]
  /\ q = [r \in Req |-> NoRequest]
  /\ backend = [r \in Req |-> ""]
  /\ target = [r \in Req |-> ""]
  /\ todo = [r \in Req |-> << >>]
  /\ buf = [r \in Req |-> NoAnswer]
  /\ from = [r \in Req |-> ""]
  /\ out = [r \in Req |-> NoReply]
  /\ could = [r \in Req |-> {}]

-----------------------------------------------------------------------------
(* The nodes and the health checker.                                       *)

\* A node stores the next block of the chain.
Grow(e) ==
  /\ nodeSteps < MaxNodeSteps
  /\ \E h \in Height \ held[e] :
       /\ held[e] = {} \/ h - 1 \in held[e]
       /\ held' = [held EXCEPT ![e] = @ \cup {h}]
  /\ nodeSteps' = nodeSteps + 1
  /\ UNCHANGED <<head, cache, pc, requestVars, todo, buf, from, out, could>>

\* A node drops its lowest block.
Prune(e) ==
  /\ nodeSteps < MaxNodeSteps
  /\ \E h \in held[e] :
       /\ h - 1 \notin held[e]
       /\ held' = [held EXCEPT ![e] = @ \ {h}]
       /\ could' = [r \in Req |-> IF NodeHeight(q[r]) = h
                                    THEN could[r] \ {e} ELSE could[r]]
  /\ nodeSteps' = nodeSteps + 1
  /\ UNCHANGED <<head, cache, pc, requestVars, todo, buf, from, out>>

\* Mutant of pollHeadHeight: the tracker is set to the height to come.
pollNextHeight ==
  /\ PruningWindow > 0
  /\ \E h \in held[Pool[AppRPC][1]] :
       /\ h + 1 \notin held[Pool[AppRPC][1]]
       /\ head' = h + 1
  /\ UNCHANGED <<nodeVars, cache, pc, requestVars, todo, buf, from, out, could>>

\* With height routing on, the health checker asks the first app endpoint for
\* its latest height, which may be lower than the last one.  A height of 0
\* (an empty node) and a failed poll leave the tracker alone.
pollHeadHeight ==
  /\ PruningWindow > 0
  /\ \E h \in held[Pool[AppRPC][1]] :
       /\ h + 1 \notin held[Pool[AppRPC][1]]
       /\ head' = h
  /\ UNCHANGED <<nodeVars, cache, pc, requestVars, todo, buf, from, out, could>>

\* An entry of the response cache reaches its TTL or is evicted by Redis.
CacheExpire(k) ==
  /\ cache[k] # NoAnswer
  /\ cache' = [cache EXCEPT ![k] = NoAnswer]
  /\ UNCHANGED <<nodeVars, head, pc, requestVars, todo, buf, from, out, could>>

-----------------------------------------------------------------------------
(* One request.                                                            *)

\* Where a request goes once it is known not to be in the cache.
Dispatch(r, req, b, e) ==
  IF e \in Unparsable
    THEN /\ pc' = [pc EXCEPT ![r] = "done"]
         /\ out' = [out EXCEPT ![r] = [answer |-> BadGateway, header |-> ""]]
    ELSE /\ pc' = [pc EXCEPT ![r] = IF CanRetry(req, b) THEN "first" ELSE "direct"]
         /\ UNCHANGED out

\* HandleRequest ends with an error before any backend is chosen.
Refuse(r, status) ==
  /\ pc' = [pc EXCEPT ![r] = "done"]
  /\ out' = [out EXCEPT ![r] = [answer |-> Answer(status, "refused"), header |-> ""]]
  /\ UNCHANGED <<backend, target, could>>

\* A request that is let through: route it, pick a target, and look in the
\* cache if the answer may be there.
Accept(r, req) ==
  LET b == RouteBackend(req, head)
  IN  /\ backend' = [backend EXCEPT ![r] = b]
      /\ \E e \in Range(TargetPool(b)) :
           /\ target' = [target EXCEPT ![r] = e]
           /\ IF ShouldCache(req)
                THEN pc' = [pc EXCEPT ![r] = "lookup"] /\ UNCHANGED out
                ELSE Dispatch(r, req, b, e)
      /\ could' = [could EXCEPT ![r] =
           {e \in Candidates(b) : NodeHeight(req) \in held[e]}]

\* Mutant of HandleRequest: the allowlist is checked for single calls only.
HandleRequestTrustingBatches(r, req) ==
  /\ pc[r] = "idle"
  /\ q' = [q EXCEPT ![r] = req]
  /\ \/ req.body = "oversize"  /\ Refuse(r, 413)
     \/ req.body = "malformed" /\ Refuse(r, 400)
     \/ req.body = "single" /\ ~IsMethodAllowed(req) /\ Refuse(r, 403)
     \/ /\ \/ req.body \in {"none", "batch"}
           \/ req.body = "single" /\ IsMethodAllowed(req)
        /\ Accept(r, req)
  /\ UNCHANGED <<nodeVars, head, cache, todo, buf, from>>

\* HandleRequest up to the cache lookup: read the body, route it, check the
\* token's scope and allowlist (only where Route found a method to check, and
\* of a batch only the first one: the whole body is let through on it).
HandleRequest(r, req) ==
  /\ pc[r] = "idle"
  /\ q' = [q EXCEPT ![r] = req]
  /\ \/ req.body = "oversize"  /\ Refuse(r, 413)
     \/ req.body = "malformed" /\ Refuse(r, 400)
     \/ /\ req.body \in {"single", "batch"} /\ ~IsMethodAllowed(req)
        /\ Refuse(r, 403)
     \/ /\ \/ req.body = "none"
           \/ req.body \in {"single", "batch"} /\ IsMethodAllowed(req)
        /\ Accept(r, req)
  /\ UNCHANGED <<nodeVars, head, cache, todo, buf, from>>

CacheHit(r) ==
  /\ pc[r] = "lookup"
  /\ cache[CacheKey(q[r])] # NoAnswer
  /\ pc' = [pc EXCEPT ![r] = "done"]
  /\ out' = [out EXCEPT ![r] = [answer |-> cache[CacheKey(q[r])],
                                header |-> backend[r]]]
  /\ UNCHANGED <<nodeVars, head, cache, requestVars, todo, buf, from, could>>

\* The key is absent, or Redis fails: Get reports a miss either way.
CacheMiss(r) ==
  /\ pc[r] = "lookup"
  /\ Dispatch(r, q[r], backend[r], target[r])
  /\ UNCHANGED <<nodeVars, head, cache, requestVars, todo, buf, from, could>>

\* An exchange with endpoint e that ends with the whole answer a.
Exchange(r, e, a) ==
  /\ a \in Responses(e, q[r])
  /\ buf' = [buf EXCEPT ![r] = a]
  /\ from' = [from EXCEPT ![r] = e]

\* The answer in hand will be flushed under the name of backend b.
FlushAs(r, b) ==
  /\ pc' = [pc EXCEPT ![r] = "flush"]
  /\ out' = [out EXCEPT ![r].header = b]

\* proxyDirect: one attempt, whatever it yields.  ModifyResponse sets the
\* header; the ErrorHandler does not.
proxyDirect(r) ==
  /\ pc[r] = "direct"
  /\ \E a \in Answers : /\ Exchange(r, target[r], a)
                        /\ FlushAs(r, IF a = BadGateway THEN "" ELSE backend[r])
  /\ UNCHANGED <<nodeVars, head, cache, requestVars, todo, could>>

\* proxyWithRetry, the endpoint chosen by the router.
TryFirst(r) ==
  /\ pc[r] = "first"
  /\ \E a \in Answers :
       /\ Exchange(r, target[r], a)
       /\ IF isPrunedError(a)
            THEN /\ pc' = [pc EXCEPT ![r] = "pool"]
                 /\ todo' = [todo EXCEPT ![r] = AllEndpoints(backend[r])]
                 /\ UNCHANGED out
            ELSE FlushAs(r, backend[r]) /\ UNCHANGED todo
  /\ UNCHANGED <<nodeVars, head, cache, requestVars, could>>

\* Mutant of TryPool: an endpoint that is skipped stays first in line.
TryPoolWithoutSkip(r) ==
  /\ pc[r] = "pool" /\ todo[r] # << >>
  /\ IF Head(todo[r]) \in {target[r]} \cup Unparsable
       THEN UNCHANGED <<pc, todo, buf, from, out>>
       ELSE /\ todo' = [todo EXCEPT ![r] = Tail(@)]
            /\ \E a \in Answers :
                 /\ Exchange(r, Head(todo[r]), a)
                 /\ IF isPrunedError(a) THEN UNCHANGED <<pc, out>>
                                        ELSE FlushAs(r, backend[r])
  /\ UNCHANGED <<nodeVars, head, cache, requestVars, could>>

\* An iteration of the loop over the request's own pool.
TryPool(r) ==
  /\ pc[r] = "pool" /\ todo[r] # << >>
  /\ todo' = [todo EXCEPT ![r] = Tail(@)]
  /\ IF Head(todo[r]) \in {target[r]} \cup Unparsable
       THEN UNCHANGED <<pc, buf, from, out>>
       ELSE \E a \in Answers :
              /\ Exchange(r, Head(todo[r]), a)
              /\ IF isPrunedError(a) THEN UNCHANGED <<pc, out>>
                                     ELSE FlushAs(r, backend[r])
  /\ UNCHANGED <<nodeVars, head, cache, requestVars, could>>

\* Mutant of EndPool: the archival pool is tried only for archival heights.
EndPoolUnlessRecent(r) ==
  /\ pc[r] = "pool" /\ todo[r] = << >>
  /\ IF HasArchivalBackend(backend[r]) /\ IsArchival(head, RequestHeight(q[r]))
       THEN /\ pc' = [pc EXCEPT ![r] = "archival"]
            /\ todo' = [todo EXCEPT ![r] = AllEndpoints(archivalBackend(backend[r]))]
            /\ UNCHANGED out
       ELSE FlushAs(r, backend[r]) /\ UNCHANGED todo
  /\ UNCHANGED <<nodeVars, head, cache, requestVars, buf, from, could>>

\* The pool is exhausted: go on to the archival pool if there is one.
EndPool(r) ==
  /\ pc[r] = "pool" /\ todo[r] = << >>
  /\ IF HasArchivalBackend(backend[r])
       THEN /\ pc' = [pc EXCEPT ![r] = "archival"]
            /\ todo' = [todo EXCEPT ![r] = AllEndpoints(archivalBackend(backend[r]))]
            /\ UNCHANGED out
       ELSE FlushAs(r, backend[r]) /\ UNCHANGED todo
  /\ UNCHANGED <<nodeVars, head, cache, requestVars, buf, from, could>>

\* An iteration of the loop over the archival pool.
TryArchival(r) ==
  /\ pc[r] = "archival" /\ todo[r] # << >>
  /\ todo' = [todo EXCEPT ![r] = Tail(@)]
  /\ IF Head(todo[r]) \in Unparsable
       THEN UNCHANGED <<pc, buf, from, out>>
       ELSE \E a \in Answers :
              /\ Exchange(r, Head(todo[r]), a)
              /\ IF isPrunedError(a)
                   THEN UNCHANGED <<pc, out>>
                   ELSE FlushAs(r, archivalBackend(backend[r]))
  /\ UNCHANGED <<nodeVars, head, cache, requestVars, could>>

\* Everybody lacks the block: the last answer goes out as decision.Backend's.
EndArchival(r) ==
  /\ pc[r] = "archival" /\ todo[r] = << >>
  /\ FlushAs(r, backend[r])
  /\ UNCHANGED <<nodeVars, head, cache, requestVars, todo, buf, from, could>>

\* A node's answer breaks off in the middle of its body: the reverse proxy
\* panics with ErrAbortHandler and the request ends there.
AbortHandler(r) ==
  /\ \/ pc[r] \in {"direct", "first"}
     \/ /\ pc[r] \in {"pool", "archival"} /\ todo[r] # << >>
        /\ Head(todo[r]) \notin Unparsable
        /\ pc[r] = "pool" => Head(todo[r]) # target[r]
  /\ pc' = [pc EXCEPT ![r] = "aborted"]
  /\ UNCHANGED <<nodeVars, head, cache, requestVars, todo, buf, from, out, could>>

\* Mutant of Flush: whatever comes with status 200 is cached.
FlushEvery200(r) ==
  /\ pc[r] = "flush"
  /\ pc' = [pc EXCEPT ![r] = "done"]
  /\ out' = [out EXCEPT ![r].answer = buf[r]]
  /\ \/ /\ ShouldCache(q[r]) /\ buf[r].status = 200
        /\ cache' = [cache EXCEPT ![CacheKey(q[r])] = buf[r]]
     \/ UNCHANGED cache
  /\ UNCHANGED <<nodeVars, head, requestVars, todo, buf, from, could>>

\* flushBuffered, and ModifyResponse on the direct path: cache the answer if
\* it may be cached, then send it.  Cache.Set skips large entries and
\* swallows the errors of Redis.
Flush(r) ==
  /\ pc[r] = "flush"
  /\ pc' = [pc EXCEPT ![r] = "done"]
  /\ out' = [out EXCEPT ![r].answer = buf[r]]
  /\ \/ /\ ShouldCache(q[r]) /\ buf[r].status = 200 /\ ~isPrunedError(buf[r])
        /\ cache' = [cache EXCEPT ![CacheKey(q[r])] = buf[r]]
     \/ UNCHANGED cache
  /\ UNCHANGED <<nodeVars, head, requestVars, todo, buf, from, could>>

\* The goroutine is free for another request.
Recycle(r) ==
  /\ pc[r] \in {"done", "aborted"}
  /\ pc' = [pc EXCEPT ![r] = "idle"]
  /\ q' = [q EXCEPT ![r] = NoRequest]
  /\ backend' = [backend EXCEPT ![r] = ""]
  /\ target' = [target EXCEPT ![r] = ""]
  /\ todo' = [todo EXCEPT ![r] = << >>]
  /\ buf' = [buf EXCEPT ![r] = NoAnswer]
  /\ from' = [from EXCEPT ![r] = ""]
  /\ out' = [out EXCEPT ![r] = NoReply]
  /\ could' = [could EXCEPT ![r] = {}]
  /\ UNCHANGED <<nodeVars, head, cache>>

-----------------------------------------------------------------------------
\* What the goroutine of a request does once the request has arrived.
Step(r) ==
  \/ CacheHit(r) \/ CacheMiss(r) \/ proxyDirect(r) \/ TryFirst(r)
  \/ TryPool(r) \/ EndPool(r) \/ TryArchival(r) \/ EndArchival(r)
  \/ AbortHandler(r) \/ Flush(r)

Next ==
  \/ \E e \in Endpoint : Grow(e) \/ Prune(e)
  \/ pollHeadHeight
  \/ \E k \in CacheKeys : CacheExpire(k)
  \/ \E r \in Req : \/ \E req \in Request : HandleRequest(r, req)
                    \/ Step(r)
                    \/ Recycle(r)

\* A goroutine that can run runs, and an exchange with a node ends.
Fairness == \A r \in Req : WF_vars(Step(r))

Spec == Init /\ [][Next]_vars /\ Fairness

-----------------------------------------------------------------------------
TypeOK ==
  /\ held \in [Endpoint -> SUBSET Height]
  /\ nodeSteps \in 0 .. MaxNodeSteps
  /\ head \in 0 .. MaxHeight
  /\ cache \in [CacheKeys -> Answers]
  /\ pc \in [Req -> Label]
  /\ q \in [Req -> Request \cup {NoRequest}]
  /\ backend \in [Req -> Backend \cup {""}]
  /\ target \in [Req -> Endpoint \cup {""}]
  /\ todo \in [Req -> Seq(Endpoint)]
  /\ buf \in [Req -> Answers]
  /\ from \in [Req -> Endpoint \cup {""}]
  /\ out \in [Req -> Reply]
  /\ could \in [Req -> SUBSET Endpoint]

Done(r) == pc[r] = "done"

\* The configuration gives height routing an archival pool to route to.
ArchivalConfigured ==
  PruningWindow > 0 => Pool[NodeArchivalRPC] # << >> /\ Pool[AppArchivalRPC] # << >>

\* proxyWithRetry gives up only when it has to: a request for a given height
\* is answered "block not available" only if no endpoint of its pool, nor of
\* the archival pool behind it, held the block all the time the request was
\* being served, whatever the nodes prune meanwhile.
PrunedOnlyIfExhausted ==
  \A r \in Req :
    Done(r) /\ RequestHeight(q[r]) > 0 /\ isPrunedError(out[r].answer)
      => could[r] = {}

\* The cache keeps only complete HTTP 200 answers that are no pruned-block
\* errors, whichever path they came by; a block is kept only under its own
\* height, and under a key whose height is the one in the body only that block
\* or an error is kept, never an answer computed from the head.  What else the
\* handler stores is the subject of CachedIsImmutable.
CacheSound ==
  \A k \in CacheKeys :
    cache[k] # NoAnswer =>
      /\ cache[k].status = 200 /\ cache[k].kind # "pruned"
      /\ cache[k].kind = "block" => k.body[1] = "single" /\ k.body[2] = k.height
      /\ k.body[1] = "single" /\ k.body[2] = k.height
           => cache[k].kind \in {"block", "rpcerror"}

\* What cache.go says of the cache: "immutable historical blockchain data",
\* never "latest/head queries".  Every answer kept is a block of the past.
CachedIsImmutable ==
  \A k \in CacheKeys : cache[k] # NoAnswer => cache[k].kind = "block"

\* A request whose method, as Route reads it (of a batch the first one), is
\* outside its token's scope or allowlist gets 403: no node is asked for
\* anything in its body, and it is not served what another token's request
\* left in the cache.  Nothing is said of the other entries of a batch, of
\* calls named by the path of a GET and of WebSocket messages, which the code
\* passes on unread.
RoutedMethodIsAllowed ==
  \A r \in Req :
    Done(r) /\ q[r].body \in {"single", "batch"} /\ ~IsMethodAllowed(q[r])
      => out[r].answer.status = 403 /\ from[r] = ""

\* Every request that arrives is answered or aborted; the retry loops end.
EveryRequestEnds ==
  \A r \in Req : pc[r] # "idle" ~> pc[r] \in {"idle", "done", "aborted"}
=============================================================================
