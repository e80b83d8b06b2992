------------------------------ MODULE Routing ------------------------------
(***************************************************************************)
(* The decisions of the HTTP path that depend on the request and on the    *)
(* configuration alone: which backend a JSON-RPC method belongs to, which  *)
(* height a request asks for, when a height needs an archival node, which  *)
(* answers may be cached and which methods a token may call.               *)
(* (internal/proxy/router.go, internal/proxy/height.go,                    *)
(* internal/cache/cache.go, internal/auth/token.go)                        *)
(*                                                                         *)
(* A JSON-RPC method is a pair <<namespace, verb>>: "blob.Get" is          *)
(* <<"blob", "Get">>, and a method without a dot, "block", is              *)
(* <<"block", "">>, so the namespace of the code is the first component.   *)
(***************************************************************************)
EXTENDS Integers, Sequences, Functions

CONSTANTS
  Endpoint,        \* endpoint URLs
  Pool,            \* backend -> sequence of configured endpoints
  PruningWindow    \* backends.pruning_window; 0 turns height routing off

NodeRPC         == "celestia-node-rpc"
AppRPC          == "celestia-app-rpc"
NodeArchivalRPC == "celestia-node-archival-rpc"
AppArchivalRPC  == "celestia-app-archival-rpc"

\* The HTTP backends; the gRPC and P2P pools never serve HTTP requests.
Backend == {NodeRPC, AppRPC, NodeArchivalRPC, AppArchivalRPC}

\* config.Validate refuses to start with an empty app or node pool; the
\* archival pools are optional.
ASSUME PoolAssumption ==
  /\ Pool \in [Backend -> Seq(Endpoint)]
  /\ Pool[AppRPC] # << >> /\ Pool[NodeRPC] # << >>

ASSUME WindowAssumption == PruningWindow \in Nat

NoMethod == <<"", "">>

daNamespaces == {"blob", "header", "share", "das", "state", "p2p", "node"}

\* Methods whose first parameter is a height.  The hash lookups that the
\* code lists with position -1 yield no height, like methods not listed.
heightBearingMethods ==
  {<<m, "">> : m \in {"block", "block_results", "validators", "commit",
                      "blockchain", "header"}}
    \cup {<<"header", "GetByHeight">>}
    \cup {<<"blob", m>> : m \in {"Get", "GetAll", "GetProof"}}
    \cup {<<"share", m>> : m \in {"GetSharesByNamespace", "GetEDS",
                                  "GetNamespaceData"}}

\* The part of cacheableMethods listed under "Tendermint RPC".
tendermintMethods ==
  {<<m, "">> : m \in {"block", "block_results", "validators", "commit",
                      "header"}}

cacheableMethods ==
  tendermintMethods
    \cup {<<"header", "GetByHeight">>}
    \cup {<<"blob", m>> : m \in {"Get", "GetAll", "GetProof"}}
    \cup {<<"share", m>> : m \in {"GetSharesByNamespace", "GetEDS",
                                  "GetNamespaceData"}}

writeMethods ==
  {<<m, "">> : m \in {"broadcast_tx_sync", "broadcast_tx_async",
                      "broadcast_tx_commit"}}
    \cup {<<"blob", "Submit">>}
    \cup {<<"state", m>> : m \in {"SubmitTx", "Transfer", "SubmitPayForBlob",
                                  "CancelUnbondingDelegation",
                                  "BeginRedelegate", "Undelegate",
                                  "Delegate"}}

nonCacheableMethods ==
  writeMethods
    \cup {<<m, "">> : m \in {"status", "health", "net_info"}}
    \cup {<<"header", "NetworkHead">>, <<"header", "SyncState">>,
          <<"state", "Balance">>, <<"node", "Info">>}

-----------------------------------------------------------------------------
resolveBackend(method) ==
  IF method[1] \in daNamespaces THEN NodeRPC ELSE AppRPC

archivalBackend(b) ==
  CASE b = NodeRPC -> NodeArchivalRPC
    [] b = AppRPC  -> AppArchivalRPC
    [] OTHER       -> b

AllEndpoints(b) == Pool[b]

HasArchivalBackend(b) ==
  archivalBackend(b) # b /\ AllEndpoints(archivalBackend(b)) # << >>

\* The pool TargetURL(b) draws from: an archival backend without endpoints
\* falls back to the pruned backend.  Balancer.Next may return any endpoint
\* of it (round-robin, exploration, or the fastest one).
TargetPool(b) ==
  IF Pool[b] # << >> THEN Pool[b]
  ELSE CASE b = NodeArchivalRPC -> Pool[NodeRPC]
         [] b = AppArchivalRPC  -> Pool[AppRPC]
         [] OTHER               -> << >>

-----------------------------------------------------------------------------
(* A request: the form of its body, the method Route reads in it, the      *)
(* methods it asks for besides, the height in its params, the height in    *)
(* its query string (0 where there is none) and what its token may call.   *)
(*                                                                         *)
(* Of a batch, parseJSONRPCMethod returns the method of the first entry;   *)
(* the methods of the other entries, q.rest, are in the body that goes to  *)
(* the node and in the digest of the cache key, and nothing else looks at  *)
(* them.  A request without a body names its call in the path, which only  *)
(* the node reads: its method is NoMethod here.                            *)

\* The forms of a body: none, over the limit, rejected by parseJSONRPCMethod
\* (no JSON, an empty batch, no method), one call, or a batch.
BodyForm == {"none", "oversize", "malformed", "single", "batch"}

\* ExtractHeight: a batch does not unmarshal into one request and so has
\* no height; neither has an empty body.
ExtractHeight(q) ==
  IF q.body = "single" /\ q.method \in heightBearingMethods
    THEN q.param ELSE 0

\* What HandleRequest takes the height of a request to be: the query string
\* is consulted when the body names none.
RequestHeight(q) ==
  IF ExtractHeight(q) = 0 THEN q.query ELSE ExtractHeight(q)

\* HeightTracker.IsArchival, for a tracker that last saw head.
IsArchival(head, height) ==
  /\ PruningWindow > 0
  /\ head # 0
  /\ height > 0
  /\ height < head - PruningWindow

\* The backend Route chooses.  Without a body it is always the app node.
RouteBackend(q, head) ==
  IF q.body = "none" THEN AppRPC
  ELSE LET b == resolveBackend(q.method)
       IN  IF IsArchival(head, ExtractHeight(q)) THEN archivalBackend(b) ELSE b

IsCacheable(method, height) ==
  /\ height > 0
  /\ method \notin nonCacheableMethods
  /\ method \in cacheableMethods

\* Key: method, height and a digest of the body.
CacheKey(q) == [method |-> q.method, height |-> RequestHeight(q),
                body |-> <<q.body, q.param, q.rest>>]

\* TokenInfo.IsMethodAllowed, of the method that Route read.
isScopeAllowed(scope, method) == scope = "read-only" => method \notin writeMethods

\* An allowlist entry is a method or a wildcard <<namespace, "*">>.
IsMethodAllowed(q) ==
  /\ isScopeAllowed(q.scope, q.method)
  /\ \/ q.allowed = {}
     \/ q.method \in q.allowed
     \/ q.method[2] # "" /\ <<q.method[1], "*">> \in q.allowed
=============================================================================
