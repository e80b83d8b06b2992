--------------------------- MODULE MCProxyHandler ---------------------------
(* Small instances of ProxyHandler. *)
EXTENDS ProxyHandler

\* A JSON-RPC call for method m at height h (0: latest) with a write token.
Call(m, h) == [body |-> "single", method |-> m, rest |-> {}, param |-> h,
               query |-> 0, scope |-> "write", allowed |-> {}]

BlockAt(h)  == Call(<<"block", "">>, h)
GetAt(h)    == [NoRequest EXCEPT !.query = h]

\* A batch of calls for the latest block and for the status of the node, with
\* a height in its query string, by a token with the given allowlist.
BatchBy(allowed) == [BlockAt(0) EXCEPT !.body = "batch", !.rest = {<<"status", "">>},
                                       !.query = 1, !.allowed = allowed]

\* Every kind of request the handler tells apart.
MCRequests ==
  { BlockAt(1), BlockAt(0), [BlockAt(0) EXCEPT !.query = 1], GetAt(1),
    [BlockAt(1) EXCEPT !.allowed = {<<"blob", "*">>}],
    BatchBy({<<"block", "">>}), BatchBy({<<"blob", "*">>}),
    [NoRequest EXCEPT !.body = "oversize"],
    [NoRequest EXCEPT !.body = "malformed"] }

MCBlockRequest == {BlockAt(1)}

\* Two pruned app nodes with two archival ones behind them.
MCPool == [b \in Backend |-> CASE b = AppRPC          -> <<"a1", "a2">>
                               [] b = AppArchivalRPC  -> <<"x1", "x2">>
                               [] b = NodeRPC         -> <<"a1">>
                               [] b = NodeArchivalRPC -> <<"x1">>]

\* Two pruned app nodes and no archival pool.
MCNoArchivalPool == [b \in Backend |-> IF b \in {AppRPC, NodeRPC} THEN <<"a1", "a2">>
                                                                  ELSE << >>]

\* The pruned nodes start with all of the chain or without its first block,
\* the archival node with all of it or, still syncing, without the last.
MCHeld ==
  {f \in [Endpoint -> {1 .. MaxHeight, 2 .. MaxHeight, 1 .. MaxHeight - 1}] :
     /\ \A e \in Endpoint : f[e] # IF e \in {"a1", "a2"} THEN 1 .. MaxHeight - 1
                                                         ELSE 2 .. MaxHeight
     /\ \A e \in Unparsable : f[e] = 1 .. MaxHeight}
=============================================================================
