# A TLA+ model of DA-Proxy

DA-Proxy is a reverse proxy in Go in front of Celestia nodes: it authenticates
requests by a token in the URL path, limits their rate, routes JSON-RPC calls to
`celestia-app` or `celestia-node` pools by method and block height, retries calls
for pruned blocks, caches immutable answers in Redis, relays WebSocket sessions, and
proxies gRPC and raw TCP on ports of their own.  This directory models the parts of it
that keep state and run concurrently, checks them with TLC on small instances and proves
their safety properties with TLAPS for all instances.

`PROJECT.json` is the index: components, runs, the source lines behind every
definition, findings, hazards and theorems.  Line numbers there and below are
those of `src/`.

## 1. Inventory

| Component (source) | State | Operations | What is hard | Module |
| --- | --- | --- | --- | --- |
| Request handler (`internal/proxy/handler.go`) | the request, its decision, the buffered answer | route, check scope, look in cache, direct or retry path, flush | nodes prune while the walk goes on; a fallback pool; what may be cached | `ProxyHandler` |
| Router, heights (`router.go`, `height.go`) | pools, head height | `Route`, `TargetURL`, `AllEndpoints`, `ExtractHeight` | several sources of a height, fallbacks | `Routing` |
| Response cache (`internal/cache/cache.go`) | Redis keys | `Get`, `Set`, expiry | shared by all requests, errors swallowed | `ProxyHandler` |
| Balancer (`balancer.go`, `latency.go`) | counter, per endpoint count and EWMA | `Next`, `RecordLatency` | lock-free, read while written | `Balancer` |
| Health checker (`health.go`), its view in the admin API (`backend_handlers.go`) | status map, head height | round of probes, head poll, summary per backend | endpoints change in mid-round; keys built in two packages | `HealthChecker` |
| Token store (`internal/auth/store.go`) | SQLite table, cache map, its age | create, update, rotate, delete, lookup, migrate | read-then-write, unlocked reload, crash, ignored errors | `TokenStore` |
| Auth middleware (`internal/middleware/auth.go`) | none | verdict on a lookup | stale lookups | `TokenStore` |
| Rate limiters (`ratelimit.go`, `ratelimit_redis.go`) | limiter map; Redis sorted set | `GetLimiter`, `Allow` | creation race; pipeline that is no transaction | `RateLimiter`, `RedisRateLimit` |
| TCP proxy (`tcp_proxy.go`) | listener, wait group, connections | serve, copy both ways, close | half-close, shutdown race | `TcpProxy` |
| gRPC proxy (`grpc_proxy.go`) | per call two forwarding loops | forward, wait, stop | loops that wait for each other, which error wins | `GrpcProxy` |
| WebSocket proxy (`websocket.go`) | per session two pumps | dial, upgrade, pump both ways | Close frames racing messages, pumps that wait for each other | `WebSocketProxy` |
| Ring buffer (`internal/logging/ringbuffer.go`) | slots, subscribers | push, read, subscribe, cancel | wrap-around, channel closed outside the mutex | `RingBuffer` |
| Log sinks (`store.go`, `store_postgres.go`, `loki.go`) | channel, batch | push, flush, drain, close | full channel, shutdown | `BatchWriter` |
| Log table and pages (`store.go`, `store_postgres.go`, `admin/handlers.go`) | rows | query, count, hourly delete | two statements per answer, ignored errors | `LogStore` |
| Start and shutdown (`cmd/da-proxy/main.go`) | servers, the 30 seconds | signal, stop everything in order, deferred calls | one time budget for several waits, pushes into a closed store | `Shutdown` |

Interaction: a request passes Auth (token store), the rate limiter and the handler,
which asks the router for a decision (router reads the head that the health checker
sets and a balancer) and the cache for an answer, exchanges messages with nodes,
records a latency, and is logged to the ring buffer and a sink.  The admin API calls
the token store, streams the ring buffer, pages through the log table and sums up the
health checker's statuses.  `main` starts and stops all of it.

`ProxyHandler` composes handler, router, head poll, cache and nodes, because there the
interleavings matter; `Shutdown` composes the servers with the log store they all push
into; `LogStore` the batch writer with retention and readers.  `RateLimiting`,
`Sessions` and `AccessLogs` put components side by side that share nothing (or of which
the configuration picks one), so that one run explores both without their product;
`Background` (access logs, balancer, health checker) and `Servers` (sessions, TCP proxy,
shutdown) do the same one level up, with a variable `part` that says which one a behaviour
follows.
Elsewhere components meet through values (a decision, a token's info, a log entry) that
each model takes as an input chosen from a small set.

## 2. Modules

**Routing** has no variables: operators for routing, archival decision, height
extraction, cacheability, cache keys and token scopes.  A method is a pair
`<<namespace, name>>` (a method without a dot is its own namespace, as in
`resolveBackend`), the body of a request is one of `none`, `single`, `batch`,
`oversize`, `malformed`.  `param` is the height in the body, `query` the one in the
URL, 0 when absent.  Of a batch `parseJSONRPCMethod` reads the first entry and nothing
else looks at the rest (`router.go:238-250`): backend, scope, height and cacheability of
the whole batch go by it, while the node gets the whole body.  The methods of the other
entries (`rest`) are in the body and in the digest of the cache key; properties that speak
of a request's method speak of the first one.

**ProxyHandler** runs requests as processes (`pc`): `HandleRequest` up to the cache
lookup, `CacheHit`/`CacheMiss`, `proxyDirect`, `TryFirst`, `TryPool`/`EndPool`,
`TryArchival`/`EndArchival` (the loops of `proxyWithRetry`, one endpoint per step),
`AbortHandler` (an answer that breaks off), `Flush`.  Nodes hold sets of heights
that grow and are pruned between any two of these steps, `pollHeadHeight` sets the
head, cache entries expire.  Any exchange may end in 502; a node that has the block
may also answer another JSON-RPC error.  `could` and `from` are history variables.
The code compares `triedURL` with an endpoint by string; the model compares
endpoints, so a URL that `url.Parse` normalises (and that is tried twice, harmlessly)
is not told apart.

**TokenStore** makes single SQL statements atomic and nothing else: `UpdateGet` and
`UpdateExec`, `RotateGet` and `RotateExec`, `LoadQuery` and `LoadInstall` are
separate steps.  `LoadCut` is a scan that ends early (nobody asks `rows.Err`),
`LoadFail` and `ExecFail` failing statements, `Crash` a restart, after which `Main`
loads and migrates again.  `hist` numbers the versions of the table, `floor` the
oldest version the cache may fall back to.  `seen` holds the result of a lookup for
the one state after it; locals of a call are cleared when the call ends.

**Balancer** splits `Next` and `ewma.Update` into single atomic loads, adds and
compare-and-swaps.  `log` keeps the samples in the order of their swaps, and `Ewma`
says what average they give one after the other.

**HealthChecker** is one goroutine with its ticker.  A probe, the store under the mutex
(`Store`), the log line after it (`Log`) and the head poll are steps of their own; the
poll of `status` has its own failures (`answers`), independent of what `/health` says
(`up`).  `endpointName` (health.go) and
`endpointHealthKey` (backend_handlers.go) are two definitions as they are two functions
in two packages; `EndpointHealth` and `BackendHealth` are what `handleBackends` makes of
a copy of the map at any moment.

**RateLimiter** has limiters as objects on a heap, so that a request can keep one
that is no longer in the map; buckets count sixtieths of a request.
**RedisRateLimit** runs the four commands of the pipeline as separate steps, and again
from the first if the client resends it (`again`).
**RateLimiting** composes the two as `main` does: the configuration chooses one of
them for the life of the process.

**RingBuffer** has Push under the mutex and the two steps of a cancel; it implements
**BoundedLog**, the abstract "newest Capacity entries, newest first".
**BatchWriter** is the design the three sinks share; `Close` returns at any time
after it began, since its 100 ms are not related to the writer.  An entry is its place
in the sequence `push` of outcomes.  **LogStore** adds the table of the two SQL stores:
`Age` and `Clean` (the retention goroutine, whose errors are ignored), and `handleLogs`
as two statements, `Query` and `Answer` (Count and the reply).  The id of a row is its
place in `stored`; one condition stands for all columns of the filter.  A client may send
any cursor.  **AccessLogs** puts table and ring side by side.

**TcpProxy**, **GrpcProxy** and **WebSocketProxy** count bytes and messages and treat
clients and backends as external processes that send, end, or are lost; a gRPC client
may also stop reading (`stalled`), which blocks `SendMsg`.  TcpProxy has the wait group
with its misuse: an Add from zero that meets a Wait just woken panics.  In
WebSocketProxy gorilla/websocket is external, too: it answers a peer's Close frame while
it reads and refuses writes on a connection on which a Close frame was written.
**Sessions** has a gRPC call or a WebSocket session.

**Shutdown** has `main` as a program counter over `Order`, the requests, sessions, calls,
connections and event streams as activities that begin, run and end at any time, and the
log store's channel, into which each of them pushes at its end.  `late` remembers during
which step the 30 seconds ran out; `strays` are TCP connections that Close did not see.
A WebSocket session counts as a request until it is hijacked.

The `MC*` modules give constants their values.  Definitions whose comment starts
with "Mutant of" are deliberately wrong variants; each shows that a property can
fail.

## 3. Runs

Passing runs (distinct states):

| Run | Bounds | Shows |
| --- | --- | --- |
| Handler (337,095) | 2 + 2 endpoints, one of them unparsable, chain of 3, 1 node change, requests of 9 forms one after the other | `PrunedOnlyIfExhausted`: a client is told "block not available" only if no endpoint of its pools held the block throughout; `EveryRequestEnds`; `CacheSound`: what never gets into the cache; `RoutedMethodIsAllowed`: the routed method of a request is checked before node and cache |
| TokenStore (502,657) | 2 goroutines, 2 hashes, 2 ids, admin calls start below version 3, 1 crash or failed statement | `CacheIsOneVersion`, `NoRegressPastFloor`, `AdmittedWasValid`; `DeletedIdStaysDeleted` and `RevokedStaysOut`: no stale read-modify-write brings back a deleted token or a rotated secret; `CacheConverges` |
| Background (314,662), logs | table: channel 2, batch 2, 3 entries, 2 failed statements, pages of 2; ring: capacity 2, 4 pushes, 2 streams | `EntriesConserved`: every accepted entry is in one place, in order, also after failed inserts; `AcceptedDoesNotWait`; `HasMoreIsExact` whatever is inserted between Query and Count; `OldRowsGo`; the ring implements BoundedLog (`RecentSpec`) and never sends on a closed channel |
| Background, balancer | 2 goroutines, 2 endpoints, 3 calls | no sample lost or doubled, unmeasured endpoints first, an undisturbed scan finds the fastest, every call ends |
| Background, health | 2 + 1 + 0 endpoints, 2 changes, chain of 2 | log and statuses agree; the admin API's view and the head converge |
| Servers (200,543), sessions | 1 gRPC call with 2 faults or 1 WebSocket session with 1 lost peer, 2 messages each way | a success told to a gRPC client is one, and the backend's error is what it gets (`OutcomeIsTrue`); handler and goroutine end (`CallsEnd`); a WebSocket peer that does not close gets every message (`LosesNothing`), and no pump waits for ever for the other (`SessionEnds`) |
| Servers, TCP | 2 connections, one of them with 1 byte each way, 1 fault | `AllForwarded`: half-close loses nothing and both sides are told; `CloseDrainsServed`: Close waits for all that was served when it was called; `CloseReturns` |
| Servers, shutdown | 1 request, WebSocket session, gRPC call, TCP connection and event stream | `PushesAreInTime`: who can hit the closed log store; `ShutdownEnds` |
| RateLimiting (1,341,787) | in memory: 3 goroutines, 2 tokens of one name, 1 rate change, 3 ticks of 2 s; Redis: 2 requests at once, limit 2, window 5, 5 calls, 1 fault | one limiter bounds all requests of a name; refusals are justified; overshoot is bounded by concurrency |

Why these bounds: each is the smallest at which the case of interest happens.  Two pools
of two reach every exit of the retry walk (first, own pool, skipped, archival, nobody).
The Handler run has one goroutine: requests meet only in the cache, which keeps what
earlier ones stored, and what goes on between two steps of a request (nodes, expiry,
the head) is there; the interleavings of any number of requests are covered by the
theorems, which hold for every `Req`.  Two goroutines reach every pairwise overlap of
loads, swaps and creations; a ring of 2 with 4 pushes wraps twice; a window of 5 with 7
moments lets stamps expire; batches of 2 in a channel of 2 with 3 entries fill, overflow
and leave a rest, and pages of 2 leave a row over; two TCP connections are one that Close
waits for and one that slips past it; one activity of each kind suffices for the shutdown,
since activities of a kind meet only in the step of `main` that waits for them all.
`CHECK_DEADLOCK FALSE` is set where a bounded run stops because its calls, entries or
connections are used up; the handler and token store runs check deadlock.  Symmetry is
used only in runs without liveness properties.

Seven runs refute what the repository says of itself.  Each checks one property that
states the sentence, and TLC finds it violated (details under "findings"):

| Run | Property | What is said | What the code does |
| --- | --- | --- | --- |
| HandlerNoArchival | `PrunedOnlyIfExhausted` | a request with several endpoints to try takes the retry path (`handler.go:148`) | without an archival pool an old height is decided "archival", whose empty pool makes it look as if there were nothing to try |
| CacheImmutable | `CachedIsImmutable` | only immutable historical data, never head queries (`cache.go:1-4`, `:164`), only successful answers (`handler.go:280`) | JSON-RPC errors with status 200 are stored, and answers computed from the head under the height of a batch or of `?height=` |
| TokenRevoked | `RevokedIsGone` | Rotate invalidates the old token (`store.go:343`) | a load that began before the rotation puts the old token back into the cache after `Rotate` has returned |
| LogClose | `CloseFlushes` | Close flushes remaining entries (`loki.go:133`) | Close sleeps 100 ms and does not wait for the writer |
| TcpClose | `CloseDrains` | Close waits for active connections (`tcp_proxy.go:66`) | a connection between Accept and `wg.Add` is not waited for, nor is one of a Serve that begins later |
| GrpcTimeout | `TimeoutNeverFires` | the timeout should not happen in practice (`grpc_proxy.go:195`), the handler returns immediately (`:163`) | it fires whenever the backend ends a call whose client keeps its side open |
| ShutdownDrain | `RequestsAreDrained` | shutdown drains in-flight requests (`README.md:24`) | gRPC calls and TCP connections may use up the 30 seconds, and Shutdown of the HTTP server then does not wait |

## 4. Fairness

Goroutines that can run do run (weak fairness of their steps): the Go scheduler is
preemptive and no modelled lock is held across a wait.  Beyond that:

- ProxyHandler: an exchange with a node ends, since the transport reports an error
  at the latest when the connection does.
- TokenStore: requests keep arriving and the TTL passes, because only a lookup
  reloads a stale cache; `CacheConverges` says nothing about an idle proxy.
- TcpProxy: a peer that is still there ends its side at last.  The proxy sets no
  deadline, so `CloseReturns` rests on this assumption about peers.
- GrpcProxy: nothing is assumed of peers, not even that they read.  `CallsEnd` starts when
  one has ended; it excepts a call whose client stays and holds the handler up in
  `SendMsg` for ever or again and again (`HeldUp`), against which the code has no
  deadline.  Such a client also holds up GracefulStop and with it the shutdown.
- WebSocketProxy: a peer that a Close frame has reached answers it (or is lost).  The
  code sets no deadline and sends no pings, so `SessionEnds` rests on this.
- BatchWriter, LogStore: the tickers fire; statements return.
- Shutdown: `main` runs, the 30 seconds pass, and gRPC calls and TCP connections end at
  last, since GracefulStop and the TCP Close have no limit of their own.  HTTP requests,
  event streams and WebSocket sessions need not end.
- HealthChecker: probes time out and the ticker fires; of two ready cases `select`
  takes each again and again (strong fairness of `End`).

`BackgroundSpec` and `ServersSpec` are the conjunctions of these: the steps of the parts
that a behaviour does not follow are disabled in their initial states, so nothing is asked
of them.

## 5. Proofs

Every theorem holds for every value of the constants that the named assumptions admit:
any number of goroutines, requests, endpoints, tokens, connections and messages, and any
bound.  The results behind a semicolon are properties that only the proof modules state.
Each rests on an inductive invariant that TLC checked on the run's instance
before it was proved.  The proofs have a lemma per action (or group of actions) and under
it a step per conjunct that the action can disturb.

| Module | Proved | Assumptions |
| --- | --- | --- |
| `ProxyHandlerProofs` | `TypeOK`, `CacheSound`, `RoutedMethodIsAllowed`, `PrunedOnlyIfExhausted`; `RetryWalkIsBounded` | `PoolAssumption` (the two mandatory pools are not empty, as `config.Validate` demands), `WindowAssumption`, `RequestAssumption` (bounds, forms of requests); `PrunedOnlyIfExhausted` has `ArchivalConfigured` as a hypothesis |
| `TokenStoreProofs` | `CacheIsOneVersion`, `NoRegressPastFloor`, `AdmittedWasValid`, `DeletedIdStaysDeleted`, `RevokedStaysOut` | `ConstantAssumption` (bounds, `None` is no token) |
| `EndpointProofs` | `FastestOnlyIfAllMeasured`, `FastestIsLowest`, `CountMatchesSamples`, `EwmaIsSerial`, `LogTellsStatus`; `CallsAreLockFree` | `BalancerAssumption` (finitely many goroutines, samples are numbers); nothing of the health checker's constants |
| `AccessLogsProofs` | `NeverPanics`, `RecentSpec`, `EntriesConserved`, `HasMoreIsExact` | `RingAssumption`, `WriterAssumption`, `LogStoreAssumption` (capacities, batch sizes and page sizes are positive) |
| `TcpProxyProofs` | `AllForwarded`, `CloseDrainsServed` | `TcpAssumption` (bounds; "none" is no connection) |
| `RateLimitingProofs` | `AdmittedWithinRate`, `RefusedOnlyAtLimit`, `OvershootIsConcurrency` | `LimiterAssumption` (rates are integers, a tick is a positive number of seconds), `RedisAssumption` (a positive limit, finitely many requests at once, no call waits as long as the window) |
| `SessionsProofs` | `OutcomeIsTrue`, `LosesNothing`; `CallsWindDown` | `GrpcAssumption`, `SessionAssumption` (bounds) |
| `ShutdownProofs` | `PushesAreInTime`; `ShutdownOnlyDrains` | `KindsAssumption` (an activity is of one kind) |

The arguments, and why the properties are not inductive by themselves:

- **Handler.**  `TypeOK` needs `RoutedRight`: a request on the retry path has a backend
  and a target of its pool.  `CacheSound` speaks of an answer that some earlier exchange
  yielded, so `Fetched` says what the answer in hand can be; only `Flush` stores.
  `RoutedMethodIsAllowed` needs `ForbiddenStops`: a request whose routed method is
  forbidden is over once it has been read, so none of the later steps is ever one of it.
- **Retry walk.**  `WalkInv` says where the endpoints that still have the block are:
  among the candidates before the first attempt, then in the rest of the loop or in the
  archival pool behind it (`Ahead`); and that they hold it now (`Holds`), so an endpoint
  that is asked and answers "pruned" was not one of them.  HandlerNoArchival shows that
  `ArchivalConfigured` is needed.
- **Token store.**  A load reads the table in one step and installs the map in a later
  one.  `VersionInv` says that the cache and every map still to be swapped in are images
  of versions not older than the floor; `CallInv` what a call in the middle remembers (the
  row it read, the version it saw).  The two action properties need only that a statement
  names its row by id and does not insert.
- **Balancer.**  Per goroutine: the scan is past measured endpoints only (`SeenInv`), and
  holds the lowest average of those if nothing was written meanwhile (`BestInv`).
  `CountMatchesSamples` counts the goroutines between their add and their swap, hence the
  finite set.  `EwmaIsSerial` compares each average with a fold over its history; the
  fold is a recursive function (`Ewma`), and what it gives for a longer history is shown
  by taking a least counterexample (`LeastNatural`, from the well-foundedness of < on
  the naturals), since the library's induction rules cannot be instantiated here.
- **Health checker.**  EndpointProofs extends Balancer and HealthChecker side by side
  (hence the prefix in `HealthInit`, `HealthNext` and `HealthSpec`).  `HealthInv` adds
  that the log of an endpoint is empty before its first check, so that "unreachable" is
  then the first event and every later event is of the other sort than the one before it,
  and that `prev` is the status that the log still tells between `Store` and `Log`.
- **Ring.**  `MapInv`: a subscriber in the map has an open channel.  With that
  `NeverPanics` follows.  `RingImplementsBoundedLog` is a refinement: Init maps to Init, `Push` to
  `Add`, and every other step stutters; its core is that the slots read backwards modulo
  the capacity shift by one when head moves.
- **Batches.**  `Conserved` relates the sequence of entries held anywhere (table, batch,
  channel) to the set of lost ones and the set of accepted ones; it is stated for any
  such triple, with one lemma each for appending, losing a batch and losing part of one.
  `Inserted` is a recursive function, again treated by least counterexample.
- **Pages.**  `ReadInv`: between Query and Count the rows of the page are different and
  still selected, since the writer only adds rows at the end (`StoredGrows`).  Then the
  page has all selected rows just when it has as many.  That the k-th row of `Page`
  exists is a counting argument (`RanksExist`): the number of rows before a row is an
  injection into 0 .. n - 1, so it takes every value.
- **TCP.**  `ConnInv`: while no peer is lost, who was told of the end is one whose
  counterpart has finished and whose bytes are all through; a handler that is done has
  waited for both directions.  `DueInv`: those whom Close owes its wait (`due`) are counted
  by `wg` as long as they are not finished, so that Wait cannot return before them.
- **Sessions.**  `CallInv` adds what the handler's own loop knows while it waits for the
  goroutine (`Settled`), `PumpInv` that a pump passes the end on only after the last
  message and ends only when the other side was told, unless a connection broke.
- **In-memory limiter.**  `RefInv`: no two names share a limiter, and a request that is
  about to ask one holds the one in the map.  `BucketInv` keeps each bucket's books up to
  its last use: what was let through and what is left came with the bucket or has flowed
  in (`Balanced`).  The books stay balanced when a bucket overflows, and the bound of
  `AdmittedWithinRate`, which runs up to now, follows.
- **Redis limiter.**  `PipeInv`: what `ZCARD` counted was in the call's window.
  `OwnInv` tells the request's own stamp from those of others: before `ZADD` of a pipeline
  that was sent once, a stamp of its moment is another request's.
  `SetInv`: the set has every moment of the last window at which a request was let
  through, because a call removes only what is a window older than itself and none lags
  by a window.  `OvershootIsConcurrency` is not inductive, since a call is bound to get
  through as soon as it has counted less than the limit; `SureInv` bounds the moments of
  the requests let through together with those of such calls (`Sure`).  When a call
  counts below the limit, these are in the set that it counted or are stamps of calls,
  and there are no more stamps than calls.
- **Shutdown.**  `WaitedInv`: what the steps behind `main` have waited for is over, except
  what came too late for it; `LateInv` and `ShapeInv` place the end of the 30 seconds, the
  hijacked sessions and the closed channel in the order of `main`'s steps.

Four theorems are the safety halves of liveness properties: a measure in the natural
numbers that the steps of a call use up, and what alone can set it back.  With weak
fairness of those steps the end follows; that last inference is left to TLC.  TLC also
checked each of them on the run's instance before it was proved.

- **`RetryWalkIsBounded`** (of `EveryRequestEnds`).  A request that was routed has at most
  5 steps and one for every endpoint of its pool and of the archival pool left
  (`LongestWay`); every step of its handler takes at least one away, and nothing that
  other requests, nodes, the cache or the health checker do gives one back.  `PartLeft`
  (what a loop has still to visit is a part of the pool it walks through) makes the
  bound hold where the walk enters the archival pool.
- **`CallsAreLockFree`** (of `CallsEnd` in Balancer).  `CallLeft` is at most 3N + 8 for N
  endpoints.  A failed compare-and-swap counts as progress, because a swap that is going
  to fail is charged two steps more from the moment at which the average changes; and
  that moment is the end of another update of the same endpoint (`Overtaken`).  So the
  loop goes round again only when somebody else's update succeeded.
- **`CallsWindDown`** (of `CallsEnd` in GrpcProxy).  `NobodyIsStuck`: once the backend has
  ended the call or the client has left, the handler or its goroutine can take a step,
  until both have ended, unless a client that does not read holds the handler up
  (`HeldUp`).  It rests on `CountInv`: no more messages are forwarded than
  sent, and one in hand is counted as still to forward.  Every step of the handler, and
  of the goroutine once the backend's side is over, takes away from `CallLeft`, and only a
  message of the backend adds to it.  `HandlerReady` and `C2bReady` stand for ENABLED of
  the actions, which the provers cannot handle; TLC found them equivalent to it in every
  state of the run's instance.
- **`ShutdownOnlyDrains`** (of `ShutdownEnds`).  `main` never goes back, and each set of
  activities that it waits for only shrinks from the moment at which the server is told to
  stop.  The TCP proxy is the exception, as it is in the code: if `Serve` begins after
  `Close`, newcomers can keep `Close` waiting.

Model-checked only: the liveness properties `EveryRequestEnds`, `CacheConverges`,
`CallsEnd`, `AcceptedDoesNotWait`, `OldRowsGo`, `CloseReturns`, `SessionEnds`,
`HeadConverges`, `BackendsConverge` and `ShutdownEnds`, because liveness under fairness is
out of the prover's reach (of four of them the safety half is proved, see above).  Every
safety property of a passing run is proved.

## 6. What the properties are for

The hazards in `PROJECT.json` list what tests of this code would hardly reach, each
with the properties that watch it.  Those without a property, and why:

- no failover on connection errors (`handler.go:250`): nothing promises it;
- endpoints that fail without a latency sample and so stay first in line
  (`grpc_proxy.go:148`, `tcp_proxy.go:100`): needs the balancer composed with its callers;
- `CloseSend` after a cancellation (`grpc_proxy.go:265`): what the backend sees first is
  decided inside the transport;
- a rate that changes after the limiter was made, and names shared by tokens
  (`ratelimit.go:33`): `AdmittedWithinRate` is stated against the limiter's own rate, so it
  does not catch them; no document says when a new rate takes effect;
- a signal before the gRPC goroutine has called `Serve` (`main.go:295`): the process ends
  in `logger.Fatal`.

What the properties leave out, so that nobody takes them for more than they say:

- `RoutedMethodIsAllowed` is about the method that `Route` reads.  The other entries of a
  batch, calls named by the path of a GET request, and WebSocket messages reach a node
  unread, whatever the token's scope;
- `EntriesConserved` counts what is dropped at Close as lost; that Close does drop entries
  is the finding LogClose;
- `HasMoreIsExact` excepts rows deleted between Query and Count, and a Count that fails;
- `CloseDrainsServed` is about connections that `wg` counted when Close was called; the
  rest is the finding TcpClose.  `CloseReturns` counts the panic of the wait group as an
  end;
- `OutcomeIsTrue` has no converse: a backend that ends a call with OK while the client
  still sends may leave the client with the io.EOF of `SendMsg` (`grpc_proxy.go:205`);
- `RefusedOnlyAtLimit` counts the moments of other requests, and excepts a request whose
  pipeline was resent: its own first ZADD may count against it, so it can be refused one
  moment early (`ratelimit_redis.go:45`).  Both Redis properties count moments, not
  requests: requests of one millisecond are one member of the set (`:51`);
- `FastestOnlyIfAllMeasured`: an endpoint counts as measured from the moment its count is
  raised, when its average may still be 0 (`latency.go:24`);
- `LogTellsStatus` speaks of the status that was replaced until the line about it is
  written, since the line follows the unlock (`health.go:166-187`);
- `HeadConverges` is about a first endpoint that answers the poll; no other is asked;
- `PushesAreInTime` allows pushes into the closed channel by WebSocket sessions, whether
  upgraded or not, by requests that outlived the 30 seconds and by stray TCP connections;
- `ShutdownEnds` assumes that gRPC calls and TCP connections end, because `main` waits for
  them without limit.

Modelling also showed behaviours that no property excludes, because the code has
them.  The models include them: TLC gives a trace when the opposite is stated as a
property of an instance that has the case (a repeated URL, no archival pool).

- without archival pool `X-DA-Backend` names the archival backend though a pruned
  node answered (`out.header`); a GET for an old height goes to the pruned pool
  (`router.go:112`);
- a URL configured twice leaves one balancer entry unmeasured, and it is preferred
  for ever (`balancer.go:41`);
- a push after the log writer has closed its channel panics (`store.go:143`): net/http
  recovers that of a late request or WebSocket session, while that of a TCP connection
  which slipped past Close ends the process before the rest of the shutdown (`strays` in
  Shutdown);
- a TCP `Serve` that starts after `Close` accepts as if nothing had happened, because
  `Close` found no listener to close (`tcp_proxy.go:43`);
- paging: the cursor returned is the number of rows on the page and the query takes it
  for an id (`handlers.go:70`), so ascending pages repeat from the third on and descending
  ones jump to the oldest rows; `has_more` may also be true because of a newer row only,
  and is false when Count fails (`handlers.go:64`);
- the close code of a WebSocket peer becomes 1000 on the other side (`websocket.go:135`);
  a pump that ends by a write error tells nobody (`websocket.go:144`), which is harmless
  because a write fails only where the other pump ends as well (`SessionEnds`);
  the comment at `websocket.go:150` has `/` among the paths of the DA node, the code sends
  it to the app;
- in the first round the admin API shows a backend as healthy when all endpoints checked
  so far are (`backend_handlers.go:147`);
- a config token that was deleted is imported again at the next start (`store.go:398`);
- `LokiPusher` has the design of the other sinks but `main` constructs none.

## 7. Not modelled, and the plan

Left out for good: configuration parsing (read once; what `Validate` guarantees are the
ASSUMEs of the modules), metrics, tracing, request ids, the JSON and CSV of the admin API
and its login, the text of errors and log entries; `List`, `Get`, `BackendStats` (reads
under a lock or of one statement); the path rules of the WebSocket proxy (`websocket.go`
149-181, no state); a server that fails to listen (the process ends); clock differences
between instances (RedisRateLimit); `EXPIRE` (it never drops a live stamp); spurious Redis
answers.

Open, and worth adding if the code around them changes:

1. Balancer with its callers: endpoints that fail without a sample.
2. Update as a read-modify-write of single columns.
