---------------------------- MODULE RateLimiting ----------------------------
(***************************************************************************)
(* The rate limiting middleware as cmd/da-proxy/main.go wires it: with a   *)
(* Redis URL in the configuration the proxy uses the distributed limiter,  *)
(* otherwise the one in memory, and it keeps its choice while it runs.     *)
(***************************************************************************)
EXTENDS RateLimiter, FiniteSets, TLC

CONSTANTS
  Client,    \* concurrent requests, on any instance, of the token in Redis
  Limit, Window, MaxDelay, MaxStamp, MaxCalls, MaxFaults \* as in RedisRateLimit

ASSUME RedisAssumption ==
  /\ Limit \in Nat \ {0} /\ Window \in Nat \ {0} /\ MaxDelay \in 0 .. Window - 1
  /\ MaxStamp \in Nat /\ MaxCalls \in Nat /\ MaxFaults \in Nat /\ IsFiniteSet(Client)

VARIABLES
  redis,     \* cfg.Storage.RedisURL # ""
  millis, zset, call, asked, passed, calls, faults

redisVars == <<millis, zset, call, asked, passed, calls, faults>>

Redis == INSTANCE RedisRateLimit
           WITH Proc <- Client, clock <- millis, MaxTime <- MaxStamp

\* Only the limiter that was chosen is constructed and called; the rates that
\* the other would read are then of no account.
Start ==
  /\ redis \in BOOLEAN
  /\ Init /\ Redis!Init
  /\ redis => rate = [t \in Token |-> CHOOSE r \in Rate : TRUE]

Serve ==
  \/ ~redis /\ Next /\ UNCHANGED <<redis, redisVars>>
  \/ redis /\ Redis!Next /\ UNCHANGED <<redis, vars>>

Limiting == Start /\ [][Serve]_<<redis, vars, redisVars>>

-----------------------------------------------------------------------------
\* With Redis, a request is refused only when other requests used its token at
\* Limit moments of the request's window; one whose pipeline had to be sent
\* again may be refused one moment early (see RedisRateLimit).
RefusedOnlyAtLimit == Redis!RefusedOnlyAtLimit

\* With Redis, what slips past the limit because a pipeline is no transaction
\* is bounded by the number of concurrent requests (see RedisRateLimit).
OvershootIsConcurrency == Redis!OvershootIsConcurrency

\* All goroutines of the in-memory limiter run the same code.
Symmetry == Permutations(Proc)

\* Two tokens of one name.
OneName == [t \in Token |-> "n1"]
=============================================================================
