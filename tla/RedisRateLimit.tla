--------------------------- MODULE RedisRateLimit ---------------------------
(***************************************************************************)
(* The distributed rate limiter (internal/middleware/ratelimit_redis.go).  *)
(* Allow sends ZREMRANGEBYSCORE, ZCARD, ZADD and EXPIRE for the key of one *)
(* token name as a pipeline.  Redis runs each command atomically, but a    *)
(* pipeline is no transaction: the commands of other requests, of this     *)
(* instance or of another, run between them.  Redis and its client are     *)
(* external.  EXPIRE is left out: it drops a key only when every stamp in  *)
(* it is twice as old as the window.                                       *)
(***************************************************************************)
EXTENDS Integers, FiniteSets

CONSTANTS
  Proc,       \* requests that may be under way at once
  Limit,      \* ratePerMinute of the token
  Window,     \* one minute, in clock units
  MaxDelay,   \* the longest that the Redis client, its time-outs and retries
              \* together, keeps a call waiting
  MaxTime,    \* bound on the clock
  MaxCalls,   \* bound on calls of Allow
  MaxFaults   \* bound on lost connections to Redis

VARIABLES
  clock,
  zset,     \* the sorted set; member and score are the same stamp
  call,     \* per request: pc, its stamp now, the count that ZCARD returned,
            \* again: 1 once its pipeline was sent again, else 0
  asked,    \* calls of Allow by stamp
  passed,   \* of these, the ones that Redis's answer let through
  calls, faults

vars == <<clock, zset, call, asked, passed, calls, faults>>

Stamp == 0 .. MaxTime
Idle == [pc |-> "idle", now |-> 0, count |-> 0, again |-> 0]

Init ==
  /\ clock = 0 /\ zset = {}
  /\ call = [p \in Proc |-> Idle]
  /\ asked = [t \in Stamp |-> 0] /\ passed = [t \in Stamp |-> 0]
  /\ calls = 0 /\ faults = 0

At(p, l) == call[p].pc = l
Goto(p, l) == call' = [call EXCEPT ![p].pc = l]

-----------------------------------------------------------------------------
InPipeline(p) == call[p].pc \in {"zrem", "zcard", "zadd", "verdict"}

Tick ==
  /\ clock < MaxTime
  /\ \A p \in Proc : InPipeline(p) => clock - call[p].now < MaxDelay
  /\ clock' = clock + 1
  /\ UNCHANGED <<zset, call, asked, passed, calls, faults>>

\* Read the clock and queue the commands.  (A token without a limit does not
\* get here.)
Begin(p) ==
  /\ At(p, "idle") /\ calls < MaxCalls
  /\ calls' = calls + 1
  /\ call' = [call EXCEPT ![p] =
                [pc |-> "zrem", now |-> clock, count |-> 0, again |-> 0]]
  /\ asked' = [asked EXCEPT ![clock] = @ + 1]
  /\ UNCHANGED <<clock, zset, passed, faults>>

\* ZREMRANGEBYSCORE key 0 now-window
Zrem(p) ==
  /\ At(p, "zrem")
  /\ zset' = {t \in zset : t > call[p].now - Window}
  /\ Goto(p, "zcard")
  /\ UNCHANGED <<clock, asked, passed, calls, faults>>

\* Mutant of Zcard: the request is added before it counts.
ZcardWithOwn(p) ==
  /\ At(p, "zcard")
  /\ call' = [call EXCEPT ![p].pc = "zadd",
                          ![p].count = Cardinality(zset \cup {call[p].now})]
  /\ UNCHANGED <<clock, zset, asked, passed, calls, faults>>

Zcard(p) ==
  /\ At(p, "zcard")
  /\ call' = [call EXCEPT ![p].pc = "zadd", ![p].count = Cardinality(zset)]
  /\ UNCHANGED <<clock, zset, asked, passed, calls, faults>>

\* Added whatever the verdict will be; a request of the same millisecond
\* falls on the same member.
Zadd(p) ==
  /\ At(p, "zadd")
  /\ zset' = zset \cup {call[p].now}
  /\ Goto(p, "verdict")
  /\ UNCHANGED <<clock, asked, passed, calls, faults>>

Allowed(p) == call[p].count < Limit

\* Mutant of Verdict: off by one at the limit.
VerdictAtLimit(p) ==
  /\ At(p, "verdict")
  /\ \/ /\ call[p].count <= Limit
        /\ passed' = [passed EXCEPT ![call[p].now] = @ + 1]
        /\ call' = [call EXCEPT ![p] = Idle]
     \/ /\ call[p].count > Limit
        /\ Goto(p, "refused")
        /\ UNCHANGED passed
  /\ UNCHANGED <<clock, zset, asked, calls, faults>>

\* Exec has returned without error.
Verdict(p) ==
  /\ At(p, "verdict")
  /\ \/ /\ Allowed(p)
        /\ passed' = [passed EXCEPT ![call[p].now] = @ + 1]
        /\ call' = [call EXCEPT ![p] = Idle]
     \/ /\ ~Allowed(p)
        /\ Goto(p, "refused")
        /\ UNCHANGED passed
  /\ UNCHANGED <<clock, zset, asked, calls, faults>>

\* The 429 goes out.
Refuse(p) ==
  /\ At(p, "refused")
  /\ call' = [call EXCEPT ![p] = Idle]
  /\ UNCHANGED <<clock, zset, asked, passed, calls, faults>>

\* The connection is lost after any of the commands.  The Redis client sends
\* the pipeline again, under the same stamp, ...
Resend(p) ==
  /\ InPipeline(p) /\ faults < MaxFaults
  /\ faults' = faults + 1
  /\ call' = [call EXCEPT ![p].pc = "zrem", ![p].count = 0, ![p].again = 1]
  /\ UNCHANGED <<clock, zset, asked, passed, calls>>

\* ... or gives up, and Allow lets the request through.
GiveUp(p) ==
  /\ InPipeline(p) /\ faults < MaxFaults
  /\ faults' = faults + 1
  /\ call' = [call EXCEPT ![p] = Idle]
  /\ UNCHANGED <<clock, zset, asked, passed, calls>>

Next ==
  \/ Tick
  \/ \E p \in Proc : \/ Begin(p) \/ Zrem(p) \/ Zcard(p) \/ Zadd(p) \/ Verdict(p)
                     \/ Refuse(p) \/ Resend(p) \/ GiveUp(p)

Spec == Init /\ [][Next]_vars

-----------------------------------------------------------------------------
\* The moments of p's window at which requests other than p used the token; p
\* itself is one of the calls under its own stamp.
OthersIn(p) ==
  {t \in Stamp : /\ asked[t] > (IF t = call[p].now THEN 1 ELSE 0)
                 /\ t > call[p].now - Window}

\* A request is refused only when OTHER requests used its token at Limit
\* moments of its window: it never counts itself, whatever stale stamps are in
\* the set and whatever commands run between its own.  The exception is a
\* pipeline that was sent again: ZADD may have run the first time, so the
\* request finds its own stamp and is refused one moment early, never more.
RefusedOnlyAtLimit ==
  \A p \in Proc :
    At(p, "refused") => Cardinality(OthersIn(p)) + call[p].again >= Limit

\* The pipeline is no transaction, but what slips through is bounded by how
\* many requests run at once: in no window, shortened by the delay of a slow
\* call, are requests let through at more than Limit moments and one for
\* each further concurrent request.
OvershootIsConcurrency ==
  \A t \in Stamp :
    Cardinality({u \in Stamp : passed[u] > 0 /\ u > t - (Window - MaxDelay) /\ u <= t})
      <= Limit + Cardinality(Proc) - 1
=============================================================================
