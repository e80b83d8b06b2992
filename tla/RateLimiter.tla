---------------------------- MODULE RateLimiter ----------------------------
(***************************************************************************)
(* The in-memory rate limiter (internal/middleware/ratelimit.go): requests *)
(* that Auth has let through look up, or create under double-checked       *)
(* locking, the limiter of their token's name and ask it for one token.    *)
(* Limiters are objects: the map holds references to them, and a request   *)
(* keeps the one it got.  A bucket counts in sixtieths of a request, so    *)
(* that one second adds ratePerMinute units to it.                         *)
(***************************************************************************)
EXTENDS Integers, Sequences

CONSTANTS
  Token,       \* API tokens
  Name,        \* token names, not unique in the token table
  NameOf,      \* the name of each token
  Rate,        \* requests per minute an administrator may set
  Proc,        \* request goroutines
  TickSeconds, \* seconds that one Tick stands for
  MaxTime,     \* bound on the clock, in ticks
  MaxChanges   \* bound on rate changes

ASSUME LimiterAssumption ==
  /\ NameOf \in [Token -> Name] /\ Rate \subseteq Int
  /\ TickSeconds \in Nat \ {0} /\ MaxTime \in Nat /\ MaxChanges \in Nat

VARIABLES
  rate,      \* the rate of each token, as the token store would return it
  changes,
  clock,
  heap,      \* the limiters created so far
  limiters,  \* store.limiters: name to place in heap, 0 if absent
  req,       \* what each goroutine does
  admitted   \* requests of each name that some limiter has let through

vars == <<rate, changes, clock, heap, limiters, req, admitted>>

Unit == 60

\* The bucket that GetLimiter makes: a tenth of the rate, at least one.
Burst(r) == IF r \div 10 < 1 THEN 1 ELSE r \div 10

\* rate.NewLimiter: a full bucket.
NewLimiter(r) == [rate |-> r, level |-> Unit * Burst(r), last |-> clock, made |-> clock]

Refill(l) ==
  LET level == l.level + l.rate * TickSeconds * (clock - l.last)
  IN  IF level > Unit * Burst(l.rate) THEN Unit * Burst(l.rate) ELSE level

Idle == [pc |-> "idle"]

Init ==
  /\ rate \in [Token -> Rate]
  /\ changes = 0 /\ clock = 0
  /\ heap = <<>>
  /\ limiters = [n \in Name |-> 0]
  /\ req = [p \in Proc |-> Idle]
  /\ admitted = [n \in Name |-> 0]

-----------------------------------------------------------------------------
Tick ==
  /\ clock < MaxTime
  /\ clock' = clock + 1
  /\ UNCHANGED <<rate, changes, heap, limiters, req, admitted>>

\* An administrator's update of the token.
SetRate(t, r) ==
  /\ changes < MaxChanges /\ r # rate[t]
  /\ rate' = [rate EXCEPT ![t] = r]
  /\ changes' = changes + 1
  /\ UNCHANGED <<clock, heap, limiters, req, admitted>>

\* Auth attaches name and rate to the request.  Rate 0 skips the limiter and
\* GetLimiter returns nil for a negative one: both go on to next(c).
Arrive(p, t) ==
  /\ req[p].pc = "idle" /\ rate[t] > 0
  /\ req' = [req EXCEPT ![p] = [pc |-> "read", token |-> t, rate |-> rate[t], ref |-> 0]]
  /\ UNCHANGED <<rate, changes, clock, heap, limiters, admitted>>

\* The look-up under RLock.
ReadLimiter(p) ==
  /\ req[p].pc = "read"
  /\ LET ref == limiters[NameOf[req[p].token]]
     IN  req' = [req EXCEPT ![p].ref = ref,
                            ![p].pc = IF ref = 0 THEN "create" ELSE "allow"]
  /\ UNCHANGED <<rate, changes, clock, heap, limiters, admitted>>

\* Mutant of CreateLimiter: no second look under the write lock.
CreateLimiterBlindly(p) ==
  LET n == NameOf[req[p].token] IN
  /\ req[p].pc = "create"
  /\ heap' = Append(heap, NewLimiter(req[p].rate))
  /\ limiters' = [limiters EXCEPT ![n] = Len(heap')]
  /\ req' = [req EXCEPT ![p].pc = "allow", ![p].ref = limiters'[n]]
  /\ UNCHANGED <<rate, changes, clock, admitted>>

\* The second look under Lock, and the creation.
CreateLimiter(p) ==
  LET n == NameOf[req[p].token] IN
  /\ req[p].pc = "create"
  /\ \/ limiters[n] # 0 /\ UNCHANGED <<heap, limiters>>
     \/ /\ limiters[n] = 0
        /\ heap' = Append(heap, NewLimiter(req[p].rate))
        /\ limiters' = [limiters EXCEPT ![n] = Len(heap')]
  /\ req' = [req EXCEPT ![p].pc = "allow", ![p].ref = limiters'[n]]
  /\ UNCHANGED <<rate, changes, clock, admitted>>

\* limiter.Allow, atomic under the limiter's own mutex: it takes a token and
\* the request goes on, or it changes nothing and the answer is 429.
Allow(p) ==
  LET l == heap[req[p].ref]
      n == NameOf[req[p].token]
  IN
  /\ req[p].pc = "allow"
  /\ \/ /\ Refill(l) >= Unit
        /\ heap' = [heap EXCEPT ![req[p].ref].level = Refill(l) - Unit,
                                ![req[p].ref].last = clock]
        /\ admitted' = [admitted EXCEPT ![n] = @ + 1]
     \/ Refill(l) < Unit /\ UNCHANGED <<heap, admitted>>
  /\ req' = [req EXCEPT ![p] = Idle]
  /\ UNCHANGED <<rate, changes, clock, limiters>>

Next ==
  \/ Tick
  \/ \E t \in Token, r \in Rate : SetRate(t, r)
  \/ \E p \in Proc : \/ \E t \in Token : Arrive(p, t)
                     \/ ReadLimiter(p) \/ CreateLimiter(p) \/ Allow(p)

Spec == Init /\ [][Next]_vars

-----------------------------------------------------------------------------
\* However many requests of a name race to create its limiter, all of them
\* together are let through no faster than one limiter allows: its burst and
\* what has flowed into it since it was made (GetLimiter's second look).
AdmittedWithinRate ==
  \A n \in Name :
    LET l == heap[limiters[n]] IN
    IF limiters[n] = 0
      THEN admitted[n] = 0
      ELSE Unit * admitted[n]
             <= Unit * Burst(l.rate) + l.rate * TickSeconds * (clock - l.made)
=============================================================================
