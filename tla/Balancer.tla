------------------------------ MODULE Balancer ------------------------------
(***************************************************************************)
(* The latency-aware balancer (internal/proxy/balancer.go) over lock-free  *)
(* moving averages (internal/proxy/latency.go).  Every step is one atomic  *)
(* load, add or compare-and-swap, so calls of Next and of RecordLatency    *)
(* interleave between any two of them.                                     *)
(*                                                                         *)
(* An average is a fixed-point number: the code's 0.3 * sample + 0.7 * old *)
(* is computed in integers, and the bit pattern 0 is the value 0.          *)
(***************************************************************************)
EXTENDS Integers, Sequences, FiniteSets

CONSTANTS
  Caller,      \* goroutines that pick an endpoint and then use it
  Url,         \* endpoint URLs
  Endpoints,   \* the configured URLs, a sequence, duplicates allowed
  Sample,      \* latencies a request may show
  MaxCalls     \* bound on the calls of Next

ASSUME BalancerAssumption ==
  /\ IsFiniteSet(Caller)
  /\ Endpoints \in Seq(Url)
  /\ Sample \subseteq Nat
  /\ MaxCalls \in Nat

N   == Len(Endpoints)
Idx == 1 .. N

VARIABLES
  counter,  \* the round-robin counter
  count,    \* per endpoint: ewma.count
  val,      \* per endpoint: ewma.bits
  calls,    \* calls of Next so far
  where,    \* where each goroutine is
  at,       \* the loop index of Next, or the index Update works on
  bestIdx,  \* of Next
  bestVal,  \* of Next; Unset stands for math.MaxFloat64
  sample,   \* of Update
  oldBits,  \* of Update
  pick,     \* what Next returned: an index, and by which rule
  log,      \* history: the samples of each endpoint in the order of their CAS
  clean     \* history: no average has changed since Next began its scan

stats == <<count, val, log>>
balancerVars == <<counter, count, val, calls, where, at, bestIdx, bestVal, sample,
                  oldBits, pick, log, clean>>

Unset  == -1
NoPick == [index |-> 0, why |-> "none"]

\* endpointIndex: of equal URLs the last one wins.
endpointIndex(url) ==
  CHOOSE k \in Idx : /\ Endpoints[k] = url
                     /\ \A j \in Idx : Endpoints[j] = url => j <= k

\* The average after one more sample; the first is taken as it is.
Blend(v, s) == IF v = 0 THEN s ELSE (3 * s + 7 * v) \div 10

-----------------------------------------------------------------------------
BalancerInit ==
  /\ counter = 0
  /\ count = [k \in Idx |-> 0]
  /\ val = [k \in Idx |-> 0]
  /\ calls = 0
  /\ where = [p \in Caller |-> "idle"]
  /\ at = [p \in Caller |-> 1]
  /\ bestIdx = [p \in Caller |-> 1]
  /\ bestVal = [p \in Caller |-> Unset]
  /\ sample = [p \in Caller |-> 0]
  /\ oldBits = [p \in Caller |-> 0]
  /\ pick = [p \in Caller |-> NoPick]
  /\ log = [k \in Idx |-> << >>]
  /\ clean = [p \in Caller |-> FALSE]

Goto(p, l) == where' = [where EXCEPT ![p] = l]

Return(p, k, why) ==
  /\ Goto(p, "using")
  /\ pick' = [pick EXCEPT ![p] = [index |-> k, why |-> why]]

\* Next: no choice with one endpoint; otherwise look for latency data.
NextCall(p) ==
  /\ where[p] = "idle" /\ calls < MaxCalls /\ N > 0
  /\ calls' = calls + 1
  /\ at' = [at EXCEPT ![p] = 1]
  /\ IF N = 1 THEN Return(p, 1, "only") ELSE Goto(p, "hasData") /\ UNCHANGED pick
  /\ UNCHANGED <<counter, stats, bestIdx, bestVal, sample, oldBits, clean>>

\* One iteration of the loop that computes hasData, and its end.
HasData(p) ==
  /\ where[p] = "hasData"
  /\ IF at[p] > N THEN Goto(p, "robin") /\ UNCHANGED at
     ELSE IF count[at[p]] > 0 THEN Goto(p, "choose") /\ UNCHANGED at
     ELSE at' = [at EXCEPT ![p] = @ + 1] /\ UNCHANGED where
  /\ UNCHANGED <<counter, stats, calls, bestIdx, bestVal, sample, oldBits, pick, clean>>

RoundRobin(p) ==
  /\ where[p] = "robin"
  /\ counter' = counter + 1
  /\ Return(p, (counter % N) + 1, "robin")
  /\ UNCHANGED <<stats, calls, at, bestIdx, bestVal, sample, oldBits, clean>>

\* Exploration: any endpoint, with a probability of 10 %.
Explore(p) ==
  /\ where[p] = "choose"
  /\ \E k \in Idx : Return(p, k, "explore")
  /\ UNCHANGED <<counter, stats, calls, at, bestIdx, bestVal, sample, oldBits, clean>>

StartScan(p) ==
  /\ where[p] = "choose"
  /\ Goto(p, "scan")
  /\ at' = [at EXCEPT ![p] = 1]
  /\ bestIdx' = [bestIdx EXCEPT ![p] = 1]
  /\ bestVal' = [bestVal EXCEPT ![p] = Unset]
  /\ clean' = [clean EXCEPT ![p] = TRUE]
  /\ UNCHANGED <<counter, stats, calls, sample, oldBits, pick>>

\* Mutant of ScanCount: unmeasured endpoints are passed over.
ScanCountSkipping(p) ==
  /\ where[p] = "scan"
  /\ IF at[p] > N THEN Return(p, bestIdx[p], "fastest") /\ UNCHANGED at
     ELSE IF count[at[p]] = 0
       THEN at' = [at EXCEPT ![p] = @ + 1] /\ UNCHANGED <<where, pick>>
     ELSE Goto(p, "value") /\ UNCHANGED <<pick, at>>
  /\ UNCHANGED <<counter, stats, calls, bestIdx, bestVal, sample, oldBits, clean>>

\* The scan: load Count; an unmeasured endpoint is returned at once.
ScanCount(p) ==
  /\ where[p] = "scan"
  /\ IF at[p] > N THEN Return(p, bestIdx[p], "fastest")
     ELSE IF count[at[p]] = 0 THEN Return(p, at[p], "probe")
     ELSE Goto(p, "value") /\ UNCHANGED pick
  /\ UNCHANGED <<counter, stats, calls, at, bestIdx, bestVal, sample, oldBits, clean>>

\* Mutant of ScanValue: the comparison is the wrong way round.
ScanValueLargest(p) ==
  /\ where[p] = "value"
  /\ Goto(p, "scan")
  /\ at' = [at EXCEPT ![p] = @ + 1]
  /\ IF bestVal[p] = Unset \/ val[at[p]] > bestVal[p]
       THEN /\ bestVal' = [bestVal EXCEPT ![p] = val[at[p]]]
            /\ bestIdx' = [bestIdx EXCEPT ![p] = at[p]]
       ELSE UNCHANGED <<bestVal, bestIdx>>
  /\ UNCHANGED <<counter, stats, calls, sample, oldBits, pick, clean>>

\* The scan: load Value; keep the smallest.
ScanValue(p) ==
  /\ where[p] = "value"
  /\ Goto(p, "scan")
  /\ at' = [at EXCEPT ![p] = @ + 1]
  /\ IF bestVal[p] = Unset \/ val[at[p]] < bestVal[p]
       THEN /\ bestVal' = [bestVal EXCEPT ![p] = val[at[p]]]
            /\ bestIdx' = [bestIdx EXCEPT ![p] = at[p]]
       ELSE UNCHANGED <<bestVal, bestIdx>>
  /\ UNCHANGED <<counter, stats, calls, sample, oldBits, pick, clean>>

\* RecordLatency of the endpoint picked: count it first.
RecordLatency(p, s) ==
  /\ where[p] = "using"
  /\ LET k == endpointIndex(Endpoints[pick[p].index])
     IN  /\ at' = [at EXCEPT ![p] = k]
         /\ count' = [count EXCEPT ![k] = @ + 1]
  /\ sample' = [sample EXCEPT ![p] = s]
  /\ Goto(p, "load")
  /\ clean' = [c \in Caller |-> FALSE]
  /\ UNCHANGED <<counter, val, log, calls, bestIdx, bestVal, oldBits, pick>>

\* A caller that gives up without recording: the TCP and gRPC proxies when
\* they cannot connect, the HTTP proxy when the answer breaks off.
GiveUp(p) ==
  /\ where[p] = "using"
  /\ Goto(p, "idle")
  /\ pick' = [pick EXCEPT ![p] = NoPick]
  /\ UNCHANGED <<counter, stats, calls, at, bestIdx, bestVal, sample, oldBits, clean>>

\* Update: load the old average ...
UpdateLoad(p) ==
  /\ where[p] = "load"
  /\ oldBits' = [oldBits EXCEPT ![p] = val[at[p]]]
  /\ Goto(p, "swap")
  /\ UNCHANGED <<counter, stats, calls, at, bestIdx, bestVal, sample, pick, clean>>

\* Mutant of UpdateSwap: a plain store instead of a compare-and-swap.
UpdateStore(p) ==
  /\ where[p] = "swap"
  /\ val' = [val EXCEPT ![at[p]] = Blend(oldBits[p], sample[p])]
  /\ log' = [log EXCEPT ![at[p]] = Append(@, sample[p])]
  /\ clean' = [c \in Caller |-> FALSE]
  /\ pick' = [pick EXCEPT ![p] = NoPick]
  /\ Goto(p, "idle")
  /\ UNCHANGED <<counter, count, calls, at, bestIdx, bestVal, sample, oldBits>>

\* Mutant of UpdateSwap: every attempt to swap is counted as a sample.
UpdateSwapRecounting(p) ==
  /\ where[p] = "swap"
  /\ IF val[at[p]] = oldBits[p]
       THEN /\ val' = [val EXCEPT ![at[p]] = Blend(oldBits[p], sample[p])]
            /\ log' = [log EXCEPT ![at[p]] = Append(@, sample[p])]
            /\ clean' = [c \in Caller |-> FALSE]
            /\ pick' = [pick EXCEPT ![p] = NoPick]
            /\ Goto(p, "idle") /\ UNCHANGED count
       ELSE /\ Goto(p, "load") /\ UNCHANGED <<val, log, clean, pick>>
            /\ count' = [count EXCEPT ![at[p]] = @ + 1]
  /\ UNCHANGED <<counter, calls, at, bestIdx, bestVal, sample, oldBits>>

\* Mutant of UpdateSwap: a failed swap is tried again with the same old bits.
UpdateSwapSpinning(p) ==
  /\ where[p] = "swap" /\ val[at[p]] = oldBits[p]
  /\ val' = [val EXCEPT ![at[p]] = Blend(oldBits[p], sample[p])]
  /\ log' = [log EXCEPT ![at[p]] = Append(@, sample[p])]
  /\ clean' = [c \in Caller |-> FALSE]
  /\ pick' = [pick EXCEPT ![p] = NoPick]
  /\ Goto(p, "idle")
  /\ UNCHANGED <<counter, count, calls, at, bestIdx, bestVal, sample, oldBits>>

\* ... and swap the new one in, or start over if another update came first.
UpdateSwap(p) ==
  /\ where[p] = "swap"
  /\ IF val[at[p]] = oldBits[p]
       THEN /\ val' = [val EXCEPT ![at[p]] = Blend(oldBits[p], sample[p])]
            /\ log' = [log EXCEPT ![at[p]] = Append(@, sample[p])]
            /\ clean' = [c \in Caller |-> FALSE]
            /\ pick' = [pick EXCEPT ![p] = NoPick]
            /\ Goto(p, "idle")
       ELSE Goto(p, "load") /\ UNCHANGED <<val, log, clean, pick>>
  /\ UNCHANGED <<counter, count, calls, at, bestIdx, bestVal, sample, oldBits>>

-----------------------------------------------------------------------------
CallStep(p) ==
  \/ HasData(p) \/ RoundRobin(p) \/ Explore(p) \/ StartScan(p)
  \/ ScanCount(p) \/ ScanValue(p) \/ UpdateLoad(p) \/ UpdateSwap(p)
  \/ GiveUp(p) \/ \E s \in Sample : RecordLatency(p, s)

BalancerNext == \E p \in Caller : NextCall(p) \/ CallStep(p)

BalancerFairness == \A p \in Caller : WF_balancerVars(CallStep(p))

BalancerSpec == BalancerInit /\ [][BalancerNext]_balancerVars /\ BalancerFairness

-----------------------------------------------------------------------------
\* Unmeasured endpoints come first: Next routes by latency only when every
\* endpoint has been measured, whatever was recorded during its scan.
FastestOnlyIfAllMeasured ==
  \A p \in Caller :
    where[p] = "using" /\ pick[p].why = "fastest" => \A k \in Idx : count[k] > 0

\* The average that the samples of s give one after the other.
Ewma(s) ==
  LET avg[j \in 0 .. Len(s)] == IF j = 0 THEN 0 ELSE Blend(avg[j - 1], s[j])
  IN  avg[Len(s)]

\* Concurrent updates lose no sample and apply none twice: every average is
\* what its samples give one after the other, in the order of their swaps.
EwmaIsSerial == \A k \in Idx : val[k] = Ewma(log[k])

\* A count is never behind the average and ahead of it only by the updates
\* that are still under way.
CountMatchesSamples ==
  \A k \in Idx :
    count[k] = Len(log[k]) +
      Cardinality({p \in Caller : where[p] \in {"load", "swap"} /\ at[p] = k})

\* An undisturbed scan returns an endpoint with the lowest average.
FastestIsLowest ==
  \A p \in Caller :
    where[p] = "using" /\ pick[p].why = "fastest" /\ clean[p]
      => \A k \in Idx : val[pick[p].index] <= val[k]

\* Lock freedom ends in progress: with finitely many calls every call ends.
CallsEnd == <>[](\A p \in Caller : where[p] = "idle")
=============================================================================
