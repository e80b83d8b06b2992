--------------------------- MODULE EndpointProofs ---------------------------
(***************************************************************************)
(* What the proxy knows of its endpoints.  The balancer and its lock-free  *)
(* averages for any number of endpoints, goroutines and samples:           *)
(* FastestOnlyIfAllMeasured, FastestIsLowest, CountMatchesSamples and      *)
(* EwmaIsSerial, and CallsAreLockFree: only an update that has succeeded   *)
(* delays another one; the health checker for any backends: LogTellsStatus.*)
(***************************************************************************)
EXTENDS Balancer, HealthChecker, FiniteSetTheorems, WellFoundedInduction, TLAPS

-----------------------------------------------------------------------------
(* Induction over the natural numbers: the least counterexample.           *)

\* A set of natural numbers that is not empty has a least element.
LEMMA LeastNatural ==
  ASSUME NEW T, T \subseteq Nat, T # {}
  PROVE  \E m \in T : \A k \in T : m <= k
<1> DEFINE R == OpToRel(<, Nat)
<1>1. IsWellFoundedOn(R, Nat)
  BY NatLessThanWellFounded
<1>2. \A x, y \in Nat : x < y => <<x, y>> \in R
  BY DEF OpToRel
<1> HIDE DEF R
<1>3. PICK m \in T : \A k \in T : ~(<<k, m>> \in R)
  BY <1>1, WFMin
<1>4. ASSUME NEW k \in T
      PROVE  m <= k
  <2>1. k \in Nat /\ m \in Nat
    OBVIOUS
  <2>2. ~(k < m)
    BY <1>2, <1>3, <2>1
  <2> QED  BY <2>1, <2>2
<1> QED  BY <1>4

\* A bounded one has a greatest element.
LEMMA GreatestNatural ==
  ASSUME NEW n \in Nat, NEW T, T \subseteq 0 .. n, T # {}
  PROVE  \E m \in T : \A k \in T : k <= m
<1> DEFINE U == {j \in 0 .. n : n - j \in T}
<1>1. \A k \in T : n - k \in U
  OBVIOUS
<1>2. U \subseteq Nat /\ U # {}
  <2>1. U \subseteq Nat
    OBVIOUS
  <2>2. PICK k \in T : TRUE
    OBVIOUS
  <2>3. n - k \in U
    BY <1>1, <2>2
  <2> QED  BY <2>1, <2>3
<1>3. PICK j \in U : \A i \in U : j <= i
  BY <1>2, LeastNatural
<1>4. n - j \in T /\ \A k \in T : k <= n - j
  BY <1>1, <1>3
<1> QED  BY <1>4

-----------------------------------------------------------------------------
(* The operators.                                                          *)

\* endpointIndex finds an index of every configured URL.
LEMMA EndpointIndexFacts ==
  ASSUME NEW i \in Idx
  PROVE  endpointIndex(Endpoints[i]) \in Idx
<1> DEFINE T == {k \in Idx : Endpoints[k] = Endpoints[i]}
<1>1. N \in Nat
  BY BalancerAssumption DEF N
<1>2. T \subseteq 0 .. N /\ T # {}
  BY <1>1 DEF Idx
<1>3. PICK k \in T : \A j \in T : j <= k
  BY <1>1, <1>2, GreatestNatural
<1>4. \E x \in Idx : /\ Endpoints[x] = Endpoints[i]
                     /\ \A j \in Idx : Endpoints[j] = Endpoints[i] => j <= x
  BY <1>3
<1> QED  BY <1>4 DEF endpointIndex

\* An average of natural numbers is one.
LEMMA BlendFacts ==
  ASSUME NEW v \in Nat, NEW s \in Nat
  PROVE  Blend(v, s) \in Nat
<1>1. 3 * s + 7 * v \in Nat
  OBVIOUS
<1>2. (3 * s + 7 * v) \div 10 \in Nat
  BY <1>1
<1> QED  BY <1>2 DEF Blend

\* f holds the averages after the first 0, 1, ..., n samples of s.
Averages(f, s, n) ==
  f = [j \in 0 .. n |-> IF j = 0 THEN 0 ELSE Blend(f[j - 1], s[j])]

\* There are such averages ...
LEMMA AveragesExist ==
  ASSUME NEW s, NEW n \in Nat
  PROVE  \E f : Averages(f, s, n)
<1> DEFINE T == {m \in Nat : ~ \E f : Averages(f, s, m)}
<1> SUFFICES ASSUME T # {}
             PROVE  FALSE
  OBVIOUS
<1>1. PICK m \in T : \A k \in T : m <= k
  BY LeastNatural
<1>2. CASE m = 0
  <2>1. Averages([j \in 0 .. 0 |-> 0], s, 0)
    BY DEF Averages
  <2> QED  BY <1>1, <1>2, <2>1
<1>3. CASE m # 0
  <2>1. m - 1 \in Nat /\ m - 1 \notin T /\ m \in Nat
    BY <1>1, <1>3
  <2>2. PICK f : Averages(f, s, m - 1)
    BY <2>1
  <2> DEFINE g == [j \in 0 .. m |-> IF j < m THEN f[j] ELSE Blend(f[m - 1], s[m])]
  <2>3. ASSUME NEW j \in 0 .. m
        PROVE  g[j] = IF j = 0 THEN 0 ELSE Blend(g[j - 1], s[j])
    <3>1. CASE j = m
      BY <1>3, <2>1, <3>1
    <3>2. CASE j < m
      <4>1. j \in 0 .. m - 1 /\ g[j] = f[j] /\ (j # 0 => g[j - 1] = f[j - 1])
        BY <2>1, <3>2
      <4> QED  BY <2>2, <4>1 DEF Averages
    <3> QED  BY <2>1, <3>1, <3>2
  <2>4. g = [j \in 0 .. m |-> IF j = 0 THEN 0 ELSE Blend(g[j - 1], s[j])]
    BY <2>3
  <2> HIDE DEF g
  <2>5. Averages(g, s, m)
    BY <2>4 DEF Averages
  <2> QED  BY <1>1, <2>5
<1> QED  BY <1>2, <1>3

\* ... and one more sample leaves the earlier ones as they were.
LEMMA AveragesAgree ==
  \A n \in Nat : \A s, t, f, g :
    (\A j \in 1 .. n : s[j] = t[j]) /\ Averages(f, s, n) /\ Averages(g, t, n + 1)
      => f[n] = g[n]
<1> SUFFICES ASSUME NEW n \in Nat, NEW s, NEW t, \A j \in 1 .. n : s[j] = t[j],
                    NEW f, NEW g, Averages(f, s, n), Averages(g, t, n + 1)
             PROVE  f[n] = g[n]
  OBVIOUS
<1> DEFINE T == {m \in 0 .. n : f[m] # g[m]}
<1> SUFFICES ASSUME T # {}
             PROVE  FALSE
  OBVIOUS
<1>0. T \subseteq Nat
  OBVIOUS
<1>1. PICK m \in T : \A i \in T : m <= i
  <2> HIDE DEF T
  <2> QED  BY <1>0, LeastNatural
<1>2. m \in 0 .. n /\ m \in 0 .. n + 1
  BY <1>1
<1>3. /\ f[m] = IF m = 0 THEN 0 ELSE Blend(f[m - 1], s[m])
      /\ g[m] = IF m = 0 THEN 0 ELSE Blend(g[m - 1], t[m])
  BY <1>2 DEF Averages
<1>4. m # 0 => f[m - 1] = g[m - 1] /\ s[m] = t[m]
  BY <1>1
<1> QED  BY <1>1, <1>3, <1>4

\* Ewma is what the recursion says: 0 at first, and one blend per sample.
LEMMA EwmaFacts ==
  /\ Ewma(<< >>) = 0
  /\ \A s \in Seq(Nat), x \in Nat : Ewma(Append(s, x)) = Blend(Ewma(s), x)
<1>1. ASSUME NEW s \in Seq(Nat)
      PROVE  \E f : Averages(f, s, Len(s)) /\ Ewma(s) = f[Len(s)]
  <2> DEFINE avg == CHOOSE f : Averages(f, s, Len(s))
  <2>1. Averages(avg, s, Len(s))
    <3>1. PICK n \in Nat : n = Len(s)
      OBVIOUS
    <3>2. \E f : Averages(f, s, n)
      BY AveragesExist, Zenon
    <3>3. \E f : Averages(f, s, Len(s))
      BY <3>1, <3>2, Zenon
    <3> QED  BY <3>3, Zenon
  <2>2. Ewma(s) = avg[Len(s)]
    BY DEF Ewma, Averages
  <2> QED  BY <2>1, <2>2
<1>2. Ewma(<< >>) = 0
  <2>1. << >> \in Seq(Nat) /\ Len(<< >>) = 0
    OBVIOUS
  <2>2. PICK f : Averages(f, << >>, 0) /\ Ewma(<< >>) = f[0]
    BY <1>1, <2>1
  <2> QED  BY <2>2 DEF Averages
<1>3. ASSUME NEW s \in Seq(Nat), NEW x \in Nat
      PROVE  Ewma(Append(s, x)) = Blend(Ewma(s), x)
  <2>1. PICK n \in Nat : n = Len(s)
    OBVIOUS
  <2>2. PICK t \in Seq(Nat) : /\ t = Append(s, x) /\ Len(t) = n + 1 /\ t[n + 1] = x
                              /\ \A j \in 1 .. n : s[j] = t[j]
    <3>1. /\ Append(s, x) \in Seq(Nat) /\ Len(Append(s, x)) = Len(s) + 1
          /\ Append(s, x)[Len(s) + 1] = x
          /\ \A j \in 1 .. Len(s) : s[j] = Append(s, x)[j]
      OBVIOUS
    <3> QED  BY <2>1, <3>1
  <2>3. PICK f : Averages(f, s, n) /\ Ewma(s) = f[n]
    BY <1>1, <2>1
  <2>4. PICK g : Averages(g, t, n + 1) /\ Ewma(t) = g[n + 1]
    BY <1>1, <2>2
  <2>5. g[n + 1] = Blend(g[n], x)
    BY <2>2, <2>4 DEF Averages
  <2>6. f[n] = g[n]
    <3>1. \A j \in 1 .. n : s[j] = t[j]
      BY <2>2
    <3>2. Averages(f, s, n) /\ Averages(g, t, n + 1)
      BY <2>3, <2>4
    <3>3. \A a, b : Averages(a, s, n) /\ Averages(b, t, n + 1) => a[n] = b[n]
      BY <3>1, AveragesAgree
    <3> QED  BY <3>2, <3>3
  <2> QED  BY <2>2, <2>3, <2>4, <2>5, <2>6
<1> QED  BY <1>2, <1>3

-----------------------------------------------------------------------------
(* The inductive invariant.                                                *)

Label == {"idle", "hasData", "robin", "choose", "scan", "value", "using", "load", "swap"}
Rule  == {"none", "only", "robin", "explore", "probe", "fastest"}

TypeInv ==
  /\ counter \in Nat
  /\ count \in [Idx -> Nat]
  /\ val \in [Idx -> Nat]
  /\ where \in [Caller -> Label]
  /\ at \in [Caller -> 1 .. N + 1]
  /\ bestIdx \in [Caller -> Nat]
  /\ bestVal \in [Caller -> Nat \cup {Unset}]
  /\ sample \in [Caller -> Nat]
  /\ oldBits \in [Caller -> Nat]
  /\ pick \in [Caller -> [index : Nat, why : Rule]]
  /\ log \in [Idx -> Seq(Nat)]
  /\ clean \in [Caller -> BOOLEAN]

\* The indices a call of Next or of Update works on are those of endpoints.
RangeInv(p) ==
  /\ where[p] # "idle" => N > 0
  /\ where[p] \in {"value", "load", "swap"} => at[p] \in Idx
  /\ where[p] \in {"scan", "value"} => bestIdx[p] \in Idx
  /\ where[p] = "using" => pick[p].index \in Idx

\* The endpoints that the scan is past, and the one it has looked at, are measured.
SeenInv(p) ==
  /\ where[p] \in {"scan", "value"} => \A k \in Idx : k < at[p] => count[k] > 0
  /\ where[p] = "value" => count[at[p]] > 0

\* Undisturbed, the scan holds the lowest average of the endpoints it is past.
BestInv(p) ==
  where[p] \in {"scan", "value"} /\ clean[p] =>
    /\ at[p] = 1 => bestVal[p] = Unset
    /\ at[p] > 1 => /\ bestVal[p] = val[bestIdx[p]]
                    /\ \A k \in Idx : k < at[p] => bestVal[p] <= val[k]

\* What a call that returned the fastest endpoint stands for.
PickInv(p) ==
  where[p] = "using" /\ pick[p].why = "fastest" =>
    /\ \A k \in Idx : count[k] > 0
    /\ clean[p] => \A k \in Idx : val[pick[p].index] <= val[k]

CallInv(p) == RangeInv(p) /\ SeenInv(p) /\ BestInv(p) /\ PickInv(p)

IInv ==
  /\ TypeInv
  /\ \A p \in Caller : CallInv(p)
  /\ CountMatchesSamples
  /\ EwmaIsSerial

\* The goroutines whose sample of k is counted and not yet in the average.
Updating(k) == {p \in Caller : where[p] \in {"load", "swap"} /\ at[p] = k}

\* A step of another goroutine leaves what p knows true: counts only grow, and
\* the scan that an average changed under is no longer clean.
LEMMA OtherCallersKeep ==
  ASSUME TypeInv, TypeInv', NEW p \in Caller, CallInv(p),
         where'[p] = where[p], at'[p] = at[p], bestIdx'[p] = bestIdx[p],
         bestVal'[p] = bestVal[p], pick'[p] = pick[p],
         \A k \in Idx : count'[k] >= count[k],
         (clean'[p] = clean[p] /\ val' = val) \/ ~clean'[p]
  PROVE  CallInv(p)'
<1>1. RangeInv(p)'
  BY DEF CallInv, RangeInv
<1>2. SeenInv(p)'
  <2>1. \A k \in Idx : count[k] \in Nat /\ count'[k] \in Nat
    BY DEF TypeInv
  <2>2. \A k \in Idx : count[k] > 0 => count'[k] > 0
    BY <2>1
  <2>3. where[p] = "value" => at[p] \in Idx
    BY DEF CallInv, RangeInv
  <2> QED  BY <2>2, <2>3 DEF CallInv, SeenInv
<1>3. BestInv(p)'
  BY DEF CallInv, BestInv
<1>4. PickInv(p)'
  BY DEF CallInv, PickInv, TypeInv
<1> QED  BY <1>1, <1>2, <1>3, <1>4 DEF CallInv

\* Nothing is counted or averaged: both sums stand.
LEMMA SumsKeep ==
  ASSUME CountMatchesSamples, EwmaIsSerial, count' = count, val' = val, log' = log,
         \A k \in Idx : Updating(k)' = Updating(k)
  PROVE  CountMatchesSamples' /\ EwmaIsSerial'
<1>1. ASSUME NEW k \in Idx
      PROVE  count'[k] = Len(log'[k]) + Cardinality(Updating(k)')
  BY DEF CountMatchesSamples, Updating
<1>2. CountMatchesSamples'
  BY <1>1 DEF CountMatchesSamples, Updating
<1>3. EwmaIsSerial'
  BY DEF EwmaIsSerial
<1> QED  BY <1>2, <1>3

\* A goroutine that neither enters nor leaves an update: Updating is unchanged.
LEMMA UpdatingKeeps ==
  ASSUME TypeInv, TypeInv', NEW p \in Caller,
         \A q \in Caller : q # p => where'[q] = where[q] /\ at'[q] = at[q],
         \/ where[p] \notin {"load", "swap"} /\ where'[p] \notin {"load", "swap"}
         \/ /\ where[p] \in {"load", "swap"} /\ where'[p] \in {"load", "swap"}
            /\ at'[p] = at[p]
  PROVE  \A k \in Idx : Updating(k)' = Updating(k)
BY DEF Updating

\* An update under way is one of finitely many.
LEMMA UpdatingIsFinite ==
  ASSUME NEW k
  PROVE  IsFiniteSet(Updating(k)) /\ Cardinality(Updating(k)) \in Nat
<1>1. Updating(k) \subseteq Caller
  BY DEF Updating
<1>2. IsFiniteSet(Updating(k))
  BY <1>1, FS_Subset, BalancerAssumption
<1> QED  BY <1>2, FS_CardinalityType

\* The modulus of the round-robin counter is a number.
LEMMA NIsNat == N \in Nat
BY BalancerAssumption DEF N

\* A balancer that has just been made satisfies the inductive invariant.
LEMMA InitFacts == BalancerInit => IInv
<1> SUFFICES ASSUME BalancerInit
             PROVE  IInv
  OBVIOUS
<1>1. TypeInv
  BY NIsNat DEF BalancerInit, TypeInv, Label, Rule, NoPick, Unset
<1>2. ASSUME NEW p \in Caller
      PROVE  CallInv(p)
  BY DEF BalancerInit, CallInv, RangeInv, SeenInv, BestInv, PickInv
<1>3. CountMatchesSamples
  <2>1. ASSUME NEW k \in Idx
        PROVE  Updating(k) = {}
    BY DEF BalancerInit, Updating
  <2>2. ASSUME NEW k \in Idx
        PROVE  count[k] = Len(log[k]) + Cardinality(Updating(k))
    <3>1. count[k] = 0 /\ log[k] = << >> /\ Cardinality(Updating(k)) = 0
      BY <2>1, FS_EmptySet DEF BalancerInit
    <3> QED  BY <3>1
  <2> QED  BY <2>2 DEF CountMatchesSamples, Updating
<1>4. EwmaIsSerial
  BY EwmaFacts DEF BalancerInit, EwmaIsSerial
<1> QED  BY <1>1, <1>2, <1>3, <1>4 DEF IInv

\* A step that counts no sample and swaps no average keeps the invariant, if it
\* keeps the types and what the goroutine that takes it knows.
LEMMA QuietStep ==
  ASSUME IInv, TypeInv', NEW p \in Caller, CallInv(p)', UNCHANGED stats,
         \A q \in Caller : q # p =>
           /\ where'[q] = where[q] /\ at'[q] = at[q] /\ pick'[q] = pick[q]
           /\ bestIdx'[q] = bestIdx[q] /\ bestVal'[q] = bestVal[q]
           /\ clean'[q] = clean[q],
         \/ where[p] \notin {"load", "swap"} /\ where'[p] \notin {"load", "swap"}
         \/ /\ where[p] \in {"load", "swap"} /\ where'[p] \in {"load", "swap"}
            /\ at'[p] = at[p]
  PROVE  IInv'
<1>0. TypeInv /\ CountMatchesSamples /\ EwmaIsSerial /\ \A q \in Caller : CallInv(q)
  BY DEF IInv
<1>1. \A k \in Idx : Updating(k)' = Updating(k)
  BY <1>0, UpdatingKeeps
<1>2. CountMatchesSamples' /\ EwmaIsSerial'
  BY <1>0, <1>1, SumsKeep DEF stats
<1>3. \A k \in Idx : count'[k] >= count[k]
  BY <1>0 DEF TypeInv, stats
<1>4. ASSUME NEW q \in Caller
      PROVE  CallInv(q)'
  <2>1. CASE q = p
    BY <2>1
  <2>2. CASE q # p
    BY <1>0, <1>3, <2>2, OtherCallersKeep DEF stats
  <2> QED  BY <2>1, <2>2
<1> QED  BY <1>2, <1>4 DEF IInv

\* What Return stores has its type.
LEMMA ReturnTypes ==
  ASSUME TypeInv, NEW p \in Caller, NEW k \in Nat, NEW w \in Rule, Return(p, k, w)
  PROVE  where' \in [Caller -> Label] /\ pick' \in [Caller -> [index : Nat, why : Rule]]
<1>1. where' \in [Caller -> Label]
  BY DEF Return, Goto, TypeInv, Label
<1>2. [index |-> k, why |-> w] \in [index : Nat, why : Rule]
  OBVIOUS
<1>3. pick' \in [Caller -> [index : Nat, why : Rule]]
  BY <1>2 DEF Return, TypeInv
<1> QED  BY <1>1, <1>3

\* The steps of Next.
LEMMA NextKeeps ==
  ASSUME IInv, NEW p \in Caller,
         \/ NextCall(p) \/ HasData(p) \/ RoundRobin(p) \/ Explore(p) \/ StartScan(p)
         \/ ScanCount(p) \/ ScanValue(p) \/ GiveUp(p)
  PROVE  IInv'
<1>0. TypeInv /\ CallInv(p) /\ N \in Nat
  BY NIsNat DEF IInv
<1>1. CASE NextCall(p)
  <2>0. 1 \in 1 .. N + 1
    BY <1>0
  <2>1. TypeInv'
    <3>1. at' \in [Caller -> 1 .. N + 1]
      BY <1>0, <1>1, <2>0 DEF NextCall, TypeInv
    <3>2. where' \in [Caller -> Label] /\ pick' \in [Caller -> [index : Nat, why : Rule]]
      <4>1. CASE N = 1
        <5>1. "only" \in Rule /\ Return(p, 1, "only")
          BY <1>1, <4>1 DEF NextCall, Rule
        <5> QED  BY <1>0, <5>1, ReturnTypes
      <4>2. CASE N # 1
        BY <1>0, <1>1, <4>2 DEF NextCall, Goto, TypeInv, Label
      <4> QED  BY <4>1, <4>2
    <3> QED  BY <1>0, <1>1, <3>1, <3>2 DEF NextCall, stats, TypeInv
  <2>2. CallInv(p)'
    BY <1>0, <1>1 DEF NextCall, Return, Goto, stats, TypeInv, Idx,
         CallInv, RangeInv, SeenInv, BestInv, PickInv
  <2> QED  BY <1>0, <1>1, <2>1, <2>2, QuietStep DEF NextCall, Return, Goto, TypeInv
<1>2. CASE HasData(p)
  <2>1. TypeInv'
    <3>1. at[p] <= N => at[p] + 1 \in 1 .. N + 1
      BY <1>0 DEF TypeInv
    <3>2. at[p] > N \/ at[p] <= N
      BY <1>0 DEF TypeInv
    <3>3. at' \in [Caller -> 1 .. N + 1] /\ where' \in [Caller -> Label]
      BY <1>0, <1>2, <3>1, <3>2 DEF HasData, Goto, TypeInv, Label
    <3> QED  BY <1>0, <1>2, <3>3 DEF HasData, stats, TypeInv
  <2>2. CallInv(p)'
    BY <1>0, <1>2 DEF HasData, Goto, stats, TypeInv,
         CallInv, RangeInv, SeenInv, BestInv, PickInv
  <2> QED  BY <1>0, <1>2, <2>1, <2>2, QuietStep DEF HasData, Goto, TypeInv
<1>3. CASE RoundRobin(p)
  <2>0. (counter % N) + 1 \in Idx /\ (counter % N) + 1 \in Nat
    <3>1. N > 0 /\ counter \in Nat
      BY <1>0, <1>3 DEF RoundRobin, CallInv, RangeInv, TypeInv
    <3>2. counter % N \in 0 .. N - 1
      BY <1>0, <3>1
    <3> QED  BY <1>0, <3>2 DEF Idx
  <2>1. TypeInv'
    BY <1>0, <1>3, <2>0 DEF RoundRobin, Return, Goto, stats, TypeInv, Label, Rule
  <2>2. CallInv(p)'
    BY <1>0, <1>3, <2>0 DEF RoundRobin, Return, Goto, stats, TypeInv,
         CallInv, RangeInv, SeenInv, BestInv, PickInv
  <2> QED  BY <1>0, <1>3, <2>1, <2>2, QuietStep DEF RoundRobin, Return, Goto, TypeInv
<1>4. CASE Explore(p)
  <2>0. PICK k \in Idx : Return(p, k, "explore")
    BY <1>4 DEF Explore
  <2>1. TypeInv'
    <3>1. k \in Nat /\ "explore" \in Rule
      BY DEF Idx, Rule
    <3>2. where' \in [Caller -> Label] /\ pick' \in [Caller -> [index : Nat, why : Rule]]
      BY <1>0, <2>0, <3>1, ReturnTypes
    <3> QED  BY <1>0, <1>4, <3>2 DEF Explore, stats, TypeInv
  <2>2. CallInv(p)'
    BY <1>0, <1>4, <2>0 DEF Explore, Return, Goto, stats, TypeInv,
         CallInv, RangeInv, SeenInv, BestInv, PickInv
  <2> QED  BY <1>0, <1>4, <2>0, <2>1, <2>2, QuietStep DEF Explore, Return, Goto, TypeInv
<1>5. CASE StartScan(p)
  <2>0. 1 \in 1 .. N + 1
    BY <1>0
  <2>1. TypeInv'
    <3>1. at' \in [Caller -> 1 .. N + 1] /\ where' \in [Caller -> Label]
      BY <1>0, <1>5, <2>0 DEF StartScan, Goto, TypeInv, Label
    <3>2. /\ bestIdx' \in [Caller -> Nat] /\ bestVal' \in [Caller -> Nat \cup {Unset}]
          /\ clean' \in [Caller -> BOOLEAN]
      BY <1>0, <1>5 DEF StartScan, TypeInv
    <3> QED  BY <1>0, <1>5, <3>1, <3>2 DEF StartScan, stats, TypeInv
  <2>2. CallInv(p)'
    BY <1>0, <1>5 DEF StartScan, Goto, stats, TypeInv, Idx,
         CallInv, RangeInv, SeenInv, BestInv, PickInv
  <2> QED  BY <1>0, <1>5, <2>1, <2>2, QuietStep DEF StartScan, Goto, TypeInv
<1>6. CASE ScanCount(p)
  <2>0. at[p] \in Nat /\ at[p] > 0 /\ N > 0 /\ bestIdx[p] \in Idx /\ where[p] = "scan"
    BY <1>0, <1>6 DEF ScanCount, TypeInv, CallInv, RangeInv
  <2>1. TypeInv'
    <3>1. where' \in [Caller -> Label] /\ pick' \in [Caller -> [index : Nat, why : Rule]]
      <4>1. CASE ~(at[p] > N) /\ count[at[p]] # 0
        BY <1>0, <1>6, <4>1 DEF ScanCount, Goto, TypeInv, Label
      <4>2. CASE ~(~(at[p] > N) /\ count[at[p]] # 0)
        <5>1. PICK k \in Nat, w \in Rule : Return(p, k, w)
          BY <1>6, <2>0, <4>2 DEF ScanCount, Idx, Rule
        <5> QED  BY <1>0, <5>1, ReturnTypes
      <4> QED  BY <4>1, <4>2
    <3> QED  BY <1>0, <1>6, <3>1 DEF ScanCount, stats, TypeInv
  <2>2. CallInv(p)'
    <3>1. CASE at[p] > N
      <4>1. /\ where'[p] = "using" /\ pick'[p] = [index |-> bestIdx[p], why |-> "fastest"]
            /\ count' = count /\ val' = val /\ clean' = clean
        BY <1>0, <1>6, <3>1 DEF ScanCount, Return, Goto, stats, TypeInv
      <4>2. \A k \in Idx : k < at[p] /\ at[p] > 1
        BY <1>0, <2>0, <3>1 DEF Idx
      <4>3. \A k \in Idx : count[k] > 0
        BY <1>0, <2>0, <4>2 DEF CallInv, SeenInv
      <4>4. clean[p] => \A k \in Idx : val[bestIdx[p]] <= val[k]
        BY <1>0, <2>0, <4>2 DEF CallInv, BestInv
      <4> QED  BY <2>0, <4>1, <4>3, <4>4
                 DEF CallInv, RangeInv, SeenInv, BestInv, PickInv
    <3>2. CASE ~(at[p] > N) /\ count[at[p]] = 0
      <4>1. /\ where'[p] = "using" /\ pick'[p] = [index |-> at[p], why |-> "probe"]
            /\ at[p] \in Idx
        BY <1>0, <1>6, <2>0, <3>2 DEF ScanCount, Return, Goto, TypeInv, Idx
      <4> QED  BY <2>0, <4>1 DEF CallInv, RangeInv, SeenInv, BestInv, PickInv
    <3>3. CASE ~(at[p] > N) /\ count[at[p]] # 0
      <4>1. at[p] \in Idx
        BY <1>0, <2>0, <3>3 DEF Idx
      <4>2. count[at[p]] > 0
        BY <1>0, <3>3, <4>1 DEF TypeInv
      <4>3. /\ where'[p] = "value" /\ at' = at /\ bestIdx' = bestIdx /\ bestVal' = bestVal
            /\ count' = count /\ val' = val /\ clean' = clean
        BY <1>0, <1>6, <3>3 DEF ScanCount, Goto, stats, TypeInv
      <4> QED  BY <1>0, <2>0, <4>1, <4>2, <4>3
                 DEF CallInv, RangeInv, SeenInv, BestInv, PickInv
    <3> QED  BY <3>1, <3>2, <3>3
  <2> QED  BY <1>0, <1>6, <2>1, <2>2, QuietStep DEF ScanCount, Return, Goto, TypeInv
<1>7. CASE ScanValue(p)
  <2>0. /\ at[p] \in Idx /\ at[p] \in Nat /\ at[p] > 0 /\ bestIdx[p] \in Idx
        /\ at[p] + 1 \in 1 .. N + 1 /\ val[at[p]] \in Nat /\ where[p] = "value"
    <3>1. at[p] \in Idx /\ bestIdx[p] \in Idx /\ where[p] = "value"
      BY <1>0, <1>7 DEF ScanValue, CallInv, RangeInv
    <3>2. val[at[p]] \in Nat
      BY <1>0, <3>1 DEF TypeInv
    <3> QED  BY <1>0, <3>1, <3>2 DEF Idx
  <2>1. TypeInv'
    <3>1. at' \in [Caller -> 1 .. N + 1] /\ where' \in [Caller -> Label]
      BY <1>0, <1>7, <2>0 DEF ScanValue, Goto, TypeInv, Label
    <3>2. bestIdx' \in [Caller -> Nat] /\ bestVal' \in [Caller -> Nat \cup {Unset}]
      BY <1>0, <1>7, <2>0 DEF ScanValue, TypeInv
    <3> QED  BY <1>0, <1>7, <3>1, <3>2 DEF ScanValue, stats, TypeInv
  <2>2. CallInv(p)'
    <3>1. /\ where'[p] = "scan" /\ at'[p] = at[p] + 1 /\ count' = count /\ val' = val
          /\ clean' = clean
      BY <1>0, <1>7 DEF ScanValue, Goto, stats, TypeInv
    <3>2. \A k \in Idx : k < at[p] + 1 <=> k < at[p] \/ k = at[p]
      BY <2>0 DEF Idx
    <3>3. RangeInv(p)' /\ PickInv(p)'
      BY <1>0, <1>7, <2>0, <3>1 DEF ScanValue, TypeInv, CallInv, RangeInv, PickInv
    <3>4. SeenInv(p)'
      BY <1>0, <2>0, <3>1, <3>2 DEF CallInv, SeenInv
    <3>5. ASSUME clean[p]
          PROVE  /\ bestVal'[p] = val[bestIdx'[p]]
                 /\ \A k \in Idx : k < at[p] + 1 => bestVal'[p] <= val[k]
      <4>1. /\ at[p] = 1 => bestVal[p] = Unset
            /\ at[p] # 1 => /\ bestVal[p] = val[bestIdx[p]]
                            /\ \A k \in Idx : k < at[p] => bestVal[p] <= val[k]
        BY <1>0, <2>0, <3>5 DEF CallInv, BestInv
      <4>2. \A k \in Idx : val[k] \in Nat /\ k \in Nat /\ k > 0
        BY <1>0 DEF TypeInv, Idx
      <4>3. CASE bestVal[p] = Unset \/ val[at[p]] < bestVal[p]
        <5>1. bestVal'[p] = val[at[p]] /\ bestIdx'[p] = at[p]
          BY <1>0, <1>7, <4>3 DEF ScanValue, TypeInv
        <5>2. at[p] # 1 => bestVal[p] # Unset
          BY <2>0, <4>1, <4>2 DEF Unset
        <5>3. ASSUME NEW k \in Idx, k < at[p]
              PROVE  val[at[p]] <= val[k]
          <6>1. at[p] # 1
            BY <2>0, <4>2, <5>3
          <6>2. bestVal[p] \in Nat /\ bestVal[p] <= val[k] /\ val[at[p]] < bestVal[p]
            BY <2>0, <4>1, <4>2, <4>3, <5>2, <5>3, <6>1
          <6> QED  BY <2>0, <4>2, <6>2
        <5> QED  BY <2>0, <3>2, <5>1, <5>3
      <4>4. CASE ~(bestVal[p] = Unset \/ val[at[p]] < bestVal[p])
        <5>1. bestVal'[p] = bestVal[p] /\ bestIdx'[p] = bestIdx[p]
          BY <1>7, <4>4 DEF ScanValue
        <5>2. at[p] # 1 /\ bestVal[p] \in Nat
          BY <1>0, <4>1, <4>4 DEF TypeInv
        <5>3. bestVal[p] <= val[at[p]]
          BY <2>0, <4>4, <5>2
        <5> QED  BY <3>2, <4>1, <5>1, <5>2, <5>3
      <4> QED  BY <4>3, <4>4
    <3>6. BestInv(p)'
      BY <2>0, <3>1, <3>5 DEF BestInv
    <3> QED  BY <3>3, <3>4, <3>6 DEF CallInv
  <2> QED  BY <1>0, <1>7, <2>1, <2>2, QuietStep DEF ScanValue, Goto, TypeInv
<1>8. CASE GiveUp(p)
  <2>1. TypeInv'
    BY <1>0, <1>8 DEF GiveUp, Goto, stats, TypeInv, Label, Rule, NoPick
  <2>2. CallInv(p)'
    BY <1>0, <1>8 DEF GiveUp, Goto, stats, TypeInv,
         CallInv, RangeInv, SeenInv, BestInv, PickInv
  <2> QED  BY <1>0, <1>8, <2>1, <2>2, QuietStep DEF GiveUp, Goto, TypeInv
<1> QED  BY <1>1, <1>2, <1>3, <1>4, <1>5, <1>6, <1>7, <1>8

\* A sample is counted before it is averaged.
LEMMA RecordLatencyKeeps ==
  ASSUME IInv, NEW p \in Caller, NEW s \in Sample, RecordLatency(p, s)
  PROVE  IInv'
<1>0. /\ TypeInv /\ CountMatchesSamples /\ EwmaIsSerial
      /\ \A q \in Caller : CallInv(q)
  BY DEF IInv
<1>1. PICK k \in Idx : k = endpointIndex(Endpoints[pick[p].index])
  BY <1>0, EndpointIndexFacts DEF RecordLatency, CallInv, RangeInv
<1>2. /\ where[p] = "using" /\ where' = [where EXCEPT ![p] = "load"]
      /\ at' = [at EXCEPT ![p] = k]
      /\ count' = [count EXCEPT ![k] = @ + 1]
      /\ sample' = [sample EXCEPT ![p] = s]
      /\ clean' = [c \in Caller |-> FALSE]
      /\ UNCHANGED <<counter, val, log, calls, bestIdx, bestVal, oldBits, pick>>
  BY <1>1 DEF RecordLatency, Goto
<1>3. k \in Nat /\ k \in 1 .. N + 1 /\ N \in Nat /\ N > 0
  BY NIsNat DEF Idx
<1>4. TypeInv'
  <2>1. at' \in [Caller -> 1 .. N + 1] /\ where' \in [Caller -> Label]
    BY <1>0, <1>2, <1>3 DEF TypeInv, Label
  <2>2. count' \in [Idx -> Nat]
    BY <1>0, <1>2 DEF TypeInv
  <2>3. sample' \in [Caller -> Nat] /\ clean' \in [Caller -> BOOLEAN]
    BY <1>0, <1>2, BalancerAssumption DEF TypeInv
  <2> QED  BY <1>0, <1>2, <2>1, <2>2, <2>3 DEF TypeInv
<1>5. ASSUME NEW q \in Caller
      PROVE  CallInv(q)'
  <2>1. CASE q = p
    <3>1. where'[p] = "load" /\ at'[p] = k
      BY <1>0, <1>2 DEF TypeInv
    <3> QED  BY <1>3, <2>1, <3>1 DEF CallInv, RangeInv, SeenInv, BestInv, PickInv
  <2>2. CASE q # p
    <3>1. \A i \in Idx : count'[i] >= count[i]
      BY <1>0, <1>2 DEF TypeInv
    <3>2. ~clean'[q]
      BY <1>2
    <3> QED  BY <1>0, <1>2, <1>4, <2>2, <3>1, <3>2, OtherCallersKeep DEF TypeInv
  <2> QED  BY <2>1, <2>2
<1>6. CountMatchesSamples'
  <2>1. ASSUME NEW i \in Idx
        PROVE  count'[i] = Len(log'[i]) + Cardinality(Updating(i)')
    <3>0. /\ count[i] = Len(log[i]) + Cardinality(Updating(i)) /\ log' = log
          /\ Cardinality(Updating(i)) \in Nat /\ IsFiniteSet(Updating(i))
          /\ log[i] \in Seq(Nat)
      BY <1>0, <1>2, UpdatingIsFinite DEF CountMatchesSamples, Updating, TypeInv
    <3>1. CASE i = k
      <4>1. Updating(i)' = Updating(i) \cup {p} /\ p \notin Updating(i)
        BY <1>0, <1>2, <3>1 DEF Updating, TypeInv
      <4>2. Cardinality(Updating(i)') = Cardinality(Updating(i)) + 1
        BY <3>0, <4>1, FS_AddElement
      <4>3. count'[i] = count[i] + 1
        BY <1>0, <1>2, <3>1 DEF TypeInv
      <4>4. Len(log[i]) \in Nat
        BY <3>0
      <4> QED  BY <3>0, <4>2, <4>3, <4>4
    <3>2. CASE i # k
      <4>1. Updating(i)' = Updating(i)
        BY <1>0, <1>2, <3>2 DEF Updating, TypeInv
      <4>2. count'[i] = count[i]
        BY <1>0, <1>2, <3>2 DEF TypeInv
      <4> QED  BY <3>0, <4>1, <4>2
    <3> QED  BY <3>1, <3>2
  <2> QED  BY <2>1 DEF CountMatchesSamples, Updating
<1>7. EwmaIsSerial'
  BY <1>0, <1>2 DEF EwmaIsSerial
<1> QED  BY <1>4, <1>5, <1>6, <1>7 DEF IInv

\* The load of the old average.
LEMMA UpdateLoadKeeps ==
  ASSUME IInv, NEW p \in Caller, UpdateLoad(p)
  PROVE  IInv'
<1>0. TypeInv /\ CallInv(p) /\ at[p] \in Idx /\ where[p] = "load" /\ N > 0
  BY DEF IInv, UpdateLoad, CallInv, RangeInv
<1>1. TypeInv'
  BY <1>0 DEF UpdateLoad, Goto, stats, TypeInv, Label
<1>2. CallInv(p)'
  BY <1>0 DEF UpdateLoad, Goto, stats, TypeInv,
       CallInv, RangeInv, SeenInv, BestInv, PickInv
<1> QED  BY <1>0, <1>1, <1>2, QuietStep DEF UpdateLoad, Goto, TypeInv

\* A swap that succeeds blends one sample into the average as it then is.
LEMMA UpdateSwapKeeps ==
  ASSUME IInv, NEW p \in Caller, UpdateSwap(p)
  PROVE  IInv'
<1>0. /\ TypeInv /\ CountMatchesSamples /\ EwmaIsSerial /\ N > 0
      /\ \A q \in Caller : CallInv(q)
      /\ at[p] \in Idx /\ where[p] = "swap"
  BY DEF IInv, UpdateSwap, CallInv, RangeInv
<1>1. CASE val[at[p]] # oldBits[p]
  <2>1. /\ where' = [where EXCEPT ![p] = "load"]
        /\ UNCHANGED <<counter, count, val, log, clean, pick, at, bestIdx, bestVal>>
        /\ UNCHANGED <<sample, oldBits>>
    BY <1>1 DEF UpdateSwap, Goto
  <2>2. TypeInv'
    BY <1>0, <2>1 DEF TypeInv, Label
  <2>3. CallInv(p)'
    BY <1>0, <2>1 DEF TypeInv, CallInv, RangeInv, SeenInv, BestInv, PickInv
  <2> QED  BY <1>0, <2>1, <2>2, <2>3, QuietStep DEF TypeInv, stats
<1>2. CASE val[at[p]] = oldBits[p]
  <2>1. PICK k \in Idx : k = at[p]
    BY <1>0
  <2>2. PICK s \in Nat : s = sample[p]
    BY <1>0 DEF TypeInv
  <2>3. PICK v \in Nat : v = Blend(val[k], s) /\ v = Blend(oldBits[p], sample[p])
    BY <1>0, <1>2, <2>1, <2>2, BlendFacts DEF TypeInv
  <2>4. /\ where' = [where EXCEPT ![p] = "idle"]
        /\ val' = [val EXCEPT ![k] = v]
        /\ log' = [log EXCEPT ![k] = Append(@, s)]
        /\ clean' = [c \in Caller |-> FALSE]
        /\ pick' = [pick EXCEPT ![p] = NoPick]
        /\ UNCHANGED <<counter, count, calls, at, bestIdx, bestVal, sample, oldBits>>
    BY <1>2, <2>1, <2>2, <2>3 DEF UpdateSwap, Goto
  <2>5. TypeInv'
    <3>1. where' \in [Caller -> Label] /\ clean' \in [Caller -> BOOLEAN]
      BY <1>0, <2>4 DEF TypeInv, Label
    <3>2. val' \in [Idx -> Nat]
      BY <1>0, <2>4 DEF TypeInv
    <3>3. log' \in [Idx -> Seq(Nat)]
      BY <1>0, <2>4 DEF TypeInv
    <3>4. pick' \in [Caller -> [index : Nat, why : Rule]]
      BY <1>0, <2>4 DEF TypeInv, NoPick, Rule
    <3> QED  BY <1>0, <2>4, <3>1, <3>2, <3>3, <3>4 DEF TypeInv
  <2>6. ASSUME NEW q \in Caller
        PROVE  CallInv(q)'
    <3>1. CASE q = p
      <4>1. where'[p] = "idle"
        BY <1>0, <2>4 DEF TypeInv
      <4> QED  BY <3>1, <4>1 DEF CallInv, RangeInv, SeenInv, BestInv, PickInv
    <3>2. CASE q # p
      <4>1. \A i \in Idx : count'[i] >= count[i]
        BY <1>0, <2>4 DEF TypeInv
      <4>2. ~clean'[q]
        BY <2>4
      <4> QED  BY <1>0, <2>4, <2>5, <3>2, <4>1, <4>2, OtherCallersKeep DEF TypeInv
    <3> QED  BY <3>1, <3>2
  <2>7. CountMatchesSamples'
    <3>1. ASSUME NEW i \in Idx
          PROVE  count'[i] = Len(log'[i]) + Cardinality(Updating(i)')
      <4>0. /\ count[i] = Len(log[i]) + Cardinality(Updating(i)) /\ count' = count
            /\ Cardinality(Updating(i)) \in Nat /\ IsFiniteSet(Updating(i))
            /\ log[i] \in Seq(Nat)
        BY <1>0, <2>4, UpdatingIsFinite DEF CountMatchesSamples, Updating, TypeInv
      <4>1. CASE i = k
        <5>1. Updating(i)' = Updating(i) \ {p} /\ p \in Updating(i)
          BY <1>0, <2>1, <2>4, <4>1 DEF Updating, TypeInv
        <5>2. Cardinality(Updating(i)') = Cardinality(Updating(i)) - 1
          BY <4>0, <5>1, FS_RemoveElement
        <5>3. log'[i] = Append(log[i], s)
          BY <1>0, <2>4, <4>1 DEF TypeInv
        <5>4. Len(log'[i]) = Len(log[i]) + 1 /\ Len(log[i]) \in Nat
          BY <4>0, <5>3
        <5> QED  BY <4>0, <5>2, <5>4
      <4>2. CASE i # k
        <5>1. Updating(i)' = Updating(i)
          BY <1>0, <2>1, <2>4, <4>2 DEF Updating, TypeInv
        <5>2. log'[i] = log[i]
          BY <1>0, <2>4, <4>2 DEF TypeInv
        <5> QED  BY <4>0, <5>1, <5>2
      <4> QED  BY <4>1, <4>2
    <3> QED  BY <3>1 DEF CountMatchesSamples, Updating
  <2>8. EwmaIsSerial'
    <3>1. ASSUME NEW i \in Idx
          PROVE  val'[i] = Ewma(log'[i])
      <4>0. val[i] = Ewma(log[i]) /\ log[i] \in Seq(Nat)
        BY <1>0 DEF EwmaIsSerial, TypeInv
      <4>1. CASE i = k
        <5>1. val'[i] = Blend(val[i], s) /\ log'[i] = Append(log[i], s)
          BY <1>0, <2>3, <2>4, <4>1 DEF TypeInv
        <5>2. Ewma(Append(log[i], s)) = Blend(Ewma(log[i]), s)
          BY <4>0, EwmaFacts
        <5> QED  BY <4>0, <5>1, <5>2
      <4>2. CASE i # k
        BY <1>0, <2>4, <4>0, <4>2 DEF TypeInv
      <4> QED  BY <4>1, <4>2
    <3> QED  BY <3>1 DEF EwmaIsSerial
  <2> QED  BY <2>5, <2>6, <2>7, <2>8 DEF IInv
<1> QED  BY <1>1, <1>2

\* Every step keeps the invariant.
LEMMA StepKeeps ==
  ASSUME IInv, [BalancerNext]_balancerVars
  PROVE  IInv'
<1>1. CASE UNCHANGED balancerVars
  <2>1. TypeInv' /\ (\A p \in Caller : CallInv(p))'
    BY <1>1 DEF IInv, balancerVars, TypeInv, CallInv, RangeInv, SeenInv, BestInv, PickInv
  <2>2. CountMatchesSamples' /\ EwmaIsSerial'
    BY <1>1 DEF IInv, balancerVars, CountMatchesSamples, EwmaIsSerial
  <2> QED  BY <2>1, <2>2 DEF IInv
<1>2. CASE BalancerNext
  <2>1. PICK p \in Caller : NextCall(p) \/ CallStep(p)
    BY <1>2 DEF BalancerNext
  <2>2. CASE \E s \in Sample : RecordLatency(p, s)
    BY <2>2, RecordLatencyKeeps
  <2>3. CASE UpdateLoad(p) \/ UpdateSwap(p)
    BY <2>3, UpdateLoadKeeps, UpdateSwapKeeps
  <2> QED  BY <2>1, <2>2, <2>3, NextKeeps DEF CallStep
<1> QED  BY <1>1, <1>2

\* The inductive invariant of the balancer.
THEOREM Invariance == BalancerSpec => []IInv
<1>1. BalancerInit => IInv
  BY InitFacts
<1>2. IInv /\ [BalancerNext]_balancerVars => IInv'
  BY StepKeeps
<1> QED  BY <1>1, <1>2, PTL DEF BalancerSpec

\* Next routes by latency only when every endpoint has been measured, whatever
\* other requests record while its scan is under way.
THEOREM FastestOnlyIfAllMeasuredHolds == BalancerSpec => []FastestOnlyIfAllMeasured
<1>1. IInv => FastestOnlyIfAllMeasured
  BY DEF IInv, CallInv, PickInv, FastestOnlyIfAllMeasured
<1> QED  BY <1>1, Invariance, PTL

\* A scan during which no average changed returns an endpoint with the lowest one.
THEOREM FastestIsLowestHolds == BalancerSpec => []FastestIsLowest
<1>1. IInv => FastestIsLowest
  BY DEF IInv, CallInv, PickInv, FastestIsLowest
<1> QED  BY <1>1, Invariance, PTL

\* The count of an endpoint is the number of samples in its average and of the
\* updates that are under way, however they interleave.
THEOREM CountMatchesSamplesHolds == BalancerSpec => []CountMatchesSamples
<1>1. IInv => CountMatchesSamples
  BY DEF IInv
<1> QED  BY <1>1, Invariance, PTL

\* The compare-and-swap loop loses no sample and applies none twice: an average
\* is what its samples give one after the other, in the order of their swaps.
THEOREM EwmaIsSerialHolds == BalancerSpec => []EwmaIsSerial
<1>1. IInv => EwmaIsSerial
  BY DEF IInv
<1> QED  BY <1>1, Invariance, PTL

-----------------------------------------------------------------------------
(* Lock freedom.                                                           *)

\* The steps left of a call at label l with the loop index n that has read the
\* average o where it is v now: a swap that is going to fail costs two more.
StepsAt(l, n, o, v) ==
  CASE l = "hasData" -> 3 * N + 9 - n
    [] l = "choose"  -> 2 * N + 7
    [] l = "scan"    -> 2 * N + 8 - 2 * n
    [] l = "value"   -> 2 * N + 7 - 2 * n
    [] l = "robin"   -> 6
    [] l = "using"   -> 5
    [] l = "load"    -> 3
    [] l = "swap"    -> IF o = v THEN 2 ELSE 4
    [] OTHER         -> 0

\* The steps that the call of goroutine p has left if nobody comes in between.
CallLeft(p) == StepsAt(where[p], at[p], oldBits[p], val[at[p]])

\* Another goroutine has swapped in its average of the endpoint that p updates.
Overtaken(p) ==
  \E q \in Caller \ {p} : where[q] = "swap" /\ where'[q] = "idle" /\ at[q] = at[p]

\* Every step of a call, a failed swap too, brings it closer to its end, and
\* only somebody who has just ended an update of the same endpoint sets it back.
LockFree ==
  \A p \in Caller :
    /\ CallStep(p) => CallLeft(p)' \in 0 .. CallLeft(p) - 1
    /\ where[p] # "idle" /\ ~CallStep(p) =>
         CallLeft(p)' = CallLeft(p) \/ (where[p] = "swap" /\ Overtaken(p))

\* A call that is under way has steps left, at most as many as two loops over
\* the endpoints take.
CallIsBounded ==
  \A p \in Caller : where[p] # "idle" => CallLeft(p) \in 1 .. 3 * N + 8

\* The steps left, label by label.
LEMMA StepsAtFacts ==
  ASSUME NEW n, NEW o, NEW v
  PROVE  /\ StepsAt("hasData", n, o, v) = 3 * N + 9 - n
         /\ StepsAt("choose", n, o, v) = 2 * N + 7
         /\ StepsAt("scan", n, o, v) = 2 * N + 8 - 2 * n
         /\ StepsAt("value", n, o, v) = 2 * N + 7 - 2 * n
         /\ StepsAt("robin", n, o, v) = 6 /\ StepsAt("using", n, o, v) = 5
         /\ StepsAt("load", n, o, v) = 3 /\ StepsAt("idle", n, o, v) = 0
         /\ StepsAt("swap", n, o, v) = IF o = v THEN 2 ELSE 4
BY DEF StepsAt

\* A call under way has steps left.
LEMMA CallBounds ==
  ASSUME TypeInv, NEW p \in Caller, RangeInv(p), where[p] # "idle"
  PROVE  CallLeft(p) \in 1 .. 3 * N + 8
<1>1. PICK l, n, o, v : l = where[p] /\ n = at[p] /\ o = oldBits[p] /\ v = val[at[p]]
  OBVIOUS
<1>2. CallLeft(p) = StepsAt(l, n, o, v)
  BY <1>1 DEF CallLeft
<1>3. /\ N \in Nat /\ n \in 1 .. N + 1 /\ l \in Label \ {"idle"}
      /\ (l = "value" => n \in 1 .. N)
  BY <1>1, NIsNat DEF TypeInv, RangeInv, Idx
<1>4. CASE l = "hasData"  BY <1>2, <1>3, <1>4, StepsAtFacts
<1>5. CASE l = "choose"   BY <1>2, <1>3, <1>5, StepsAtFacts
<1>6. CASE l = "scan"     BY <1>2, <1>3, <1>6, StepsAtFacts
<1>7. CASE l = "value"    BY <1>2, <1>3, <1>7, StepsAtFacts
<1>8. CASE l \in {"robin", "using", "load"}
  BY <1>2, <1>3, <1>8, StepsAtFacts
<1>9. CASE l = "swap"     BY <1>2, <1>3, <1>9, StepsAtFacts
<1> QED  BY <1>3, <1>4, <1>5, <1>6, <1>7, <1>8, <1>9 DEF Label

\* Every step of a call shortens it.
LEMMA StepShortensCall ==
  ASSUME IInv, NEW p \in Caller, CallStep(p)
  PROVE  CallLeft(p)' \in 0 .. CallLeft(p) - 1
<1>0. TypeInv /\ RangeInv(p)
  BY DEF IInv, CallInv
<1>1. PICK l, n, o, v : l = where[p] /\ n = at[p] /\ o = oldBits[p] /\ v = val[at[p]]
  OBVIOUS
<1>2. PICK m, j, r, w : m = where'[p] /\ j = at'[p] /\ r = oldBits'[p] /\ w = val'[at'[p]]
  OBVIOUS
<1>3. CallLeft(p) = StepsAt(l, n, o, v) /\ CallLeft(p)' = StepsAt(m, j, r, w)
  BY <1>1, <1>2 DEF CallLeft
<1>4. N \in Nat /\ n \in 1 .. N + 1 /\ (l = "value" => n \in 1 .. N)
  BY <1>0, <1>1, NIsNat DEF TypeInv, RangeInv, Idx
<1> USE DEF Goto, Return, TypeInv
<1>5. CASE HasData(p)
  <2>1. \/ l = "hasData" /\ m \in {"robin", "choose"}
        \/ l = "hasData" /\ m = "hasData" /\ j = n + 1 /\ n <= N
    BY <1>0, <1>1, <1>2, <1>4, <1>5 DEF HasData
  <2>2. StepsAt(l, n, o, v) = 3 * N + 9 - n
    BY <2>1, StepsAtFacts
  <2>3. CASE m \in {"robin", "choose"}
    BY <1>3, <1>4, <2>2, <2>3, StepsAtFacts
  <2>4. CASE m = "hasData" /\ j = n + 1 /\ n <= N
    BY <1>3, <1>4, <2>2, <2>4, StepsAtFacts
  <2> QED  BY <2>1, <2>3, <2>4
<1>6. CASE RoundRobin(p)
  <2>1. l = "robin" /\ m = "using"
    BY <1>0, <1>1, <1>2, <1>6 DEF RoundRobin
  <2> QED  BY <1>3, <2>1, StepsAtFacts
<1>7. CASE Explore(p) \/ StartScan(p)
  <2>1. l = "choose" /\ (m = "using" \/ (m = "scan" /\ j = 1))
    BY <1>0, <1>1, <1>2, <1>7 DEF Explore, StartScan
  <2>2. StepsAt(l, n, o, v) = 2 * N + 7
    BY <2>1, StepsAtFacts
  <2>3. StepsAt(m, j, r, w) \in {5, 2 * N + 6}
    BY <1>4, <2>1, StepsAtFacts
  <2> QED  BY <1>3, <1>4, <2>2, <2>3
<1>8. CASE ScanCount(p)
  <2>1. l = "scan" /\ (m = "using" \/ (m = "value" /\ j = n))
    BY <1>0, <1>1, <1>2, <1>8 DEF ScanCount
  <2>2. StepsAt(l, n, o, v) = 2 * N + 8 - 2 * n
    BY <2>1, StepsAtFacts
  <2>3. \/ StepsAt(m, j, r, w) = 5
        \/ StepsAt(m, j, r, w) = 2 * N + 7 - 2 * n /\ n <= N
    BY <1>0, <1>1, <1>2, <1>4, <1>8, <2>1, StepsAtFacts DEF ScanCount
  <2> QED  BY <1>3, <1>4, <2>2, <2>3
<1>9. CASE ScanValue(p)
  <2>1. l = "value" /\ m = "scan" /\ j = n + 1
    BY <1>0, <1>1, <1>2, <1>4, <1>9 DEF ScanValue
  <2>2. StepsAt(l, n, o, v) = 2 * N + 7 - 2 * n
    BY <2>1, StepsAtFacts
  <2>3. StepsAt(m, j, r, w) = 2 * N + 8 - 2 * (n + 1)
    BY <2>1, StepsAtFacts
  <2> QED  BY <1>3, <1>4, <2>1, <2>2, <2>3
<1>10. CASE GiveUp(p) \/ \E s \in Sample : RecordLatency(p, s)
  <2>1. l = "using" /\ m \in {"idle", "load"}
    BY <1>0, <1>1, <1>2, <1>10 DEF GiveUp, RecordLatency
  <2> QED  BY <1>3, <2>1, StepsAtFacts
<1>11. CASE UpdateLoad(p)
  <2>1. l = "load" /\ m = "swap" /\ r = w
    BY <1>0, <1>1, <1>2, <1>11 DEF UpdateLoad, stats
  <2> QED  BY <1>3, <2>1, StepsAtFacts
<1>12. CASE UpdateSwap(p)
  <2>1. l = "swap" /\ (m = "idle" \/ (m = "load" /\ o # v))
    BY <1>0, <1>1, <1>2, <1>12 DEF UpdateSwap
  <2> QED  BY <1>3, <2>1, StepsAtFacts
<1> QED  BY <1>5, <1>6, <1>7, <1>8, <1>9, <1>10, <1>11, <1>12 DEF CallStep

\* Another goroutine touches a call only by a swap that succeeds.
LEMMA OthersKeepCall ==
  ASSUME TypeInv, NEW p \in Caller, RangeInv(p), NEW q \in Caller \ {p},
         NextCall(q) \/ CallStep(q)
  PROVE  CallLeft(p)' = CallLeft(p) \/ (where[p] = "swap" /\ Overtaken(p))
<1> USE DEF Goto, Return
<1>1. where'[p] = where[p] /\ at'[p] = at[p] /\ oldBits'[p] = oldBits[p]
  <2>1. CASE NextCall(q) \/ HasData(q) \/ RoundRobin(q) \/ Explore(q) \/ StartScan(q)
    BY <2>1 DEF NextCall, HasData, RoundRobin, Explore, StartScan, TypeInv
  <2>2. CASE ScanCount(q) \/ ScanValue(q) \/ UpdateLoad(q) \/ UpdateSwap(q) \/ GiveUp(q)
    BY <2>2 DEF ScanCount, ScanValue, UpdateLoad, UpdateSwap, GiveUp, TypeInv
  <2>3. CASE \E s \in Sample : RecordLatency(q, s)
    BY <2>3 DEF RecordLatency, TypeInv
  <2> QED  BY <2>1, <2>2, <2>3 DEF CallStep
<1>2. CASE val' = val
  BY <1>1, <1>2 DEF CallLeft
<1>3. CASE UpdateSwap(q) /\ val' # val
  <2>1. /\ where[q] = "swap" /\ where'[q] = "idle"
        /\ val' = [val EXCEPT ![at[q]] = Blend(oldBits[q], sample[q])]
    BY <1>3 DEF UpdateSwap, TypeInv
  <2>2. CASE where[p] = "swap"
    <3>1. CASE at[q] = at[p]
      BY <2>1, <2>2, <3>1 DEF Overtaken
    <3>2. CASE at[q] # at[p]
      <4>1. val'[at[p]] = val[at[p]]
        BY <2>1, <2>2, <3>2 DEF TypeInv, RangeInv
      <4> QED  BY <1>1, <4>1 DEF CallLeft
    <3> QED  BY <3>1, <3>2
  <2>3. CASE where[p] # "swap"
    <3>1. PICK l, n, o, v, w : /\ l = where[p] /\ n = at[p] /\ o = oldBits[p]
                               /\ v = val[at[p]] /\ w = val'[at[p]]
      OBVIOUS
    <3>2. StepsAt(l, n, o, v) = StepsAt(l, n, o, w)
      BY <2>3, <3>1 DEF StepsAt
    <3> QED  BY <1>1, <3>1, <3>2 DEF CallLeft
  <2> QED  BY <2>2, <2>3
<1>4. val' = val \/ UpdateSwap(q)
  BY DEF NextCall, CallStep, HasData, RoundRobin, Explore, StartScan, ScanCount, ScanValue,
     UpdateLoad, GiveUp, RecordLatency, stats
<1> QED  BY <1>2, <1>3, <1>4

\* For any number of endpoints and goroutines the lock-free averages make
\* progress: a call of Next and RecordLatency takes at most 3 N + 8 steps and two
\* more for each update of the same endpoint that another goroutine has ended in
\* between, so a swap fails only because somebody else's succeeded (the safety
\* half of CallsEnd).
THEOREM CallsAreLockFree == BalancerSpec => []CallIsBounded /\ [][LockFree]_balancerVars
<1>1. IInv => CallIsBounded
  BY CallBounds DEF IInv, CallInv, CallIsBounded
<1>2. IInv /\ BalancerNext => LockFree
  <2> SUFFICES ASSUME IInv, BalancerNext
               PROVE  LockFree
    OBVIOUS
  <2>1. PICK q \in Caller : NextCall(q) \/ CallStep(q)
    BY DEF BalancerNext
  <2> SUFFICES ASSUME NEW p \in Caller
               PROVE  /\ CallStep(p) => CallLeft(p)' \in 0 .. CallLeft(p) - 1
                      /\ where[p] # "idle" /\ ~CallStep(p) =>
                           \/ CallLeft(p)' = CallLeft(p)
                           \/ where[p] = "swap" /\ Overtaken(p)
    BY DEF LockFree
  <2>2. CallStep(p) => CallLeft(p)' \in 0 .. CallLeft(p) - 1
    BY StepShortensCall
  <2>3. ASSUME where[p] # "idle", ~CallStep(p)
        PROVE  CallLeft(p)' = CallLeft(p) \/ (where[p] = "swap" /\ Overtaken(p))
    <3>1. q # p
      BY <2>1, <2>3 DEF NextCall
    <3> QED  BY <2>1, <3>1, OthersKeepCall DEF IInv, CallInv
  <2> QED  BY <2>2, <2>3
<1> QED  BY <1>1, <1>2, Invariance, PTL DEF BalancerSpec

-----------------------------------------------------------------------------
(* The health checker.                                                     *)

Status == {"none", "up", "down"}

\* Outages and their ends alternate in the log e.
Alternates(e) ==
  \A k \in 1 .. Len(e) - 1 : e[k] = "recovered" <=> e[k + 1] # "recovered"

\* The log e tells the status s, and is empty before the first check.
Tells(s, e) ==
  /\ e \in Seq({"unreachable", "down", "recovered"}) /\ s \in Status
  /\ s = "none" => e = << >>
  /\ s = "down" <=> e # << >> /\ e[Len(e)] # "recovered"
  /\ Alternates(e)

\* While the line about a stored status is still to be written (prev is set) the
\* log tells of that endpoint what it was before.
HealthInv ==
  /\ found \in Status /\ (found # "none" => phase = "round")
  /\ statuses \in [Name -> Status]
  /\ events \in [Name -> Seq({"unreachable", "down", "recovered"})]
  /\ prev # "unset" => found \in {"up", "down"}
  /\ \A n \in Name : IF prev # "unset" /\ n = Checks[check]
                       THEN Tells(prev, events[n]) /\ statuses[n] = found
                       ELSE Tells(statuses[n], events[n])

\* One more event of the other sort keeps the alternation.
LEMMA AlternatesMore ==
  ASSUME NEW e \in Seq({"unreachable", "down", "recovered"}), Alternates(e),
         NEW x \in {"unreachable", "down", "recovered"},
         e # << >> => (e[Len(e)] = "recovered" <=> x # "recovered")
  PROVE  /\ Append(e, x) \in Seq({"unreachable", "down", "recovered"})
         /\ Append(e, x) # << >> /\ Append(e, x)[Len(Append(e, x))] = x
         /\ Alternates(Append(e, x))
<1>1. /\ Append(e, x) \in Seq({"unreachable", "down", "recovered"})
      /\ Len(Append(e, x)) = Len(e) + 1 /\ Append(e, x)[Len(e) + 1] = x
      /\ \A k \in 1 .. Len(e) : Append(e, x)[k] = e[k]
  OBVIOUS
<1>2. Len(e) \in Nat /\ (Len(e) > 0 => e # << >>)
  OBVIOUS
<1>3. PICK f : f = Append(e, x)
  OBVIOUS
<1>4. ASSUME NEW k \in 1 .. Len(f) - 1
      PROVE  f[k] = "recovered" <=> f[k + 1] # "recovered"
  <2>1. k \in 1 .. Len(e) /\ Len(f) = Len(e) + 1
    BY <1>1, <1>2, <1>3, <1>4
  <2>2. CASE k = Len(e)
    BY <1>1, <1>2, <1>3, <2>1, <2>2
  <2>3. CASE k # Len(e)
    <3>1. k \in 1 .. Len(e) - 1 /\ k + 1 \in 1 .. Len(e)
      BY <1>2, <2>1, <2>3
    <3> QED  BY <1>1, <1>3, <2>1, <3>1 DEF Alternates
  <2> QED  BY <2>2, <2>3
<1>5. Alternates(f)
  BY <1>4 DEF Alternates
<1>6. Append(e, x) # << >>
  <2>1. Len(<< >>) = 0
    OBVIOUS
  <2> QED  BY <1>1, <1>2, <2>1
<1> QED  BY <1>1, <1>3, <1>5, <1>6

\* What is logged for a result tells it.
LEMMA TellsMore ==
  ASSUME NEW e, Tells(prev, e), found \in {"up", "down"}
  PROVE  Tells(found, e \o Event)
<1>1. /\ e \in Seq({"unreachable", "down", "recovered"}) /\ prev \in Status
      /\ Alternates(e) /\ (prev = "none" => e = << >>)
      /\ (prev = "down" <=> e # << >> /\ e[Len(e)] # "recovered")
  BY DEF Tells
<1>2. CASE Event = << >>
  <2>1. e \o << >> = e
    BY <1>1
  <2>2. Tells(found, e)
    BY <1>1, <1>2 DEF Tells, Event, Status
  <2> QED  BY <1>2, <2>1, <2>2
<1>3. CASE Event # << >>
  <2>1. PICK x \in {"unreachable", "down", "recovered"} :
          /\ Event = <<x>>
          /\ x = "recovered" <=> found = "up"
          /\ x = "recovered" <=> prev = "down"
    BY <1>1, <1>3 DEF Event, Status
  <2>2. e \o <<x>> = Append(e, x)
    BY <1>1
  <2>3. /\ Append(e, x) \in Seq({"unreachable", "down", "recovered"})
        /\ Append(e, x) # << >> /\ Append(e, x)[Len(Append(e, x))] = x
        /\ Alternates(Append(e, x))
    BY <1>1, <2>1, AlternatesMore
  <2>4. Tells(found, Append(e, x))
    BY <2>1, <2>3 DEF Tells, Status
  <2> QED  BY <2>1, <2>2, <2>4
<1> QED  BY <1>2, <1>3

\* A status is stored: the log is one line behind.
LEMMA StoreKeeps ==
  ASSUME HealthInv, Store
  PROVE  HealthInv'
<1>1. PICK m : m = Checks[check]
  OBVIOUS
<1>2. /\ found \in {"up", "down"} /\ prev = "unset" /\ prev' = statuses[m]
      /\ statuses' = [statuses EXCEPT ![m] = found]
      /\ UNCHANGED <<found, check, events>> /\ m = Checks[check]'
  BY <1>1 DEF Store, HealthInv, Status, Checks
<1>3. CASE m \in Name
  <2>1. prev' # "unset" /\ phase' = "round"
    BY <1>2, <1>3 DEF HealthInv, Status, Store
  <2>2. /\ statuses' \in [Name -> Status] /\ statuses'[m] = found
        /\ \A n \in Name \ {m} : statuses'[n] = statuses[n]
    BY <1>2, <1>3 DEF HealthInv, Status
  <2>3. \A n \in Name : Tells(statuses[n], events[n])
    BY <1>2 DEF HealthInv
  <2>4. \A n \in Name : IF n = m THEN Tells(prev', events'[n]) /\ statuses'[n] = found'
                                 ELSE Tells(statuses'[n], events'[n])
    BY <1>2, <2>2, <2>3
  <2> QED  BY <1>2, <2>1, <2>2, <2>4 DEF HealthInv
<1>4. CASE m \notin Name
  <2>1. statuses' = statuses /\ phase' = "round"
    BY <1>2, <1>4 DEF HealthInv, Store
  <2> QED  BY <1>2, <1>4, <2>1 DEF HealthInv
<1> QED  BY <1>3, <1>4

\* The line is written.
LEMMA LogKeeps ==
  ASSUME HealthInv, Log
  PROVE  HealthInv'
<1>1. PICK m : m = Checks[check]
  OBVIOUS
<1>2. /\ found \in {"up", "down"} /\ prev' = "unset"
      /\ found' = "none" /\ statuses' = statuses /\ prev # "unset"
      /\ events' = [events EXCEPT ![m] = @ \o Event]
  BY <1>1 DEF Log, HealthInv
<1>3. \A n \in Name : IF n = m THEN Tells(prev, events[n]) /\ statuses[n] = found
                               ELSE Tells(statuses[n], events[n])
  BY <1>1, <1>2 DEF HealthInv
<1>4. CASE m \in Name
  <2>1. PICK e : e = events[m] \o Event
    OBVIOUS
  <2>2. Tells(found, e) /\ statuses[m] = found
    BY <1>2, <1>3, <1>4, <2>1, TellsMore
  <2>3. events' = [events EXCEPT ![m] = e]
    BY <1>2, <1>4, <2>1 DEF HealthInv
  <2>4. e \in Seq({"unreachable", "down", "recovered"})
    BY <2>2 DEF Tells
  <2>5. /\ events' \in [Name -> Seq({"unreachable", "down", "recovered"})]
        /\ \A n \in Name : Tells(statuses'[n], events'[n])
    BY <1>2, <1>3, <2>2, <2>3, <2>4 DEF HealthInv
  <2> QED  BY <1>2, <2>5 DEF HealthInv, Status
<1>5. CASE m \notin Name
  <2>1. events' = events
    BY <1>2, <1>5 DEF HealthInv
  <2> QED  BY <1>2, <1>3, <1>5, <2>1 DEF HealthInv, Status
<1> QED  BY <1>4, <1>5

\* Only these two steps change what the log tells.
LEMMA HealthStep == HealthInv /\ [HealthNext]_healthVars => HealthInv'
<1> SUFFICES ASSUME HealthInv, [HealthNext]_healthVars
             PROVE  HealthInv'
  OBVIOUS
<1>1. CASE /\ UNCHANGED <<statuses, events, prev>>
           /\ \/ UNCHANGED <<found, check>>
              \/ prev = "unset" /\ found' \in {found, "up", "down"}
           /\ found' # "none" => phase' = "round"
  <2>1. CASE prev = "unset"
    BY <1>1, <2>1 DEF HealthInv, Status
  <2>2. CASE prev # "unset"
    <3>1. UNCHANGED <<found, check, Checks[check]>>
      BY <1>1, <2>2 DEF Checks
    <3> QED  BY <1>1, <2>2, <3>1 DEF HealthInv
  <2> QED  BY <2>1, <2>2
<1>2. \/ Store \/ Log
      \/ /\ UNCHANGED <<statuses, events, prev>>
         /\ \/ UNCHANGED <<found, check>>
            \/ prev = "unset" /\ found' \in {found, "up", "down"}
         /\ found' # "none" => phase' = "round"
  BY DEF HealthNext, Change, ChangeAnswers, Advance, TickerFires, Cancel, StartChecker,
         Check, Probe, PollHead, Wake, End, HealthInv, healthVars, healthNodes,
         healthRound, healthKnown
<1> QED  BY <1>1, <1>2, StoreKeeps, LogKeeps

\* For any backends and endpoints, whenever these come and go, the log tells the
\* status of every endpoint, or the one before while the line about a change is
\* still to be written, and outages and their ends alternate (checkAll reads the
\* previous status before it stores the new one).
THEOREM LogTellsStatusHolds == HealthSpec => []LogTellsStatus
<1>1. HealthInit => HealthInv
  <2> SUFFICES ASSUME HealthInit
               PROVE  HealthInv
    OBVIOUS
  <2>1. Tells("none", << >>)
    BY DEF Tells, Alternates, Status
  <2> QED  BY <2>1 DEF HealthInit, HealthInv, Status
<1>2. HealthInv => LogTellsStatus
  BY DEF HealthInv, Tells, Alternates, LogTellsStatus, ToldStatus, Last
<1> QED  BY <1>1, <1>2, HealthStep, PTL DEF HealthSpec
=============================================================================
