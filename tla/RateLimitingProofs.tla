------------------------- MODULE RateLimitingProofs -------------------------
(***************************************************************************)
(* What the rate limiters promise, for any tokens, rates, limits, windows  *)
(* and number of concurrent requests: AdmittedWithinRate of the one in     *)
(* memory, RefusedOnlyAtLimit and OvershootIsConcurrency of the one in     *)
(* Redis.                                                                  *)
(***************************************************************************)
EXTENDS RateLimiting, FiniteSetTheorems, TLAPS

-----------------------------------------------------------------------------
(* The limiter in memory.                                                  *)

Limiter == [rate : Nat \ {0}, level : Nat, last : Nat, made : Nat]

\* A request that has a positive rate and has not been answered.
Active == [pc : {"read", "create", "allow"}, token : Token, rate : Nat \ {0}, ref : Nat]

MemTypes ==
  /\ rate \in [Token -> Rate] /\ clock \in Nat
  /\ heap \in Seq(Limiter)
  /\ limiters \in [Name -> Nat] /\ admitted \in [Name -> Nat]
  /\ req \in [Proc -> {Idle} \cup Active]

\* Every name has a limiter of its own or none, and a request that is about to
\* ask one asks the one in the map.
RefInv ==
  /\ \A n \in Name : limiters[n] <= Len(heap)
  /\ \A m, n \in Name : limiters[m] # 0 /\ limiters[m] = limiters[n] => m = n
  /\ \A p \in Proc :
       req[p].pc = "allow" =>
         req[p].ref # 0 /\ req[p].ref = limiters[NameOf[req[p].token]]

\* What a limiter let through and what is left in its bucket came in with the
\* bucket or has flowed in up to its last use.
Balanced(l, a) ==
  /\ l.made <= l.last /\ l.last <= clock
  /\ Unit * a + l.level
       <= Unit * Burst(l.rate) + l.rate * TickSeconds * (l.last - l.made)

BucketInv ==
  \A n \in Name : IF limiters[n] = 0 THEN admitted[n] = 0
                                     ELSE Balanced(heap[limiters[n]], admitted[n])

MemInv == MemTypes /\ RefInv /\ BucketInv

\* Buckets hold a whole number of requests, at least one.
LEMMA BurstFacts == \A r \in Nat : Burst(r) \in Nat /\ Burst(r) > 0
BY DEF Burst

\* A limiter's rate, per tick.
LEMMA PerTick ==
  ASSUME NEW r \in Nat
  PROVE  r * TickSeconds \in Nat
<1>1. TickSeconds \in Nat
  BY LimiterAssumption
<1> QED  BY <1>1

\* What flows in during two spans is what flows in during both.
LEMMA Flow ==
  ASSUME NEW k \in Nat, NEW x \in Int, NEW y \in Int
  PROVE  /\ k * x \in Int
         /\ k * x + k * y = k * (x + y)
         /\ y >= 0 => k * y >= 0
OBVIOUS

\* The invariant bounds what a limiter has let through until now.
LEMMA BalancedBounds ==
  ASSUME NEW l \in Limiter, NEW a \in Nat, clock \in Nat, Balanced(l, a)
  PROVE  Unit * a <= Unit * Burst(l.rate) + l.rate * TickSeconds * (clock - l.made)
<1>1. /\ l.rate \in Nat /\ l.level \in Nat /\ l.last \in Nat /\ l.made \in Nat
      /\ l.made <= l.last /\ l.last <= clock
  BY DEF Limiter, Balanced
<1>2. PICK B \in Nat : B = Burst(l.rate)
  BY <1>1, BurstFacts
<1>3. PICK k \in Nat : k = l.rate * TickSeconds
  BY <1>1, PerTick
<1>4. PICK x \in Int, y \in Int : x = l.last - l.made /\ y = clock - l.last
  BY <1>1
<1>5. x + y = clock - l.made /\ y >= 0
  BY <1>1, <1>4
<1>6. PICK f \in Int, g \in Int, h \in Int : f = k * x /\ g = k * y /\ h = k * (x + y)
  BY Flow
<1>7. f + g = h /\ g >= 0
  BY <1>5, <1>6, Flow
<1>8. 60 * a + l.level <= 60 * B + f
  BY <1>2, <1>3, <1>4, <1>6 DEF Balanced, Unit
<1>9. 60 * a <= 60 * B + h
  BY <1>1, <1>7, <1>8
<1> QED  BY <1>2, <1>3, <1>5, <1>6, <1>9 DEF Unit

\* Taking a request out of the refilled bucket keeps the books.
LEMMA BalancedTake ==
  ASSUME NEW l \in Limiter, NEW a \in Nat, clock \in Nat, Balanced(l, a),
         Refill(l) >= Unit, NEW m,
         m = [l EXCEPT !.level = Refill(l) - Unit, !.last = clock]
  PROVE  m \in Limiter /\ Balanced(m, a + 1)
<1>1. /\ l.rate \in Nat \ {0} /\ l.level \in Nat /\ l.last \in Nat /\ l.made \in Nat
      /\ l.made <= l.last /\ l.last <= clock
  BY DEF Limiter, Balanced
<1>2. PICK B \in Nat : B = Burst(l.rate)
  BY <1>1, BurstFacts
<1>3. PICK k \in Nat : k = l.rate * TickSeconds
  <2>1. l.rate \in Nat
    BY <1>1
  <2> QED  BY <2>1, PerTick
<1>4. PICK x \in Int, y \in Int : /\ x = l.last - l.made /\ y = clock - l.last
                                  /\ x + y = clock - l.made /\ y >= 0
  <2>1. /\ l.last - l.made \in Int /\ clock - l.last \in Int /\ clock - l.last >= 0
        /\ (l.last - l.made) + (clock - l.last) = clock - l.made
    BY <1>1
  <2> QED  BY <2>1, Zenon
<1>5. x + y = clock - l.made /\ y >= 0
  BY <1>4
<1>6. PICK f \in Int, g \in Int, h \in Int : f = k * x /\ g = k * y /\ h = k * (x + y)
  BY Flow
<1>7. f + g = h /\ g >= 0
  BY <1>5, <1>6, Flow
<1>8. PICK w \in Int : w = Refill(l) /\ w <= l.level + g /\ w >= 60
  <2>1. l.level + g \in Int /\ 60 * B \in Int
    BY <1>1
  <2>2. Refill(l) = IF l.level + g > 60 * B THEN 60 * B ELSE l.level + g
    BY <1>2, <1>3, <1>4, <1>6 DEF Refill, Unit
  <2> QED  BY <2>1, <2>2 DEF Unit
<1>9. /\ m \in Limiter /\ m.rate = l.rate /\ m.made = l.made /\ m.last = clock
      /\ m.level = w - 60
  <2>1. m = [l EXCEPT !.level = w - 60, !.last = clock] /\ w - 60 \in Nat
    BY <1>8 DEF Unit
  <2> QED  BY <2>1 DEF Limiter
<1>10. 60 * a + l.level <= 60 * B + f
  BY <1>2, <1>3, <1>4, <1>6 DEF Balanced, Unit
<1>11. 60 * (a + 1) + (w - 60) <= 60 * B + h
  BY <1>1, <1>7, <1>8, <1>10
<1>12. Unit * (a + 1) + m.level <= Unit * Burst(m.rate)
                                    + m.rate * TickSeconds * (m.last - m.made)
  BY <1>2, <1>3, <1>5, <1>6, <1>9, <1>11 DEF Unit
<1> QED  BY <1>1, <1>9, <1>12 DEF Balanced

\* A new limiter has let nothing through.
LEMMA BalancedNew ==
  ASSUME clock \in Nat, NEW r \in Nat \ {0}
  PROVE  NewLimiter(r) \in Limiter /\ Balanced(NewLimiter(r), 0)
<1>1. PICK B \in Nat : B = Burst(r)
  BY BurstFacts
<1>2. PICK m : m = NewLimiter(r)
  OBVIOUS
<1>3. /\ m \in Limiter /\ m.rate = r /\ m.made = clock /\ m.last = clock
      /\ m.level = 60 * B
  BY <1>1, <1>2 DEF NewLimiter, Limiter, Unit
<1>4. PICK k \in Nat : k = r * TickSeconds
  BY PerTick
<1>5. k * (clock - clock) = 0
  OBVIOUS
<1>6. 60 * 0 + 60 * B <= 60 * B + k * (clock - clock)
  BY <1>5
<1> QED  BY <1>1, <1>2, <1>3, <1>4, <1>6 DEF Balanced, Unit

\* A request that is not idle is an active one.
LEMMA ActiveFacts ==
  ASSUME MemTypes, NEW p \in Proc, req[p].pc # "idle"
  PROVE  /\ req[p] \in Active /\ req[p].token \in Token
         /\ NameOf[req[p].token] \in Name /\ req[p].rate \in Nat \ {0}
<1>1. req[p] \in {Idle} \cup Active
  BY DEF MemTypes
<1>2. req[p] # Idle
  BY DEF Idle
<1>3. req[p] \in Active /\ req[p].token \in Token /\ req[p].rate \in Nat \ {0}
  BY <1>1, <1>2 DEF Active
<1> QED  BY <1>3, LimiterAssumption

\* Time passes: buckets are only filled when they are used.
LEMMA TickKeeps ==
  ASSUME MemInv, Tick
  PROVE  MemInv'
<1>1. MemTypes /\ RefInv /\ BucketInv
  BY DEF MemInv
<1>2. /\ clock \in Nat /\ clock' = clock + 1
      /\ UNCHANGED <<rate, heap, limiters, req, admitted>>
  BY <1>1 DEF Tick, MemTypes
<1>3. MemTypes' /\ RefInv'
  BY <1>1, <1>2 DEF MemTypes, RefInv
<1>4. ASSUME NEW n \in Name, limiters[n] # 0
      PROVE  Balanced(heap[limiters[n]], admitted[n])'
  <2>1. heap[limiters[n]] \in Limiter
    BY <1>1, <1>4 DEF MemTypes, RefInv
  <2>2. PICK l \in Limiter : l = heap[limiters[n]]
    BY <2>1
  <2>3. Balanced(l, admitted[n])
    BY <1>1, <1>4, <2>2 DEF BucketInv
  <2>4. l.last \in Nat /\ l.last <= clock + 1
    BY <1>2, <2>3 DEF Limiter, Balanced
  <2> QED  BY <1>2, <2>2, <2>3, <2>4 DEF Balanced
<1>5. BucketInv'
  BY <1>1, <1>2, <1>4 DEF BucketInv
<1> QED  BY <1>3, <1>5 DEF MemInv

\* A request arrives, or an administrator changes a rate: nothing that the
\* limiters know changes.
LEMMA ArriveKeeps ==
  ASSUME MemInv,
         \/ \E t \in Token, r \in Rate : SetRate(t, r)
         \/ \E p \in Proc, t \in Token : Arrive(p, t)
  PROVE  MemInv'
<1>1. MemTypes /\ RefInv /\ BucketInv
  BY DEF MemInv
<1>2. UNCHANGED <<clock, heap, limiters, admitted>>
  BY DEF SetRate, Arrive
<1>3. BucketInv'
  BY <1>1, <1>2 DEF BucketInv, Balanced
<1>4. ASSUME NEW t \in Token, NEW r \in Rate, SetRate(t, r)
      PROVE  MemTypes' /\ RefInv'
  <2>1. rate' \in [Token -> Rate] /\ req' = req
    BY <1>1, <1>4 DEF MemTypes, SetRate
  <2> QED  BY <1>1, <1>2, <2>1 DEF MemTypes, RefInv
<1>5. ASSUME NEW p \in Proc, NEW t \in Token, Arrive(p, t)
      PROVE  MemTypes' /\ RefInv'
  <2>1. rate[t] \in Nat \ {0}
    <3>1. rate[t] \in Int
      BY <1>1, LimiterAssumption DEF MemTypes
    <3> QED  BY <1>5, <3>1 DEF Arrive
  <2>2. PICK x \in Active : x.pc = "read" /\ req' = [req EXCEPT ![p] = x]
    <3>1. PICK x : x = [pc |-> "read", token |-> t, rate |-> rate[t], ref |-> 0]
      OBVIOUS
    <3>2. x \in Active /\ x.pc = "read"
      BY <2>1, <3>1 DEF Active
    <3> QED  BY <1>5, <3>1, <3>2 DEF Arrive
  <2>3. req' \in [Proc -> {Idle} \cup Active] /\ rate' = rate
    BY <1>1, <1>5, <2>2 DEF MemTypes, Arrive
  <2>4. \A s \in Proc : req'[s].pc = "allow" => req'[s] = req[s]
    BY <1>1, <2>2 DEF MemTypes
  <2> QED  BY <1>1, <1>2, <2>3, <2>4 DEF MemTypes, RefInv
<1> QED  BY <1>3, <1>4, <1>5 DEF MemInv

\* The look-up under RLock finds the limiter of the map or none.
LEMMA ReadKeeps ==
  ASSUME MemInv, NEW p \in Proc, ReadLimiter(p)
  PROVE  MemInv'
<1>1. MemTypes /\ RefInv /\ BucketInv
  BY DEF MemInv
<1>2. UNCHANGED <<rate, clock, heap, limiters, admitted>>
  BY DEF ReadLimiter
<1>3. BucketInv'
  BY <1>1, <1>2 DEF BucketInv, Balanced
<1>4. /\ req[p] \in Active /\ NameOf[req[p].token] \in Name
  BY <1>1, ActiveFacts DEF ReadLimiter
<1>5. PICK ref \in Nat : ref = limiters[NameOf[req[p].token]]
  BY <1>1, <1>4 DEF MemTypes
<1>6. PICK l \in {"create", "allow"} : l = IF ref = 0 THEN "create" ELSE "allow"
  OBVIOUS
<1>7. PICK x : x = [req[p] EXCEPT !.ref = ref, !.pc = l]
  OBVIOUS
<1>8. x \in Active /\ x.ref = ref /\ x.pc = l /\ x.token = req[p].token
  BY <1>4, <1>7 DEF Active
<1>9. req' = [req EXCEPT ![p] = x]
  BY <1>5, <1>6, <1>7 DEF ReadLimiter
<1>10. MemTypes'
  BY <1>1, <1>2, <1>8, <1>9 DEF MemTypes
<1>11. \A s \in Proc : req'[s].pc = "allow" =>
         req'[s].ref # 0 /\ req'[s].ref = limiters[NameOf[req'[s].token]]
  <2>1. req'[p] = x /\ \A s \in Proc \ {p} : req'[s] = req[s]
    BY <1>1, <1>9 DEF MemTypes
  <2> QED  BY <1>1, <1>5, <1>6, <1>8, <2>1 DEF RefInv
<1>12. RefInv'
  BY <1>1, <1>2, <1>11 DEF RefInv
<1> QED  BY <1>3, <1>10, <1>12 DEF MemInv

\* The second look under Lock: a limiter is made only for a name without one.
LEMMA CreateKeeps ==
  ASSUME MemInv, NEW p \in Proc, CreateLimiter(p)
  PROVE  MemInv'
<1>1. MemTypes /\ RefInv /\ BucketInv
  BY DEF MemInv
<1>2. UNCHANGED <<rate, clock, admitted>>
  BY DEF CreateLimiter
<1>3. req[p] \in Active /\ req[p].rate \in Nat \ {0}
  BY <1>1, ActiveFacts DEF CreateLimiter
<1>4. PICK n \in Name : n = NameOf[req[p].token]
  BY <1>1, ActiveFacts DEF CreateLimiter
<1>5. PICK h \in Nat : h = Len(heap)
  BY <1>1 DEF MemTypes
<1>6. \/ limiters[n] # 0 /\ UNCHANGED <<heap, limiters>>
      \/ /\ limiters[n] = 0
         /\ heap' = Append(heap, NewLimiter(req[p].rate))
         /\ limiters' = [limiters EXCEPT ![n] = h + 1]
  <2>1. ASSUME heap' = Append(heap, NewLimiter(req[p].rate))
        PROVE  Len(heap') = h + 1
    BY <1>1, <1>5, <2>1 DEF MemTypes
  <2> QED  BY <1>4, <2>1 DEF CreateLimiter
<1>7. /\ heap' \in Seq(Limiter) /\ limiters' \in [Name -> Nat] /\ limiters'[n] # 0
      /\ \A m \in Name : limiters'[m] <= Len(heap')
      /\ \A m \in Name \ {n} : limiters'[m] = limiters[m]
      /\ \A m, k \in Name : limiters'[m] # 0 /\ limiters'[m] = limiters'[k] => m = k
      /\ BucketInv'
  <2>1. CASE limiters[n] # 0 /\ UNCHANGED <<heap, limiters>>
    <3>1. BucketInv'
      BY <1>1, <1>2, <2>1 DEF BucketInv, Balanced
    <3> QED  BY <1>1, <2>1, <3>1 DEF MemTypes, RefInv
  <2>2. CASE /\ limiters[n] = 0
             /\ heap' = Append(heap, NewLimiter(req[p].rate))
             /\ limiters' = [limiters EXCEPT ![n] = h + 1]
    <3>1. PICK l \in Limiter : l = NewLimiter(req[p].rate) /\ Balanced(l, 0)
      BY <1>1, <1>3, BalancedNew DEF MemTypes
    <3>2. heap' = Append(heap, l)
      BY <2>2, <3>1
    <3>3. /\ heap' \in Seq(Limiter) /\ Len(heap') = h + 1 /\ heap'[h + 1] = l
          /\ \A k \in 1 .. h : heap'[k] = heap[k]
      BY <1>1, <1>5, <3>2 DEF MemTypes
    <3>4. /\ limiters' \in [Name -> Nat] /\ limiters'[n] = h + 1
          /\ \A m \in Name \ {n} : limiters'[m] = limiters[m]
      BY <1>1, <2>2 DEF MemTypes
    <3>5. \A m \in Name : limiters[m] \in 0 .. h
      BY <1>1, <1>5 DEF MemTypes, RefInv
    <3>6. \A m \in Name : limiters'[m] <= Len(heap')
      BY <3>3, <3>4, <3>5
    <3>7. \A m, k \in Name : limiters'[m] # 0 /\ limiters'[m] = limiters'[k] => m = k
      <4>1. \A m \in Name \ {n} : limiters'[m] # h + 1
        BY <3>4, <3>5
      <4> QED  BY <1>1, <3>4, <4>1 DEF RefInv
    <3>8. ASSUME NEW m \in Name
          PROVE  IF limiters'[m] = 0 THEN admitted'[m] = 0
                                     ELSE Balanced(heap[limiters[m]], admitted[m])'
      <4>1. CASE m = n
        <5>1. admitted'[m] = 0 /\ limiters'[m] # 0 /\ heap'[limiters'[m]] = l
          BY <1>1, <1>2, <2>2, <3>3, <3>4, <4>1 DEF BucketInv
        <5> QED  BY <1>2, <3>1, <5>1 DEF Balanced
      <4>2. CASE m # n
        <5>1. limiters'[m] = limiters[m] /\ admitted'[m] = admitted[m]
          BY <1>2, <3>4, <4>2
        <5>2. limiters[m] # 0 => heap'[limiters'[m]] = heap[limiters[m]]
          BY <3>3, <3>5, <5>1
        <5> QED  BY <1>1, <1>2, <5>1, <5>2 DEF BucketInv, Balanced
      <4> QED  BY <4>1, <4>2
    <3>9. BucketInv'
      BY <3>8 DEF BucketInv
    <3> QED  BY <3>3, <3>4, <3>6, <3>7, <3>9
  <2> QED  BY <1>6, <2>1, <2>2
<1>8. PICK ref \in Nat : ref = limiters'[n]
  BY <1>7
<1>9. PICK x : x = [req[p] EXCEPT !.pc = "allow", !.ref = ref]
  OBVIOUS
<1>10. x \in Active /\ x.ref = ref /\ x.token = req[p].token
  BY <1>3, <1>9 DEF Active
<1>11. req' = [req EXCEPT ![p] = x]
  BY <1>4, <1>8, <1>9 DEF CreateLimiter
<1>12. MemTypes'
  BY <1>1, <1>2, <1>7, <1>10, <1>11 DEF MemTypes
<1>13. ASSUME NEW s \in Proc, req'[s].pc = "allow"
       PROVE  req'[s].ref # 0 /\ req'[s].ref = limiters'[NameOf[req'[s].token]]
  <2>1. CASE s = p
    <3>1. req'[s] = x
      BY <1>1, <1>11, <2>1 DEF MemTypes
    <3> QED  BY <1>4, <1>7, <1>8, <1>10, <3>1
  <2>2. CASE s # p
    <3>1. req'[s] = req[s]
      BY <1>1, <1>11, <2>2 DEF MemTypes
    <3>2. /\ req[s].ref # 0 /\ req[s].ref = limiters[NameOf[req[s].token]]
          /\ NameOf[req[s].token] \in Name
      BY <1>1, <1>13, <3>1, ActiveFacts DEF RefInv
    <3>3. limiters'[NameOf[req[s].token]] = limiters[NameOf[req[s].token]]
      BY <1>6, <1>7, <3>2
    <3> QED  BY <3>1, <3>2, <3>3
  <2> QED  BY <2>1, <2>2
<1>14. RefInv'
  BY <1>7, <1>13 DEF RefInv
<1> QED  BY <1>7, <1>12, <1>14 DEF MemInv

\* The limiter takes a request out of its bucket, or refuses.
LEMMA AllowKeeps ==
  ASSUME MemInv, NEW p \in Proc, Allow(p)
  PROVE  MemInv'
<1>1. MemTypes /\ RefInv /\ BucketInv
  BY DEF MemInv
<1>2. UNCHANGED <<rate, clock, limiters>> /\ req' = [req EXCEPT ![p] = Idle]
  BY DEF Allow
<1>3. PICK n \in Name : n = NameOf[req[p].token]
  BY <1>1, ActiveFacts DEF Allow
<1>4. req[p].ref # 0 /\ req[p].ref = limiters[n]
  BY <1>1, <1>3 DEF RefInv, Allow
<1>5. PICK k \in 1 .. Len(heap) : k = limiters[n]
  BY <1>1, <1>4 DEF MemTypes, RefInv
<1>6. PICK l \in Limiter : l = heap[k]
  BY <1>1, <1>5 DEF MemTypes
<1>7. Balanced(l, admitted[n]) /\ admitted[n] \in Nat /\ clock \in Nat
  BY <1>1, <1>4, <1>5, <1>6 DEF BucketInv, MemTypes
<1>8. req' \in [Proc -> {Idle} \cup Active]
  BY <1>1, <1>2 DEF MemTypes
<1>9. \A s \in Proc : req'[s].pc = "allow" => req'[s] = req[s]
  BY <1>1, <1>2 DEF MemTypes, Idle
<1>10. CASE UNCHANGED <<heap, admitted>>
  <2>1. BucketInv'
    BY <1>1, <1>2, <1>10 DEF BucketInv, Balanced
  <2> QED  BY <1>1, <1>2, <1>8, <1>9, <1>10, <2>1 DEF MemInv, MemTypes, RefInv
<1>11. CASE /\ Refill(l) >= Unit
            /\ heap' = [heap EXCEPT ![k].level = Refill(l) - Unit, ![k].last = clock]
            /\ admitted' = [admitted EXCEPT ![n] = @ + 1]
  <2>1. PICK m : m = [l EXCEPT !.level = Refill(l) - Unit, !.last = clock]
    OBVIOUS
  <2>2. m \in Limiter /\ Balanced(m, admitted[n] + 1)
    BY <1>7, <1>11, <2>1, BalancedTake
  <2>3. heap' = [heap EXCEPT ![k] = m]
    BY <1>1, <1>5, <1>6, <1>11, <2>1 DEF MemTypes
  <2>4. /\ heap' \in Seq(Limiter) /\ Len(heap') = Len(heap) /\ heap'[k] = m
        /\ \A j \in 1 .. Len(heap) : j # k => heap'[j] = heap[j]
    BY <1>1, <1>5, <2>2, <2>3 DEF MemTypes
  <2>5. /\ admitted' \in [Name -> Nat] /\ admitted'[n] = admitted[n] + 1
        /\ \A j \in Name \ {n} : admitted'[j] = admitted[j]
    BY <1>1, <1>11 DEF MemTypes
  <2>6. MemTypes' /\ RefInv'
    BY <1>1, <1>2, <1>8, <1>9, <2>4, <2>5 DEF MemTypes, RefInv
  <2>7. ASSUME NEW j \in Name
        PROVE  IF limiters'[j] = 0 THEN admitted'[j] = 0
                                   ELSE Balanced(heap[limiters[j]], admitted[j])'
    <3>1. CASE j = n
      <4>1. limiters'[j] = k /\ limiters'[j] # 0
        BY <1>2, <1>4, <1>5, <3>1
      <4> QED  BY <1>2, <2>2, <2>4, <2>5, <3>1, <4>1 DEF Balanced
    <3>2. CASE j # n
      <4>1. limiters[j] \in 0 .. Len(heap) /\ (limiters[j] # 0 => limiters[j] # k)
        BY <1>1, <1>4, <1>5, <3>2 DEF MemTypes, RefInv
      <4>2. limiters[j] # 0 => heap'[limiters[j]] = heap[limiters[j]]
        BY <2>4, <4>1
      <4> QED  BY <1>1, <1>2, <2>5, <3>2, <4>2 DEF BucketInv, Balanced
    <3> QED  BY <3>1, <3>2
  <2>8. BucketInv'
    BY <2>7 DEF BucketInv
  <2> QED  BY <2>6, <2>8 DEF MemInv
<1> QED  BY <1>3, <1>4, <1>5, <1>6, <1>10, <1>11 DEF Allow

\* Every step of the limiter in memory keeps its invariant.
LEMMA MemStep == MemInv /\ [Next]_vars => MemInv'
<1>1. MemInv /\ UNCHANGED vars => MemInv'
  BY DEF vars, MemInv, MemTypes, RefInv, BucketInv, Balanced
<1> QED  BY <1>1, TickKeeps, ArriveKeeps, ReadKeeps, CreateKeeps, AllowKeeps DEF Next

-----------------------------------------------------------------------------
(* The limiter in Redis.                                                   *)

Stamps == Redis!Stamp

\* A call of Allow.
Allowing == [pc : {"idle", "zrem", "zcard", "zadd", "verdict", "refused"},
             now : Stamps, count : Nat, again : {0, 1}]

RedisTypes ==
  /\ millis \in Stamps /\ zset \subseteq Stamps
  /\ asked \in [Stamps -> Nat] /\ passed \in [Stamps -> Nat]
  /\ call \in [Client -> Allowing]

\* What a pipeline that is under way knows: nothing that it saw was outside its
\* window, and its own stamp, once added, is still there.
PipeInv(p) ==
  /\ call[p].pc \in {"zrem", "zcard", "zadd", "verdict"} =>
       /\ asked[call[p].now] > 0
       /\ call[p].now <= millis /\ millis - call[p].now <= MaxDelay
  /\ call[p].pc = "zcard" => \A t \in zset : t > call[p].now - Window
  /\ call[p].pc = "verdict" => call[p].now \in zset
  /\ call[p].pc = "refused" => Limit <= call[p].count

\* The set holds stamps of calls, and all stamps of the last window at which a
\* request was let through.
SetInv ==
  /\ \A t \in zset : asked[t] > 0
  /\ \A u \in Stamps : passed[u] > 0 /\ u > millis - Window => u \in zset

\* A call, of the calls c, that Redis will let through unless it fails.
Committed(c, p) == c[p].pc \in {"zadd", "verdict"} /\ c[p].count < Limit

\* The moments of the shortened window up to t at which a request has been let
\* through, by the counts a, or will be.
Sure(a, c, t) ==
  {u \in Stamps : /\ u > t - (Window - MaxDelay) /\ u <= t
                  /\ a[u] > 0 \/ \E p \in Client : Committed(c, p) /\ c[p].now = u}

SureInv ==
  \A t \in Stamps :
    Cardinality(Sure(passed, call, t)) <= Limit + Cardinality(Client) - 1

RedisInv ==
  /\ RedisTypes /\ SetInv /\ SureInv
  /\ \A p \in Client : PipeInv(p)

\* Sets of stamps are finite.
LEMMA StampSets ==
  ASSUME NEW S, S \subseteq Stamps
  PROVE  IsFiniteSet(S) /\ Cardinality(S) \in Nat
<1>1. Stamps = 0 .. MaxStamp
  BY DEF Stamps, Redis!Stamp
<1>2. IsFiniteSet(0 .. MaxStamp)
  BY RedisAssumption, FS_Interval
<1>3. IsFiniteSet(S)
  BY <1>1, <1>2, FS_Subset
<1> QED  BY <1>3, FS_CardinalityType

\* A set of stamps has no more members than one that contains it.
LEMMA StampSubsets ==
  ASSUME NEW S, NEW T, T \subseteq Stamps, S \subseteq T
  PROVE  /\ Cardinality(S) \in Nat /\ Cardinality(T) \in Nat
         /\ Cardinality(S) <= Cardinality(T)
<1>1. IsFiniteSet(T)
  BY StampSets
<1>2. Cardinality(S) <= Cardinality(T)
  BY <1>1, FS_Subset
<1>3. S \subseteq Stamps
  OBVIOUS
<1> QED  BY <1>2, <1>3, StampSets

\* Stamps are numbers, and the constants of the window too.
LEMMA WindowFacts ==
  /\ Stamps \subseteq Int /\ Window \in Nat /\ MaxDelay \in Nat /\ MaxDelay < Window
  /\ Limit \in Nat /\ Limit > 0 /\ Cardinality(Client) \in Nat
<1>1. Cardinality(Client) \in Nat
  BY RedisAssumption, FS_CardinalityType
<1> QED  BY <1>1, RedisAssumption DEF Stamps, Redis!Stamp

\* There are no more stamps of calls than calls.
LEMMA NowsBound ==
  ASSUME NEW c
  PROVE  /\ IsFiniteSet({c[p].now : p \in Client})
         /\ Cardinality({c[p].now : p \in Client}) <= Cardinality(Client)
<1> DEFINE T == {c[p].now : p \in Client}
           f == [p \in Client |-> c[p].now]
<1>1. f \in Surjection(Client, T)
  BY DEF Surjection
<1>2. IsFiniteSet(Client)
  BY RedisAssumption
<1> HIDE DEF T, f
<1>3. IsFiniteSet(T) /\ Cardinality(T) <= Cardinality(Client)
  BY <1>1, <1>2, FS_Surjection
<1> QED  BY <1>3 DEF T

\* A union has no more members than its parts together.
LEMMA UnionBound ==
  ASSUME NEW S, NEW T, IsFiniteSet(S), IsFiniteSet(T)
  PROVE  /\ IsFiniteSet(S \cup T)
         /\ Cardinality(S \cup T) <= Cardinality(S) + Cardinality(T)
<1>1. IsFiniteSet(S \cap T)
  BY FS_Subset
<1>2. /\ Cardinality(S) \in Nat /\ Cardinality(T) \in Nat
      /\ Cardinality(S \cap T) \in Nat
  BY <1>1, FS_CardinalityType
<1>3. /\ IsFiniteSet(S \cup T)
      /\ Cardinality(S \cup T) = Cardinality(S) + Cardinality(T) - Cardinality(S \cap T)
  BY FS_Union
<1> QED  BY <1>2, <1>3

\* What makes Sure no larger keeps its bound.
LEMMA SureKeeps ==
  ASSUME NEW a, NEW b, NEW c, NEW d,
         \A t \in Stamps : Sure(b, d, t) \subseteq Sure(a, c, t),
         \A t \in Stamps : Cardinality(Sure(a, c, t)) <= Limit + Cardinality(Client) - 1
  PROVE  \A t \in Stamps : Cardinality(Sure(b, d, t)) <= Limit + Cardinality(Client) - 1
<1> TAKE t \in Stamps
<1>1. Sure(a, c, t) \subseteq Stamps
  BY DEF Sure
<1>2. /\ Cardinality(Sure(b, d, t)) \in Nat /\ Cardinality(Sure(a, c, t)) \in Nat
      /\ Cardinality(Sure(b, d, t)) <= Cardinality(Sure(a, c, t))
  BY <1>1, StampSubsets
<1> QED  BY <1>2, WindowFacts

\* A call that ends, or starts over, makes nothing sure that was not.
LEMMA SureLess ==
  ASSUME NEW a, NEW c, NEW d, NEW p \in Client,
         \A q \in Client \ {p} : d[q] = c[q], ~Committed(d, p)
  PROVE  \A t \in Stamps : Sure(a, d, t) \subseteq Sure(a, c, t)
<1>1. \A q \in Client : Committed(d, q) => Committed(c, q) /\ d[q] = c[q]
  BY DEF Committed
<1> QED  BY <1>1 DEF Sure

\* Commands of other requests leave what a pipeline knows: they add only recent
\* stamps to the set and take only old ones out of it.
LEMMA OtherPipes ==
  ASSUME RedisInv, NEW q \in Client, call'[q] = call[q], millis' = millis,
         \A t \in Stamps : asked[t] > 0 => asked'[t] > 0,
         \A t \in zset' : t \in Stamps /\ (t \in zset \/ t > millis - Window),
         \A t \in zset : t > millis - Window => t \in zset'
  PROVE  PipeInv(q)'
<1>1. PipeInv(q) /\ RedisTypes
  BY DEF RedisInv
<1>2. /\ call[q] \in Allowing /\ call[q].now \in Stamps /\ call[q].now \in Int
      /\ call[q].count \in Nat /\ millis \in Int
  BY <1>1, WindowFacts DEF RedisTypes, Allowing
<1>3. PICK n \in Int : n = call[q].now
  BY <1>2
<1>4. n \in Stamps
  BY <1>2, <1>3
<1>5. ASSUME call[q].pc \in {"zrem", "zcard", "zadd", "verdict"}
      PROVE  /\ asked'[n] > 0 /\ n <= millis /\ millis - n <= MaxDelay
             /\ n > millis - Window
  <2>1. asked[n] > 0 /\ n <= millis /\ millis - n <= MaxDelay
    BY <1>1, <1>3, <1>5 DEF PipeInv
  <2> QED  BY <1>2, <1>4, <2>1, WindowFacts
<1>6. ASSUME call[q].pc = "zcard", NEW t \in zset'
      PROVE  t > n - Window
  <2>1. t \in Int
    BY <1>6, WindowFacts
  <2>2. CASE t \in zset
    BY <1>1, <1>3, <1>6, <2>2 DEF PipeInv
  <2>3. CASE t > millis - Window
    BY <1>2, <1>5, <1>6, <2>1, <2>3, WindowFacts
  <2> QED  BY <2>2, <2>3
<1>7. call[q].pc = "verdict" => n \in zset'
  BY <1>1, <1>3, <1>5 DEF PipeInv
<1>8. call[q].pc = "refused" => Limit <= call[q].count
  BY <1>1 DEF PipeInv
<1> QED  BY <1>3, <1>5, <1>6, <1>7, <1>8 DEF PipeInv

\* Time passes, but no call waits longer than MaxDelay.
LEMMA RedisTick ==
  ASSUME RedisInv, Redis!Tick
  PROVE  RedisInv'
<1>1. RedisTypes /\ SetInv /\ SureInv /\ \A p \in Client : PipeInv(p)
  BY DEF RedisInv
<1>2. /\ millis' = millis + 1 /\ UNCHANGED <<zset, call, asked, passed>>
      /\ millis < MaxStamp
  BY DEF Redis!Tick
<1>3. millis \in Int /\ millis' \in Stamps
  BY <1>1, <1>2, RedisAssumption DEF RedisTypes, Stamps, Redis!Stamp
<1>4. RedisTypes' /\ SureInv'
  BY <1>1, <1>2, <1>3 DEF RedisTypes, SureInv
<1>5. SetInv'
  <2>1. \A u \in Stamps : u > millis' - Window => u > millis - Window
    BY <1>2, <1>3, WindowFacts
  <2> QED  BY <1>1, <1>2, <2>1 DEF SetInv
<1>6. ASSUME NEW q \in Client
      PROVE  PipeInv(q)'
  <2>1. call[q].now \in Int
    BY <1>1, WindowFacts DEF RedisTypes, Allowing
  <2>2. ASSUME call[q].pc \in {"zrem", "zcard", "zadd", "verdict"}
        PROVE  call[q].now <= millis' /\ millis' - call[q].now <= MaxDelay
    <3>1. call[q].now <= millis
      BY <1>1, <2>2 DEF PipeInv
    <3>2. millis - call[q].now < MaxDelay
      BY <2>2 DEF Redis!Tick, Redis!InPipeline
    <3> QED  BY <1>2, <1>3, <2>1, <3>1, <3>2, WindowFacts
  <2>3. PipeInv(q)
    BY <1>1
  <2> QED  BY <1>2, <2>2, <2>3 DEF PipeInv
<1> QED  BY <1>4, <1>5, <1>6 DEF RedisInv

\* A request begins its call of Allow under the present stamp.
LEMMA RedisBegin ==
  ASSUME RedisInv, NEW p \in Client, Redis!Begin(p)
  PROVE  RedisInv'
<1>1. RedisTypes /\ SetInv /\ SureInv /\ \A q \in Client : PipeInv(q)
  BY DEF RedisInv
<1>2. UNCHANGED <<millis, zset, passed>> /\ millis \in Stamps /\ millis \in Int
  BY <1>1, WindowFacts DEF Redis!Begin, RedisTypes
<1>3. PICK x \in Allowing : /\ x.pc = "zrem" /\ x.now = millis
                            /\ call' = [call EXCEPT ![p] = x]
  <2>1. PICK x : x = [pc |-> "zrem", now |-> millis, count |-> 0, again |-> 0]
    OBVIOUS
  <2>2. x \in Allowing /\ x.pc = "zrem" /\ x.now = millis
    BY <1>2, <2>1 DEF Allowing
  <2> QED  BY <2>1, <2>2 DEF Redis!Begin
<1>4. /\ call' \in [Client -> Allowing] /\ call'[p] = x
      /\ \A q \in Client \ {p} : call'[q] = call[q]
  BY <1>1, <1>3 DEF RedisTypes
<1>5. /\ asked' \in [Stamps -> Nat] /\ asked'[millis] > 0
      /\ \A t \in Stamps : asked[t] > 0 => asked'[t] > 0
  <2>1. asked' = [asked EXCEPT ![millis] = @ + 1]
    BY DEF Redis!Begin
  <2> QED  BY <1>1, <1>2, <2>1 DEF RedisTypes
<1>6. RedisTypes' /\ SetInv'
  BY <1>1, <1>2, <1>4, <1>5 DEF RedisTypes, SetInv
<1>7. SureInv'
  <2>1. PICK a, c, d : a = passed /\ c = call /\ d = call'
    OBVIOUS
  <2>2. ~Committed(d, p)
    BY <1>3, <1>4, <2>1 DEF Committed
  <2>3. \A t \in Stamps : Sure(a, d, t) \subseteq Sure(a, c, t)
    BY <1>4, <2>1, <2>2, SureLess
  <2>4. \A t \in Stamps : Cardinality(Sure(a, c, t)) <= Limit + Cardinality(Client) - 1
    BY <1>1, <2>1 DEF SureInv
  <2>5. \A t \in Stamps : Cardinality(Sure(a, d, t)) <= Limit + Cardinality(Client) - 1
    BY <2>3, <2>4, SureKeeps
  <2> QED  BY <1>2, <2>1, <2>5 DEF SureInv
<1>8. ASSUME NEW q \in Client
      PROVE  PipeInv(q)'
  <2>1. CASE q = p
    <3>1. millis <= millis /\ millis - millis <= MaxDelay
      BY <1>2, WindowFacts
    <3> QED  BY <1>2, <1>3, <1>4, <1>5, <2>1, <3>1 DEF PipeInv
  <2>2. CASE q # p
    <3>1. \A t \in zset : t \in Stamps
      BY <1>1 DEF RedisTypes
    <3> QED  BY <1>2, <1>4, <1>5, <2>2, <3>1, OtherPipes
  <2> QED  BY <2>1, <2>2
<1> QED  BY <1>6, <1>7, <1>8 DEF RedisInv

\* A call that ends or is sent again: the set and the counts stay.
LEMMA RedisEnd ==
  ASSUME RedisInv, NEW p \in Client,
         Redis!Refuse(p) \/ Redis!Resend(p) \/ Redis!GiveUp(p)
  PROVE  RedisInv'
<1>1. RedisTypes /\ SetInv /\ SureInv /\ \A q \in Client : PipeInv(q)
  BY DEF RedisInv
<1>2. UNCHANGED <<millis, zset, asked, passed>>
  BY DEF Redis!Refuse, Redis!Resend, Redis!GiveUp
<1>3. PICK x \in Allowing :
        /\ \/ x.pc = "idle"
           \/ /\ x.pc = "zrem" /\ x.now = call[p].now
              /\ call[p].pc \in {"zrem", "zcard", "zadd", "verdict"}
        /\ call' = [call EXCEPT ![p] = x]
  <2>1. call[p] \in Allowing
    BY <1>1 DEF RedisTypes
  <2>2. CASE Redis!Refuse(p) \/ Redis!GiveUp(p)
    <3>1. Redis!Idle \in Allowing /\ Redis!Idle.pc = "idle"
      BY RedisAssumption DEF Redis!Idle, Allowing, Stamps, Redis!Stamp
    <3> QED  BY <2>2, <3>1 DEF Redis!Refuse, Redis!GiveUp
  <2>3. CASE Redis!Resend(p)
    <3>1. PICK x : x = [call[p] EXCEPT !.pc = "zrem", !.count = 0, !.again = 1]
      OBVIOUS
    <3>2. x \in Allowing /\ x.pc = "zrem" /\ x.now = call[p].now
      BY <2>1, <3>1 DEF Allowing
    <3>3. call' = [call EXCEPT ![p] = x]
      BY <1>1, <2>3, <3>1 DEF Redis!Resend, RedisTypes
    <3>4. call[p].pc \in {"zrem", "zcard", "zadd", "verdict"}
      BY <2>3 DEF Redis!Resend, Redis!InPipeline
    <3> QED  BY <3>2, <3>3, <3>4
  <2> QED  BY <2>2, <2>3
<1>4. /\ call' \in [Client -> Allowing] /\ call'[p] = x
      /\ \A q \in Client \ {p} : call'[q] = call[q]
  BY <1>1, <1>3 DEF RedisTypes
<1>5. RedisTypes' /\ SetInv'
  BY <1>1, <1>2, <1>4 DEF RedisTypes, SetInv
<1>6. SureInv'
  <2>1. PICK a, c, d : a = passed /\ c = call /\ d = call'
    OBVIOUS
  <2>2. ~Committed(d, p)
    BY <1>3, <1>4, <2>1 DEF Committed
  <2>3. \A t \in Stamps : Sure(a, d, t) \subseteq Sure(a, c, t)
    BY <1>4, <2>1, <2>2, SureLess
  <2>4. \A t \in Stamps : Cardinality(Sure(a, c, t)) <= Limit + Cardinality(Client) - 1
    BY <1>1, <2>1 DEF SureInv
  <2>5. \A t \in Stamps : Cardinality(Sure(a, d, t)) <= Limit + Cardinality(Client) - 1
    BY <2>3, <2>4, SureKeeps
  <2> QED  BY <1>2, <2>1, <2>5 DEF SureInv
<1>7. ASSUME NEW q \in Client
      PROVE  PipeInv(q)'
  <2>1. CASE q = p
    BY <1>1, <1>2, <1>3, <1>4, <2>1 DEF PipeInv
  <2>2. CASE q # p
    <3>1. \A t \in zset : t \in Stamps
      BY <1>1 DEF RedisTypes
    <3> QED  BY <1>2, <1>4, <2>2, <3>1, OtherPipes
  <2> QED  BY <2>1, <2>2
<1> QED  BY <1>5, <1>6, <1>7 DEF RedisInv

\* What a call knows of its own stamp while its pipeline runs.
LEMMA NowFacts ==
  ASSUME RedisInv, NEW p \in Client,
         call[p].pc \in {"zrem", "zcard", "zadd", "verdict"}
  PROVE  /\ call[p].now \in Stamps /\ call[p].now \in Int /\ millis \in Int
         /\ call[p].now <= millis /\ call[p].now >= millis - MaxDelay
         /\ call[p].now > millis - Window /\ asked[call[p].now] > 0
<1>1. RedisTypes /\ PipeInv(p)
  BY DEF RedisInv
<1>2. call[p].now \in Stamps /\ call[p].now \in Int /\ millis \in Int
  BY <1>1, WindowFacts DEF RedisTypes, Allowing
<1>3. /\ call[p].now <= millis /\ millis - call[p].now <= MaxDelay
      /\ asked[call[p].now] > 0
  BY <1>1 DEF PipeInv
<1> QED  BY <1>2, <1>3, WindowFacts

\* A step within the pipeline, or to the refusal, keeps stamp and count.
LEMMA GotoFacts ==
  ASSUME RedisTypes, NEW p \in Client, NEW l \in {"zcard", "verdict", "refused"},
         Redis!Goto(p, l)
  PROVE  /\ call' \in [Client -> Allowing] /\ call'[p].pc = l
         /\ call'[p].now = call[p].now /\ call'[p].count = call[p].count
         /\ call'[p].again = call[p].again
         /\ \A q \in Client \ {p} : call'[q] = call[q]
<1>1. call \in [Client -> Allowing] /\ call[p] \in Allowing
  BY DEF RedisTypes
<1>2. PICK x : x = [call[p] EXCEPT !.pc = l]
  OBVIOUS
<1>3. /\ x \in Allowing /\ x.pc = l /\ x.now = call[p].now
      /\ x.count = call[p].count /\ x.again = call[p].again
  BY <1>1, <1>2 DEF Allowing
<1>4. call' = [call EXCEPT ![p] = x]
  BY <1>1, <1>2 DEF Redis!Goto
<1> QED  BY <1>1, <1>3, <1>4

\* The instance counts as this module does.
LEMMA SameCardinality ==
  ASSUME NEW S
  PROVE  Redis!Cardinality(S) = Cardinality(S)
BY Zenon DEF Cardinality, Redis!Cardinality

\* A call that stays on its way, or is let through, makes nothing new sure.
LEMMA SureMoves ==
  ASSUME NEW a, NEW b, NEW c, NEW d,
         \A u \in Stamps :
           b[u] > 0 => a[u] > 0 \/ \E q \in Client : Committed(c, q) /\ c[q].now = u,
         \A q \in Client : Committed(d, q) => Committed(c, q) /\ d[q].now = c[q].now
  PROVE  \A t \in Stamps : Sure(b, d, t) \subseteq Sure(a, c, t)
BY DEF Sure

\* ZREMRANGEBYSCORE takes out what is older than the window of the call, and
\* that is older than the window of every call under way.
LEMMA RedisZrem ==
  ASSUME RedisInv, NEW p \in Client, Redis!Zrem(p)
  PROVE  RedisInv'
<1>1. RedisTypes /\ SetInv /\ SureInv /\ \A q \in Client : PipeInv(q)
  BY DEF RedisInv
<1>2. /\ UNCHANGED <<millis, asked, passed>> /\ call[p].pc = "zrem"
      /\ zset' = {t \in zset : t > call[p].now - Window}
  BY DEF Redis!Zrem, Redis!At
<1>3. call[p].now \in Int /\ millis \in Int /\ call[p].now <= millis
  BY <1>2, NowFacts
<1>4. /\ call' \in [Client -> Allowing] /\ call'[p].pc = "zcard"
      /\ call'[p].now = call[p].now /\ \A q \in Client \ {p} : call'[q] = call[q]
  BY <1>1, GotoFacts DEF Redis!Zrem
<1>5. /\ \A t \in zset : t > millis - Window => t \in zset'
      /\ zset' \subseteq zset /\ zset' \subseteq Stamps
  <2>1. PICK n \in Int : n = call[p].now
    BY <1>3
  <2>2. zset' = {t \in zset : t > n - Window} /\ n <= millis
    BY <1>2, <1>3, <2>1
  <2>3. ASSUME NEW t \in zset, t > millis - Window
        PROVE  t \in zset'
    <3>1. t \in Int
      BY <1>1, WindowFacts DEF RedisTypes
    <3>2. t > n - Window
      BY <1>3, <2>2, <2>3, <3>1, WindowFacts
    <3> QED  BY <2>2, <3>2
  <2>4. zset' \subseteq zset
    BY <2>2
  <2> QED  BY <1>1, <2>3, <2>4 DEF RedisTypes
<1>6. RedisTypes' /\ SetInv'
  BY <1>1, <1>2, <1>4, <1>5 DEF RedisTypes, SetInv
<1>7. SureInv'
  <2>1. PICK a, c, d : a = passed /\ c = call /\ d = call'
    OBVIOUS
  <2>2. ~Committed(d, p)
    BY <1>4, <2>1 DEF Committed
  <2>3. \A t \in Stamps : Sure(a, d, t) \subseteq Sure(a, c, t)
    BY <1>4, <2>1, <2>2, SureLess
  <2>4. \A t \in Stamps : Cardinality(Sure(a, c, t)) <= Limit + Cardinality(Client) - 1
    BY <1>1, <2>1 DEF SureInv
  <2>5. \A t \in Stamps : Cardinality(Sure(a, d, t)) <= Limit + Cardinality(Client) - 1
    BY <2>3, <2>4, SureKeeps
  <2> QED  BY <1>2, <2>1, <2>5 DEF SureInv
<1>8. ASSUME NEW q \in Client
      PROVE  PipeInv(q)'
  <2>1. CASE q = p
    BY <1>1, <1>2, <1>4, <2>1 DEF PipeInv
  <2>2. CASE q # p
    BY <1>2, <1>4, <1>5, <2>2, OtherPipes
  <2> QED  BY <2>1, <2>2
<1> QED  BY <1>6, <1>7, <1>8 DEF RedisInv

\* ZADD puts the call's own stamp into the set.
LEMMA RedisZadd ==
  ASSUME RedisInv, NEW p \in Client, Redis!Zadd(p)
  PROVE  RedisInv'
<1>1. RedisTypes /\ SetInv /\ SureInv /\ \A q \in Client : PipeInv(q)
  BY DEF RedisInv
<1>2. /\ UNCHANGED <<millis, asked, passed>> /\ call[p].pc = "zadd"
      /\ zset' = zset \cup {call[p].now}
  BY DEF Redis!Zadd, Redis!At
<1>3. /\ call[p].now \in Stamps /\ call[p].now > millis - Window
      /\ asked[call[p].now] > 0
  BY <1>2, NowFacts
<1>4. /\ call' \in [Client -> Allowing] /\ call'[p].pc = "verdict"
      /\ call'[p].now = call[p].now /\ call'[p].count = call[p].count
      /\ \A q \in Client \ {p} : call'[q] = call[q]
  BY <1>1, GotoFacts DEF Redis!Zadd
<1>5. RedisTypes' /\ SetInv'
  BY <1>1, <1>2, <1>3, <1>4 DEF RedisTypes, SetInv
<1>6. SureInv'
  <2>1. PICK a, c, d : a = passed /\ c = call /\ d = call'
    OBVIOUS
  <2>2. \A q \in Client : Committed(d, q) => Committed(c, q) /\ d[q].now = c[q].now
    BY <1>2, <1>4, <2>1 DEF Committed
  <2>3. \A t \in Stamps : Sure(a, d, t) \subseteq Sure(a, c, t)
    BY <2>2, SureMoves
  <2>4. \A t \in Stamps : Cardinality(Sure(a, c, t)) <= Limit + Cardinality(Client) - 1
    BY <1>1, <2>1 DEF SureInv
  <2>5. \A t \in Stamps : Cardinality(Sure(a, d, t)) <= Limit + Cardinality(Client) - 1
    BY <2>3, <2>4, SureKeeps
  <2> QED  BY <1>2, <2>1, <2>5 DEF SureInv
<1>7. ASSUME NEW q \in Client
      PROVE  PipeInv(q)'
  <2>1. CASE q = p
    BY <1>1, <1>2, <1>4, <2>1 DEF PipeInv
  <2>2. CASE q # p
    <3>1. \A t \in zset' : t \in Stamps /\ (t \in zset \/ t > millis - Window)
      BY <1>1, <1>2, <1>3 DEF RedisTypes
    <3> QED  BY <1>2, <1>4, <2>2, <3>1, OtherPipes
  <2> QED  BY <2>1, <2>2
<1> QED  BY <1>5, <1>6, <1>7 DEF RedisInv

\* ZCARD counts what is in the set: all of it is in the call's window, and it
\* has all the moments of the shortened window at which requests passed.
LEMMA RedisZcard ==
  ASSUME RedisInv, NEW p \in Client, Redis!Zcard(p)
  PROVE  RedisInv'
<1>1. RedisTypes /\ SetInv /\ SureInv /\ \A q \in Client : PipeInv(q)
  BY DEF RedisInv
<1>2. UNCHANGED <<millis, zset, asked, passed>> /\ call[p].pc = "zcard"
  BY DEF Redis!Zcard, Redis!At
<1>3. /\ call[p].now \in Int /\ millis \in Int /\ call[p].now >= millis - MaxDelay
      /\ call[p].now \in Stamps
  BY <1>2, NowFacts
<1>4. IsFiniteSet(zset) /\ Cardinality(zset) \in Nat
  BY <1>1, StampSets DEF RedisTypes
<1>5. PICK x \in Allowing : /\ x.pc = "zadd" /\ x.now = call[p].now
                            /\ x.count = Cardinality(zset)
                            /\ call' = [call EXCEPT ![p] = x]
  <2>1. call[p] \in Allowing
    BY <1>1 DEF RedisTypes
  <2>2. PICK k \in Nat : k = Cardinality(zset)
    BY <1>4
  <2>3. call' = [call EXCEPT ![p].pc = "zadd", ![p].count = k]
    BY <2>2, SameCardinality DEF Redis!Zcard
  <2>4. PICK x : x = [call[p] EXCEPT !.pc = "zadd", !.count = k]
    OBVIOUS
  <2>5. x \in Allowing /\ x.pc = "zadd" /\ x.now = call[p].now /\ x.count = k
    BY <2>1, <2>4 DEF Allowing
  <2>6. call' = [call EXCEPT ![p] = x]
    BY <1>1, <2>3, <2>4 DEF RedisTypes
  <2> QED  BY <2>2, <2>5, <2>6
<1>6. /\ call' \in [Client -> Allowing] /\ call'[p] = x
      /\ \A q \in Client \ {p} : call'[q] = call[q]
  BY <1>1, <1>5 DEF RedisTypes
<1>7. RedisTypes' /\ SetInv'
  BY <1>1, <1>2, <1>6 DEF RedisTypes, SetInv
<1>8. SureInv'
  <2>1. PICK a, c, d : a = passed /\ c = call /\ d = call'
    OBVIOUS
  <2>2. ASSUME NEW t \in Stamps
        PROVE  Cardinality(Sure(a, d, t)) <= Limit + Cardinality(Client) - 1
    <3>1. CASE Cardinality(zset) >= Limit \/ ~(call[p].now <= t)
      <4>1. Sure(a, d, t) \subseteq Sure(a, c, t)
        <5>1. \A q \in Client \ {p} : Committed(d, q) => Committed(c, q) /\ d[q] = c[q]
          BY <1>6, <2>1 DEF Committed
        <5>2. Committed(d, p) => ~(d[p].now <= t)
          <6>1. d[p] = x
            BY <1>6, <2>1
          <6> QED  BY <1>4, <1>5, <3>1, <6>1, WindowFacts DEF Committed
        <5> QED  BY <5>1, <5>2 DEF Sure
      <4>2. Sure(a, c, t) \subseteq Stamps
        BY DEF Sure
      <4>3. /\ Cardinality(Sure(a, d, t)) \in Nat /\ Cardinality(Sure(a, c, t)) \in Nat
            /\ Cardinality(Sure(a, d, t)) <= Cardinality(Sure(a, c, t))
        BY <4>1, <4>2, StampSubsets
      <4>4. Cardinality(Sure(a, c, t)) <= Limit + Cardinality(Client) - 1
        BY <1>1, <2>1 DEF SureInv
      <4> QED  BY <4>3, <4>4, WindowFacts
    <3>2. CASE Cardinality(zset) < Limit /\ call[p].now <= t
      <4> DEFINE T == {d[q].now : q \in Client}
      <4>1. Sure(a, d, t) \subseteq zset \cup T
        <5>1. ASSUME NEW u \in Stamps, u > t - (Window - MaxDelay), a[u] > 0
              PROVE  u \in zset
          <6>1. u \in Int /\ t \in Int
            BY <5>1, WindowFacts
          <6>2. u > millis - Window
            BY <1>3, <3>2, <5>1, <6>1, WindowFacts
          <6> QED  BY <1>1, <2>1, <5>1, <6>2 DEF SetInv
        <5> QED  BY <5>1 DEF Sure
      <4>2. IsFiniteSet(T) /\ Cardinality(T) <= Cardinality(Client)
        BY NowsBound
      <4> HIDE DEF T
      <4>3. /\ IsFiniteSet(zset \cup T)
            /\ Cardinality(zset \cup T) <= Cardinality(zset) + Cardinality(T)
        BY <1>4, <4>2, UnionBound
      <4>4. /\ Cardinality(Sure(a, d, t)) <= Cardinality(zset \cup T)
            /\ Cardinality(Sure(a, d, t)) \in Nat
        BY <4>1, <4>3, FS_Subset, FS_CardinalityType
      <4>5. Cardinality(T) \in Nat /\ Cardinality(zset \cup T) \in Nat
        BY <4>2, <4>3, FS_CardinalityType
      <4> QED  BY <1>4, <3>2, <4>2, <4>3, <4>4, <4>5, WindowFacts
    <3> QED  BY <1>3, <1>4, <3>1, <3>2, WindowFacts
  <2> QED  BY <1>2, <2>1, <2>2 DEF SureInv
<1>9. ASSUME NEW q \in Client
      PROVE  PipeInv(q)'
  <2>1. CASE q = p
    BY <1>1, <1>2, <1>5, <1>6, <2>1 DEF PipeInv
  <2>2. CASE q # p
    <3>1. \A t \in zset : t \in Stamps
      BY <1>1 DEF RedisTypes
    <3> QED  BY <1>2, <1>6, <2>2, <3>1, OtherPipes
  <2> QED  BY <2>1, <2>2
<1> QED  BY <1>7, <1>8, <1>9 DEF RedisInv

\* The answer: a request that Redis lets through was sure to be, and one that
\* is refused has counted up to the limit.
LEMMA RedisVerdict ==
  ASSUME RedisInv, NEW p \in Client, Redis!Verdict(p)
  PROVE  RedisInv'
<1>1. RedisTypes /\ SetInv /\ SureInv /\ \A q \in Client : PipeInv(q)
  BY DEF RedisInv
<1>2. UNCHANGED <<millis, zset, asked>> /\ call[p].pc = "verdict"
  BY DEF Redis!Verdict, Redis!At
<1>3. PICK n \in Stamps : n = call[p].now
  BY <1>2, NowFacts
<1>4. n \in zset /\ call[p].count \in Nat
  BY <1>1, <1>2, <1>3 DEF PipeInv, RedisTypes, Allowing
<1>5. \A t \in zset : t \in Stamps
  BY <1>1 DEF RedisTypes
<1>6. CASE /\ Redis!Allowed(p)
           /\ passed' = [passed EXCEPT ![call[p].now] = @ + 1]
           /\ call' = [call EXCEPT ![p] = Redis!Idle]
  <2>1. Redis!Idle \in Allowing /\ Redis!Idle.pc = "idle"
    BY RedisAssumption DEF Redis!Idle, Allowing, Stamps, Redis!Stamp
  <2>2. /\ call' \in [Client -> Allowing] /\ call'[p].pc = "idle"
        /\ \A q \in Client \ {p} : call'[q] = call[q]
    BY <1>1, <1>6, <2>1 DEF RedisTypes
  <2>3. /\ passed' \in [Stamps -> Nat]
        /\ \A u \in Stamps : passed'[u] > 0 => passed[u] > 0 \/ u = n
    <3>1. passed' = [passed EXCEPT ![n] = @ + 1]
      BY <1>3, <1>6
    <3> QED  BY <1>1, <1>3, <3>1 DEF RedisTypes
  <2>4. RedisTypes'
    BY <1>1, <1>2, <2>2, <2>3 DEF RedisTypes
  <2>5. SetInv'
    BY <1>1, <1>2, <1>4, <2>3 DEF SetInv
  <2>6. SureInv'
    <3>1. PICK a, b, c, d : a = passed /\ b = passed' /\ c = call /\ d = call'
      OBVIOUS
    <3>2. Committed(c, p) /\ c[p].now = n
      BY <1>2, <1>3, <1>6, <3>1 DEF Committed, Redis!Allowed
    <3>3. \A u \in Stamps :
            b[u] > 0 => a[u] > 0 \/ \E q \in Client : Committed(c, q) /\ c[q].now = u
      BY <2>3, <3>1, <3>2
    <3>4. \A q \in Client : Committed(d, q) => Committed(c, q) /\ d[q].now = c[q].now
      BY <2>2, <3>1 DEF Committed
    <3>5. \A t \in Stamps : Sure(b, d, t) \subseteq Sure(a, c, t)
      BY <3>3, <3>4, SureMoves
    <3>6. \A t \in Stamps :
            Cardinality(Sure(a, c, t)) <= Limit + Cardinality(Client) - 1
      BY <1>1, <3>1 DEF SureInv
    <3>7. \A t \in Stamps :
            Cardinality(Sure(b, d, t)) <= Limit + Cardinality(Client) - 1
      BY <3>5, <3>6, SureKeeps
    <3> QED  BY <3>1, <3>7 DEF SureInv
  <2>7. ASSUME NEW q \in Client
        PROVE  PipeInv(q)'
    <3>1. CASE q = p
      BY <2>2, <3>1 DEF PipeInv
    <3>2. CASE q # p
      BY <1>2, <1>5, <2>2, <3>2, OtherPipes
    <3> QED  BY <3>1, <3>2
  <2> QED  BY <2>4, <2>5, <2>6, <2>7 DEF RedisInv
<1>7. CASE ~Redis!Allowed(p) /\ Redis!Goto(p, "refused") /\ UNCHANGED passed
  <2>1. /\ call' \in [Client -> Allowing] /\ call'[p].pc = "refused"
        /\ call'[p].now = call[p].now /\ call'[p].count = call[p].count
        /\ \A q \in Client \ {p} : call'[q] = call[q]
    BY <1>1, <1>7, GotoFacts
  <2>2. RedisTypes' /\ SetInv'
    BY <1>1, <1>2, <1>7, <2>1 DEF RedisTypes, SetInv
  <2>3. SureInv'
    <3>1. PICK a, c, d : a = passed /\ c = call /\ d = call'
      OBVIOUS
    <3>2. ~Committed(d, p)
      BY <2>1, <3>1 DEF Committed
    <3>3. \A t \in Stamps : Sure(a, d, t) \subseteq Sure(a, c, t)
      BY <2>1, <3>1, <3>2, SureLess
    <3>4. \A t \in Stamps :
            Cardinality(Sure(a, c, t)) <= Limit + Cardinality(Client) - 1
      BY <1>1, <3>1 DEF SureInv
    <3>5. \A t \in Stamps :
            Cardinality(Sure(a, d, t)) <= Limit + Cardinality(Client) - 1
      BY <3>3, <3>4, SureKeeps
    <3> QED  BY <1>7, <3>1, <3>5 DEF SureInv
  <2>4. ASSUME NEW q \in Client
        PROVE  PipeInv(q)'
    <3>1. CASE q = p
      <4>1. Limit <= call[p].count
        BY <1>4, <1>7, WindowFacts DEF Redis!Allowed
      <4> QED  BY <1>2, <2>1, <3>1, <4>1 DEF PipeInv
    <3>2. CASE q # p
      BY <1>2, <1>5, <2>1, <3>2, OtherPipes
    <3> QED  BY <3>1, <3>2
  <2> QED  BY <2>2, <2>3, <2>4 DEF RedisInv
<1> QED  BY <1>6, <1>7 DEF Redis!Verdict

\* Every step of the limiter in Redis keeps its invariant.
LEMMA RedisStep == RedisInv /\ [Redis!Next]_redisVars => RedisInv'
<1>1. RedisInv /\ UNCHANGED redisVars => RedisInv'
  BY DEF redisVars, RedisInv, RedisTypes, SetInv, SureInv, PipeInv
<1> QED  BY <1>1, RedisTick, RedisBegin, RedisZrem, RedisZcard, RedisZadd,
            RedisVerdict, RedisEnd DEF Redis!Next

-----------------------------------------------------------------------------
(* A request does not count itself.                                        *)

Piped == {"zrem", "zcard", "zadd", "verdict"}

\* The moments of the window that ends at n at which, by the counts a, requests
\* other than one that is stamped n used the token.
Others(a, n) == {t \in Stamps : a[t] > (IF t = n THEN 1 ELSE 0) /\ t > n - Window}

\* Requests under way that share a stamp are two of its calls; so a request
\* that finds its own stamp in the set before it has added it is not the only
\* one of that moment, and what it has counted are the moments of others.
OwnInv ==
  /\ \A p, q \in Client :
       p # q /\ call[p].pc \in Piped /\ call[q].pc \in Piped
       /\ call[p].now = call[q].now => asked[call[p].now] > 1
  /\ \A p \in Client :
       call[p].pc \in {"zrem", "zcard"} /\ call[p].again = 0 /\ call[p].now \in zset =>
         asked[call[p].now] > 1
  /\ \A p \in Client :
       call[p].pc \in {"zadd", "verdict", "refused"} =>
         call[p].count <= Cardinality(Others(asked, call[p].now)) + call[p].again

\* A further call of Allow is a further use of its moment.
LEMMA OwnBegin ==
  ASSUME RedisInv, OwnInv, NEW p \in Client, Redis!Begin(p)
  PROVE  OwnInv'
<1>1. RedisTypes /\ SetInv /\ \A q \in Client : PipeInv(q)
  BY DEF RedisInv
<1>2. UNCHANGED <<zset, millis>> /\ millis \in Stamps
  BY <1>1 DEF Redis!Begin, RedisTypes
<1>3. /\ call'[p].pc = "zrem" /\ call'[p].now = millis
      /\ \A q \in Client \ {p} : call'[q] = call[q]
  <2>1. PICK x : /\ x = [pc |-> "zrem", now |-> millis, count |-> 0, again |-> 0]
                 /\ call' = [call EXCEPT ![p] = x]
    BY DEF Redis!Begin
  <2> QED  BY <1>1, <2>1 DEF RedisTypes
<1>4. /\ \A t \in Stamps : asked[t] \in Nat /\ asked'[t] \in Nat /\ asked'[t] >= asked[t]
      /\ asked'[millis] = asked[millis] + 1
  <2>1. asked' = [asked EXCEPT ![millis] = @ + 1]
    BY DEF Redis!Begin
  <2> QED  BY <1>1, <1>2, <2>1 DEF RedisTypes
<1>5. \A q \in Client : call[q].now \in Stamps
  BY <1>1 DEF RedisTypes, Allowing
<1>6. \A q \in Client : call[q].pc \in Piped => asked[call[q].now] > 0
  BY <1>1 DEF PipeInv, Piped
<1>7. ASSUME NEW q \in Client, NEW r \in Client, q # r, call'[q].pc \in Piped,
             call'[r].pc \in Piped, call'[q].now = call'[r].now
      PROVE  asked'[call'[q].now] > 1
  <2>1. CASE q # p /\ r # p
    <3>1. asked[call[q].now] > 1
      BY <1>3, <1>7, <2>1 DEF OwnInv
    <3> QED  BY <1>3, <1>4, <1>5, <2>1, <3>1
  <2>2. CASE q = p \/ r = p
    <3>1. PICK s \in Client \ {p} : /\ call[s].pc \in Piped /\ call[s].now = millis
                                   /\ call'[q].now = millis
      BY <1>3, <1>7, <2>2
    <3>2. asked[millis] > 0
      BY <1>6, <3>1
    <3> QED  BY <1>2, <1>4, <3>1, <3>2
  <2> QED  BY <2>1, <2>2
<1>8. ASSUME NEW q \in Client, call'[q].pc \in {"zrem", "zcard"},
             call'[q].again = 0, call'[q].now \in zset'
      PROVE  asked'[call'[q].now] > 1
  <2>1. CASE q = p
    <3>1. call'[q].now = millis /\ asked[millis] > 0
      BY <1>1, <1>2, <1>3, <1>8, <2>1 DEF SetInv
    <3> QED  BY <1>2, <1>4, <3>1
  <2>2. CASE q # p
    <3>1. asked[call[q].now] > 1 /\ call'[q] = call[q]
      BY <1>2, <1>3, <1>8, <2>2 DEF OwnInv
    <3> QED  BY <1>4, <1>5, <3>1
  <2> QED  BY <2>1, <2>2
<1>9. ASSUME NEW q \in Client, call'[q].pc \in {"zadd", "verdict", "refused"}
      PROVE  call'[q].count <= Cardinality(Others(asked', call'[q].now)) + call'[q].again
  <2>1. call'[q] = call[q]
    BY <1>3, <1>9
  <2>2. PICK a, b, n : a = asked /\ b = asked' /\ n = call[q].now
    OBVIOUS
  <2>3. Others(a, n) \subseteq Others(b, n) /\ Others(b, n) \subseteq Stamps
    BY <1>4, <2>2 DEF Others
  <2>4. /\ Cardinality(Others(a, n)) \in Nat /\ Cardinality(Others(b, n)) \in Nat
        /\ Cardinality(Others(a, n)) <= Cardinality(Others(b, n))
    BY <2>3, StampSubsets
  <2>5. call[q].count <= Cardinality(Others(a, n)) + call[q].again
    BY <1>9, <2>1, <2>2 DEF OwnInv
  <2>6. call[q].count \in Nat /\ call[q].again \in Nat
    BY <1>1 DEF RedisTypes, Allowing
  <2> QED  BY <2>1, <2>2, <2>4, <2>5, <2>6
<1> QED  BY <1>7, <1>8, <1>9 DEF OwnInv

\* A step of one request that starts no call: what it may add to the set is its
\* own stamp, once it has counted.
LEMMA OwnMoves ==
  ASSUME OwnInv, NEW p \in Client, asked' = asked,
         \A q \in Client \ {p} : call'[q] = call[q],
         call'[p].pc \in Piped => call[p].pc \in Piped /\ call'[p].now = call[p].now,
         call'[p].pc \in {"zrem", "zcard"} /\ call'[p].again = 0 =>
           call[p].pc \in {"zrem", "zcard"} /\ call[p].again = 0,
         \A t \in zset' : t \in zset \/ /\ call[p].pc = "zadd" /\ t = call[p].now
                                        /\ call'[p].pc = "verdict",
         call'[p].pc \in {"zadd", "verdict", "refused"} =>
           call'[p].count <= Cardinality(Others(asked, call'[p].now)) + call'[p].again
  PROVE  OwnInv'
<1>1. ASSUME NEW q \in Client, NEW r \in Client, q # r, call'[q].pc \in Piped,
             call'[r].pc \in Piped, call'[q].now = call'[r].now
      PROVE  asked'[call'[q].now] > 1
  <2>1. \A s \in {q, r} : call[s].pc \in Piped /\ call'[s].now = call[s].now
    BY <1>1
  <2> QED  BY <1>1, <2>1 DEF OwnInv
<1>2. ASSUME NEW q \in Client, call'[q].pc \in {"zrem", "zcard"},
             call'[q].again = 0, call'[q].now \in zset'
      PROVE  asked'[call'[q].now] > 1
  <2>1. /\ call[q].pc \in {"zrem", "zcard"} /\ call[q].again = 0
        /\ call'[q].now = call[q].now
    BY <1>2 DEF Piped
  <2>2. CASE call[q].now \in zset
    BY <2>1, <2>2 DEF OwnInv
  <2>3. CASE /\ call[p].pc = "zadd" /\ call[q].now = call[p].now
             /\ call'[p].pc = "verdict"
    <3>1. q # p /\ call[q].pc \in Piped /\ call[p].pc \in Piped
      BY <1>2, <2>3, <2>1 DEF Piped
    <3> QED  BY <2>1, <2>3, <3>1 DEF OwnInv
  <2> QED  BY <1>2, <2>1, <2>2, <2>3
<1>3. ASSUME NEW q \in Client, call'[q].pc \in {"zadd", "verdict", "refused"}
      PROVE  call'[q].count <= Cardinality(Others(asked', call'[q].now)) + call'[q].again
  <2>1. CASE q = p
    BY <1>3, <2>1
  <2>2. CASE q # p
    BY <1>3, <2>2 DEF OwnInv
  <2> QED  BY <2>1, <2>2
<1> QED  BY <1>1, <1>2, <1>3 DEF OwnInv

\* ZCARD: a pipeline sent for the first time counts the moments of others, one
\* that was sent again at most its own besides.
LEMMA OwnCounts ==
  ASSUME RedisInv, OwnInv, NEW p \in Client, call[p].pc = "zcard"
  PROVE  Cardinality(zset) <= Cardinality(Others(asked, call[p].now)) + call[p].again
<1>1. RedisTypes /\ SetInv /\ PipeInv(p)
  BY DEF RedisInv
<1>2. PICK a, z, n, k : /\ a = asked /\ z = zset /\ n = call[p].now /\ k = call[p].again
                        /\ n \in Stamps /\ k \in {0, 1}
  <2>1. call[p].now \in Stamps /\ call[p].again \in {0, 1}
    BY <1>1 DEF RedisTypes, Allowing
  <2> QED  BY <2>1, Zenon
<1>3. /\ \A t \in z : t \in Stamps /\ a[t] \in Nat /\ a[t] > 0 /\ t > n - Window
      /\ k = 0 /\ n \in z => a[n] > 1
  BY <1>1, <1>2 DEF RedisTypes, SetInv, PipeInv, OwnInv
<1>4. Others(a, n) \subseteq Stamps
  BY DEF Others
<1>5. IsFiniteSet(Others(a, n)) /\ Cardinality(Others(a, n)) \in Nat
  BY <1>4, StampSets
<1>6. CASE k = 0
  <2>1. z \subseteq Others(a, n)
    BY <1>3, <1>6 DEF Others
  <2>2. Cardinality(z) \in Nat /\ Cardinality(z) <= Cardinality(Others(a, n))
    BY <1>4, <2>1, StampSubsets
  <2> QED  BY <1>2, <1>5, <1>6, <2>2
<1>7. CASE k = 1
  <2>1. z \subseteq Others(a, n) \cup {n} /\ Others(a, n) \cup {n} \subseteq Stamps
    BY <1>2, <1>3, <1>4 DEF Others
  <2>2. /\ Cardinality(z) \in Nat /\ Cardinality(Others(a, n) \cup {n}) \in Nat
        /\ Cardinality(z) <= Cardinality(Others(a, n) \cup {n})
    BY <2>1, StampSubsets
  <2>3. IsFiniteSet({n}) /\ Cardinality({n}) = 1
    BY FS_Singleton
  <2>4. Cardinality(Others(a, n) \cup {n}) <= Cardinality(Others(a, n)) + 1
    BY <1>5, <2>3, UnionBound
  <2> QED  BY <1>2, <1>5, <1>7, <2>2, <2>4
<1> QED  BY <1>2, <1>6, <1>7

\* Every step keeps it.
LEMMA OwnStep == RedisInv /\ OwnInv /\ [Redis!Next]_redisVars => OwnInv'
<1>1. RedisInv /\ OwnInv /\ UNCHANGED redisVars => OwnInv'
  BY DEF redisVars, OwnInv
<1>2. ASSUME RedisInv, OwnInv, Redis!Tick
      PROVE  OwnInv'
  BY <1>2 DEF Redis!Tick, OwnInv
<1>3. ASSUME RedisInv, OwnInv, NEW p \in Client,
             \/ Redis!Zrem(p) \/ Redis!Zcard(p) \/ Redis!Zadd(p) \/ Redis!Verdict(p)
             \/ Redis!Refuse(p) \/ Redis!Resend(p) \/ Redis!GiveUp(p)
      PROVE  OwnInv'
  <2>1. RedisTypes /\ call[p] \in Allowing /\ Redis!Idle.pc = "idle"
    BY <1>3 DEF RedisInv, RedisTypes, Redis!Idle
  <2>2. asked' = asked
    BY <1>3 DEF Redis!Zrem, Redis!Zcard, Redis!Zadd, Redis!Verdict, Redis!Refuse,
                Redis!Resend, Redis!GiveUp
  <2>3. call[p].pc \in {"zadd", "verdict", "refused"} =>
          call[p].count <= Cardinality(Others(asked, call[p].now)) + call[p].again
    BY <1>3 DEF OwnInv
  <2>4. CASE Redis!Zrem(p) \/ Redis!Zadd(p)
             \/ (Redis!Verdict(p) /\ ~Redis!Allowed(p))
    <3>1. PICK l \in {"zcard", "verdict", "refused"} :
            /\ Redis!Goto(p, l)
            /\ \/ l = "zcard" /\ call[p].pc = "zrem" /\ zset' \subseteq zset
               \/ l = "verdict" /\ call[p].pc = "zadd" /\ zset' = zset \cup {call[p].now}
               \/ l = "refused" /\ call[p].pc = "verdict" /\ zset' = zset
      BY <2>4 DEF Redis!Zrem, Redis!Zadd, Redis!Verdict, Redis!At
    <3>2. /\ call'[p].pc = l /\ call'[p].now = call[p].now
          /\ call'[p].count = call[p].count /\ call'[p].again = call[p].again
          /\ \A q \in Client \ {p} : call'[q] = call[q]
      BY <2>1, <3>1, GotoFacts
    <3> QED  BY <1>3, <2>2, <2>3, <3>1, <3>2, OwnMoves DEF Piped
  <2>5. CASE Redis!Zcard(p)
    <3>1. PICK k : k = Cardinality(zset)
      OBVIOUS
    <3>2. PICK x : x = [call[p] EXCEPT !.pc = "zadd", !.count = k]
      OBVIOUS
    <3>3. x.pc = "zadd" /\ x.now = call[p].now /\ x.count = k /\ x.again = call[p].again
      BY <2>1, <3>2 DEF Allowing
    <3>4. call' = [call EXCEPT ![p] = x] /\ zset' = zset /\ call[p].pc = "zcard"
      BY <2>1, <2>5, <3>1, <3>2, SameCardinality DEF Redis!Zcard, Redis!At, RedisTypes
    <3>5. call'[p] = x /\ \A q \in Client \ {p} : call'[q] = call[q]
      BY <2>1, <3>4 DEF RedisTypes
    <3>6. x.count <= Cardinality(Others(asked, x.now)) + x.again
      BY <1>3, <3>1, <3>3, <3>4, OwnCounts
    <3> QED  BY <1>3, <2>2, <3>3, <3>4, <3>5, <3>6, OwnMoves DEF Piped
  <2>6. CASE Redis!Refuse(p) \/ Redis!GiveUp(p)
             \/ (Redis!Verdict(p) /\ Redis!Allowed(p))
    <3>1. call' = [call EXCEPT ![p] = Redis!Idle] /\ zset' = zset
      BY <2>6 DEF Redis!Refuse, Redis!GiveUp, Redis!Verdict
    <3>2. call'[p].pc = "idle" /\ \A q \in Client \ {p} : call'[q] = call[q]
      BY <2>1, <3>1 DEF RedisTypes
    <3> QED  BY <1>3, <2>2, <3>1, <3>2, OwnMoves DEF Piped
  <2>7. CASE Redis!Resend(p)
    <3>1. PICK x : x = [call[p] EXCEPT !.pc = "zrem", !.count = 0, !.again = 1]
      OBVIOUS
    <3>2. x.pc = "zrem" /\ x.now = call[p].now /\ x.again = 1
      BY <2>1, <3>1 DEF Allowing
    <3>3. call' = [call EXCEPT ![p] = x] /\ zset' = zset /\ call[p].pc \in Piped
      BY <2>1, <2>7, <3>1 DEF Redis!Resend, Redis!InPipeline, RedisTypes, Piped
    <3>4. call'[p] = x /\ \A q \in Client \ {p} : call'[q] = call[q]
      BY <2>1, <3>3 DEF RedisTypes
    <3> QED  BY <1>3, <2>2, <3>2, <3>3, <3>4, OwnMoves DEF Piped
  <2> QED  BY <1>3, <2>4, <2>5, <2>6, <2>7
<1> QED  BY <1>1, <1>2, <1>3, OwnBegin DEF Redis!Next

-----------------------------------------------------------------------------
(* Both, as main.go wires them.                                            *)

\* Before the first request.
LEMMA StartKeeps == Start => MemInv /\ RedisInv /\ OwnInv
<1> SUFFICES ASSUME Start
             PROVE  MemInv /\ RedisInv /\ OwnInv
  OBVIOUS
<1>1. Init /\ Redis!Init
  BY DEF Start
<1>2. MemInv
  <2>1. heap \in Seq(Limiter) /\ Len(heap) = 0
    BY <1>1 DEF Init
  <2>2. MemTypes
    BY <1>1, <2>1 DEF Init, MemTypes
  <2>3. RefInv
    <3>1. \A p \in Proc : req[p].pc = "idle"
      BY <1>1 DEF Init, Idle
    <3> QED  BY <1>1, <2>1, <3>1 DEF Init, RefInv
  <2> QED  BY <1>1, <2>2, <2>3 DEF Init, MemInv, BucketInv
<1>3. RedisInv
  <2>1. Redis!Idle \in Allowing /\ Redis!Idle.pc = "idle"
    BY RedisAssumption DEF Redis!Idle, Allowing, Stamps, Redis!Stamp
  <2>2. RedisTypes /\ \A p \in Client : call[p].pc = "idle"
    BY <1>1, <2>1, RedisAssumption DEF Redis!Init, RedisTypes, Stamps, Redis!Stamp
  <2>3. zset = {} /\ \A u \in Stamps : passed[u] = 0
    BY <1>1 DEF Redis!Init, Stamps
  <2>4. SetInv
    BY <2>3 DEF SetInv
  <2>5. \A p \in Client : PipeInv(p)
    BY <2>2 DEF PipeInv
  <2>6. ASSUME NEW t \in Stamps
        PROVE  Cardinality(Sure(passed, call, t)) <= Limit + Cardinality(Client) - 1
    <3>1. Sure(passed, call, t) = {}
      BY <2>2, <2>3 DEF Sure, Committed
    <3>2. Cardinality(Sure(passed, call, t)) = 0
      BY <3>1, FS_EmptySet
    <3> QED  BY <3>2, WindowFacts
  <2> QED  BY <2>2, <2>4, <2>5, <2>6 DEF RedisInv, SureInv
<1>4. OwnInv
  <2>1. \A p \in Client : call[p].pc = "idle"
    BY <1>1 DEF Redis!Init, Redis!Idle
  <2> QED  BY <2>1 DEF OwnInv, Piped
<1> QED  BY <1>2, <1>3, <1>4

\* The two limiters share nothing.
LEMMA ServeKeeps ==
  MemInv /\ RedisInv /\ OwnInv /\ [Serve]_<<redis, vars, redisVars>> =>
    MemInv' /\ RedisInv' /\ OwnInv'
<1>1. [Serve]_<<redis, vars, redisVars>> => [Next]_vars /\ [Redis!Next]_redisVars
  BY DEF Serve
<1> QED  BY <1>1, MemStep, RedisStep, OwnStep

\* The invariants hold as long as the proxy runs.
LEMMA InvariantsHold == Limiting => [](MemInv /\ RedisInv /\ OwnInv)
BY StartKeeps, ServeKeeps, PTL DEF Limiting

\* However many requests of a name race to create its limiter (GetLimiter's
\* double-checked locking), they are let through no faster than one limiter of
\* the rate it was made with allows.
THEOREM AdmittedWithinRateHolds == Limiting => []AdmittedWithinRate
<1>1. MemInv => AdmittedWithinRate
  <2> SUFFICES ASSUME MemInv, NEW n \in Name
               PROVE  IF limiters[n] = 0 THEN admitted[n] = 0
                      ELSE Unit * admitted[n]
                             <= Unit * Burst(heap[limiters[n]].rate)
                                  + heap[limiters[n]].rate * TickSeconds
                                      * (clock - heap[limiters[n]].made)
    BY DEF AdmittedWithinRate
  <2>1. MemTypes /\ RefInv /\ BucketInv
    BY DEF MemInv
  <2>2. CASE limiters[n] = 0
    BY <2>1, <2>2 DEF BucketInv
  <2>3. CASE limiters[n] # 0
    <3>1. PICK l \in Limiter : l = heap[limiters[n]]
      <4>1. limiters[n] \in 1 .. Len(heap) /\ heap \in Seq(Limiter)
        BY <2>1, <2>3 DEF MemTypes, RefInv
      <4> QED  BY <4>1
    <3>2. PICK a \in Nat : a = admitted[n]
      BY <2>1 DEF MemTypes
    <3>3. Balanced(l, a) /\ clock \in Nat
      BY <2>1, <2>3, <3>1, <3>2 DEF BucketInv, MemTypes
    <3>4. Unit * a <= Unit * Burst(l.rate) + l.rate * TickSeconds * (clock - l.made)
      BY <3>3, BalancedBounds
    <3> QED  BY <2>3, <3>1, <3>2, <3>4
  <2> QED  BY <2>2, <2>3
<1> QED  BY <1>1, InvariantsHold, PTL

\* A request is refused only when other requests used its token at Limit moments
\* of its window, whatever commands of theirs run between those of its pipeline;
\* only a pipeline that was sent again may find its own stamp and so be refused
\* one moment early (RedisRateLimiter.Allow).
THEOREM RefusedOnlyAtLimitHolds == Limiting => []RefusedOnlyAtLimit
<1>1. RedisInv /\ OwnInv => RefusedOnlyAtLimit
  <2> SUFFICES ASSUME RedisInv, OwnInv, NEW p \in Client, call[p].pc = "refused"
               PROVE  Cardinality(Others(asked, call[p].now)) + call[p].again >= Limit
    BY SameCardinality DEF RefusedOnlyAtLimit, Redis!RefusedOnlyAtLimit, Redis!At,
                           Redis!OthersIn, Others, Stamps
  <2>1. /\ Limit <= call[p].count
        /\ call[p].count <= Cardinality(Others(asked, call[p].now)) + call[p].again
    BY DEF RedisInv, PipeInv, OwnInv
  <2>2. call[p].count \in Nat /\ call[p].again \in Nat
    BY DEF RedisInv, RedisTypes, Allowing
  <2>3. Others(asked, call[p].now) \subseteq Stamps
    BY DEF Others
  <2> QED  BY <2>1, <2>2, <2>3, StampSets, WindowFacts
<1> QED  BY <1>1, InvariantsHold, PTL

\* What slips past the limit because Allow's pipeline is no transaction is at
\* most one moment for each further concurrent request, in every window that is
\* shortened by the delay of a slow call.
THEOREM OvershootIsConcurrencyHolds == Limiting => []OvershootIsConcurrency
<1>1. RedisInv => OvershootIsConcurrency
  <2> DEFINE S(t) == {u \in Stamps : /\ passed[u] > 0 /\ u > t - (Window - MaxDelay)
                                     /\ u <= t}
  <2>1. SUFFICES ASSUME RedisInv, NEW t \in Stamps
                 PROVE  Cardinality(S(t)) <= Limit + Cardinality(Client) - 1
    BY SameCardinality DEF OvershootIsConcurrency, Redis!OvershootIsConcurrency, Stamps
  <2>2. S(t) \subseteq Sure(passed, call, t) /\ Sure(passed, call, t) \subseteq Stamps
    BY DEF Sure
  <2> HIDE DEF S
  <2>3. /\ Cardinality(S(t)) \in Nat /\ Cardinality(Sure(passed, call, t)) \in Nat
        /\ Cardinality(S(t)) <= Cardinality(Sure(passed, call, t))
    BY <2>2, StampSubsets
  <2>4. Cardinality(Sure(passed, call, t)) <= Limit + Cardinality(Client) - 1
    BY <2>1 DEF RedisInv, SureInv
  <2> QED  BY <2>3, <2>4, WindowFacts
<1> QED  BY <1>1, InvariantsHold, PTL
=============================================================================
