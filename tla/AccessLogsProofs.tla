-------------------------- MODULE AccessLogsProofs --------------------------
(***************************************************************************)
(* The log sinks for any capacity, batch size, number of entries, streams  *)
(* and faults: the ring buffer is the bounded log of the newest entries,   *)
(* no stream is sent to after its channel is closed, the batches keep      *)
(* account of every entry and the order of those written, and the answers  *)
(* of the admin API tell whether there is more.                            *)
(***************************************************************************)
EXTENDS AccessLogs, SequenceTheorems, FiniteSetTheorems, WellFoundedInduction, TLAPS

allVars == <<sink, logVars, ringVars>>

-----------------------------------------------------------------------------
(* Sequences: the shape of what Append and \o make.                        *)

\* The elements of Append(s, e).
LEMMA AppendShape ==
  ASSUME NEW S, NEW s \in Seq(S), NEW e \in S,
         NEW n, n = Len(s), NEW t, t = Append(s, e)
  PROVE  /\ n \in Nat /\ DOMAIN s = 1 .. n
         /\ t \in Seq(S) /\ Len(t) = n + 1 /\ DOMAIN t = 1 .. n + 1
         /\ t[n + 1] = e /\ \A k \in 1 .. n : t[k] = s[k]
<1>1. n \in Nat /\ DOMAIN s = 1 .. n
  BY LenProperties
<1>2. /\ t \in Seq(S) /\ Len(t) = n + 1 /\ t[n + 1] = e
      /\ \A k \in 1 .. n : t[k] = s[k]
  BY AppendProperties
<1>3. DOMAIN t = 1 .. n + 1
  BY <1>2, LenProperties
<1> QED  BY <1>1, <1>2, <1>3

\* The elements of s \o t.
LEMMA ConcatShape ==
  ASSUME NEW S, NEW s \in Seq(S), NEW t \in Seq(S),
         NEW n, n = Len(s), NEW m, m = Len(t), NEW u, u = s \o t
  PROVE  /\ n \in Nat /\ DOMAIN s = 1 .. n /\ m \in Nat /\ DOMAIN t = 1 .. m
         /\ u \in Seq(S) /\ Len(u) = n + m /\ DOMAIN u = 1 .. n + m
         /\ \A k \in 1 .. n : u[k] = s[k]
         /\ \A k \in 1 .. m : u[n + k] = t[k]
         /\ \A k \in 1 .. n + m : k \in 1 .. n \/ (k - n \in 1 .. m /\ u[k] = t[k - n])
<1>1. n \in Nat /\ DOMAIN s = 1 .. n /\ m \in Nat /\ DOMAIN t = 1 .. m
  BY LenProperties
<1>2. /\ u \in Seq(S) /\ Len(u) = n + m
      /\ \A k \in 1 .. n + m : u[k] = IF k <= n THEN s[k] ELSE t[k - n]
  BY ConcatProperties
<1>3. DOMAIN u = 1 .. n + m
  BY <1>2, LenProperties
<1>4. \A k \in 1 .. n : u[k] = s[k]
  BY <1>1, <1>2
<1>5. \A k \in 1 .. m : u[n + k] = t[k]
  <2> TAKE k \in 1 .. m
  <2>1. n + k \in 1 .. n + m /\ ~(n + k <= n) /\ (n + k) - n = k
    BY <1>1
  <2> QED  BY <1>2, <2>1
<1>6. \A k \in 1 .. n + m : k \in 1 .. n \/ (k - n \in 1 .. m /\ u[k] = t[k - n])
  BY <1>1, <1>2
<1> QED  BY <1>1, <1>2, <1>3, <1>4, <1>5, <1>6

-----------------------------------------------------------------------------
(* The ring buffer.                                                        *)

\* The slots before head, going around the end of the array.
LEMMA SlotFacts ==
  ASSUME NEW C \in Nat \ {0}, NEW h \in 0 .. C - 1
  PROVE  /\ (h + 1) % C = IF h = C - 1 THEN 0 ELSE h + 1
         /\ \A k \in 1 .. C : (h - k + C) % C = IF k <= h THEN h - k ELSE h - k + C
<1>1. \A a \in 0 .. C - 1 : a % C = a /\ (a + C) % C = a
  OBVIOUS
<1>2. (h + 1) % C = IF h = C - 1 THEN 0 ELSE h + 1
  <2>1. CASE h = C - 1
    <3>1. 0 \in 0 .. C - 1 /\ h + 1 = 0 + C
      BY <2>1
    <3> QED  BY <1>1, <2>1, <3>1
  <2>2. CASE h # C - 1
    <3>1. h + 1 \in 0 .. C - 1
      BY <2>2
    <3> QED  BY <1>1, <2>2, <3>1
  <2> QED  BY <2>1, <2>2
<1>3. ASSUME NEW k \in 1 .. C
      PROVE  (h - k + C) % C = IF k <= h THEN h - k ELSE h - k + C
  <2>1. CASE k <= h
    <3>1. h - k \in 0 .. C - 1
      BY <2>1
    <3> QED  BY <1>1, <2>1, <3>1
  <2>2. CASE ~(k <= h)
    <3>1. h - k + C \in 0 .. C - 1
      BY <2>2
    <3> QED  BY <1>1, <2>2, <3>1
  <2> QED  BY <2>1, <2>2
<1> QED  BY <1>2, <1>3

RingTypes ==
  /\ entries \in [0 .. Capacity - 1 -> Entry \cup {Ring!NoEntry}]
  /\ head \in 0 .. Capacity - 1 /\ size \in 0 .. Capacity
  /\ subscribers \subseteq Stream /\ closed \subseteq Stream
  /\ pc \in [Stream -> {"new", "open", "cancelled", "ended"}]
  /\ chan \in [Stream -> Seq(Entry)]
  /\ pushed \in Seq(Entry)

\* A stream is in the map only while it is open, and its channel is closed only
\* at its end.
MapInv ==
  /\ \A s \in subscribers : pc[s] = "open"
  /\ \A s \in closed : pc[s] = "ended"
  /\ ~panicked

RingInv == RingTypes /\ MapInv

\* Push keeps the ring's types and leaves the head and the size in range.
LEMMA RingTypesKept ==
  ASSUME RingTypes, Ring!Next
  PROVE  RingTypes'
<1>1. ASSUME NEW e \in Entry, Ring!Push(e)
      PROVE  RingTypes'
  <2>1. head' \in 0 .. Capacity - 1 /\ size' \in 0 .. Capacity
    <3>1. head' = IF head = Capacity - 1 THEN 0 ELSE head + 1
      BY <1>1, SlotFacts, RingAssumption DEF RingTypes, Ring!Push
    <3> QED  BY <1>1, <3>1, RingAssumption DEF RingTypes, Ring!Push
  <2>2. entries' \in [0 .. Capacity - 1 -> Entry \cup {Ring!NoEntry}]
    BY <1>1 DEF RingTypes, Ring!Push
  <2>3. chan' \in [Stream -> Seq(Entry)]
    <3>1. ASSUME NEW s \in Stream
          PROVE  Append(chan[s], e) \in Seq(Entry) /\ chan[s] \in Seq(Entry)
      BY DEF RingTypes
    <3> QED  BY <1>1, <3>1 DEF RingTypes, Ring!Push
  <2>4. pushed' \in Seq(Entry)
    BY <1>1 DEF RingTypes, Ring!Push
  <2> QED  BY <1>1, <2>1, <2>2, <2>3, <2>4 DEF RingTypes, Ring!Push
<1>2. ASSUME NEW s \in Stream, Ring!Subscribe(s) \/ Ring!Cancel(s) \/ Ring!CloseChan(s)
      PROVE  RingTypes'
  BY <1>2 DEF RingTypes, Ring!Subscribe, Ring!Cancel, Ring!CloseChan
<1>3. ASSUME NEW s \in Stream, Ring!Receive(s) \/ Ring!ReceiveFail(s)
      PROVE  RingTypes'
  <2>1. chan[s] \in Seq(Entry) /\ chan[s] # << >>
    BY <1>3 DEF RingTypes, Ring!Receive, Ring!ReceiveFail
  <2>2. Tail(chan[s]) \in Seq(Entry)
    BY <2>1
  <2> QED  BY <1>3, <2>2 DEF RingTypes, Ring!Receive, Ring!ReceiveFail
<1> QED  BY <1>1, <1>2, <1>3 DEF Ring!Next

\* The steps of a stream and of Push keep the map of open streams.
LEMMA MapInvKept ==
  ASSUME RingTypes, MapInv, Ring!Next
  PROVE  MapInv'
<1>1. ASSUME NEW e \in Entry, Ring!Push(e)
      PROVE  MapInv'
  BY <1>1 DEF MapInv, Ring!Push
<1>2. ASSUME NEW s \in Stream,
             \/ Ring!Subscribe(s) \/ Ring!Receive(s) \/ Ring!ReceiveFail(s)
             \/ Ring!Cancel(s) \/ Ring!CloseChan(s)
      PROVE  MapInv'
  BY <1>2 DEF RingTypes, MapInv, Ring!Subscribe, Ring!Receive, Ring!ReceiveFail,
       Ring!Cancel, Ring!CloseChan
<1> QED  BY <1>1, <1>2 DEF Ring!Next

-----------------------------------------------------------------------------
(* The ring's invariant.                                                   *)

\* The ring starts in the invariant.
LEMMA RingInit == Start => RingInv
<1> SUFFICES ASSUME Start
             PROVE  RingInv
  OBVIOUS
<1>1. RingTypes
  BY RingAssumption DEF Start, Ring!Init, RingTypes, Ring!Slot
<1>2. MapInv
  BY DEF Start, Ring!Init, MapInv
<1> QED  BY <1>1, <1>2 DEF RingInv

\* Every step of either sink keeps it.
LEMMA RingStep ==
  ASSUME RingInv, [Step]_allVars
  PROVE  RingInv'
<1>1. CASE UNCHANGED ringVars
  BY <1>1 DEF RingInv, ringVars, RingTypes, MapInv
<1>2. CASE Ring!Next
  BY <1>2, RingTypesKept, MapInvKept DEF RingInv
<1> QED  BY <1>1, <1>2 DEF Step, allVars

\* The inductive invariant of the ring buffer and its streams.
THEOREM RingInvariance == Logging => []RingInv
<1>1. RingInv /\ [Step]_allVars => RingInv'
  BY RingStep
<1> QED  BY <1>1, RingInit, PTL DEF Logging, allVars

\* Push, under the mutex, never sends on a channel that a stream has closed,
\* though channels are closed outside of it.
THEOREM NeverPanicsHolds == Logging => []NeverPanics
<1>1. RingInv => NeverPanics
  BY DEF RingInv, MapInv, NeverPanics, Ring!NeverPanics
<1> QED  BY <1>1, RingInvariance, PTL

-----------------------------------------------------------------------------
(* The ring is the bounded log.                                            *)

\* The slots in use, newest first.
Newest == [k \in 1 .. size |-> entries[(head - k + Capacity) % Capacity]]

\* EntriesOf(0) is all of them.
LEMMA EntriesAreNewest == Ring!EntriesOf(0) = Newest
BY DEF Ring!EntriesOf, Newest

\* After Push the new entry is the first and the others move up by one; the
\* oldest of a full ring is gone.
LEMMA PushIsFirst ==
  ASSUME RingTypes, NEW e \in Entry, Ring!Push(e)
  PROVE  /\ Newest'[1] = e /\ DOMAIN Newest' = 1 .. size' /\ size' >= 1
         /\ \A k \in 1 .. size' : k # 1 => k - 1 \in 1 .. size /\ Newest'[k] = Newest[k - 1]
<1>1. /\ Capacity \in Nat \ {0} /\ head \in 0 .. Capacity - 1 /\ size \in 0 .. Capacity
      /\ size' = IF size < Capacity THEN size + 1 ELSE size
      /\ entries' = [entries EXCEPT ![head] = e]
      /\ DOMAIN entries = 0 .. Capacity - 1
  BY RingAssumption DEF RingTypes, Ring!Push
<1>2. head' = IF head = Capacity - 1 THEN 0 ELSE head + 1
  BY <1>1, SlotFacts DEF Ring!Push
<1>3. head' \in 0 .. Capacity - 1 /\ size' \in 1 .. Capacity
  BY <1>1, <1>2
<1>4. ASSUME NEW k \in 1 .. Capacity
      PROVE  /\ (head - k + Capacity) % Capacity =
                  IF k <= head THEN head - k ELSE head - k + Capacity
             /\ (head' - k + Capacity) % Capacity =
                  IF k <= head' THEN head' - k ELSE head' - k + Capacity
  <2>1. PICK h, g \in 0 .. Capacity - 1 : h = head /\ g = head'
    BY <1>1, <1>3
  <2>2. \A i \in 0 .. Capacity - 1 :
          (i - k + Capacity) % Capacity = IF k <= i THEN i - k ELSE i - k + Capacity
    BY <1>1, SlotFacts
  <2> QED  BY <2>1, <2>2
<1>5. \A k \in 1 .. size' :
        Newest'[k] = entries'[(head' - k + Capacity) % Capacity]
  BY DEF Newest
<1>6. \A k \in 1 .. size : Newest[k] = entries[(head - k + Capacity) % Capacity]
  BY DEF Newest
<1>7. Newest'[1] = e
  <2>1. (head' - 1 + Capacity) % Capacity = head
    <3>1. 1 \in 1 .. Capacity
      BY <1>1
    <3>2. (head' - 1 + Capacity) % Capacity =
            IF 1 <= head' THEN head' - 1 ELSE head' - 1 + Capacity
      BY <1>4, <3>1
    <3> QED  BY <1>1, <1>2, <3>2
  <2>2. Newest'[1] = entries'[(head' - 1 + Capacity) % Capacity]
    BY <1>3, <1>5
  <2> QED  BY <1>1, <2>1, <2>2
<1>8. ASSUME NEW k \in 1 .. size', k # 1
      PROVE  k - 1 \in 1 .. size /\ Newest'[k] = Newest[k - 1]
  <2>1. k - 1 \in 1 .. size /\ k \in 1 .. Capacity /\ k - 1 \in 1 .. Capacity
    BY <1>1, <1>3, <1>8
  <2>2. (head' - k + Capacity) % Capacity = (head - (k - 1) + Capacity) % Capacity
    <3>1. /\ (head' - k + Capacity) % Capacity =
               IF k <= head' THEN head' - k ELSE head' - k + Capacity
          /\ (head - (k - 1) + Capacity) % Capacity =
               IF k - 1 <= head THEN head - (k - 1) ELSE head - (k - 1) + Capacity
      BY <1>4, <2>1
    <3> QED  BY <1>1, <1>2, <1>8, <2>1, <3>1
  <2>3. /\ (head - (k - 1) + Capacity) % Capacity # head
        /\ (head - (k - 1) + Capacity) % Capacity \in 0 .. Capacity - 1
    <3>1. (head - (k - 1) + Capacity) % Capacity =
               IF k - 1 <= head THEN head - (k - 1) ELSE head - (k - 1) + Capacity
      BY <1>4, <2>1
    <3> QED  BY <1>1, <1>3, <1>8, <2>1, <3>1
  <2> QED  BY <1>1, <1>5, <1>6, <2>1, <2>2, <2>3
<1>9. DOMAIN Newest' = 1 .. size' /\ size' >= 1
  BY <1>3 DEF Newest
<1> QED  BY <1>7, <1>8, <1>9

\* A log of size entries and one more, cut off after Capacity.
LEMMA AddIsFirst ==
  ASSUME NEW S, NEW e \in S, NEW r \in Seq(S), NEW C \in Nat \ {0},
         NEW t, NEW n \in Nat, DOMAIN t = 1 .. n, t = [k \in 1 .. n |-> t[k]],
         n = IF Len(r) < C THEN Len(r) + 1 ELSE Len(r), Len(r) <= C,
         t[1] = e, \A k \in 1 .. n : k # 1 => t[k] = r[k - 1]
  PROVE  t = LET all == <<e>> \o r
             IN  IF Len(all) > C THEN SubSeq(all, 1, C) ELSE all
<1> DEFINE all == <<e>> \o r
           m == Len(r)
<1>1. m \in Nat /\ <<e>> \in Seq(S) /\ Len(<<e>>) = 1 /\ <<e>>[1] = e
  BY LenProperties
<1>2. /\ all \in Seq(S) /\ Len(all) = 1 + m
      /\ \A k \in 1 .. 1 + m : all[k] = IF k <= 1 THEN <<e>>[k] ELSE r[k - 1]
  BY <1>1, ConcatProperties
<1>3. \A k \in 1 .. n : k \in 1 .. 1 + m /\ t[k] = all[k] /\ all[k] \in S
  <2> TAKE k \in 1 .. n
  <2>1. k \in 1 .. 1 + m
    BY <1>1
  <2>2. CASE k = 1
    BY <1>1, <1>2, <2>1, <2>2
  <2>3. CASE k # 1
    <3>1. ~(k <= 1)
      BY <1>1, <2>1, <2>3
    <3> QED  BY <1>2, <2>1, <2>3, <3>1, ElementOfSeq
  <2> QED  BY <2>2, <2>3
<1>4. t \in Seq(S)
  <2>1. t \in [1 .. n -> S]
    BY <1>3
  <2> QED  BY <2>1
<1>5. Len(t) = n
  BY <1>4, LenProperties
<1> HIDE DEF all, m
<1>6. CASE Len(all) > C
  <2>1. n = C
    BY <1>1, <1>2, <1>6 DEF m
  <2>2. /\ SubSeq(all, 1, C) \in Seq(S) /\ Len(SubSeq(all, 1, C)) = C
        /\ \A k \in 1 .. C : SubSeq(all, 1, C)[k] = all[k]
    <3>1. \A k \in 1 .. C : all[k] \in S
      BY <1>3, <2>1
    <3>2. /\ SubSeq(all, 1, C) \in Seq(S)
          /\ Len(SubSeq(all, 1, C)) = IF 1 <= C THEN C - 1 + 1 ELSE 0
          /\ \A k \in 1 .. C - 1 + 1 : SubSeq(all, 1, C)[k] = all[1 + k - 1]
      BY <3>1, SubSeqProperties
    <3> QED  BY <3>2
  <2>3. t = SubSeq(all, 1, C)
    BY <1>3, <1>4, <1>5, <2>1, <2>2, SeqEqual
  <2> QED  BY <1>6, <2>3 DEF all
<1>7. CASE ~(Len(all) > C)
  <2>1. n = Len(all)
    BY <1>1, <1>2, <1>7 DEF m
  <2>2. t = all
    BY <1>2, <1>3, <1>4, <1>5, <2>1, SeqEqual
  <2> QED  BY <1>7, <2>2 DEF all
<1> QED  BY <1>6, <1>7

\* Push adds to the log as BoundedLog says.
LEMMA PushIsAdd ==
  ASSUME RingTypes, NEW e \in Entry, Ring!Push(e)
  PROVE  Newest' = LET all == <<e>> \o Newest
                   IN  IF Len(all) > Capacity THEN SubSeq(all, 1, Capacity) ELSE all
<1> DEFINE S == Entry \cup {Ring!NoEntry}
<1>1. PICK r \in Seq(S) : r = Newest /\ Len(r) = size
  <2>1. \A k \in 1 .. size : (head - k + Capacity) % Capacity \in 0 .. Capacity - 1
    BY RingAssumption DEF RingTypes
  <2>2. Newest \in [1 .. size -> S] /\ size \in Nat
    BY <2>1 DEF RingTypes, Newest
  <2>3. Newest \in Seq(S)
    BY <2>2
  <2>4. Len(Newest) = size
    BY <2>2, <2>3, LenProperties
  <2> QED  BY <2>3, <2>4
<1>2. PICK n \in Nat : n = size'
  BY RingAssumption DEF RingTypes, Ring!Push
<1>3. PICK t : t = Newest'
  OBVIOUS
<1>4. /\ DOMAIN t = 1 .. n /\ t = [k \in 1 .. n |-> t[k]]
      /\ t[1] = e /\ \A k \in 1 .. n : k # 1 => t[k] = r[k - 1]
  <2>1. DOMAIN t = 1 .. n /\ t = [k \in 1 .. n |-> t[k]]
    BY <1>2, <1>3 DEF Newest
  <2> QED  BY <1>1, <1>2, <1>3, <2>1, PushIsFirst
<1>5. /\ Len(r) <= Capacity /\ Capacity \in Nat \ {0}
      /\ n = IF Len(r) < Capacity THEN Len(r) + 1 ELSE Len(r)
  BY <1>1, <1>2, RingAssumption DEF RingTypes, Ring!Push
<1>6. e \in S
  OBVIOUS
<1>7. t = LET all == <<e>> \o r
          IN  IF Len(all) > Capacity THEN SubSeq(all, 1, Capacity) ELSE all
  <2> HIDE DEF S
  <2> QED  BY <1>4, <1>5, <1>6, AddIsFirst
<1> QED  BY <1>1, <1>3, <1>7

\* The ring buffer implements BoundedLog: its slots, read backwards from head and
\* around the end of the array, are the newest Capacity entries at all times.
THEOREM RingImplementsBoundedLog == Logging => RecentSpec
<1>1. Start => Ring!Recent!Init
  BY EntriesAreNewest DEF Start, Ring!Init, Newest, Ring!Recent!Init
<1>2. RingInv /\ [Step]_allVars => [Ring!Recent!Next]_(Ring!EntriesOf(0))
  <2> SUFFICES ASSUME RingInv, [Step]_allVars
               PROVE  [Ring!Recent!Next]_(Ring!EntriesOf(0))
    OBVIOUS
  <2>1. Ring!EntriesOf(0) = Newest /\ (Ring!EntriesOf(0))' = Newest'
    BY DEF Ring!EntriesOf, Newest
  <2>2. ASSUME NEW e \in Entry, Ring!Push(e)
        PROVE  Ring!Recent!Next
    <3>1. Ring!Recent!Add(e)
      BY <2>1, <2>2, PushIsAdd DEF RingInv, Ring!Recent!Add
    <3> QED  BY <3>1 DEF Ring!Recent!Next
  <2>3. ASSUME NEW s \in Stream,
               \/ Ring!Subscribe(s) \/ Ring!Receive(s) \/ Ring!ReceiveFail(s)
               \/ Ring!Cancel(s) \/ Ring!CloseChan(s)
        PROVE  UNCHANGED Newest
    BY <2>3 DEF Newest, Ring!Subscribe, Ring!Receive, Ring!ReceiveFail, Ring!Cancel,
         Ring!CloseChan
  <2>4. CASE UNCHANGED ringVars
    BY <2>1, <2>4 DEF Newest, ringVars
  <2>5. CASE Ring!Next
    BY <2>1, <2>2, <2>3, <2>5 DEF Ring!Next
  <2> QED  BY <2>4, <2>5 DEF Step, allVars
<1> QED  BY <1>1, <1>2, RingInvariance, PTL
       DEF Logging, allVars, RecentSpec, Ring!RecentSpec, Ring!Recent!Spec

-----------------------------------------------------------------------------
(* Ascending sequences.                                                    *)

Ascending(s) == \A j, k \in DOMAIN s : j < k => s[j] < s[k]
Below(S, T) == \A x \in S, y \in T : x < y

\* A concatenation ascends if both parts do and the first is below the second.
LEMMA AscendingConcat ==
  ASSUME NEW s \in Seq(Nat), NEW t \in Seq(Nat)
  PROVE  Ascending(s \o t) <=>
           Ascending(s) /\ Ascending(t) /\ Below(Range(s), Range(t))
<1> DEFINE n == Len(s)
           m == Len(t)
           u == s \o t
<1>1. /\ n \in Nat /\ DOMAIN s = 1 .. n /\ m \in Nat /\ DOMAIN t = 1 .. m
      /\ DOMAIN u = 1 .. n + m
      /\ \A k \in 1 .. n : u[k] = s[k]
      /\ \A k \in 1 .. m : u[n + k] = t[k]
      /\ \A k \in 1 .. n + m : k \in 1 .. n \/ (k - n \in 1 .. m /\ u[k] = t[k - n])
  BY ConcatShape
<1>2. Ascending(u) <=> Ascending(s \o t)
  OBVIOUS
<1>3. Range(s) = {s[k] : k \in 1 .. n} /\ Range(t) = {t[k] : k \in 1 .. m}
  BY <1>1 DEF Range
<1> HIDE DEF n, m, u
<1>4. ASSUME Ascending(u)
      PROVE  Ascending(s) /\ Ascending(t) /\ Below(Range(s), Range(t))
  <2>1. \A j, k \in 1 .. n + m : j < k => u[j] < u[k]
    BY <1>1, <1>4 DEF Ascending
  <2>2. ASSUME NEW j \in 1 .. n, NEW k \in 1 .. n, j < k
        PROVE  s[j] < s[k]
    <3>1. j \in 1 .. n + m /\ k \in 1 .. n + m
      BY <1>1
    <3> QED  BY <1>1, <2>1, <2>2, <3>1
  <2>3. ASSUME NEW j \in 1 .. m, NEW k \in 1 .. m, j < k
        PROVE  t[j] < t[k]
    <3>1. n + j \in 1 .. n + m /\ n + k \in 1 .. n + m /\ n + j < n + k
      BY <1>1, <2>3
    <3> QED  BY <1>1, <2>1, <3>1
  <2>4. ASSUME NEW j \in 1 .. n, NEW k \in 1 .. m
        PROVE  s[j] < t[k]
    <3>1. j \in 1 .. n + m /\ n + k \in 1 .. n + m /\ j < n + k
      BY <1>1
    <3> QED  BY <1>1, <2>1, <3>1
  <2> QED  BY <1>1, <1>3, <2>2, <2>3, <2>4 DEF Ascending, Below
<1>5. ASSUME Ascending(s) /\ Ascending(t) /\ Below(Range(s), Range(t))
      PROVE  Ascending(u)
  <2>1. ASSUME NEW j \in 1 .. n + m, NEW k \in 1 .. n + m, j < k
        PROVE  u[j] < u[k]
    <3>1. CASE j \in 1 .. n /\ k \in 1 .. n
      BY <1>1, <1>5, <2>1, <3>1 DEF Ascending
    <3>2. CASE j \in 1 .. n /\ k \notin 1 .. n
      <4>1. u[k] = t[k - n] /\ k - n \in 1 .. m /\ u[j] = s[j]
        BY <1>1, <3>2
      <4>2. u[k] \in Range(t) /\ u[j] \in Range(s)
        BY <1>3, <3>2, <4>1
      <4> QED  BY <1>5, <4>2 DEF Below
    <3>3. CASE j \notin 1 .. n
      <4>1. u[j] = t[j - n] /\ j - n \in 1 .. m
        BY <1>1, <3>3
      <4>2. k \notin 1 .. n
        BY <1>1, <2>1, <3>3
      <4>3. u[k] = t[k - n] /\ k - n \in 1 .. m /\ j - n < k - n
        BY <1>1, <2>1, <4>2
      <4> QED  BY <1>1, <1>5, <4>1, <4>3 DEF Ascending
    <3> QED  BY <3>1, <3>2, <3>3
  <2> QED  BY <1>1, <2>1 DEF Ascending
<1> QED  BY <1>2, <1>4, <1>5

\* A single element: what Append adds to a sequence.
LEMMA Single ==
  ASSUME NEW e \in Nat
  PROVE  <<e>> \in Seq(Nat) /\ Range(<<e>>) = {e} /\ Ascending(<<e>>)
<1>1. <<e>> \in Seq(Nat) /\ DOMAIN <<e>> = 1 .. 1 /\ <<e>>[1] = e
  OBVIOUS
<1>2. \A k \in 1 .. 1 : k = 1
  OBVIOUS
<1> QED  BY <1>1, <1>2 DEF Range, Ascending

\* A sequence with one more element that is larger than the others.
LEMMA AscendingAppend ==
  ASSUME NEW s \in Seq(Nat), NEW e \in Nat
  PROVE  /\ Append(s, e) \in Seq(Nat) /\ Range(Append(s, e)) = Range(s) \cup {e}
         /\ Ascending(s) /\ Below(Range(s), {e}) => Ascending(Append(s, e))
<1>1. Append(s, e) = s \o <<e>>
  BY AppendIsConcat
<1>2. <<e>> \in Seq(Nat) /\ Range(<<e>>) = {e} /\ Ascending(<<e>>)
  BY Single
<1>3. s \o <<e>> \in Seq(Nat)
  BY <1>2, ConcatProperties
<1>4. Range(s \o <<e>>) = Range(s) \cup {e}
  <2>1. PICK t \in Seq(Nat) : t = <<e>>
    BY <1>2
  <2>2. Range(s \o t) = Range(s) \cup Range(t)
    BY RangeConcatenation
  <2> QED  BY <1>2, <2>1, <2>2
<1>5. Ascending(s) /\ Below(Range(s), {e}) => Ascending(s \o <<e>>)
  BY <1>2, AscendingConcat
<1> QED  BY <1>1, <1>3, <1>4, <1>5

-----------------------------------------------------------------------------
(* The rows that are inserted, by induction: the least counterexample.     *)

\* A set of natural numbers that is not empty has a least element.
LEMMA LeastNatural ==
  ASSUME NEW T, T \subseteq Nat, T # {}
  PROVE  \E m \in T : \A k \in T : m <= k
<1> DEFINE R == OpToRel(<, Nat)
<1>1. IsWellFoundedOn(R, Nat)
  BY NatLessThanWellFounded
<1>2. \A x, y \in Nat : x < y => <<x, y>> \in R
  BY DEF OpToRel
<1> HIDE DEF R
<1>3. PICK m \in T : \A k \in T : ~(<<k, m>> \in R)
  BY <1>1, WFMin
<1>4. ASSUME NEW k \in T
      PROVE  m <= k
  <2>1. k \in Nat /\ m \in Nat
    OBVIOUS
  <2>2. ~(k < m)
    BY <1>2, <1>3, <2>1
  <2> QED  BY <2>1, <2>2
<1> QED  BY <1>4

\* f holds the rows inserted of the first 0, 1, ..., n entries of b.
Rows(f, b, failed, n) ==
  f = [k \in 0 .. n |->
         IF k = 0 THEN << >>
         ELSE IF b[k] \in failed THEN f[k - 1] ELSE Append(f[k - 1], b[k])]

\* There is such a function, as the definition of Inserted expects.
LEMMA RowsExist ==
  ASSUME NEW b, NEW failed, NEW n \in Nat
  PROVE  \E f : Rows(f, b, failed, n)
<1> DEFINE T == {m \in Nat : ~ \E f : Rows(f, b, failed, m)}
<1> SUFFICES ASSUME T # {}
             PROVE  FALSE
  OBVIOUS
<1>1. PICK m \in T : \A k \in T : m <= k
  BY LeastNatural
<1>2. CASE m = 0
  <2>1. Rows([k \in 0 .. 0 |-> << >>], b, failed, 0)
    BY DEF Rows
  <2> QED  BY <1>1, <1>2, <2>1
<1>3. CASE m # 0
  <2>1. m - 1 \in Nat /\ m - 1 \notin T /\ m \in Nat
    BY <1>1, <1>3
  <2>2. PICK f : Rows(f, b, failed, m - 1)
    BY <2>1
  <2> DEFINE last == IF b[m] \in failed THEN f[m - 1] ELSE Append(f[m - 1], b[m])
             g == [k \in 0 .. m |-> IF k < m THEN f[k] ELSE last]
  <2>3. ASSUME NEW k \in 0 .. m
        PROVE  g[k] = IF k = 0 THEN << >>
                      ELSE IF b[k] \in failed THEN g[k - 1] ELSE Append(g[k - 1], b[k])
    <3>1. CASE k = m
      BY <1>3, <2>1, <3>1
    <3>2. CASE k < m
      <4>1. k \in 0 .. m - 1 /\ g[k] = f[k] /\ (k # 0 => g[k - 1] = f[k - 1])
        BY <2>1, <3>2
      <4> QED  BY <2>2, <4>1 DEF Rows
    <3> QED  BY <2>1, <3>1, <3>2
  <2>4. g = [k \in 0 .. m |->
               IF k = 0 THEN << >>
               ELSE IF b[k] \in failed THEN g[k - 1] ELSE Append(g[k - 1], b[k])]
    BY <2>3
  <2> HIDE DEF g
  <2>5. Rows(g, b, failed, m)
    BY <2>4 DEF Rows
  <2> QED  BY <1>1, <2>5
<1> QED  BY <1>2, <1>3

\* What is inserted of an ascending batch ascends and is all that did not fail.
LEMMA InsertedFacts ==
  ASSUME NEW b \in Seq(Nat), Ascending(b), NEW failed
  PROVE  /\ Inserted(b, failed) \in Seq(Nat)
         /\ Ascending(Inserted(b, failed))
         /\ Range(Inserted(b, failed)) = Range(b) \ failed
<1>1. PICK n \in Nat : n = Len(b)
  BY LenProperties
<1>2. DOMAIN b = 1 .. n /\ \A k \in 1 .. n : b[k] \in Nat
  BY <1>1, LenProperties, ElementOfSeq
<1>3. PICK f : Rows(f, b, failed, n) /\ Inserted(b, failed) = f[n]
  <2> DEFINE rows == CHOOSE f : Rows(f, b, failed, Len(b))
  <2>1. \E f : Rows(f, b, failed, n)
    BY RowsExist
  <2>2. \E f : Rows(f, b, failed, Len(b))
    BY <1>1, <2>1, Zenon
  <2>3. Rows(rows, b, failed, Len(b))
    BY <2>2, Zenon
  <2>4. Inserted(b, failed) = rows[Len(b)]
    BY DEF Inserted, Rows
  <2> QED  BY <1>1, <2>3, <2>4
<1> DEFINE Good(k) == /\ f[k] \in Seq(Nat) /\ Ascending(f[k])
                      /\ Range(f[k]) = {b[i] : i \in 1 .. k} \ failed
           T == {k \in 0 .. n : ~Good(k)}
<1>4. Good(n)
  <2> SUFFICES ASSUME ~Good(n)
               PROVE  FALSE
    OBVIOUS
  <2>0. T # {}
    <3> HIDE DEF Good
    <3>1. n \in 0 .. n
      OBVIOUS
    <3> QED  BY <3>1
  <2>1. PICK m \in T : \A k \in T : m <= k
    <3>1. T \subseteq Nat
      OBVIOUS
    <3> HIDE DEF T
    <3> QED  BY <2>0, <3>1, LeastNatural
  <2>2. m \in 0 .. n /\ ~Good(m)
    BY <2>1
  <2>3. f[m] = IF m = 0 THEN << >>
               ELSE IF b[m] \in failed THEN f[m - 1] ELSE Append(f[m - 1], b[m])
    BY <1>3, <2>2 DEF Rows
  <2>4. CASE m = 0
    <3>1. << >> \in Seq(Nat) /\ Ascending(<< >>) /\ Range(<< >>) = {}
      BY DEF Ascending, Range
    <3> QED  BY <2>2, <2>3, <2>4, <3>1
  <2>5. CASE m # 0
    <3>1. m - 1 \in 0 .. n /\ m \in 1 .. n /\ Good(m - 1)
      BY <2>1, <2>2, <2>5
    <3>2. {b[i] : i \in 1 .. m} = {b[i] : i \in 1 .. m - 1} \cup {b[m]}
      BY <3>1
    <3>3. CASE b[m] \in failed
      BY <2>2, <2>3, <2>5, <3>1, <3>2, <3>3
    <3>4. CASE b[m] \notin failed
      <4>1. b[m] \in Nat /\ f[m - 1] \in Seq(Nat) /\ f[m] = Append(f[m - 1], b[m])
        BY <1>2, <2>3, <2>5, <3>1, <3>4
      <4>2. Below(Range(f[m - 1]), {b[m]})
        <5>1. ASSUME NEW i \in 1 .. m - 1
              PROVE  b[i] < b[m]
          <6>1. i \in DOMAIN b /\ m \in DOMAIN b /\ i < m
            BY <1>2, <3>1
          <6> QED  BY <6>1 DEF Ascending
        <5> QED  BY <3>1, <5>1 DEF Below
      <4>3. /\ f[m] \in Seq(Nat) /\ Range(f[m]) = Range(f[m - 1]) \cup {b[m]}
            /\ Ascending(f[m])
        <5>1. PICK r \in Seq(Nat), x \in Nat : r = f[m - 1] /\ x = b[m]
          BY <4>1
        <5>2. Ascending(r) /\ Below(Range(r), {x}) /\ f[m] = Append(r, x)
          BY <3>1, <4>1, <4>2, <5>1
        <5>3. /\ Append(r, x) \in Seq(Nat) /\ Range(Append(r, x)) = Range(r) \cup {x}
              /\ Ascending(Append(r, x))
          BY <5>2, AscendingAppend
        <5> QED  BY <5>1, <5>2, <5>3
      <4> QED  BY <2>2, <3>1, <3>2, <3>4, <4>3
    <3> QED  BY <3>3, <3>4
  <2> QED  BY <2>4, <2>5
<1>5. Range(b) = {b[i] : i \in 1 .. n}
  BY <1>2 DEF Range
<1> QED  BY <1>3, <1>4, <1>5

-----------------------------------------------------------------------------
(* The batch writer.                                                       *)

\* Concatenations may be read either way.
LEMMA Associative ==
  \A x, y, z \in Seq(Nat) : (x \o y) \o z = x \o (y \o z)
<1> TAKE x, y, z \in Seq(Nat)
<1>1. PICK S : S = Nat
  OBVIOUS
<1>2. x \in Seq(S) /\ y \in Seq(S) /\ z \in Seq(S)
  BY <1>1
<1> QED  BY <1>2, ConcatAssociative

\* What is appended to the second of two sequences is appended to both ...
LEMMA ConcatAppend ==
  ASSUME NEW S, NEW a \in Seq(S), NEW c \in Seq(S), NEW e \in S
  PROVE  a \o Append(c, e) = Append(a \o c, e)
<1>1. <<e>> \in Seq(S) /\ a \o c \in Seq(S)
  BY ConcatProperties
<1>2. a \o (c \o <<e>>) = (a \o c) \o <<e>>
  BY <1>1, ConcatAssociative
<1>3. Append(c, e) = c \o <<e>> /\ Append(a \o c, e) = (a \o c) \o <<e>>
  BY <1>1, AppendIsConcat
<1> QED  BY <1>2, <1>3

\* ... and the first of the second may as well be the last of the first.
LEMMA ConcatHeadTail ==
  ASSUME NEW S, NEW a \in Seq(S), NEW c \in Seq(S), c # << >>
  PROVE  Append(a, Head(c)) \o Tail(c) = a \o c
<1>1. Head(c) \in S /\ Tail(c) \in Seq(S)
  BY HeadTailProperties
<1>2. <<Head(c)>> \in Seq(S)
  BY <1>1
<1>3. Append(a, Head(c)) = a \o <<Head(c)>>
  BY <1>1, AppendIsConcat
<1>4. (a \o <<Head(c)>>) \o Tail(c) = a \o (<<Head(c)>> \o Tail(c))
  BY <1>1, <1>2, ConcatAssociative
<1>5. <<Head(c)>> \o Tail(c) = c
  BY ConcatSimplifications
<1> QED  BY <1>3, <1>4, <1>5

\* h holds, in their order, the entries of A that are not lost.
Conserved(h, L, A) == Ascending(h) /\ Range(h) \cup L = A /\ Range(h) \cap L = {}

\* A batch b between the rows s and the channel c becomes the rows r, and F is lost.
LEMMA FlushConserves ==
  ASSUME NEW s \in Seq(Nat), NEW b \in Seq(Nat), NEW c \in Seq(Nat), NEW L, NEW A,
         Conserved(s \o b \o c, L, A),
         NEW r \in Seq(Nat), NEW F, F \subseteq Range(b),
         Ascending(r), Range(r) = Range(b) \ F
  PROVE  /\ (s \o r) \o << >> \o c \in Seq(Nat)
         /\ Conserved((s \o r) \o << >> \o c, L \cup F, A)
<1>1. s \o b \in Seq(Nat) /\ s \o r \in Seq(Nat) /\ s \o b \o c \in Seq(Nat)
  BY ConcatProperties
<1>2. (s \o r) \o << >> = s \o r
  BY <1>1, ConcatEmptySeq
<1>3. s \o r \o c \in Seq(Nat)
  BY <1>1, ConcatProperties
<1>4. /\ Range(s \o b) = Range(s) \cup Range(b) /\ Range(s \o r) = Range(s) \cup Range(r)
      /\ Range(s \o b \o c) = Range(s) \cup Range(b) \cup Range(c)
      /\ Range(s \o r \o c) = Range(s) \cup Range(r) \cup Range(c)
  <2>1. \A x, y \in Seq(Nat) : Range(x \o y) = Range(x) \cup Range(y)
    BY RangeConcatenation
  <2>2. Range(s \o b) = Range(s) \cup Range(b) /\ Range(s \o r) = Range(s) \cup Range(r)
    BY <2>1, Zenon
  <2>3. /\ Range(s \o b \o c) = Range(s \o b) \cup Range(c)
        /\ Range(s \o r \o c) = Range(s \o r) \cup Range(c)
    BY <1>1, <2>1, Zenon
  <2> QED  BY <2>2, <2>3, Zenon
<1>5. /\ Ascending(s) /\ Ascending(b) /\ Ascending(c)
      /\ Below(Range(s), Range(b)) /\ Below(Range(s) \cup Range(b), Range(c))
  <2>1. Ascending(s \o b) /\ Ascending(c) /\ Below(Range(s \o b), Range(c))
    BY <1>1, AscendingConcat DEF Conserved
  <2> QED  BY <1>4, <2>1, AscendingConcat
<1>6. Ascending(s \o r \o c)
  <2>1. Below(Range(s), Range(r)) /\ Below(Range(s) \cup Range(r), Range(c))
    BY <1>5 DEF Below
  <2>2. Ascending(s \o r)
    BY <1>5, <2>1, AscendingConcat
  <2> QED  BY <1>1, <1>4, <1>5, <2>1, <2>2, AscendingConcat
<1>7. Range(s \o r \o c) \cup (L \cup F) = A
  BY <1>4 DEF Conserved
<1>8. Range(s \o r \o c) \cap (L \cup F) = {}
  <2>1. Range(s) \subseteq Nat /\ Range(b) \subseteq Nat /\ Range(c) \subseteq Nat
    BY RangeOfSeq
  <2>2. Range(s) \cap Range(b) = {} /\ Range(b) \cap Range(c) = {}
    BY <1>5, <2>1 DEF Below
  <2> QED  BY <1>4, <2>2 DEF Conserved
<1> QED  BY <1>2, <1>3, <1>6, <1>7, <1>8 DEF Conserved

WriterTypes ==
  /\ insertCh \in Seq(Nat) /\ batch \in Seq(Nat) /\ stored \in Seq(Nat)
  /\ push \in Seq({"accepted", "dropped", "panicked"})

Accepted == {k \in DOMAIN push : push[k] = "accepted"}

WriterInv == WriterTypes /\ Conserved(stored \o batch \o insertCh, lost, Accepted)

\* Rows are added at the end.
StoredGrows == \E r \in Seq(Nat) : stored' = stored \o r

\* Most steps add none.
LEMMA StoredStays ==
  ASSUME stored \in Seq(Nat), stored' = stored
  PROVE  StoredGrows
<1>1. PICK s \in Seq(Nat) : s = stored
  OBVIOUS
<1>2. << >> \in Seq(Nat) /\ s \o << >> = s
  BY ConcatEmptySeq
<1> QED  BY <1>1, <1>2 DEF StoredGrows

\* Flush of b, which stands before the channel c, keeps every entry in one place.
LEMMA FlushKeeps ==
  ASSUME NEW b \in Seq(Nat), NEW c \in Seq(Nat), stored \in Seq(Nat),
         Conserved(stored \o b \o c, lost, Accepted), Flush(b), push' = push,
         insertCh' = c, WriterTypes
  PROVE  WriterInv' /\ StoredGrows
<1>1. PICK s \in Seq(Nat) : s = stored
  OBVIOUS
<1>2. PICK L, A : L = lost /\ A = Accepted
  OBVIOUS
<1>3. s \o b \in Seq(Nat) /\ s \o b \o c \in Seq(Nat)
  BY ConcatProperties
<1>4. Ascending(b)
  <2>1. Ascending(s \o b \o c)
    BY <1>1 DEF Conserved
  <2>2. Ascending(s \o b)
    BY <1>3, <2>1, AscendingConcat
  <2> QED  BY <2>2, AscendingConcat
<1>5. \E r \in Seq(Nat), F \in SUBSET Range(b) :
        /\ Ascending(r) /\ Range(r) = Range(b) \ F
        /\ stored' = s \o r /\ lost' = L \cup F
  <2>0. << >> \in Seq(Nat) /\ Ascending(<< >>) /\ Range(<< >>) = {} /\ s \o << >> = s
    BY ConcatEmptySeq DEF Ascending, Range
  <2>1. CASE stored' = stored \o b /\ lost' = lost
    <3>1. Range(b) = Range(b) \ {} /\ lost' = L \cup {} /\ {} \in SUBSET Range(b)
      BY <1>2, <2>1
    <3> QED  BY <1>1, <1>4, <2>1, <3>1
  <2>2. CASE lost' = lost \cup Range(b) /\ stored' = stored
    <3>1. /\ Range(<< >>) = Range(b) \ Range(b) /\ lost' = L \cup Range(b)
          /\ stored' = s \o << >> /\ Range(b) \in SUBSET Range(b)
      BY <1>1, <1>2, <2>0, <2>2
    <3> QED  BY <2>0, <3>1
  <2>3. CASE \E failed \in SUBSET Range(b) \ {{}} :
               stored' = stored \o Inserted(b, failed) /\ lost' = lost \cup failed
    <3>1. PICK failed \in SUBSET Range(b) :
            stored' = stored \o Inserted(b, failed) /\ lost' = lost \cup failed
      BY <2>3
    <3>2. /\ Inserted(b, failed) \in Seq(Nat) /\ Ascending(Inserted(b, failed))
          /\ Range(Inserted(b, failed)) = Range(b) \ failed
      BY <1>4, InsertedFacts
    <3> QED  BY <1>1, <1>2, <3>1, <3>2
  <2>4. CASE b = << >> /\ stored' = stored /\ lost' = lost
    <3>1. Range(<< >>) = Range(b) \ {} /\ lost' = L \cup {} /\ stored' = s \o << >>
      BY <1>1, <1>2, <2>0, <2>4
    <3> QED  BY <2>0, <3>1
  <2> QED  BY <2>1, <2>2, <2>3, <2>4 DEF Flush
<1>6. PICK r \in Seq(Nat), F \in SUBSET Range(b) :
        /\ Ascending(r) /\ Range(r) = Range(b) \ F
        /\ stored' = s \o r /\ lost' = L \cup F
  BY <1>5
<1>7. Conserved(s \o b \o c, L, A)
  BY <1>1, <1>2
<1>8. Conserved((s \o r) \o << >> \o c, L \cup F, A)
  BY <1>6, <1>7, FlushConserves
<1>9. Accepted' = A
  BY <1>2 DEF Accepted
<1>10. batch' = << >>
  BY DEF Flush
<1>11. Conserved(stored \o batch \o insertCh, lost, Accepted)'
  <2>1. Conserved(stored' \o batch' \o insertCh', lost', Accepted')
    BY <1>6, <1>8, <1>9, <1>10
  <2> QED  BY <2>1 DEF Conserved, Ascending
<1>12. WriterTypes'
  <2>1. s \o r \in Seq(Nat)
    BY ConcatProperties
  <2> QED  BY <1>6, <1>10, <2>1 DEF WriterTypes
<1>13. StoredGrows
  BY <1>1, <1>6 DEF StoredGrows
<1> QED  BY <1>11, <1>12, <1>13 DEF WriterInv

\* An accepted entry is the newest one of all.
LEMMA PushKeeps ==
  ASSUME WriterInv, Push
  PROVE  WriterInv'
<1> DEFINE O == {"accepted", "dropped", "panicked"}
<1>1. PICK p \in Seq(O) : p = push
  BY DEF WriterInv, WriterTypes
<1>2. PICK n \in Nat : n = Len(p) /\ DOMAIN p = 1 .. n
  BY LenProperties
<1>3. PICK s, b, c \in Seq(Nat) : s = stored /\ b = batch /\ c = insertCh
  BY DEF WriterInv, WriterTypes
<1>4. PICK h \in Seq(Nat) : h = s \o b \o c
  BY ConcatProperties
<1>5. stored' = s /\ batch' = b /\ lost' = lost
  BY <1>3 DEF Push
<1>6. Conserved(h, lost, Accepted)
  BY <1>3, <1>4 DEF WriterInv
<1>7. PICK o \in O : push' = Append(p, o) /\
        insertCh' = IF o = "accepted" THEN Append(c, Len(push')) ELSE c
  BY <1>1, <1>3 DEF Push
<1>8. /\ push' \in Seq(O) /\ Len(push') = n + 1 /\ DOMAIN push' = 1 .. n + 1
      /\ push'[n + 1] = o /\ \A k \in 1 .. n : push'[k] = p[k]
  <2>1. PICK t : t = Append(p, o)
    OBVIOUS
  <2>2. /\ t \in Seq(O) /\ Len(t) = n + 1 /\ DOMAIN t = 1 .. n + 1
        /\ t[n + 1] = o /\ \A k \in 1 .. n : t[k] = p[k]
    <3> HIDE DEF O
    <3> QED  BY <1>2, <2>1, AppendShape
  <2> QED  BY <1>7, <2>1, <2>2
<1>9. Accepted' = IF o = "accepted" THEN Accepted \cup {n + 1} ELSE Accepted
  <2>1. \A k \in 1 .. n + 1 : k \in 1 .. n \/ k = n + 1
    OBVIOUS
  <2>2. n + 1 \notin 1 .. n /\ 1 .. n \subseteq 1 .. n + 1 /\ n + 1 \in 1 .. n + 1
    OBVIOUS
  <2> QED  BY <1>1, <1>2, <1>8, <2>1, <2>2 DEF Accepted
<1>10. CASE o # "accepted"
  <2>1. insertCh' = c /\ Accepted' = Accepted
    BY <1>7, <1>9, <1>10
  <2>2. Conserved(stored' \o batch' \o insertCh', lost', Accepted')
    BY <1>4, <1>5, <1>6, <2>1
  <2>3. WriterTypes'
    BY <1>5, <1>8, <2>1 DEF WriterTypes
  <2> QED  BY <2>2, <2>3 DEF WriterInv, Conserved, Ascending
<1>11. CASE o = "accepted"
  <2>1. insertCh' = Append(c, n + 1) /\ Accepted' = Accepted \cup {n + 1}
    BY <1>7, <1>8, <1>9, <1>11
  <2>2. Append(c, n + 1) \in Seq(Nat)
    BY AppendProperties
  <2>3. s \o b \o Append(c, n + 1) = Append(h, n + 1)
    <3>1. s \o b \in Seq(Nat)
      BY ConcatProperties
    <3>2. (s \o b) \o Append(c, n + 1) = Append((s \o b) \o c, n + 1)
      <4>1. PICK e \in Nat : e = n + 1
        OBVIOUS
      <4>2. \A x, y \in Seq(Nat) : x \o Append(y, e) = Append(x \o y, e)
        BY ConcatAppend
      <4> QED  BY <3>1, <4>1, <4>2, Zenon
    <3> QED  BY <1>4, <3>2
  <2>4. Range(h) \subseteq Accepted /\ lost \subseteq Accepted /\ Accepted \subseteq 1 .. n
    BY <1>1, <1>2, <1>6 DEF Conserved, Accepted
  <2>5. Below(Range(h), {n + 1}) /\ n + 1 \notin lost /\ Ascending(h)
    <3>1. \A x \in 1 .. n : x < n + 1
      OBVIOUS
    <3>2. Below(Range(h), {n + 1})
      BY <2>4, <3>1 DEF Below
    <3>3. n + 1 \notin lost
      BY <2>4, <3>1
    <3> QED  BY <1>6, <3>2, <3>3 DEF Conserved
  <2>6. Range(Append(h, n + 1)) = Range(h) \cup {n + 1} /\ Ascending(Append(h, n + 1))
    BY <2>5, AscendingAppend
  <2>7. Conserved(Append(h, n + 1), lost, Accepted \cup {n + 1})
    BY <1>6, <2>5, <2>6 DEF Conserved
  <2>8. Conserved(stored' \o batch' \o insertCh', lost', Accepted')
    BY <1>5, <2>1, <2>3, <2>7
  <2>9. WriterTypes'
    BY <1>5, <1>8, <2>1, <2>2 DEF WriterTypes
  <2> QED  BY <2>8, <2>9 DEF WriterInv, Conserved, Ascending
<1> QED  BY <1>10, <1>11

\* An entry that the writer takes moves from the channel to the end of the batch.
LEMMA TakeKeeps ==
  ASSUME WriterInv, Take
  PROVE  WriterInv' /\ StoredGrows
<1>1. PICK s, b, c \in Seq(Nat) : s = stored /\ b = batch /\ c = insertCh
  BY DEF WriterInv, WriterTypes
<1>2. c # << >> /\ insertCh' = Tail(c) /\ push' = push
  BY <1>1 DEF Take
<1>3. PICK t \in Seq(Nat), e \in Nat : t = Tail(c) /\ e = Head(c)
  BY <1>2, HeadTailProperties
<1>4. PICK d \in Seq(Nat) : d = Append(b, e)
  BY AppendProperties
<1>5. s \o d \o t = s \o b \o c
  <2>1. d \o t = b \o c
    BY <1>2, <1>3, <1>4, ConcatHeadTail
  <2>2. s \o d \o t = s \o (d \o t) /\ s \o b \o c = s \o (b \o c)
    <3>1. s \o d \o t = s \o (d \o t)
      BY Associative, Zenon
    <3>2. s \o b \o c = s \o (b \o c)
      BY Associative, Zenon
    <3> QED  BY <3>1, <3>2, Zenon
  <2> QED  BY <2>1, <2>2
<1>6. Conserved(stored \o d \o t, lost, Accepted)
  BY <1>1, <1>5 DEF WriterInv
<1>7. CASE Flush(d)
  BY <1>2, <1>3, <1>6, <1>7, FlushKeeps DEF WriterInv, WriterTypes
<1>8. CASE batch' = d /\ UNCHANGED <<stored, lost, faults>>
  <2>1. Accepted' = Accepted
    BY <1>2 DEF Accepted
  <2>2. Conserved(stored' \o batch' \o insertCh', lost', Accepted')
    BY <1>2, <1>3, <1>6, <1>8, <2>1
  <2>3. WriterTypes'
    BY <1>2, <1>3, <1>8 DEF WriterInv, WriterTypes
  <2>4. StoredGrows
    BY <1>8, StoredStays DEF WriterInv, WriterTypes
  <2> QED  BY <2>2, <2>3, <2>4 DEF WriterInv, Conserved, Ascending
<1> QED  BY <1>1, <1>3, <1>4, <1>7, <1>8 DEF Take

\* The ticker's flush and the drain take what stands before the channel.
LEMMA TickAndDrainKeep ==
  ASSUME WriterInv, Tick \/ Drain
  PROVE  WriterInv' /\ StoredGrows
<1>1. PICK s, b, c \in Seq(Nat) : s = stored /\ b = batch /\ c = insertCh
  BY DEF WriterInv, WriterTypes
<1>2. CASE Tick
  <2>1. Flush(b) /\ insertCh' = c /\ push' = push
    BY <1>1, <1>2 DEF Tick
  <2> QED  BY <1>1, <2>1, FlushKeeps DEF WriterInv, WriterTypes
<1>3. CASE Drain
  <2>1. PICK d, e \in Seq(Nat) : d = b \o c /\ e = << >>
    <3>1. b \o c \in Seq(Nat) /\ << >> \in Seq(Nat)
      BY ConcatProperties
    <3> QED  BY <3>1
  <2>2. Flush(d) /\ insertCh' = e /\ push' = push
    BY <1>1, <1>3, <2>1 DEF Drain
  <2>3. s \o d \o e = s \o b \o c
    <3>1. s \o d \in Seq(Nat) /\ s \o (b \o c) = s \o b \o c
      <4>1. s \o d \in Seq(Nat)
        BY ConcatProperties
      <4>2. s \o (b \o c) = s \o b \o c
        BY Associative, Zenon
      <4> QED  BY <4>1, <4>2
    <3> QED  BY <2>1, <3>1, ConcatEmptySeq
  <2>4. Conserved(stored \o d \o e, lost, Accepted)
    BY <1>1, <2>3 DEF WriterInv
  <2> QED  BY <2>2, <2>4, FlushKeeps DEF WriterInv, WriterTypes
<1> QED  BY <1>2, <1>3

\* Every step of either sink keeps the writer's invariant.
LEMMA WriterStep ==
  ASSUME WriterInv, [Step]_allVars
  PROVE  WriterInv' /\ StoredGrows
<1>1. CASE UNCHANGED <<insertCh, batch, push, stored, lost>>
  <2>1. WriterTypes' /\ Accepted' = Accepted
    BY <1>1 DEF WriterInv, WriterTypes, Accepted
  <2>2. Conserved(stored' \o batch' \o insertCh', lost', Accepted')
    BY <1>1, <2>1 DEF WriterInv
  <2>3. StoredGrows
    BY <1>1, StoredStays DEF WriterInv, WriterTypes
  <2> QED  BY <2>1, <2>2, <2>3 DEF WriterInv, Conserved, Ascending
<1>2. CASE Next
  <2>1. CASE StartDrain \/ Close \/ CloseReturn
    BY <1>1, <2>1 DEF StartDrain, Close, CloseReturn
  <2>2. CASE Push
    <3>1. StoredGrows
      BY <2>2, StoredStays DEF WriterInv, WriterTypes, Push
    <3> QED  BY <2>2, <3>1, PushKeeps
  <2> QED  BY <1>2, <2>1, <2>2, TakeKeeps, TickAndDrainKeep DEF Next, Writer
<1>3. CASE Clean \/ Answer \/ (\E id \in DOMAIN stored : Age(id))
             \/ (\E f \in Filters : Query(f))
  BY <1>1, <1>3 DEF Clean, Answer, Age, Query, vars
<1>4. CASE UNCHANGED logVars
  BY <1>1, <1>4 DEF logVars, vars
<1> QED  BY <1>2, <1>3, <1>4 DEF Step, LogNext, allVars

\* Nothing is pushed at the start.
LEMMA WriterInit == Start => WriterInv
<1> SUFFICES ASSUME Start
             PROVE  WriterInv
  OBVIOUS
<1>1. insertCh = << >> /\ batch = << >> /\ stored = << >> /\ push = << >> /\ lost = {}
  BY DEF Start, LogInit, Init
<1>2. << >> \o << >> \o << >> = << >> /\ Ascending(<< >>) /\ Range(<< >>) = {}
  BY DEF Ascending, Range
<1>3. Accepted = {}
  BY <1>1 DEF Accepted
<1> QED  BY <1>1, <1>2, <1>3 DEF WriterInv, WriterTypes, Conserved

\* Entries are lost by a statement that fails, or after Close has closed the
\* database.
LossInv == faults \in Nat /\ (lost # {} => faults > 0 \/ ~dbOpen)

\* Every step keeps it: the fault is counted when the statement fails.
LEMMA LossStep == LossInv /\ [Step]_allVars => LossInv'
<1>1. ASSUME NEW b, Flush(b)
      PROVE  \/ faults' = faults /\ lost' = lost
             \/ faults' = faults + 1
             \/ faults' = faults /\ ~dbOpen
  BY <1>1 DEF Flush
<1>2. [Step]_allVars => /\ \/ faults' = faults /\ lost' = lost
                           \/ faults' = faults + 1
                           \/ faults' = faults /\ ~dbOpen
                        /\ ~dbOpen => ~dbOpen'
  BY <1>1 DEF Step, LogNext, Next, Writer, Push, Take, Tick, StartDrain, Drain, Close,
              CloseReturn, Clean, Answer, Age, Query, vars, logVars, allVars
<1> QED  BY <1>2 DEF LossInv

\* Every entry that Push accepted is in exactly one place, written, in the batch,
\* in the channel or lost, and those that are not lost stand in the order of their
\* pushes, whichever batches and single inserts fail and whenever Close comes; and
\* none is lost unless a statement failed or the database was closed.
THEOREM EntriesConservedHolds == Logging => []EntriesConserved
<1>1. WriterInv /\ LossInv /\ [Step]_allVars => (WriterInv /\ LossInv)'
  BY WriterStep, LossStep
<1>2. WriterInv /\ LossInv => EntriesConserved
  BY DEF WriterInv, LossInv, Conserved, Ascending, Accepted, EntriesConserved
<1>3. Start => LossInv
  BY DEF Start, LogInit, Init, LossInv
<1> QED  BY <1>1, <1>2, <1>3, WriterInit, PTL DEF Logging, allVars

-----------------------------------------------------------------------------
(* Pages of the table.                                                     *)

\* In a finite set S, where b[x] is what precedes x, some element is preceded by
\* any given number of others.
LEMMA RanksExist ==
  ASSUME NEW S, IsFiniteSet(S), NEW b \in [S -> SUBSET S],
         \A x \in S : x \notin b[x],
         \A x, y \in S : x # y => \/ b[x] \subseteq b[y] /\ x \in b[y]
                                  \/ b[y] \subseteq b[x] /\ y \in b[x],
         NEW n, n = Cardinality(S)
  PROVE  n \in Nat /\ \A k \in 1 .. n : \E x \in S : Cardinality(b[x]) = k - 1
<1>1. n \in Nat
  BY FS_CardinalityType
<1>2. ASSUME NEW x \in S
      PROVE  Cardinality(b[x]) \in Nat /\ Cardinality(b[x]) < n /\ IsFiniteSet(b[x])
  <2>1. b[x] \subseteq S /\ b[x] # S
    OBVIOUS
  <2>2. IsFiniteSet(b[x]) /\ Cardinality(b[x]) < Cardinality(S)
    BY <2>1, FS_Subset, FS_CardinalityType
  <2> QED  BY <2>2, FS_CardinalityType
<1>3. ASSUME NEW x \in S, NEW y \in S, b[x] \subseteq b[y], x \in b[y]
      PROVE  Cardinality(b[x]) < Cardinality(b[y])
  <2>1. b[x] # b[y] /\ IsFiniteSet(b[y])
    BY <1>2, <1>3
  <2> QED  BY <1>2, <1>3, <2>1, FS_Subset
<1>4. \A x, y \in S : Cardinality(b[x]) = Cardinality(b[y]) => x = y
  BY <1>2, <1>3
<1> DEFINE r == [x \in S |-> Cardinality(b[x]) + 1]
<1>5. r \in [S -> 1 .. n]
  BY <1>1, <1>2
<1>6. r \in Injection(S, 1 .. n)
  <2>1. \A x, y \in S : r[x] = r[y] => x = y
    BY <1>2, <1>4
  <2> QED  BY <1>5, <2>1 DEF Injection, IsInjective
<1>7. IsFiniteSet(1 .. n) /\ Cardinality(1 .. n) = n
  BY <1>1, FS_Interval
<1>8. r \in Surjection(S, 1 .. n)
  <2> HIDE DEF r
  <2> QED  BY <1>6, <1>7, FS_Injection
<1>9. ASSUME NEW k \in 1 .. n
      PROVE  \E x \in S : Cardinality(b[x]) = k - 1
  <2>1. PICK x \in S : r[x] = k
    <3> HIDE DEF r
    <3> QED  BY <1>8 DEF Surjection
  <2> QED  BY <1>2, <2>1
<1> QED  BY <1>1, <1>9

\* The rows that a filter selects are finitely many ids.
LEMMA SelectedFinite ==
  ASSUME stored \in Seq(Nat), NEW f
  PROVE  IsFiniteSet(Selected(f)) /\ Selected(f) \subseteq Nat
<1>1. PICK n \in Nat : DOMAIN stored = 1 .. n
  BY LenProperties
<1>2. IsFiniteSet(1 .. n) /\ Selected(f) \subseteq 1 .. n
  BY <1>1, FS_Interval DEF Selected
<1> QED  BY <1>2, FS_Subset

\* What page p, of rows of the set S, says about S.
PageOf(p, S) ==
  Len(p) \in Nat /\ Range(p) \subseteq S /\ Cardinality(Range(p)) = Len(p)

\* A page has different rows, all of them selected.
LEMMA PageFacts ==
  ASSUME stored \in Seq(Nat), NEW f
  PROVE  PageOf(Page(f), Selected(f))
<1>1. PICK S : S = Selected(f) /\ IsFiniteSet(S) /\ S \subseteq Nat
  BY SelectedFinite
<1>2. PICK n : n = Cardinality(S)
  OBVIOUS
<1> DEFINE before(id) == {j \in S : IF f.desc THEN j > id ELSE j < id}
<1>3. n \in Nat /\ \A k \in 1 .. n : \E x \in S : Cardinality(before(x)) = k - 1
  <2>1. PICK b : b = [x \in S |-> before(x)]
    OBVIOUS
  <2>2. b \in [S -> SUBSET S] /\ \A x \in S : x \notin b[x]
    BY <1>1, <2>1
  <2>3. ASSUME NEW x \in S, NEW y \in S, x # y
        PROVE  \/ b[x] \subseteq b[y] /\ x \in b[y]
               \/ b[y] \subseteq b[x] /\ y \in b[x]
    <3>1. CASE f.desc
      <4>1. b[x] = {j \in S : j > x} /\ b[y] = {j \in S : j > y}
        BY <2>1, <3>1
      <4> QED  BY <1>1, <2>3, <4>1
    <3>2. CASE ~f.desc
      <4>1. b[x] = {j \in S : j < x} /\ b[y] = {j \in S : j < y}
        BY <2>1, <3>2
      <4> QED  BY <1>1, <2>3, <4>1
    <3> QED  BY <3>1, <3>2
  <2> HIDE DEF before
  <2>4. n \in Nat /\ \A k \in 1 .. n : \E x \in S : Cardinality(b[x]) = k - 1
    BY <1>1, <1>2, <2>2, <2>3, RanksExist
  <2> QED  BY <2>1, <2>4
<1>4. PICK m \in Nat : m <= n /\ m = IF n < Limit THEN n ELSE Limit
  BY <1>3, LogStoreAssumption
<1>5. PICK p : p = [k \in 1 .. m |-> CHOOSE id \in S : Cardinality(before(id)) = k - 1]
  OBVIOUS
<1>6. Page(f) = p
  BY <1>1, <1>2, <1>4, <1>5 DEF Page
<1>7. \A k \in 1 .. m : p[k] \in S /\ Cardinality(before(p[k])) = k - 1
  <2> HIDE DEF before
  <2> QED  BY <1>3, <1>4, <1>5
<1>8. p \in Seq(S) /\ Len(p) = m /\ DOMAIN p = 1 .. m
  <2> HIDE DEF before
  <2>1. p \in [1 .. m -> S]
    BY <1>5, <1>7
  <2> QED  BY <1>4, <2>1
<1>9. Range(p) \subseteq S
  BY <1>7, <1>8 DEF Range
<1>10. Cardinality(Range(p)) = m
  <2> HIDE DEF before
  <2>1. \A j, k \in 1 .. m : p[j] = p[k] => j = k
    BY <1>7
  <2>2. p \in Injection(1 .. m, Range(p)) /\ p \in Surjection(1 .. m, Range(p))
    BY <1>8, <2>1 DEF Injection, IsInjective, Surjection, Range
  <2>3. IsFiniteSet(1 .. m) /\ Cardinality(1 .. m) = m
    BY FS_Interval
  <2> QED  BY <2>2, <2>3, FS_Surjection
<1> QED  BY <1>1, <1>6, <1>8, <1>9, <1>10 DEF PageOf

\* While an answer is being made, its page is one of what the filter selects now,
\* unless rows were deleted.
ReadInv == reading /\ ~disturbed => PageOf(page, Selected(filter))

\* Rows that are added leave those that a filter has selected.
LEMMA SelectedGrows ==
  ASSUME stored \in Seq(Nat), StoredGrows, deleted' = deleted, filter' = filter
  PROVE  Selected(filter) \subseteq Selected(filter)'
<1>1. PICK s \in Seq(Nat), r \in Seq(Nat) : s = stored /\ stored' = s \o r
  BY DEF StoredGrows
<1>2. PICK u : u = s \o r
  OBVIOUS
<1>3. PICK n, m : n = Len(s) /\ m = Len(r)
  OBVIOUS
<1>4. /\ n \in Nat /\ m \in Nat /\ DOMAIN s = 1 .. n /\ DOMAIN u = 1 .. n + m
      /\ \A k \in 1 .. n : u[k] = s[k]
  BY <1>2, <1>3, ConcatShape
<1>5. \A id \in DOMAIN stored : id \in DOMAIN stored' /\ stored'[id] = stored[id]
  BY <1>1, <1>2, <1>4
<1> QED  BY <1>5 DEF Selected, Selects

\* No step but a deletion takes a row of the page away.
LEMMA ReadStep ==
  ASSUME WriterInv, ReadInv, [Step]_allVars
  PROVE  ReadInv'
<1>1. stored \in Seq(Nat) /\ StoredGrows
  BY WriterStep DEF WriterInv, WriterTypes
<1>2. CASE UNCHANGED <<deleted, reading, filter, page>> /\ (disturbed => disturbed')
  <2>1. Selected(filter) \subseteq Selected(filter)'
    BY <1>1, <1>2, SelectedGrows
  <2> QED  BY <1>2, <2>1 DEF ReadInv, PageOf
<1>3. CASE Next /\ UNCHANGED <<tableVars, readVars>>
  BY <1>2, <1>3 DEF tableVars, readVars
<1>4. CASE \E id \in DOMAIN stored : Age(id)
  BY <1>2, <1>4 DEF Age, readVars
<1>5. CASE Clean
  <2>1. CASE deleted' = deleted
    BY <1>2, <1>5, <2>1 DEF Clean
  <2>2. CASE deleted' # deleted
    BY <1>5, <2>2 DEF Clean, ReadInv
  <2> QED  BY <2>1, <2>2
<1>6. CASE Answer
  BY <1>6 DEF Answer, ReadInv
<1>7. ASSUME NEW f \in Filters, Query(f)
      PROVE  ReadInv'
  <2>1. /\ stored' = stored /\ deleted' = deleted /\ page' = Page(f) /\ filter' = f
    BY <1>7 DEF Query, vars, tableVars
  <2>2. PageOf(Page(f), Selected(f))
    BY <1>1, PageFacts
  <2>3. Selected(filter)' = Selected(f)
    BY <2>1 DEF Selected, Selects
  <2> QED  BY <2>1, <2>2, <2>3 DEF ReadInv, PageOf
<1>8. CASE UNCHANGED logVars
  BY <1>2, <1>8 DEF logVars, tableVars, readVars
<1> QED  BY <1>3, <1>4, <1>5, <1>6, <1>7, <1>8 DEF Step, LogNext, allVars

\* A page has all rows just when it has as many.
LEMMA MoreRows ==
  ASSUME NEW S, IsFiniteSet(S), NEW p, PageOf(p, S)
  PROVE  Len(p) < Cardinality(S) <=> S \ Range(p) # {}
<1>1. PICK R : R = Range(p) /\ R \subseteq S /\ Cardinality(R) = Len(p)
  BY DEF PageOf
<1>2. Cardinality(S) \in Nat /\ Cardinality(R) \in Nat
  BY <1>1, FS_Subset, FS_CardinalityType
<1>3. R # S => Cardinality(R) < Cardinality(S)
  BY <1>1, <1>2, FS_Subset
<1>4. S \ R # {} <=> R # S
  BY <1>1
<1>5. R = S => ~(Cardinality(R) < Cardinality(S))
  BY <1>2
<1> QED  BY <1>1, <1>3, <1>4, <1>5

\* An answer of handleLogs says has_more just when the table has a row that the
\* request selects and that is not on the page, whatever was added between Query
\* and Count, unless rows were deleted in between or Count failed.
THEOREM HasMoreIsExactHolds == Logging => HasMoreIsExact
<1> DEFINE Exact ==
      reading /\ ~reading' /\ ~disturbed /\ dbOpen /\ faults' = faults =>
        (hasMore' <=> Selected(filter) \ Range(page) # {})
      Inv == WriterInv /\ ReadInv /\ LossInv
<1>1. Start => Inv
  BY WriterInit DEF Start, LogInit, Init, ReadInv, LossInv
<1>2. Inv /\ [Step]_allVars => Inv'
  BY WriterStep, ReadStep, LossStep
<1>3. Inv /\ [Step]_allVars => [Exact]_logVars
  <2> SUFFICES ASSUME Inv, [Step]_allVars, reading, ~reading', ~disturbed, dbOpen,
                      faults' = faults
               PROVE  hasMore' <=> Selected(filter) \ Range(page) # {}
    OBVIOUS
  <2>1. Answer
    BY DEF Step, LogNext, Clean, Age, Query, allVars, logVars, readVars
  <2>2. faults # faults + 1
    BY DEF LossInv
  <2>3. hasMore' = (Len(page) < Count(filter))
    BY <2>1, <2>2 DEF Answer
  <2>4. PICK S, p : S = Selected(filter) /\ p = page
    OBVIOUS
  <2>5. IsFiniteSet(S) /\ PageOf(p, S)
    BY <2>4, SelectedFinite DEF WriterInv, WriterTypes, ReadInv
  <2>6. Len(p) < Cardinality(S) <=> S \ Range(p) # {}
    BY <2>5, MoreRows
  <2> QED  BY <2>3, <2>4, <2>6 DEF Count
<1> QED  BY <1>1, <1>2, <1>3, PTL DEF Logging, HasMoreIsExact, allVars
=============================================================================
