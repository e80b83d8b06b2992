----------------------------- MODULE RingBuffer -----------------------------
(***************************************************************************)
(* The ring buffer of recent log entries and its subscribers               *)
(* (internal/logging/ringbuffer.go), with the event-stream handler of the  *)
(* admin API that subscribes to it (internal/admin/handlers.go).           *)
(* Push and the map of subscribers are guarded by one mutex; a subscriber  *)
(* cancels in two steps, out of the map under the mutex and then closing   *)
(* the channel without it.                                                 *)
(***************************************************************************)
EXTENDS Integers, Sequences

CONSTANTS
  Entry,       \* log entries
  Capacity,    \* log_buffer_size
  Stream,      \* event-stream handlers, one subscription each
  ChanCap,     \* capacity of a subscriber's channel (100)
  MaxPushes    \* bound on the entries pushed

VARIABLES
  entries,     \* the slots, 0 .. Capacity - 1
  head,        \* the slot the next entry goes to
  size,        \* slots in use
  subscribers, \* streams in the map
  chan,        \* per stream: the channel's buffer
  closed,      \* streams whose channel is closed
  pc,          \* per stream: new, open, cancelled (out of the map) or ended
  panicked,    \* has a goroutine sent on a closed channel?
  pushed       \* history: every entry ever pushed, oldest first

vars == <<entries, head, size, subscribers, chan, closed, pc, panicked, pushed>>

Slot   == 0 .. Capacity - 1
NoEntry == "none"

Init ==
  /\ entries = [s \in Slot |-> NoEntry]
  /\ head = 0 /\ size = 0
  /\ subscribers = {}
  /\ chan = [s \in Stream |-> << >>]
  /\ closed = {}
  /\ pc = [s \in Stream |-> "new"]
  /\ panicked = FALSE
  /\ pushed = << >>

\* Push: store the entry and offer it to every subscriber without waiting.
Push(e) ==
  /\ Len(pushed) < MaxPushes
  /\ entries' = [entries EXCEPT ![head] = e]
  /\ head' = (head + 1) % Capacity
  /\ size' = IF size < Capacity THEN size + 1 ELSE size
  /\ chan' = [s \in Stream |->
                IF s \in subscribers \ closed /\ Len(chan[s]) < ChanCap
                  THEN Append(chan[s], e) ELSE chan[s]]
  /\ panicked' = (panicked \/ subscribers \cap closed # {})
  /\ pushed' = Append(pushed, e)
  /\ UNCHANGED <<subscribers, closed, pc>>

\* Mutant of EntriesOf: it starts at the slot the next entry goes to.
EntriesFromHead(limit) ==
  LET n == IF limit <= 0 \/ limit > size THEN size ELSE limit
  IN  [k \in 1 .. n |-> entries[(head - k + 1 + Capacity) % Capacity]]

\* Entries: the newest limit entries (all for 0), newest first.
EntriesOf(limit) ==
  LET n == IF limit <= 0 \/ limit > size THEN size ELSE limit
  IN  [k \in 1 .. n |-> entries[(head - k + Capacity) % Capacity]]

Subscribe(s) ==
  /\ pc[s] = "new"
  /\ subscribers' = subscribers \cup {s}
  /\ pc' = [pc EXCEPT ![s] = "open"]
  /\ UNCHANGED <<entries, head, size, chan, closed, panicked, pushed>>

\* The stream takes an entry and writes it to its client.
Receive(s) ==
  /\ pc[s] = "open" /\ chan[s] # << >>
  /\ chan' = [chan EXCEPT ![s] = Tail(@)]
  /\ UNCHANGED <<entries, head, size, subscribers, closed, pc, panicked, pushed>>

\* The client is gone and the write fails: the handler returns, and its
\* deferred cancel begins.
ReceiveFail(s) ==
  /\ pc[s] = "open" /\ chan[s] # << >>
  /\ chan' = [chan EXCEPT ![s] = Tail(@)]
  /\ subscribers' = subscribers \ {s}
  /\ pc' = [pc EXCEPT ![s] = "cancelled"]
  /\ UNCHANGED <<entries, head, size, closed, panicked, pushed>>

\* Mutant of Cancel: the channel is closed before the stream leaves the map.
CancelClosingFirst(s) ==
  /\ pc[s] = "open"
  /\ closed' = closed \cup {s}
  /\ pc' = [pc EXCEPT ![s] = "cancelled"]
  /\ UNCHANGED <<entries, head, size, subscribers, chan, panicked, pushed>>

\* The request's context ends and the handler returns: cancel takes the
\* stream out of the map ...
Cancel(s) ==
  /\ pc[s] = "open"
  /\ subscribers' = subscribers \ {s}
  /\ pc' = [pc EXCEPT ![s] = "cancelled"]
  /\ UNCHANGED <<entries, head, size, chan, closed, panicked, pushed>>

\* ... and closes its channel.
CloseChan(s) ==
  /\ pc[s] = "cancelled"
  /\ closed' = closed \cup {s}
  /\ pc' = [pc EXCEPT ![s] = "ended"]
  /\ UNCHANGED <<entries, head, size, subscribers, chan, panicked, pushed>>

Next ==
  \/ \E e \in Entry : Push(e)
  \/ \E s \in Stream : \/ Subscribe(s) \/ Receive(s) \/ ReceiveFail(s)
                      \/ Cancel(s) \/ CloseChan(s)

Spec == Init /\ [][Next]_vars

-----------------------------------------------------------------------------
\* Push never sends on a closed channel, though channels are closed outside
\* the mutex.
NeverPanics == ~panicked

\* The buffer is the bounded log: its slots, read backwards from head and
\* around the end, are the newest Capacity entries.
Recent == INSTANCE BoundedLog WITH recent <- EntriesOf(0)
RecentSpec == Recent!Spec
=============================================================================
