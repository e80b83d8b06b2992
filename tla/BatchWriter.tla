---------------------------- MODULE BatchWriter -----------------------------
(***************************************************************************)
(* The asynchronous log sinks: the SQLite store, the PostgreSQL store and  *)
(* the Loki pusher share this design (internal/logging/store.go,           *)
(* store_postgres.go, loki.go).  Requests push entries into a bounded      *)
(* channel without waiting; one goroutine collects them in a batch and     *)
(* writes it when it is full or when a ticker fires; Close tells that      *)
(* goroutine to drain the channel and waits 100 ms, not for the goroutine. *)
(***************************************************************************)
EXTENDS Integers, Sequences, SequencesExt, FiniteSets

CONSTANTS
  MaxPush,    \* bound on the entries that requests push
  ChanCap,    \* capacity of insertCh (1000)
  BatchSize,  \* batchSize (100)
  MaxFaults   \* bound on failed writes

ASSUME WriterAssumption ==
  MaxPush \in Nat /\ ChanCap \in Nat \ {0} /\ BatchSize \in Nat \ {0} /\ MaxFaults \in Nat

VARIABLES
  insertCh,  \* the channel's buffer
  chOpen,    \* is the channel open?
  done,      \* has Close closed the done channel?
  dbOpen,    \* can batches still be written?
  closing,   \* where Close is: "no", "waiting", "returned"
  writer,    \* where the writer is: "loop", "drain", "gone"
  batch,     \* entries it has collected
  push,      \* history: what became of each push, in order: "accepted",
             \* "dropped" or "panicked"; an entry is its place in this sequence
  stored,    \* entries written, in order
  lost,      \* history: the entries that could not be written
  faults     \* failed writes so far

vars == <<insertCh, chOpen, done, dbOpen, closing, writer, batch, push, stored,
          lost, faults>>

Init ==
  /\ insertCh = << >> /\ chOpen = TRUE /\ done = FALSE /\ dbOpen = TRUE
  /\ closing = "no" /\ writer = "loop" /\ batch = << >>
  /\ push = << >> /\ stored = << >> /\ lost = {} /\ faults = 0

\* Push never waits: a full channel drops the entry, and a closed channel
\* panics.
Push ==
  /\ Len(push) < MaxPush
  /\ LET outcome == CASE ~chOpen -> "panicked"
                      [] chOpen /\ Len(insertCh) < ChanCap -> "accepted"
                      [] OTHER -> "dropped"
     IN  /\ push' = Append(push, outcome)
         /\ insertCh' = IF outcome = "accepted" THEN Append(insertCh, Len(push'))
                        ELSE insertCh
  /\ UNCHANGED <<chOpen, done, dbOpen, closing, writer, batch, stored, lost, faults>>

\* The rows of b whose insert does not fail, in order.
Inserted(b, failed) ==
  LET rows[k \in 0 .. Len(b)] ==
        IF k = 0 THEN << >>
        ELSE IF b[k] \in failed THEN rows[k - 1] ELSE Append(rows[k - 1], b[k])
  IN  rows[Len(b)]

\* flush of the batch b: written, or lost without a trace if the database is
\* closed.  A statement may fail for all of the batch or, since the errors of
\* the single inserts are ignored, for part of it.  The batch is emptied
\* either way.
Flush(b) ==
  /\ \/ b # << >> /\ dbOpen /\ stored' = stored \o b /\ UNCHANGED <<lost, faults>>
     \/ b # << >> /\ ~dbOpen /\ lost' = lost \cup Range(b) /\ UNCHANGED <<stored, faults>>
     \/ /\ b # << >> /\ dbOpen /\ faults < MaxFaults
        /\ \E failed \in SUBSET Range(b) \ {{}} :
             /\ stored' = stored \o Inserted(b, failed)
             /\ lost' = lost \cup failed
        /\ faults' = faults + 1
     \/ b = << >> /\ UNCHANGED <<stored, lost, faults>>
  /\ batch' = << >>

\* Mutant of Take: a full batch is flushed before the entry joins it.
TakeFlushingEarly ==
  /\ writer = "loop" /\ insertCh # << >>
  /\ insertCh' = Tail(insertCh)
  /\ IF Len(batch) + 1 >= BatchSize THEN Flush(batch)
     ELSE batch' = Append(batch, Head(insertCh)) /\ UNCHANGED <<stored, lost, faults>>
  /\ UNCHANGED <<chOpen, done, dbOpen, closing, writer, push>>

\* batchWriter takes an entry, and flushes a full batch.
Take ==
  /\ writer = "loop" /\ insertCh # << >>
  /\ insertCh' = Tail(insertCh)
  /\ LET b == Append(batch, Head(insertCh))
     IN  IF Len(b) >= BatchSize THEN Flush(b)
         ELSE batch' = b /\ UNCHANGED <<stored, lost, faults>>
  /\ UNCHANGED <<chOpen, done, dbOpen, closing, writer, push>>

\* Mutant of Tick: the ticker flushes full batches only.
TickFullOnly ==
  /\ writer = "loop" /\ Len(batch) >= BatchSize
  /\ Flush(batch)
  /\ UNCHANGED <<insertCh, chOpen, done, dbOpen, closing, writer, push>>

\* The ticker fires.
Tick ==
  /\ writer = "loop" /\ batch # << >>
  /\ Flush(batch)
  /\ UNCHANGED <<insertCh, chOpen, done, dbOpen, closing, writer, push>>

\* batchWriter sees done: it closes the channel, ...
StartDrain ==
  /\ writer = "loop" /\ done
  /\ chOpen' = FALSE
  /\ writer' = "drain"
  /\ UNCHANGED <<insertCh, done, dbOpen, closing, batch, push, stored, lost,
                 faults>>

\* ... takes all that is left in it, flushes once and returns.
Drain ==
  /\ writer = "drain"
  /\ Flush(batch \o insertCh)
  /\ insertCh' = << >>
  /\ writer' = "gone"
  /\ UNCHANGED <<chOpen, done, dbOpen, closing, push>>

\* Close: close done, ...
Close ==
  /\ closing = "no"
  /\ closing' = "waiting"
  /\ done' = TRUE
  /\ UNCHANGED <<insertCh, chOpen, dbOpen, writer, batch, push, stored, lost,
                 faults>>

\* ... sleep 100 ms, whatever the writer does, and close the database (for
\* Loki: let the process end).
CloseReturn ==
  /\ closing = "waiting"
  /\ closing' = "returned"
  /\ dbOpen' = FALSE
  /\ UNCHANGED <<insertCh, chOpen, done, writer, batch, push, stored, lost,
                 faults>>

Writer == Take \/ Tick \/ StartDrain \/ Drain
Next == Push \/ Writer \/ Close \/ CloseReturn

\* The writer's goroutine runs; its ticker fires as long as it runs.
Fairness == WF_vars(Take) /\ WF_vars(Tick) /\ WF_vars(StartDrain \/ Drain)

Spec == Init /\ [][Next]_vars /\ Fairness

-----------------------------------------------------------------------------
\* Every accepted entry is in exactly one place, whatever fails: written, in
\* the batch, in the channel or lost.  Read in this order, those that are not
\* lost stand in the order of their pushes: the batches and the drain drop,
\* duplicate and reorder nothing.  An entry is lost only by a statement that
\* fails or by a Close that did not wait for the writer.
EntriesConserved ==
  LET held == stored \o batch \o insertCh
  IN  /\ \A j, k \in DOMAIN held : j < k => held[j] < held[k]
      /\ Range(held) \cup lost = {k \in DOMAIN push : push[k] = "accepted"}
      /\ Range(held) \cap lost = {}
      /\ lost # {} => faults > 0 \/ ~dbOpen

\* Nothing accepted waits for ever while the store is open: the ticker writes
\* what no full batch takes along, unless the entry's own statement fails.
AcceptedDoesNotWait ==
  \A k \in 1 .. MaxPush :
    k \in DOMAIN push /\ push[k] = "accepted"
      ~> k \in Range(stored) \/ (k \in lost /\ faults > 0) \/ ~dbOpen

\* "Close flushes remaining entries" (loki.go): when Close has returned and no
\* statement has failed, everything that was accepted is written.
CloseFlushes ==
  closing = "returned" /\ faults = 0
    => {k \in DOMAIN push : push[k] = "accepted"} \subseteq Range(stored)
=============================================================================
