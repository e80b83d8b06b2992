----------------------------- MODULE AccessLogs -----------------------------
(***************************************************************************)
(* The two ways an access log entry takes (AccessLogger pushes it to both  *)
(* with one call each): the store, which the admin API pages through       *)
(* (LogStore), and the ring buffer, which it streams from (RingBuffer).    *)
(* The two share nothing, so a behaviour follows one of them.              *)
(***************************************************************************)
EXTENDS LogStore

CONSTANTS Entry, Capacity, Stream, MaxPushes   \* as in RingBuffer

ASSUME RingAssumption == Capacity \in Nat \ {0} /\ MaxPushes \in Nat

VARIABLES
  sink,   \* "store" or "ring"
  entries, head, size, subscribers, chan, closed, pc, panicked, pushed

ringVars == <<entries, head, size, subscribers, chan, closed, pc, panicked, pushed>>

Ring == INSTANCE RingBuffer

Start == sink \in {"store", "ring"} /\ LogInit /\ Ring!Init

Step ==
  \/ sink = "store" /\ LogNext /\ UNCHANGED <<sink, ringVars>>
  \/ sink = "ring" /\ Ring!Next /\ UNCHANGED <<sink, logVars>>

Logging == Start /\ [][Step]_<<sink, logVars, ringVars>> /\ LogFairness

-----------------------------------------------------------------------------
\* Push never sends on a stream's closed channel (see RingBuffer).
NeverPanics == Ring!NeverPanics

\* The ring implements the bounded log of the newest entries (see RingBuffer).
RecentSpec == Ring!RecentSpec
=============================================================================
