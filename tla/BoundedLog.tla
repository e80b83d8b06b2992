----------------------------- MODULE BoundedLog -----------------------------
(***************************************************************************)
(* What the admin API expects of the buffer of recent log entries: the     *)
(* last Capacity entries, newest first.                                    *)
(***************************************************************************)
EXTENDS Integers, Sequences

CONSTANTS Entry, Capacity

VARIABLE recent

Init == recent = << >>

\* A new entry comes first and pushes out the oldest one of a full log.
Add(e) ==
  LET all == <<e>> \o recent
  IN  recent' = IF Len(all) > Capacity THEN SubSeq(all, 1, Capacity) ELSE all

Next == \E e \in Entry : Add(e)

Spec == Init /\ [][Next]_recent
=============================================================================
