------------------------------ MODULE LogStore ------------------------------
(***************************************************************************)
(* The table behind the SQLite and PostgreSQL sinks (BatchWriter): rows    *)
(* get ascending ids as batches are written, the retention goroutine       *)
(* deletes old ones every hour, and the admin API reads pages of them      *)
(* (internal/admin/handlers.go).  An answer takes two statements, Query    *)
(* for the page and Count for has_more, and the table changes in between.  *)
(*                                                                         *)
(* An entry's timestamp is the start of its request and its id comes from  *)
(* the batch it was in, so old rows are not the ones with low ids.  Of the *)
(* filter's columns one condition stands for all.                          *)
(***************************************************************************)
EXTENDS BatchWriter

CONSTANTS
  Limit,      \* rows of a page
  Matching,   \* the entries that satisfy the filter's condition
  Retention   \* is log_retention_days positive?

ASSUME LogStoreAssumption ==
  /\ Limit \in Nat \ {0} /\ Matching \subseteq 1 .. MaxPush
  /\ Retention \in BOOLEAN

VARIABLES
  old,        \* ids of rows with a timestamp before the cutoff
  deleted,    \* ids of rows that are deleted
  reading,    \* is handleLogs between Query and Count?
  filter,     \* its filter: [cursor, desc, only]
  page,       \* the ids of the rows on the page, in order
  hasMore,    \* has_more of the latest answer
  disturbed   \* history: were rows deleted since Query?

tableVars == <<old, deleted>>
readVars  == <<reading, filter, page, hasMore, disturbed>>

NoFilter == [cursor |-> 0, desc |-> TRUE, only |-> FALSE]

LogInit ==
  /\ Init /\ old = {} /\ deleted = {}
  /\ reading = FALSE /\ filter = NoFilter /\ page = << >>
  /\ hasMore = FALSE /\ disturbed = FALSE

-----------------------------------------------------------------------------
(* Retention.                                                              *)

\* Time passes and the cutoff comes to lie behind a row.
Age(id) ==
  /\ id \in DOMAIN stored \ old
  /\ old' = old \cup {id}
  /\ UNCHANGED <<vars, deleted, readVars>>

\* Mutant of Clean: an error of the statement ends the goroutine.
CleanUntilError ==
  /\ Retention /\ dbOpen /\ faults = 0 /\ old \ deleted # {}
  /\ \/ deleted' = old /\ UNCHANGED faults
     \/ faults < MaxFaults /\ faults' = faults + 1 /\ UNCHANGED deleted
  /\ disturbed' = (disturbed \/ (reading /\ deleted' # deleted))
  /\ UNCHANGED <<insertCh, chOpen, done, dbOpen, closing, writer, batch, push,
                 stored, lost, old, reading, filter, page, hasMore>>

\* The hourly DELETE, whose error is ignored.  The goroutine ends after Close,
\* but a tick that is there as well may be taken first.
Clean ==
  /\ Retention /\ dbOpen /\ old \ deleted # {}
  /\ \/ deleted' = old /\ UNCHANGED faults
     \/ faults < MaxFaults /\ faults' = faults + 1 /\ UNCHANGED deleted
  /\ disturbed' = (disturbed \/ (reading /\ deleted' # deleted))
  /\ UNCHANGED <<insertCh, chOpen, done, dbOpen, closing, writer, batch, push,
                 stored, lost, old, reading, filter, page, hasMore>>

-----------------------------------------------------------------------------
(* handleLogs.                                                             *)

\* The WHERE clause.
Selects(f, id) ==
  /\ f.only => stored[id] \in Matching
  /\ f.cursor > 0 => IF f.desc THEN id < f.cursor ELSE id > f.cursor

Selected(f) == {id \in DOMAIN stored \ deleted : Selects(f, id)}

\* ORDER BY id and LIMIT: row k of a page is the one that k - 1 others precede.
Page(f) ==
  LET rows == Selected(f)
      before(id) == {j \in rows : IF f.desc THEN j > id ELSE j < id}
  IN  [k \in 1 .. IF Cardinality(rows) < Limit THEN Cardinality(rows) ELSE Limit |->
         CHOOSE id \in rows : Cardinality(before(id)) = k - 1]

\* Mutant of Count: the cursor is left out.
CountAll(f) == Cardinality(Selected([f EXCEPT !.cursor = 0]))

\* SELECT COUNT(*), with the same WHERE clause.
Count(f) == Cardinality(Selected(f))

\* A request for logs.  The client may send any cursor: it is given the number
\* of rows on a page, not an id.  Query on a closed database fails with 500.
Query(f) ==
  /\ ~reading /\ dbOpen
  /\ reading' = TRUE /\ filter' = f /\ page' = Page(f) /\ disturbed' = FALSE
  /\ UNCHANGED <<vars, tableVars, hasMore>>

\* Count and the answer.  A Count that fails is taken for 0.
Answer ==
  /\ reading
  /\ \/ dbOpen /\ hasMore' = (Len(page) < Count(filter)) /\ UNCHANGED faults
     \/ /\ \/ ~dbOpen /\ UNCHANGED faults
           \/ faults < MaxFaults /\ faults' = faults + 1
        /\ hasMore' = (Len(page) < 0)
  /\ reading' = FALSE /\ filter' = NoFilter /\ page' = << >> /\ disturbed' = FALSE
  /\ UNCHANGED <<insertCh, chOpen, done, dbOpen, closing, writer, batch, push,
                 stored, lost, tableVars>>

-----------------------------------------------------------------------------
Filters == [cursor : 0 .. Limit, desc : BOOLEAN, only : BOOLEAN]

LogNext ==
  \/ Next /\ UNCHANGED <<tableVars, readVars>>
  \/ Clean \/ Answer
  \/ \E id \in DOMAIN stored : Age(id)
  \/ \E f \in Filters : Query(f)

logVars == <<vars, tableVars, readVars>>

\* As in BatchWriter; the retention goroutine's ticker fires, too.
LogFairness == Fairness /\ WF_logVars(Clean)

LogSpec == LogInit /\ [][LogNext]_logVars /\ LogFairness

-----------------------------------------------------------------------------
\* has_more is exact: whatever the writer adds between Query and Count, it
\* tells whether a row that the request selects is not on the page, unless
\* rows were deleted in between or Count failed.
HasMoreIsExact ==
  [][reading /\ ~reading' /\ ~disturbed /\ dbOpen /\ faults' = faults =>
       (hasMore' <=> Selected(filter) \ Range(page) # {})]_logVars

\* Rows that are old go, though single runs of the DELETE fail and their errors
\* are ignored: when entries stop ageing no old row is left, unless the store is
\* closed first.
OldRowsGo == <>[](Retention => old \subseteq deleted \/ ~dbOpen)
=============================================================================
