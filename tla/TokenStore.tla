----------------------------- MODULE TokenStore -----------------------------
(***************************************************************************)
(* The SQLite token store with its in-memory cache                         *)
(* (internal/auth/store.go), the authentication middleware that looks      *)
(* tokens up in it (internal/middleware/auth.go) and the migration of      *)
(* config-file tokens at every start (cmd/da-proxy/main.go).               *)
(*                                                                         *)
(* Admin calls and lookups run in goroutines of the HTTP servers.  Only    *)
(* single SQL statements are atomic: Update and Rotate read a row and      *)
(* write it back later, and loadCache reads the table without the lock and *)
(* swaps the cache in under it, so a crash or another goroutine may come   *)
(* in between.                                                             *)
(*                                                                         *)
(* A token's settings are its name, whether it is enabled and whether it   *)
(* has an expiry date; rate limit, scope and allowlist are stored, copied  *)
(* and looked up in the same way and are left out.                         *)
(***************************************************************************)
EXTENDS Integers, Sequences

CONSTANTS
  Proc,         \* goroutines of the admin and the proxy server
  Main,         \* the main goroutine, which opens the store
  Hash,         \* token hashes
  Name,         \* token names
  Settings,     \* the settings an admin may create a token with
  Changes,      \* the update requests an admin may send
  ConfigTokens, \* the tokens of the config file, a sequence of rows
  None,         \* no row, no cache entry, a nil field of an update request
  MaxId,        \* the largest row id
  MaxCommits,   \* admin calls start writing only below this many versions
  MaxFaults     \* bound on crashes and failed statements together

Id    == 1 .. MaxId
Row   == [hash : Hash, name : Name, enabled : BOOLEAN, expires : BOOLEAN]
\* TokenInfo, what a cache entry and a lookup hold.
Info  == [name : Name, enabled : BOOLEAN, expires : BOOLEAN]
Cache == [Hash -> Info \cup {None}]
All   == Proc \cup {Main}

ASSUME ConstantAssumption ==
  /\ Main \notin Proc
  /\ MaxId \in Nat /\ MaxCommits \in Nat /\ MaxFaults \in Nat
  /\ None \notin Row /\ None \notin Info /\ None \notin Hash
  /\ ConfigTokens \in Seq(Row) /\ Settings \subseteq Info
  /\ Changes \subseteq [name : Name \cup {None}, enabled : BOOLEAN \cup {None},
                        expires : BOOLEAN \cup {None}]

VARIABLES
  up,       \* is the process running with its servers open?
  rows,     \* the tokens table: id -> row or None
  lastId,   \* its AUTOINCREMENT counter
  used,     \* hashes generated or imported so far
  cache,    \* SQLiteTokenStore.cache
  fresh,    \* time.Since(lastLoad) <= cacheTTL
  past,     \* the expiry date of the tokens that have one has passed
  pc,       \* where each goroutine is
  op,       \* the call it executes: its kind, the token's id, a hash, and
            \* (history) the floor when a lookup came in
  got,      \* the row that Update is going to write
  snap,     \* the map loadCache has built
  seen,     \* if the last step ended a lookup: what it found, and Auth's verdict
  todo,     \* config tokens still to be migrated
  imported, \* has the migration inserted any?
  faults,   \* crashes and failed statements so far
  hist,     \* history: the cache that each version of the table calls for
  cacheVer, \* history: the version that cache shows
  snapVer,  \* history: the version that snap shows
  floor     \* history: cacheVer when last no goroutine held a snapshot

dbVars   == <<rows, lastId, used, hist>>
bootVars == <<todo, imported>>
vars == <<up, rows, lastId, used, cache, fresh, past, pc, op, got, snap, seen,
          todo, imported, faults, hist, cacheVer, snapVer, floor>>

-----------------------------------------------------------------------------
Live(rs) == {i \in Id : rs[i] # None}

InfoOf(row) == [name |-> row.name, enabled |-> row.enabled, expires |-> row.expires]

\* The map that loadCache builds from the rows of the table.
CacheOf(rs) ==
  [h \in Hash |-> IF \E i \in Live(rs) : rs[i].hash = h
                    THEN InfoOf(rs[CHOOSE i \in Live(rs) : rs[i].hash = h])
                    ELSE None]

EmptyCache == [h \in Hash |-> None]

NoCall == [kind |-> "none", id |-> 0, hash |-> None, since |-> 0]
NoSeen == [hash |-> None, info |-> None, verdict |-> "none", since |-> 0]

\* Update's merge of a request into the row it read; nil fields keep theirs.
Merge(row, c) ==
  [hash |-> row.hash,
   name |-> IF c.name = None THEN row.name ELSE c.name,
   enabled |-> IF c.enabled = None THEN row.enabled ELSE c.enabled,
   expires |-> IF c.expires = None THEN row.expires ELSE c.expires]

Ver == Len(hist)

\* A write statement takes effect: the table is now rs.
Commit(rs) == rows' = rs /\ hist' = Append(hist, CacheOf(rs))

\* INSERT takes a new id.  It fails on a hash that the table already has
\* (UNIQUE) and when the ids run out.
CanInsert(h) == lastId < MaxId /\ \A i \in Live(rows) : rows[i].hash # h

Insert(row) ==
  /\ Commit([rows EXCEPT ![lastId + 1] = row])
  /\ lastId' = lastId + 1
  /\ used' = used \cup {row.hash}

Goto(p, l) == pc' = [pc EXCEPT ![p] = l]

\* The floor follows the cache while no goroutine holds a snapshot.
TrackFloor ==
  floor' = IF \A p \in All : pc'[p] # "install" THEN cacheVer' ELSE floor

-----------------------------------------------------------------------------
Init ==
  /\ up = FALSE
  /\ rows = [i \in Id |-> None]
  /\ lastId = 0
  /\ used = {}
  /\ cache = EmptyCache
  /\ fresh = FALSE
  /\ past = FALSE
  /\ pc = [p \in All |-> IF p = Main THEN "query" ELSE "idle"]
  /\ op = [p \in All |-> NoCall]
  /\ got = [p \in All |-> None]
  /\ snap = [p \in All |-> EmptyCache]
  /\ seen = NoSeen
  /\ todo = ConfigTokens
  /\ imported = FALSE
  /\ faults = 0
  /\ hist = <<EmptyCache>>
  /\ cacheVer = 0
  /\ snapVer = [p \in All |-> 0]
  /\ floor = 0

-----------------------------------------------------------------------------
(* loadCache, called by every operation below.                             *)

\* What comes after loadCache, whether it succeeded or not: its error is
\* ignored by everyone but NewSQLiteTokenStore (see LoadFail).
AfterLoad(p) ==
  /\ Goto(p, IF p = Main /\ ~imported THEN "migrate"
             ELSE IF op[p].kind = "lookup" THEN "reread" ELSE "idle")
  /\ up' = (up \/ (p = Main /\ imported))
  /\ op' = IF op[p].kind = "lookup" THEN op ELSE [op EXCEPT ![p] = NoCall]

\* Mutant of LoadQuery: the table is read from a replica that lags behind.
LoadQueryReplica(p) ==
  /\ pc[p] = "query"
  /\ \E v \in 1 .. Ver : /\ snap' = [snap EXCEPT ![p] = hist[v]]
                        /\ snapVer' = [snapVer EXCEPT ![p] = v]
  /\ Goto(p, "install")
  /\ TrackFloor
  /\ seen' = NoSeen
  /\ UNCHANGED <<up, dbVars, cache, fresh, past, op, got, bootVars, faults,
                 cacheVer>>

\* SELECT ... FROM tokens, without the lock.
LoadQuery(p) ==
  /\ pc[p] = "query"
  /\ snap' = [snap EXCEPT ![p] = CacheOf(rows)]
  /\ snapVer' = [snapVer EXCEPT ![p] = Ver]
  /\ Goto(p, "install")
  /\ TrackFloor
  /\ seen' = NoSeen
  /\ UNCHANGED <<up, dbVars, cache, fresh, past, op, got, bootVars, faults,
                 cacheVer>>

\* The scan breaks off: rows.Next reports no more rows, nobody asks rows.Err,
\* and the map built so far passes for the whole table.
LoadCut(p) ==
  /\ pc[p] = "query" /\ faults < MaxFaults
  /\ faults' = faults + 1
  /\ \E hs \in SUBSET Hash :
       snap' = [snap EXCEPT ![p] =
                  [h \in Hash |-> IF h \in hs THEN CacheOf(rows)[h] ELSE None]]
  /\ snapVer' = [snapVer EXCEPT ![p] = Ver]
  /\ Goto(p, "install")
  /\ TrackFloor
  /\ seen' = NoSeen
  /\ UNCHANGED <<up, dbVars, cache, fresh, past, op, got, bootVars, cacheVer>>

\* The query or the scan of a row fails.  At start-up that is fatal and the
\* process is started again.
LoadFail(p) ==
  /\ pc[p] = "query" /\ faults < MaxFaults
  /\ faults' = faults + 1
  /\ IF p = Main /\ ~imported THEN UNCHANGED <<pc, up, op>> ELSE AfterLoad(p)
  /\ seen' = NoSeen
  /\ UNCHANGED <<dbVars, cache, fresh, past, got, snap, bootVars,
                 cacheVer, snapVer, floor>>

\* Mutant of LoadInstall: the new entries are put into the old map.
LoadInstallMerging(p) ==
  /\ pc[p] = "install"
  /\ cache' = [h \in Hash |-> IF snap[p][h] = None THEN cache[h] ELSE snap[p][h]]
  /\ cacheVer' = snapVer[p]
  /\ fresh' = TRUE
  /\ snap' = [snap EXCEPT ![p] = EmptyCache]
  /\ snapVer' = [snapVer EXCEPT ![p] = 0]
  /\ AfterLoad(p)
  /\ TrackFloor
  /\ seen' = NoSeen
  /\ UNCHANGED <<dbVars, past, got, bootVars, faults>>

\* Under the lock: swap the map in and stamp it with the time of the swap.
LoadInstall(p) ==
  /\ pc[p] = "install"
  /\ cache' = snap[p]
  /\ cacheVer' = snapVer[p]
  /\ fresh' = TRUE
  /\ snap' = [snap EXCEPT ![p] = EmptyCache]
  /\ snapVer' = [snapVer EXCEPT ![p] = 0]
  /\ AfterLoad(p)
  /\ TrackFloor
  /\ seen' = NoSeen
  /\ UNCHANGED <<dbVars, past, got, bootVars, faults>>

-----------------------------------------------------------------------------
(* The calls of the admin API.                                             *)

Idle(p) == up /\ p \in Proc /\ pc[p] = "idle"

\* Admin calls do not change these.
adminUnchanged == <<up, cache, fresh, past, snap, todo, imported, faults,
                    cacheVer, snapVer>>

\* Create: the new token's hash was never used before (160 random bits).
Create(p) ==
  /\ Idle(p) /\ Ver <= MaxCommits
  /\ \E h \in Hash \ used, i \in Settings :
       /\ CanInsert(h)
       /\ Insert([hash |-> h, name |-> i.name, enabled |-> i.enabled,
                  expires |-> i.expires])
  /\ op' = [op EXCEPT ![p] = [NoCall EXCEPT !.kind = "create"]]
  /\ Goto(p, "query")
  /\ seen' = NoSeen
  /\ UNCHANGED <<adminUnchanged, got, floor>>

\* Update, first half: Get the row and merge the request into it.  A token
\* that is not there ends the call.
UpdateGet(p, id, c) ==
  /\ Idle(p) /\ Ver <= MaxCommits
  /\ rows[id] # None
  /\ got' = [got EXCEPT ![p] = Merge(rows[id], c)]
  /\ op' = [op EXCEPT ![p] = [NoCall EXCEPT !.kind = "update", !.id = id]]
  /\ Goto(p, "update")
  /\ seen' = NoSeen
  /\ UNCHANGED <<adminUnchanged, dbVars, floor>>

\* Mutant of UpdateExec: INSERT OR REPLACE instead of UPDATE.
UpdateExecUpsert(p) ==
  /\ pc[p] = "update"
  /\ Commit([rows EXCEPT ![op[p].id] = got[p]])
  /\ got' = [got EXCEPT ![p] = None]
  /\ Goto(p, "query")
  /\ seen' = NoSeen
  /\ UNCHANGED <<adminUnchanged, lastId, used, op, floor>>

\* Mutant of UpdateExec: the hash that Update read is written back, too.
UpdateExecAllColumns(p) ==
  /\ pc[p] = "update"
  /\ Commit(IF rows[op[p].id] = None THEN rows ELSE [rows EXCEPT ![op[p].id] = got[p]])
  /\ got' = [got EXCEPT ![p] = None]
  /\ Goto(p, "query")
  /\ seen' = NoSeen
  /\ UNCHANGED <<adminUnchanged, lastId, used, op, floor>>

\* Update, second half: UPDATE tokens SET every column but the hash WHERE
\* id=?, which does nothing if the row is gone, and succeeds.
UpdateExec(p) ==
  /\ pc[p] = "update"
  /\ LET id == op[p].id
     IN  Commit(IF rows[id] = None THEN rows
                ELSE [rows EXCEPT ![id] = [got[p] EXCEPT !.hash = rows[id].hash]])
  /\ got' = [got EXCEPT ![p] = None]
  /\ Goto(p, "query")
  /\ seen' = NoSeen
  /\ UNCHANGED <<adminUnchanged, lastId, used, op, floor>>

\* Delete: a token that is not there ends the call with an error.
Delete(p, id) ==
  /\ Idle(p) /\ Ver <= MaxCommits
  /\ rows[id] # None
  /\ op' = [op EXCEPT ![p] = [NoCall EXCEPT !.kind = "delete", !.id = id,
                                               !.hash = rows[id].hash]]
  /\ Commit([rows EXCEPT ![id] = None])
  /\ Goto(p, "query")
  /\ seen' = NoSeen
  /\ UNCHANGED <<adminUnchanged, lastId, used, got, floor>>

\* Rotate, first half: Get the row.  (Fresh hashes are bounded here too.)
RotateGet(p, id) ==
  /\ Idle(p) /\ Ver <= MaxCommits /\ Hash \ used # {}
  /\ rows[id] # None
  /\ op' = [op EXCEPT ![p] = [NoCall EXCEPT !.kind = "rotate", !.id = id]]
  /\ Goto(p, "rotate")
  /\ seen' = NoSeen
  /\ UNCHANGED <<adminUnchanged, dbVars, got, floor>>

\* Rotate, second half: UPDATE tokens SET token_hash=? WHERE id=?.
RotateExec(p) ==
  /\ pc[p] = "rotate"
  /\ \E h \in Hash \ used :
       LET id == op[p].id
       IN  /\ used' = used \cup {h}
           /\ IF rows[id] = None
                THEN Commit(rows) /\ UNCHANGED op
                ELSE /\ Commit([rows EXCEPT ![id].hash = h])
                     /\ op' = [op EXCEPT ![p].hash = rows[id].hash]
  /\ Goto(p, "query")
  /\ seen' = NoSeen
  /\ UNCHANGED <<adminUnchanged, lastId, got, floor>>

\* The writing statement of Update or Rotate fails: the call ends there, and
\* the cache is not reloaded.
ExecFail(p) ==
  /\ pc[p] \in {"update", "rotate"} /\ faults < MaxFaults
  /\ faults' = faults + 1
  /\ Goto(p, "idle")
  /\ op' = [op EXCEPT ![p] = NoCall]
  /\ got' = [got EXCEPT ![p] = None]
  /\ seen' = NoSeen
  /\ UNCHANGED <<up, dbVars, cache, fresh, past, snap, bootVars,
                 cacheVer, snapVer, floor>>

-----------------------------------------------------------------------------
(* Lookups by the authentication middleware.                               *)

\* Mutant of Verdict: the enabled flag is not looked at.
VerdictIgnoringEnabled(info) ==
  IF info = None THEN "401"
  ELSE IF info.expires /\ past THEN "401" ELSE "next"

\* The answer of Auth to what Lookup found; "next" calls the next handler.
Verdict(info) ==
  IF info = None THEN "401"
  ELSE IF ~info.enabled THEN "403"
  ELSE IF info.expires /\ past THEN "401" ELSE "next"

\* Mutant of Lookup: a stale cache is used as it is.
LookupWithoutReload(p, h) ==
  /\ Idle(p)
  /\ seen' = [hash |-> h, info |-> cache[h], verdict |-> Verdict(cache[h]),
              since |-> floor]
  /\ UNCHANGED <<up, dbVars, cache, fresh, past, pc, op, got, snap, bootVars,
                 faults, cacheVer, snapVer, floor>>

\* Auth calls Lookup, which reads the entry and the age of the cache under
\* the read lock and reloads a stale cache before it answers.
Lookup(p, h) ==
  /\ Idle(p)
  /\ IF fresh
       THEN /\ seen' = [hash |-> h, info |-> cache[h], verdict |-> Verdict(cache[h]),
                        since |-> floor]
            /\ UNCHANGED <<pc, op>>
       ELSE /\ op' = [op EXCEPT ![p] = [kind |-> "lookup", id |-> 0, hash |-> h,
                                        since |-> floor]]
            /\ Goto(p, "query")
            /\ seen' = NoSeen
  /\ UNCHANGED <<up, dbVars, cache, fresh, past, got, snap, bootVars, faults,
                 cacheVer, snapVer, floor>>

\* The second read of Lookup, in a critical section of its own: another
\* goroutine may have swapped the cache since this one loaded it.
Reread(p) ==
  /\ pc[p] = "reread"
  /\ LET info == cache[op[p].hash]
     IN  seen' = [hash |-> op[p].hash, info |-> info, verdict |-> Verdict(info),
                  since |-> op[p].since]
  /\ op' = [op EXCEPT ![p] = NoCall]
  /\ Goto(p, "idle")
  /\ UNCHANGED <<up, dbVars, cache, fresh, past, got, snap, bootVars, faults,
                 cacheVer, snapVer, floor>>

\* The cache reaches its TTL.
Age ==
  /\ up /\ fresh
  /\ fresh' = FALSE
  /\ seen' = NoSeen
  /\ UNCHANGED <<up, dbVars, cache, past, pc, op, got, snap, bootVars,
                 faults, cacheVer, snapVer, floor>>

\* The expiry date passes.
Expire ==
  /\ ~past
  /\ past' = TRUE
  /\ seen' = NoSeen
  /\ UNCHANGED <<up, dbVars, cache, fresh, pc, op, got, snap, bootVars,
                 faults, cacheVer, snapVer, floor>>

-----------------------------------------------------------------------------
(* Start-up and crashes.                                                   *)

\* One config token: skipped if a token has its name, otherwise inserted.
\* An INSERT that fails ends the migration, without a reload of the cache.
MigrateToken ==
  /\ pc[Main] = "migrate" /\ todo # << >>
  /\ LET t == Head(todo)
     IN  \/ /\ \E i \in Live(rows) : rows[i].name = t.name
            /\ todo' = Tail(todo)
            /\ UNCHANGED <<dbVars, imported, pc, up>>
         \/ /\ \A i \in Live(rows) : rows[i].name # t.name
            /\ CanInsert(t.hash)
            /\ Insert(t)
            /\ todo' = Tail(todo)
            /\ imported' = TRUE
            /\ UNCHANGED <<pc, up>>
         \/ /\ \A i \in Live(rows) : rows[i].name # t.name
            /\ ~CanInsert(t.hash)
            /\ todo' = << >>
            /\ up' = TRUE
            /\ Goto(Main, "idle")
            /\ UNCHANGED <<dbVars, imported>>
  /\ seen' = NoSeen
  /\ UNCHANGED <<cache, fresh, past, op, got, snap, faults, cacheVer,
                 snapVer, floor>>

\* A statement of the migration fails for another reason.
MigrateFail ==
  /\ pc[Main] = "migrate" /\ todo # << >> /\ faults < MaxFaults
  /\ faults' = faults + 1
  /\ todo' = << >>
  /\ up' = TRUE
  /\ Goto(Main, "idle")
  /\ seen' = NoSeen
  /\ UNCHANGED <<dbVars, cache, fresh, past, op, got, snap, imported,
                 cacheVer, snapVer, floor>>

\* The migration is through: reload if it inserted anything, then serve.
MigrateEnd ==
  /\ pc[Main] = "migrate" /\ todo = << >>
  /\ Goto(Main, IF imported THEN "query" ELSE "idle")
  /\ up' = ~imported
  /\ seen' = NoSeen
  /\ UNCHANGED <<dbVars, cache, fresh, past, op, got, snap, bootVars,
                 faults, cacheVer, snapVer, floor>>

\* The process dies at any point and is started again; the table survives.
Crash ==
  /\ faults < MaxFaults
  /\ faults' = faults + 1
  /\ up' = FALSE
  /\ cache' = EmptyCache
  /\ fresh' = FALSE
  /\ pc' = [p \in All |-> IF p = Main THEN "query" ELSE "idle"]
  /\ op' = [p \in All |-> NoCall]
  /\ got' = [p \in All |-> None]
  /\ snap' = [p \in All |-> EmptyCache]
  /\ seen' = NoSeen
  /\ todo' = ConfigTokens
  /\ imported' = FALSE
  /\ cacheVer' = 0
  /\ snapVer' = [p \in All |-> 0]
  /\ floor' = 0
  /\ UNCHANGED <<dbVars, past>>

-----------------------------------------------------------------------------
Load(p) == LoadQuery(p) \/ LoadCut(p) \/ LoadFail(p) \/ LoadInstall(p)
Admin(p) == \/ Create(p)
            \/ \E id \in Id : \/ \E c \in Changes : UpdateGet(p, id, c)
                              \/ Delete(p, id)
                              \/ RotateGet(p, id)
            \/ UpdateExec(p) \/ RotateExec(p) \/ ExecFail(p)
Request(p) == \E h \in Hash : Lookup(p, h)

Next ==
  \/ \E p \in All : Load(p)
  \/ \E p \in Proc : Admin(p) \/ Request(p) \/ Reread(p)
  \/ Age \/ Expire \/ MigrateToken \/ MigrateFail \/ MigrateEnd \/ Crash

\* Goroutines make progress, time passes, and requests keep arriving: without
\* traffic nothing reloads the cache, and nobody would notice.
Fairness ==
  /\ WF_vars(Age) /\ WF_vars(MigrateToken \/ MigrateEnd)
  /\ \A p \in All : WF_vars(Load(p))
  /\ \A p \in Proc : /\ WF_vars(Request(p)) /\ WF_vars(Reread(p))
                    /\ WF_vars(UpdateExec(p) \/ RotateExec(p))

Spec == Init /\ [][Next]_vars /\ Fairness

-----------------------------------------------------------------------------
\* The cache is the image of one version of the table, even while loads,
\* writes and a migration overlap: no lookup sees one token as it was before
\* a change together with another as it was after it.  Only a scan that
\* broke off can make entries miss.
CacheIsOneVersion ==
  cacheVer # 0 =>
    /\ \A h \in Hash : cache[h] \in {None, hist[cacheVer][h]}
    /\ faults = 0 => cache = hist[cacheVer]

\* Overlapping loads can set the cache back to an older version, but never
\* to one older than it showed when last no load was in flight.
NoRegressPastFloor == cacheVer >= floor

\* A request that Auth lets through carries a token that was in the table,
\* enabled, in some version not older than what the cache showed at the last
\* quiet moment before the request came: a revocation that has once reached
\* the cache with no load in flight is final.
AdmittedWasValid ==
  seen.verdict = "next" =>
    \E v \in 1 .. Ver :
      /\ v >= seen.since
      /\ hist[v][seen.hash] = seen.info
      /\ seen.info # None /\ seen.info.enabled

\* A deleted token does not come back under its id: not by an Update or a
\* Rotate that read it before the delete, nor by a crash or a migration.
DeletedIdStaysDeleted ==
  [][\A i \in Id : i <= lastId /\ rows[i] = None => rows'[i] = None]_vars

\* A secret that was rotated away or deleted does not come back into the
\* table through an Update or a Rotate that had read the row before; only the
\* migration at the next start imports a config token again.
RevokedStaysOut ==
  [][\A h \in used :
       /\ \A i \in Live(rows) : rows[i].hash # h
       /\ \E i \in Live(rows') : rows'[i].hash = h
       => pc[Main] = "migrate"]_vars

\* When the admins stop, the cache comes to show the table and keeps showing
\* it, however the last loads overlapped or failed.
CacheConverges == <>[](up => cache = CacheOf(rows))

\* store.go:343 Rotate is "invalidating the old one", and store_test.go:220
\* "Old token should no longer work": once Rotate or Delete has returned,
\* the old hash is not in the cache.
RevokedIsGone ==
  up => \A h \in used :
          \/ \E i \in Live(rows) : rows[i].hash = h
          \/ \E p \in Proc : op[p].kind \in {"delete", "rotate"} /\ op[p].hash = h
          \/ cache[h] = None
=============================================================================
