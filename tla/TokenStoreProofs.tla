-------------------------- MODULE TokenStoreProofs --------------------------
(***************************************************************************)
(* The token store and its cache for any number of goroutines, tokens and  *)
(* writes: what the cache shows, what a request that is let through has    *)
(* shown, and what never comes back into the table.                        *)
(***************************************************************************)
EXTENDS TokenStore, TLAPS

Kinds  == {"none", "create", "update", "delete", "rotate", "lookup"}
Places == {"idle", "query", "install", "migrate", "update", "rotate", "reread"}
Table  == [Id -> Row \cup {None}]
Call   == [kind : Kinds, id : {0} \cup Id, hash : Hash \cup {None}, since : Nat]
Seen   == [hash : Hash \cup {None}, info : Info \cup {None},
           verdict : {"none", "next", "401", "403"}, since : Nat]

\* The variables that the properties are about have the values one expects.
TypeInv ==
  /\ rows \in Table /\ lastId \in 0 .. MaxId /\ used \subseteq Hash
  /\ cache \in Cache /\ snap \in [All -> Cache]
  /\ pc \in [All -> Places] /\ op \in [All -> Call]
  /\ got \in [All -> Row \cup {None}] /\ seen \in Seen /\ todo \in Seq(Row)
  /\ faults \in Nat /\ hist \in Seq(Cache)
  /\ cacheVer \in Nat /\ snapVer \in [All -> Nat] /\ floor \in Nat

\* Map c is what version v of the table calls for, up to entries that a broken
\* scan left out.
Shows(c, v) ==
  /\ v \in 1 .. Ver
  /\ \A h \in Hash : c[h] \in {None, hist[v][h]}
  /\ faults = 0 => c = hist[v]

\* The cache and the maps that are still to be swapped in show versions that
\* are not older than the floor.
VersionInv ==
  /\ Ver > 0 /\ hist[Ver] = CacheOf(rows)
  /\ floor <= cacheVer /\ cacheVer <= Ver
  /\ IF cacheVer = 0 THEN cache = EmptyCache ELSE Shows(cache, cacheVer)
  /\ \A p \in All : pc[p] = "install" => /\ floor <= snapVer[p]
                                         /\ Shows(snap[p], snapVer[p])

\* What a goroutine in the middle of a call remembers.
CallInv ==
  \A p \in All :
    /\ pc[p] \in {"update", "rotate"} => op[p].id \in Id /\ op[p].kind # "lookup"
    /\ pc[p] = "update" => got[p] \in Row
    /\ pc[p] = "reread" => op[p].kind = "lookup"
    /\ op[p].kind = "lookup" => op[p].hash \in Hash /\ op[p].since <= floor

IInv == TypeInv /\ VersionInv /\ CallInv /\ AdmittedWasValid

-----------------------------------------------------------------------------
(* The operators.                                                          *)

\* loadCache makes a map of the cache's type of any table.
LEMMA CacheOfFacts ==
  ASSUME NEW rs \in Table
  PROVE  CacheOf(rs) \in Cache
<1> SUFFICES ASSUME NEW h \in Hash, \E i \in Live(rs) : rs[i].hash = h
             PROVE  InfoOf(rs[CHOOSE i \in Live(rs) : rs[i].hash = h]) \in Info
  BY DEF CacheOf, Cache
<1> DEFINE i == CHOOSE i \in Live(rs) : rs[i].hash = h
<1>1. i \in Live(rs)
  OBVIOUS
<1>2. rs[i] \in Row
  BY <1>1 DEF Live, Table
<1>3. InfoOf(rs[i]) \in Info
  BY <1>2 DEF InfoOf, Row, Info
<1> QED  BY <1>3

\* Update's merge of a request into a row is a row.
LEMMA MergeFacts ==
  ASSUME NEW row \in Row, NEW c \in Changes
  PROVE  Merge(row, c) \in Row
<1>1. c \in [name : Name \cup {None}, enabled : BOOLEAN \cup {None},
             expires : BOOLEAN \cup {None}]
  BY ConstantAssumption
<1> QED  BY <1>1 DEF Merge, Row

\* The placeholders have the types of what they stand for.
LEMMA PlaceholderFacts ==
  /\ EmptyCache \in Cache /\ NoCall \in Call /\ NoSeen \in Seen
  /\ NoCall.kind = "none" /\ NoSeen.verdict = "none"
BY DEF EmptyCache, Cache, NoCall, NoSeen, Call, Seen, Kinds

\* Auth lets a request through only for an entry that is there and enabled.
LEMMA VerdictFacts ==
  ASSUME NEW info \in Info \cup {None}
  PROVE  /\ Verdict(info) \in {"next", "401", "403"}
         /\ Verdict(info) = "next" => info # None /\ info.enabled
BY DEF Verdict

\* INSERT puts the row under an id that no row ever had, and changes no other.
LEMMA InsertFacts ==
  ASSUME TypeInv, NEW row \in Row, CanInsert(row.hash), Insert(row)
  PROVE  /\ rows' \in Table /\ hist' = Append(hist, CacheOf(rows'))
         /\ lastId' \in 0 .. MaxId /\ used' \subseteq Hash
         /\ \A i \in Id : rows'[i] = IF i = lastId + 1 THEN row ELSE rows[i]
<1>1. lastId + 1 \in Id /\ row.hash \in Hash
  BY ConstantAssumption DEF CanInsert, TypeInv, Id, Row
<1>2. /\ rows' = [rows EXCEPT ![lastId + 1] = row] /\ lastId' = lastId + 1
      /\ hist' = Append(hist, CacheOf(rows')) /\ used' = used \cup {row.hash}
  BY DEF Insert, Commit
<1>3. rows' \in Table /\ \A i \in Id : rows'[i] = IF i = lastId + 1 THEN row ELSE rows[i]
  BY <1>1, <1>2 DEF TypeInv, Table
<1>4. lastId' \in 0 .. MaxId /\ used' \subseteq Hash
  BY <1>1, <1>2 DEF TypeInv, Id
<1> QED  BY <1>2, <1>3, <1>4

-----------------------------------------------------------------------------
(* Steps that leave cache, snapshots and floor alone.                      *)

\* A write adds a version and does not touch what has been read; no more does
\* a step of a goroutine that neither reads the table nor swaps the cache.
LEMMA VersionStep ==
  ASSUME TypeInv, VersionInv,
         \/ UNCHANGED <<rows, hist>>
         \/ rows' \in Table /\ hist' = Append(hist, CacheOf(rows')),
         UNCHANGED <<cache, snap, cacheVer, snapVer, floor>>,
         faults' = 0 => faults = 0,
         \A p \in All : pc'[p] = "install" => pc[p] = "install"
  PROVE  hist' \in Seq(Cache) /\ VersionInv'
<1>1. hist \in Seq(Cache) /\ Ver \in Nat
  BY DEF TypeInv, Ver
<1>2. /\ hist' \in Seq(Cache) /\ Ver' >= Ver /\ Ver' \in Nat
      /\ \A v \in 1 .. Ver : hist'[v] = hist[v]
      /\ hist'[Ver'] = CacheOf(rows')
  <2>1. CASE UNCHANGED <<rows, hist>>
    BY <1>1, <2>1 DEF Ver, VersionInv, CacheOf, Live
  <2>2. CASE rows' \in Table /\ hist' = Append(hist, CacheOf(rows'))
    <3>1. CacheOf(rows') \in Cache
      BY <2>2, CacheOfFacts
    <3> QED  BY <1>1, <2>2, <3>1 DEF Ver
  <2> QED  BY <2>1, <2>2
<1>3. ASSUME NEW c, NEW v \in Nat, Shows(c, v)
      PROVE  Shows(c, v)'
  BY <1>1, <1>2, <1>3 DEF Shows
<1>4. IF cacheVer' = 0 THEN cache' = EmptyCache' ELSE Shows(cache, cacheVer)'
  <2>1. CASE cacheVer = 0
    BY <2>1 DEF VersionInv, EmptyCache
  <2>2. CASE cacheVer # 0
    BY <2>2, <1>3 DEF VersionInv, TypeInv, Shows
  <2> QED  BY <2>1, <2>2
<1>5. ASSUME NEW p \in All, pc'[p] = "install"
      PROVE  floor' <= snapVer'[p] /\ Shows(snap[p], snapVer[p])'
  <2>1. pc[p] = "install" /\ snapVer[p] \in Nat
    BY <1>5 DEF TypeInv
  <2>2. floor <= snapVer[p] /\ Shows(snap[p], snapVer[p])
    BY <2>1 DEF VersionInv
  <2> QED  BY <1>3, <2>1, <2>2 DEF Shows
<1> QED  BY <1>1, <1>2, <1>4, <1>5 DEF VersionInv, TypeInv

\* The calls of the others stay as they are.
LEMMA CallStep ==
  ASSUME CallInv, NEW p \in All, floor' = floor,
         \A q \in All \ {p} : pc'[q] = pc[q] /\ op'[q] = op[q] /\ got'[q] = got[q],
         /\ pc'[p] \in {"update", "rotate"} => op'[p].id \in Id /\ op'[p].kind # "lookup"
         /\ pc'[p] = "update" => got'[p] \in Row
         /\ pc'[p] = "reread" => op'[p].kind = "lookup"
         /\ op'[p].kind = "lookup" => op'[p].hash \in Hash /\ op'[p].since <= floor
  PROVE  CallInv'
BY DEF CallInv

\* A step that ends no lookup says nothing about one.
LEMMA SeenNothing ==
  ASSUME seen' = NoSeen
  PROVE  AdmittedWasValid' /\ seen' \in Seen
BY PlaceholderFacts DEF AdmittedWasValid

-----------------------------------------------------------------------------
(* The calls of the admin API.                                             *)

\* Create inserts a token whose hash was never used.
LEMMA CreateFacts ==
  ASSUME TypeInv, NEW p \in Proc, Create(p)
  PROVE  /\ rows' \in Table /\ hist' = Append(hist, CacheOf(rows'))
         /\ lastId' \in 0 .. MaxId /\ used' \subseteq Hash
         /\ \A i \in Id : \/ rows'[i] = rows[i]
                          \/ i > lastId /\ rows'[i].hash \notin used
<1>1. PICK h \in Hash \ used, i \in Settings :
        /\ CanInsert(h)
        /\ Insert([hash |-> h, name |-> i.name, enabled |-> i.enabled,
                   expires |-> i.expires])
  BY DEF Create
<1>2. PICK row \in Row : row.hash = h /\ Insert(row)
  <2> DEFINE r == [hash |-> h, name |-> i.name, enabled |-> i.enabled,
                   expires |-> i.expires]
  <2>1. r \in Row /\ r.hash = h
    BY ConstantAssumption DEF Row, Info
  <2>2. Insert(r)
    BY <1>1
  <2> HIDE DEF r
  <2> QED  BY <2>1, <2>2
<1>3. \A k \in Id : k = lastId + 1 => k > lastId
  BY DEF TypeInv, Id
<1> QED  BY <1>1, <1>2, <1>3, InsertFacts

\* Create keeps the invariant.
LEMMA CreateKeeps ==
  ASSUME IInv, NEW p \in Proc, Create(p)
  PROVE  IInv'
<1> USE DEF IInv
<1>1. p \in All /\ pc[p] = "idle"
  BY DEF All, Create, Idle
<1>2. rows' \in Table /\ lastId' \in 0 .. MaxId /\ used' \subseteq Hash
  BY CreateFacts
<1>5. hist' = Append(hist, CacheOf(rows'))
  BY CreateFacts
<1>6. /\ pc' = [pc EXCEPT ![p] = "query"] /\ UNCHANGED <<adminUnchanged, got, floor>>
      /\ op' = [op EXCEPT ![p] = [NoCall EXCEPT !.kind = "create"]] /\ seen' = NoSeen
  BY DEF Create, Goto
<1>7. hist' \in Seq(Cache) /\ VersionInv'
  BY <1>1, <1>2, <1>5, <1>6, VersionStep DEF adminUnchanged, TypeInv
<1>8. op'[p] \in Call /\ op'[p].kind = "create"
  BY <1>1, <1>6 DEF TypeInv, NoCall, Call, Kinds
<1>9. TypeInv'
  <2>1. pc' \in [All -> Places] /\ op' \in [All -> Call]
    BY <1>1, <1>6, <1>8 DEF TypeInv, Places
  <2> QED  BY <1>2, <1>6, <1>7, <2>1, SeenNothing DEF TypeInv, adminUnchanged
<1>10. CallInv'
  BY <1>1, <1>6, <1>8, CallStep DEF TypeInv
<1> QED  BY <1>6, <1>7, <1>9, <1>10, SeenNothing

\* So do the halves of Update ...
LEMMA UpdateGetKeeps ==
  ASSUME IInv, NEW p \in Proc, NEW id \in Id, NEW c \in Changes, UpdateGet(p, id, c)
  PROVE  IInv'
<1> USE DEF IInv
<1>1. p \in All /\ pc[p] = "idle"
  BY DEF All, UpdateGet, Idle
<1>2. /\ pc' = [pc EXCEPT ![p] = "update"] /\ UNCHANGED <<adminUnchanged, dbVars, floor>>
      /\ op' = [op EXCEPT ![p] = [NoCall EXCEPT !.kind = "update", !.id = id]]
      /\ got' = [got EXCEPT ![p] = Merge(rows[id], c)] /\ seen' = NoSeen
  BY DEF UpdateGet, Goto
<1>3. Merge(rows[id], c) \in Row
  <2>1. rows[id] \in Row
    BY DEF UpdateGet, TypeInv, Table
  <2> QED  BY <2>1, MergeFacts
<1>4. VersionInv'
  BY <1>1, <1>2, VersionStep DEF adminUnchanged, dbVars, TypeInv
<1>5. op'[p] \in Call /\ op'[p].kind = "update" /\ op'[p].id = id
  BY <1>1, <1>2 DEF TypeInv, NoCall, Call, Kinds
<1>6. TypeInv'
  <2>1. /\ pc' \in [All -> Places] /\ op' \in [All -> Call]
        /\ got' \in [All -> Row \cup {None}]
    BY <1>1, <1>2, <1>3, <1>5 DEF TypeInv, Places
  <2> QED  BY <1>2, <2>1, SeenNothing DEF TypeInv, adminUnchanged, dbVars
<1>7. CallInv'
  BY <1>1, <1>2, <1>3, <1>5, CallStep DEF TypeInv
<1> QED  BY <1>2, <1>4, <1>6, <1>7, SeenNothing

\* What UPDATE makes of the table: a row that is there keeps its hash, and no
\* other row changes.
LEMMA UpdateExecFacts ==
  ASSUME IInv, NEW p \in Proc, UpdateExec(p)
  PROVE  /\ rows' \in Table /\ hist' = Append(hist, CacheOf(rows'))
         /\ \A i \in Id : rows'[i] # None => rows[i] # None /\ rows'[i].hash = rows[i].hash
<1> USE DEF IInv
<1> DEFINE id == op[p].id
<1>1. p \in All /\ id \in Id /\ got[p] \in Row
  BY DEF All, UpdateExec, CallInv
<1>2. /\ rows' = IF rows[id] = None THEN rows
                 ELSE [rows EXCEPT ![id] = [got[p] EXCEPT !.hash = rows[id].hash]]
      /\ hist' = Append(hist, CacheOf(rows'))
  BY DEF UpdateExec, Commit
<1>3. CASE rows[id] = None
  BY <1>2, <1>3 DEF TypeInv
<1>4. CASE rows[id] # None
  <2>1. rows[id] \in Row
    BY <1>1, <1>4 DEF TypeInv, Table
  <2>2. /\ [got[p] EXCEPT !.hash = rows[id].hash] \in Row
        /\ [got[p] EXCEPT !.hash = rows[id].hash].hash = rows[id].hash
    BY <1>1, <2>1 DEF Row
  <2>3. rows' = [rows EXCEPT ![id] = [got[p] EXCEPT !.hash = rows[id].hash]]
    BY <1>2, <1>4
  <2>4. \A i \in Id : rows'[i] = IF i = id THEN [got[p] EXCEPT !.hash = rows[id].hash]
                                 ELSE rows[i]
    BY <2>3 DEF TypeInv, Table
  <2>5. rows' \in Table
    BY <1>1, <2>2, <2>3 DEF TypeInv, Table
  <2> QED  BY <1>2, <1>4, <2>2, <2>4, <2>5
<1> QED  BY <1>3, <1>4

\* The second half of Update keeps the invariant.
LEMMA UpdateExecKeeps ==
  ASSUME IInv, NEW p \in Proc, UpdateExec(p)
  PROVE  IInv'
<1> USE DEF IInv
<1>1. p \in All /\ pc[p] = "update"
  BY DEF All, UpdateExec
<1>2. /\ pc' = [pc EXCEPT ![p] = "query"] /\ got' = [got EXCEPT ![p] = None]
      /\ UNCHANGED <<adminUnchanged, lastId, used, op, floor>> /\ seen' = NoSeen
  BY DEF UpdateExec, Goto
<1>3. rows' \in Table /\ hist' = Append(hist, CacheOf(rows'))
  BY UpdateExecFacts
<1>4. hist' \in Seq(Cache) /\ VersionInv'
  BY <1>1, <1>2, <1>3, VersionStep DEF adminUnchanged, TypeInv
<1>5. TypeInv'
  <2>1. pc' \in [All -> Places] /\ got' \in [All -> Row \cup {None}]
    BY <1>2 DEF TypeInv, Places
  <2> QED  BY <1>2, <1>3, <1>4, <2>1, SeenNothing DEF TypeInv, adminUnchanged
<1>6. CallInv'
  BY <1>1, <1>2 DEF TypeInv, CallInv
<1> QED  BY <1>2, <1>4, <1>5, <1>6, SeenNothing

\* ... Delete ...
LEMMA DeleteKeeps ==
  ASSUME IInv, NEW p \in Proc, NEW id \in Id, Delete(p, id)
  PROVE  IInv'
<1> USE DEF IInv
<1>1. p \in All /\ pc[p] = "idle" /\ rows[id] \in Row
  BY DEF All, Delete, Idle, TypeInv, Table
<1>2. /\ pc' = [pc EXCEPT ![p] = "query"] /\ seen' = NoSeen
      /\ UNCHANGED <<adminUnchanged, lastId, used, got, floor>>
      /\ op' = [op EXCEPT ![p] = [NoCall EXCEPT !.kind = "delete", !.id = id,
                                                   !.hash = rows[id].hash]]
      /\ rows' = [rows EXCEPT ![id] = None] /\ hist' = Append(hist, CacheOf(rows'))
  BY DEF Delete, Goto, Commit
<1>3. rows' \in Table
  BY <1>2 DEF TypeInv, Table
<1>4. hist' \in Seq(Cache) /\ VersionInv'
  BY <1>1, <1>2, <1>3, VersionStep DEF adminUnchanged, TypeInv
<1>5. op'[p] \in Call /\ op'[p].kind = "delete"
  BY <1>1, <1>2 DEF TypeInv, NoCall, Call, Kinds, Row
<1>6. TypeInv'
  <2>1. pc' \in [All -> Places] /\ op' \in [All -> Call]
    BY <1>1, <1>2, <1>5 DEF TypeInv, Places
  <2> QED  BY <1>2, <1>3, <1>4, <2>1, SeenNothing DEF TypeInv, adminUnchanged
<1>7. CallInv'
  BY <1>1, <1>2, <1>5, CallStep DEF TypeInv
<1> QED  BY <1>2, <1>4, <1>6, <1>7, SeenNothing

\* ... and the halves of Rotate.
LEMMA RotateGetKeeps ==
  ASSUME IInv, NEW p \in Proc, NEW id \in Id, RotateGet(p, id)
  PROVE  IInv'
<1> USE DEF IInv
<1>1. p \in All /\ pc[p] = "idle"
  BY DEF All, RotateGet, Idle
<1>2. /\ pc' = [pc EXCEPT ![p] = "rotate"] /\ seen' = NoSeen
      /\ UNCHANGED <<adminUnchanged, dbVars, got, floor>>
      /\ op' = [op EXCEPT ![p] = [NoCall EXCEPT !.kind = "rotate", !.id = id]]
  BY DEF RotateGet, Goto
<1>3. VersionInv'
  BY <1>1, <1>2, VersionStep DEF adminUnchanged, dbVars, TypeInv
<1>4. op'[p] \in Call /\ op'[p].kind = "rotate" /\ op'[p].id = id
  BY <1>1, <1>2 DEF TypeInv, NoCall, Call, Kinds
<1>5. TypeInv'
  <2>1. pc' \in [All -> Places] /\ op' \in [All -> Call]
    BY <1>1, <1>2, <1>4 DEF TypeInv, Places
  <2> QED  BY <1>2, <2>1, SeenNothing DEF TypeInv, adminUnchanged, dbVars
<1>6. CallInv'
  BY <1>1, <1>2, <1>4, CallStep DEF TypeInv
<1> QED  BY <1>2, <1>3, <1>5, <1>6, SeenNothing

\* Rotate puts a hash into the table that was never used, and adds no row.
LEMMA RotateExecFacts ==
  ASSUME IInv, NEW p \in Proc, RotateExec(p)
  PROVE  /\ rows' \in Table /\ hist' = Append(hist, CacheOf(rows'))
         /\ used' \subseteq Hash /\ op' \in [All -> Call]
         /\ \A q \in All : op'[q].kind = op[q].kind /\ (q # p => op'[q] = op[q])
         /\ \A i \in Id : rows'[i] # None =>
              rows[i] # None /\ (rows'[i].hash = rows[i].hash \/ rows'[i].hash \notin used)
<1> USE DEF IInv
<1> DEFINE id == op[p].id
<1>1. p \in All /\ id \in Id /\ op[p] \in Call
  BY DEF All, RotateExec, CallInv, TypeInv
<1>2. PICK h \in Hash \ used :
        /\ used' = used \cup {h}
        /\ IF rows[id] = None
             THEN Commit(rows) /\ UNCHANGED op
             ELSE /\ Commit([rows EXCEPT ![id].hash = h])
                  /\ op' = [op EXCEPT ![p].hash = rows[id].hash]
  BY DEF RotateExec
<1>3. used' \subseteq Hash
  BY <1>2 DEF TypeInv
<1>4. CASE rows[id] = None
  BY <1>2, <1>3, <1>4 DEF TypeInv, Commit
<1>5. CASE rows[id] # None
  <2>1. rows[id] \in Row
    BY <1>1, <1>5 DEF TypeInv, Table
  <2>2. [rows[id] EXCEPT !.hash = h] \in Row /\ [rows[id] EXCEPT !.hash = h].hash = h
    BY <2>1 DEF Row
  <2>3. /\ rows' = [rows EXCEPT ![id] = [rows[id] EXCEPT !.hash = h]]
        /\ hist' = Append(hist, CacheOf(rows'))
    BY <1>2, <1>5 DEF Commit
  <2>4. rows' \in Table
    BY <1>1, <2>2, <2>3 DEF TypeInv, Table
  <2>5. \A i \in Id : rows'[i] = IF i = id THEN [rows[id] EXCEPT !.hash = h] ELSE rows[i]
    BY <2>3 DEF TypeInv, Table
  <2>6. op' = [op EXCEPT ![p] = [op[p] EXCEPT !.hash = rows[id].hash]]
    BY <1>2, <1>5
  <2>7. /\ [op[p] EXCEPT !.hash = rows[id].hash] \in Call
        /\ [op[p] EXCEPT !.hash = rows[id].hash].kind = op[p].kind
    BY <1>1, <2>1 DEF Call, Row
  <2>8. /\ op' \in [All -> Call]
        /\ \A q \in All : op'[q].kind = op[q].kind /\ (q # p => op'[q] = op[q])
    BY <1>1, <2>6, <2>7 DEF TypeInv
  <2> QED  BY <1>3, <1>5, <2>2, <2>3, <2>4, <2>5, <2>8
<1> QED  BY <1>4, <1>5

\* The second half of Rotate keeps the invariant.
LEMMA RotateExecKeeps ==
  ASSUME IInv, NEW p \in Proc, RotateExec(p)
  PROVE  IInv'
<1> USE DEF IInv
<1>1. p \in All /\ pc[p] = "rotate"
  BY DEF All, RotateExec
<1>2. /\ pc' = [pc EXCEPT ![p] = "query"] /\ seen' = NoSeen
      /\ UNCHANGED <<adminUnchanged, lastId, got, floor>>
  BY DEF RotateExec, Goto
<1>3. hist' \in Seq(Cache) /\ VersionInv'
  BY <1>1, <1>2, RotateExecFacts, VersionStep DEF adminUnchanged, TypeInv
<1>4. TypeInv'
  <2>1. pc' \in [All -> Places]
    BY <1>2 DEF TypeInv, Places
  <2> QED  BY <1>2, <1>3, <2>1, RotateExecFacts, SeenNothing DEF TypeInv, adminUnchanged
<1>5. op[p].kind # "lookup"
  BY <1>1 DEF CallInv
<1>6. CallInv'
  BY <1>1, <1>2, <1>5, RotateExecFacts, CallStep DEF TypeInv
<1> QED  BY <1>2, <1>3, <1>4, <1>6, SeenNothing

\* A statement that fails ends the call.
LEMMA ExecFailKeeps ==
  ASSUME IInv, NEW p \in Proc, ExecFail(p)
  PROVE  IInv'
<1> USE DEF IInv
<1>1. p \in All
  BY DEF All
<1>2. /\ pc' = [pc EXCEPT ![p] = "idle"] /\ op' = [op EXCEPT ![p] = NoCall]
      /\ got' = [got EXCEPT ![p] = None] /\ seen' = NoSeen /\ faults' = faults + 1
      /\ UNCHANGED <<dbVars, cache, snap, bootVars, cacheVer, snapVer, floor>>
  BY DEF ExecFail, Goto
<1>3. VersionInv'
  BY <1>1, <1>2, VersionStep DEF dbVars, TypeInv
<1>4. TypeInv'
  <2>1. /\ pc' \in [All -> Places] /\ op' \in [All -> Call]
        /\ got' \in [All -> Row \cup {None}]
    BY <1>2, PlaceholderFacts DEF TypeInv, Places
  <2> QED  BY <1>2, <2>1, SeenNothing DEF TypeInv, dbVars, bootVars
<1>5. CallInv'
  BY <1>1, <1>2, PlaceholderFacts, CallStep DEF TypeInv
<1> QED  BY <1>2, <1>3, <1>4, <1>5, SeenNothing

-----------------------------------------------------------------------------
(* loadCache.                                                              *)

\* A map that was built without the lock goes into the hands of goroutine p.
LEMMA SnapKeeps ==
  ASSUME IInv, NEW p \in All, pc[p] = "query", NEW m \in Cache,
         \A h \in Hash : m[h] \in {None, CacheOf(rows)[h]},
         faults' = 0 => m = CacheOf(rows),
         faults' \in Nat, faults' >= faults,
         snap' = [snap EXCEPT ![p] = m], snapVer' = [snapVer EXCEPT ![p] = Ver],
         pc' = [pc EXCEPT ![p] = "install"], TrackFloor, seen' = NoSeen,
         UNCHANGED <<dbVars, cache, op, got, bootVars, cacheVer>>
  PROVE  IInv'
<1> USE DEF IInv
<1>1. \A q \in All : /\ pc'[q] = IF q = p THEN "install" ELSE pc[q]
                     /\ snap'[q] = IF q = p THEN m ELSE snap[q]
                     /\ snapVer'[q] = IF q = p THEN Ver ELSE snapVer[q]
  BY DEF TypeInv
<1>2. floor' = floor
  BY <1>1 DEF TrackFloor
<1>3. TypeInv'
  <2>1. /\ pc' \in [All -> Places] /\ snap' \in [All -> Cache]
        /\ snapVer' \in [All -> Nat]
    BY DEF TypeInv, Places, Ver
  <2> QED  BY <1>2, <2>1, SeenNothing DEF TypeInv, dbVars, bootVars
<1>4. CallInv'
  BY <1>1, <1>2 DEF CallInv
<1>5. ASSUME NEW c, NEW v \in Nat, Shows(c, v)
      PROVE  Shows(c, v)'
  BY <1>5 DEF Shows, Ver, dbVars, TypeInv
<1>6. Shows(m, Ver)' /\ floor <= Ver
  BY DEF Shows, Ver, dbVars, VersionInv, TypeInv
<1>7. VersionInv'
  <2>1. Ver' = Ver /\ hist' = hist /\ CacheOf(rows)' = CacheOf(rows)
    BY DEF dbVars, Ver, CacheOf, Live
  <2>2. IF cacheVer' = 0 THEN cache' = EmptyCache' ELSE Shows(cache, cacheVer)'
    <3>1. CASE cacheVer = 0
      BY <3>1 DEF VersionInv, EmptyCache
    <3>2. CASE cacheVer # 0
      BY <3>2, <1>5 DEF VersionInv, TypeInv, Shows
    <3> QED  BY <3>1, <3>2
  <2>3. ASSUME NEW q \in All, pc'[q] = "install"
        PROVE  floor' <= snapVer'[q] /\ Shows(snap[q], snapVer[q])'
    <3>1. CASE q = p
      BY <1>1, <1>2, <1>6, <2>1, <3>1 DEF Shows
    <3>2. CASE q # p
      <4>1. pc[q] = "install" /\ snap'[q] = snap[q] /\ snapVer'[q] = snapVer[q]
        BY <1>1, <2>3, <3>2
      <4>2. floor <= snapVer[q] /\ Shows(snap[q], snapVer[q]) /\ snapVer[q] \in Nat
        BY <4>1 DEF VersionInv, TypeInv
      <4> QED  BY <1>2, <1>5, <4>1, <4>2 DEF Shows
    <3> QED  BY <3>1, <3>2
  <2> QED  BY <1>2, <2>1, <2>2, <2>3 DEF VersionInv
<1> QED  BY <1>3, <1>4, <1>7, SeenNothing

\* The query of loadCache, complete or cut short.
LEMMA LoadQueryKeeps ==
  ASSUME IInv, NEW p \in All, LoadQuery(p) \/ LoadCut(p)
  PROVE  IInv'
<1>1. CacheOf(rows) \in Cache
  BY CacheOfFacts DEF IInv, TypeInv
<1>2. CASE LoadQuery(p)
  <2>1. faults' \in Nat /\ faults' >= faults
    BY <1>2 DEF LoadQuery, IInv, TypeInv
  <2>2. PICK m \in Cache : m = CacheOf(rows)
    BY <1>1
  <2> QED  BY <1>2, <2>1, <2>2, SnapKeeps DEF LoadQuery, Goto
<1>3. CASE LoadCut(p)
  <2>1. PICK hs \in SUBSET Hash :
          snap' = [snap EXCEPT ![p] =
                     [h \in Hash |-> IF h \in hs THEN CacheOf(rows)[h] ELSE None]]
    BY <1>3 DEF LoadCut
  <2>2. PICK m \in Cache : /\ snap' = [snap EXCEPT ![p] = m]
                          /\ \A h \in Hash : m[h] \in {None, CacheOf(rows)[h]}
    <3> DEFINE c == [h \in Hash |-> IF h \in hs THEN CacheOf(rows)[h] ELSE None]
    <3>1. c \in Cache /\ \A h \in Hash : c[h] \in {None, CacheOf(rows)[h]}
      BY <1>1 DEF Cache
    <3> QED  BY <2>1, <3>1
  <2>3. faults' \in Nat /\ faults' >= faults /\ faults' # 0
    BY <1>3 DEF LoadCut, IInv, TypeInv
  <2> QED  BY <1>3, <2>2, <2>3, SnapKeeps DEF LoadCut, Goto
<1> QED  BY <1>2, <1>3

\* Where a goroutine goes after loadCache.
LEMMA AfterLoadFacts ==
  ASSUME TypeInv, NEW p \in All, AfterLoad(p)
  PROVE  /\ pc' \in [All -> Places] /\ op' \in [All -> Call]
         /\ \A q \in All \ {p} : pc'[q] = pc[q] /\ op'[q] = op[q]
         /\ pc'[p] \in {"migrate", "reread", "idle"}
         /\ pc'[p] = "reread" => op[p].kind = "lookup"
         /\ op[p].kind = "lookup" => op'[p] = op[p]
         /\ op[p].kind # "lookup" => op'[p] = NoCall
<1>1. PICK l \in {"migrate", "reread", "idle"} :
        pc' = [pc EXCEPT ![p] = l] /\ (l = "reread" => op[p].kind = "lookup")
  BY DEF AfterLoad, Goto
<1>2. pc' \in [All -> Places] /\ pc'[p] = l /\ \A q \in All \ {p} : pc'[q] = pc[q]
  BY <1>1 DEF TypeInv, Places
<1>3. CASE op[p].kind = "lookup"
  BY <1>1, <1>2, <1>3 DEF AfterLoad, TypeInv
<1>4. CASE op[p].kind # "lookup"
  BY <1>1, <1>2, <1>4, PlaceholderFacts DEF AfterLoad, TypeInv
<1> QED  BY <1>3, <1>4

\* A load that fails leaves cache and snapshots alone.
LEMMA LoadFailKeeps ==
  ASSUME IInv, NEW p \in All, LoadFail(p)
  PROVE  IInv'
<1> USE DEF IInv
<1>1. /\ UNCHANGED <<dbVars, cache, got, snap, bootVars, cacheVer, snapVer, floor>>
      /\ faults' = faults + 1 /\ seen' = NoSeen /\ pc[p] = "query"
  BY DEF LoadFail
<1>2. /\ pc' \in [All -> Places] /\ op' \in [All -> Call]
      /\ \A q \in All \ {p} : pc'[q] = pc[q] /\ op'[q] = op[q]
      /\ pc'[p] \in {"query", "migrate", "reread", "idle"}
      /\ pc'[p] = "reread" => op[p].kind = "lookup"
      /\ op[p].kind = "lookup" => op'[p] = op[p]
      /\ op[p].kind # "lookup" => op'[p] = NoCall \/ op'[p] = op[p]
  <2>1. CASE UNCHANGED <<pc, op>>
    BY <1>1, <2>1 DEF TypeInv
  <2>2. CASE AfterLoad(p)
    BY <2>2, AfterLoadFacts
  <2> QED  BY <2>1, <2>2 DEF LoadFail
<1>3. VersionInv'
  <2>1. \A q \in All : pc'[q] = "install" => pc[q] = "install"
    BY <1>2
  <2> QED  BY <1>1, <2>1, VersionStep DEF dbVars, TypeInv
<1>4. TypeInv'
  BY <1>1, <1>2, SeenNothing DEF TypeInv, dbVars, bootVars
<1>5. CallInv'
  <2>1. op'[p].kind = "lookup" => op'[p] = op[p]
    BY <1>2, PlaceholderFacts
  <2> QED  BY <1>1, <1>2, <2>1, PlaceholderFacts DEF CallInv
<1> QED  BY <1>1, <1>3, <1>4, <1>5, SeenNothing

\* The swap: a map that is not older than the floor becomes the cache.
LEMMA LoadInstallKeeps ==
  ASSUME IInv, NEW p \in All, LoadInstall(p)
  PROVE  IInv'
<1> USE DEF IInv
<1>1. /\ pc[p] = "install" /\ cache' = snap[p] /\ cacheVer' = snapVer[p]
      /\ snap' = [snap EXCEPT ![p] = EmptyCache]
      /\ snapVer' = [snapVer EXCEPT ![p] = 0] /\ AfterLoad(p) /\ TrackFloor
      /\ seen' = NoSeen /\ UNCHANGED <<dbVars, got, bootVars, faults>>
  BY DEF LoadInstall
<1>2. floor <= cacheVer' /\ Shows(snap[p], snapVer[p]) /\ cacheVer' \in Nat
  BY <1>1 DEF VersionInv, TypeInv
<1>3. floor' \in Nat /\ floor <= floor' /\ floor' <= cacheVer'
  BY <1>1, <1>2 DEF TrackFloor, TypeInv
<1>4. TypeInv'
  <2>1. cache' \in Cache /\ snap' \in [All -> Cache] /\ snapVer' \in [All -> Nat]
    BY <1>1, PlaceholderFacts DEF TypeInv
  <2> QED  BY <1>1, <1>2, <1>3, <2>1, AfterLoadFacts, SeenNothing
       DEF TypeInv, dbVars, bootVars
<1>5. CallInv'
  <2>1. ASSUME NEW q \in All
        PROVE  op'[q].kind = "lookup" => op'[q].hash \in Hash /\ op'[q].since <= floor'
    <3>1. op'[q].kind = "lookup" => op'[q] = op[q]
      BY <1>1, AfterLoadFacts, PlaceholderFacts
    <3>2. op[q].kind = "lookup" => op[q].hash \in Hash /\ op[q].since <= floor
      BY DEF CallInv
    <3>3. op[q].since \in Nat
      BY DEF TypeInv, Call
    <3> QED  BY <1>3, <3>1, <3>2, <3>3 DEF TypeInv
  <2>2. \A q \in All \ {p} : pc'[q] = pc[q] /\ op'[q] = op[q] /\ got'[q] = got[q]
    BY <1>1, AfterLoadFacts
  <2>3. pc'[p] \notin {"update", "rotate"} /\ (pc'[p] = "reread" => op'[p].kind = "lookup")
    BY <1>1, AfterLoadFacts
  <2> QED  BY <2>1, <2>2, <2>3 DEF CallInv
<1>6. VersionInv'
  <2>1. /\ Ver' = Ver /\ hist' = hist /\ faults' = faults
        /\ CacheOf(rows)' = CacheOf(rows)
    BY <1>1 DEF dbVars, Ver, CacheOf, Live
  <2>2. Shows(cache, cacheVer)' /\ cacheVer' # 0 /\ cacheVer' <= Ver
    BY <1>1, <1>2, <2>1 DEF Shows
  <2>3. ASSUME NEW q \in All, pc'[q] = "install"
        PROVE  floor' <= snapVer'[q] /\ Shows(snap[q], snapVer[q])'
    <3>1. q # p /\ pc[q] = "install"
      BY <1>1, <2>3, AfterLoadFacts
    <3>2. floor' = floor /\ snap'[q] = snap[q] /\ snapVer'[q] = snapVer[q]
      BY <1>1, <2>3, <3>1 DEF TrackFloor, TypeInv
    <3> QED  BY <2>1, <3>1, <3>2 DEF VersionInv, Shows
  <2> QED  BY <1>3, <2>1, <2>2, <2>3 DEF VersionInv
<1> QED  BY <1>1, <1>4, <1>5, <1>6, SeenNothing

-----------------------------------------------------------------------------
(* Lookups.                                                                *)

\* What a lookup finds in the cache has been in the table, in a version that
\* is not older than the floor.
LEMMA FoundFacts ==
  ASSUME IInv, NEW h \in Hash, NEW since \in Nat, since <= floor,
         seen' = [hash |-> h, info |-> cache[h], verdict |-> Verdict(cache[h]),
                  since |-> since],
         hist' = hist
  PROVE  AdmittedWasValid' /\ seen' \in Seen
<1> USE DEF IInv
<1>1. cache[h] \in Info \cup {None}
  BY DEF TypeInv, Cache
<1>2. seen' \in Seen
  BY <1>1, VerdictFacts DEF Seen
<1>3. ASSUME seen'.verdict = "next"
      PROVE  \E v \in 1 .. Ver : /\ v >= since /\ hist[v][h] = cache[h]
                                 /\ cache[h] # None /\ cache[h].enabled
  <2>1. cache[h] # None /\ cache[h].enabled
    BY <1>1, <1>3, VerdictFacts
  <2>2. cacheVer # 0
    BY <2>1 DEF VersionInv, EmptyCache
  <2>3. cacheVer \in 1 .. Ver /\ hist[cacheVer][h] = cache[h]
    BY <2>1, <2>2 DEF VersionInv, Shows
  <2>4. cacheVer >= since
    BY DEF VersionInv, TypeInv
  <2> QED  BY <2>1, <2>3, <2>4
<1> QED  BY <1>2, <1>3 DEF AdmittedWasValid, Ver

\* The first half of Lookup, which is all of it on a fresh cache.
LEMMA LookupKeeps ==
  ASSUME IInv, NEW p \in Proc, NEW h \in Hash, Lookup(p, h)
  PROVE  IInv'
<1> USE DEF IInv
<1>1. p \in All /\ pc[p] = "idle" /\ floor \in Nat
  BY DEF All, Lookup, Idle, TypeInv
<1>2. UNCHANGED <<dbVars, cache, got, snap, bootVars, faults, cacheVer, snapVer, floor>>
  BY DEF Lookup
<1>3. /\ pc' \in [All -> Places] /\ op' \in [All -> Call]
      /\ \A q \in All : pc'[q] = "install" => pc[q] = "install"
      /\ CallInv' /\ AdmittedWasValid' /\ seen' \in Seen
  <2>1. CASE fresh
    <3>1. /\ seen' = [hash |-> h, info |-> cache[h], verdict |-> Verdict(cache[h]),
                      since |-> floor]
          /\ UNCHANGED <<pc, op>>
      BY <2>1 DEF Lookup
    <3>2. AdmittedWasValid' /\ seen' \in Seen
      BY <1>1, <1>2, <3>1, FoundFacts DEF dbVars
    <3> QED  BY <1>2, <3>1, <3>2 DEF TypeInv, CallInv
  <2>2. CASE ~fresh
    <3> DEFINE o == [kind |-> "lookup", id |-> 0, hash |-> h, since |-> floor]
    <3>1. /\ op' = [op EXCEPT ![p] = o] /\ pc' = [pc EXCEPT ![p] = "query"]
          /\ seen' = NoSeen
      BY <2>2 DEF Lookup, Goto
    <3>2. o \in Call /\ o.kind = "lookup" /\ o.hash = h /\ o.since = floor
      BY <1>1 DEF Call, Kinds
    <3> HIDE DEF o
    <3>3. CallInv'
      BY <1>1, <1>2, <3>1, <3>2, CallStep DEF TypeInv
    <3>4. pc' \in [All -> Places] /\ op' \in [All -> Call]
      BY <1>1, <3>1, <3>2 DEF TypeInv, Places
    <3> QED  BY <3>1, <3>3, <3>4, SeenNothing DEF TypeInv
  <2> QED  BY <2>1, <2>2
<1>4. VersionInv'
  BY <1>2, <1>3, VersionStep DEF dbVars
<1>5. TypeInv'
  BY <1>2, <1>3 DEF TypeInv, dbVars, bootVars
<1> QED  BY <1>3, <1>4, <1>5

\* Its second half.
LEMMA RereadKeeps ==
  ASSUME IInv, NEW p \in Proc, Reread(p)
  PROVE  IInv'
<1> USE DEF IInv
<1>1. /\ p \in All /\ pc[p] = "reread" /\ op[p].hash \in Hash
      /\ op[p].since \in Nat /\ op[p].since <= floor
  BY DEF All, Reread, CallInv, TypeInv, Call
<1>2. /\ op' = [op EXCEPT ![p] = NoCall] /\ pc' = [pc EXCEPT ![p] = "idle"]
      /\ UNCHANGED <<dbVars, cache, got, snap, bootVars, faults, cacheVer, snapVer, floor>>
      /\ seen' = [hash |-> op[p].hash, info |-> cache[op[p].hash],
                  verdict |-> Verdict(cache[op[p].hash]), since |-> op[p].since]
  BY DEF Reread, Goto
<1>3. AdmittedWasValid' /\ seen' \in Seen
  BY <1>1, <1>2, FoundFacts DEF dbVars
<1>4. VersionInv'
  BY <1>2, VersionStep DEF dbVars, TypeInv
<1>5. CallInv'
  BY <1>1, <1>2, PlaceholderFacts, CallStep DEF TypeInv
<1>6. TypeInv'
  <2>1. pc' \in [All -> Places] /\ op' \in [All -> Call]
    BY <1>2, PlaceholderFacts DEF TypeInv, Places
  <2> QED  BY <1>2, <1>3, <2>1 DEF TypeInv, dbVars, bootVars
<1> QED  BY <1>3, <1>4, <1>5, <1>6

-----------------------------------------------------------------------------
(* Time, start-up and crashes.                                             *)

\* The clock concerns neither the table nor the calls.
LEMMA ClockKeeps ==
  ASSUME IInv, Age \/ Expire
  PROVE  IInv'
<1> USE DEF IInv
<1>1. /\ seen' = NoSeen
      /\ UNCHANGED <<dbVars, cache, pc, op, got, snap, bootVars, faults, cacheVer,
                     snapVer, floor>>
  BY DEF Age, Expire
<1>2. VersionInv'
  BY <1>1, VersionStep DEF dbVars
<1>3. TypeInv' /\ CallInv'
  BY <1>1, SeenNothing DEF TypeInv, CallInv, dbVars, bootVars
<1> QED  BY <1>1, <1>2, <1>3, SeenNothing

\* The migration skips a token, inserts it or ends.
LEMMA MigrateFacts ==
  ASSUME TypeInv, MigrateToken \/ MigrateFail \/ MigrateEnd
  PROVE  /\ \/ rows' \in Table /\ hist' = Append(hist, CacheOf(rows'))
            \/ UNCHANGED <<rows, hist>>
         /\ rows' \in Table /\ lastId' \in 0 .. MaxId /\ used' \subseteq Hash
         /\ todo' \in Seq(Row)
         /\ \A i \in Id : rows'[i] = rows[i] \/ i > lastId
         /\ pc' = pc \/ \E l \in {"idle", "query"} : pc' = [pc EXCEPT ![Main] = l]
<1>1. CASE MigrateToken
  <2>1. todo \in Seq(Row) /\ todo # << >>
    BY <1>1 DEF MigrateToken, TypeInv
  <2>2. Head(todo) \in Row /\ Tail(todo) \in Seq(Row) /\ << >> \in Seq(Row)
    BY <2>1
  <2>3. todo' \in Seq(Row)
    BY <1>1, <2>2 DEF MigrateToken
  <2>4. CASE UNCHANGED dbVars
    BY <1>1, <2>3, <2>4 DEF MigrateToken, dbVars, TypeInv, Goto
  <2>5. CASE CanInsert(Head(todo).hash) /\ Insert(Head(todo)) /\ UNCHANGED pc
    <3>1. \A i \in Id : i = lastId + 1 => i > lastId
      BY DEF TypeInv, Id
    <3>2. PICK t \in Row : CanInsert(t.hash) /\ Insert(t)
      BY <2>2, <2>5
    <3> QED  BY <2>3, <2>5, <3>1, <3>2, InsertFacts
  <2> QED  BY <1>1, <2>4, <2>5 DEF MigrateToken
<1>2. CASE MigrateFail
  BY <1>2 DEF MigrateFail, dbVars, TypeInv, Goto
<1>3. CASE MigrateEnd
  BY <1>3 DEF MigrateEnd, dbVars, bootVars, TypeInv, Goto
<1> QED  BY <1>1, <1>2, <1>3

\* So the migration keeps the invariant.
LEMMA MigrateKeeps ==
  ASSUME IInv, MigrateToken \/ MigrateFail \/ MigrateEnd
  PROVE  IInv'
<1> USE DEF IInv
<1>1. /\ seen' = NoSeen /\ UNCHANGED <<cache, op, got, snap, cacheVer, snapVer, floor>>
      /\ faults' \in {faults, faults + 1} /\ faults \in Nat
  BY DEF MigrateToken, MigrateFail, MigrateEnd, TypeInv
<1>2. pc' \in [All -> Places] /\ \A p \in All : pc'[p] \in {pc[p], "idle", "query"}
  BY MigrateFacts DEF TypeInv, Places
<1>3. hist' \in Seq(Cache) /\ VersionInv'
  BY <1>1, <1>2, MigrateFacts, VersionStep
<1>4. TypeInv'
  BY <1>1, <1>2, <1>3, MigrateFacts, SeenNothing DEF TypeInv
<1>5. CallInv'
  BY <1>1, <1>2 DEF CallInv
<1> QED  BY <1>1, <1>3, <1>4, <1>5, SeenNothing

\* A crash forgets all but the table.
LEMMA CrashKeeps ==
  ASSUME IInv, Crash
  PROVE  IInv'
<1> USE DEF IInv
<1>1. TypeInv'
  <2>1. /\ pc' \in [All -> Places] /\ op' \in [All -> Call] /\ snap' \in [All -> Cache]
        /\ got' \in [All -> Row \cup {None}] /\ snapVer' \in [All -> Nat]
    BY PlaceholderFacts DEF Crash, Places
  <2>2. /\ cache' \in Cache /\ todo' \in Seq(Row) /\ faults' \in Nat /\ cacheVer' \in Nat
        /\ floor' \in Nat
    BY PlaceholderFacts, ConstantAssumption DEF Crash, TypeInv
  <2> QED  BY <2>1, <2>2, SeenNothing DEF Crash, TypeInv, dbVars
<1>2. VersionInv'
  <2>1. Ver' = Ver /\ hist' = hist /\ CacheOf(rows)' = CacheOf(rows)
    BY DEF Crash, dbVars, Ver, CacheOf, Live
  <2>2. /\ cacheVer' = 0 /\ floor' = 0 /\ cache' = EmptyCache
        /\ \A p \in All : pc'[p] # "install"
    BY DEF Crash
  <2> QED  BY <2>1, <2>2 DEF VersionInv, EmptyCache, Ver, TypeInv
<1>3. CallInv'
  BY PlaceholderFacts DEF CallInv, Crash
<1> QED  BY <1>1, <1>2, <1>3, SeenNothing DEF Crash

-----------------------------------------------------------------------------
\* The store starts with an empty table and an empty cache.
LEMMA InitIInv == Init => IInv
<1> SUFFICES ASSUME Init
             PROVE  IInv
  OBVIOUS
<1>1. TypeInv
  <2>1. rows \in Table /\ lastId \in 0 .. MaxId /\ used \subseteq Hash /\ todo \in Seq(Row)
    BY ConstantAssumption DEF Init, Table
  <2>2. /\ cache \in Cache /\ hist \in Seq(Cache) /\ seen \in Seen
        /\ snap \in [All -> Cache] /\ op \in [All -> Call]
    BY PlaceholderFacts DEF Init
  <2>3. /\ pc \in [All -> Places] /\ got \in [All -> Row \cup {None}]
        /\ snapVer \in [All -> Nat]
    BY DEF Init, Places
  <2> QED  BY <2>1, <2>2, <2>3 DEF Init, TypeInv
<1>2. VersionInv
  <2>1. Live(rows) = {}
    BY DEF Init, Live
  <2>2. CacheOf(rows) = EmptyCache
    BY <2>1 DEF CacheOf, EmptyCache
  <2>3. hist = <<EmptyCache>> /\ Len(hist) = 1 /\ hist[1] = EmptyCache
    BY DEF Init
  <2>4. \A p \in All : pc[p] # "install"
    BY DEF Init
  <2> QED  BY <2>2, <2>3, <2>4 DEF Init, VersionInv, Ver
<1>3. CallInv /\ AdmittedWasValid
  BY PlaceholderFacts DEF Init, CallInv, AdmittedWasValid
<1> QED  BY <1>1, <1>2, <1>3 DEF IInv

\* Every step keeps the invariant.
LEMMA NextIInv == IInv /\ [Next]_vars => IInv'
<1> SUFFICES ASSUME IInv, [Next]_vars
             PROVE  IInv'
  OBVIOUS
<1>1. ASSUME NEW p \in All, Load(p)
      PROVE  IInv'
  BY <1>1, LoadQueryKeeps, LoadFailKeeps, LoadInstallKeeps DEF Load
<1>2. ASSUME NEW p \in Proc, Admin(p)
      PROVE  IInv'
  BY <1>2, CreateKeeps, UpdateGetKeeps, UpdateExecKeeps, DeleteKeeps, RotateGetKeeps,
     RotateExecKeeps, ExecFailKeeps DEF Admin
<1>3. ASSUME NEW p \in Proc, Request(p) \/ Reread(p)
      PROVE  IInv'
  BY <1>3, LookupKeeps, RereadKeeps DEF Request
<1>4. CASE Age \/ Expire \/ MigrateToken \/ MigrateFail \/ MigrateEnd \/ Crash
  BY <1>4, ClockKeeps, MigrateKeeps, CrashKeeps
<1>5. CASE UNCHANGED vars
  <2>1. VersionInv' /\ TypeInv'
    BY <1>5, VersionStep DEF vars, IInv, TypeInv
  <2>2. CallInv' /\ AdmittedWasValid'
    BY <1>5 DEF vars, IInv, CallInv, AdmittedWasValid, Ver
  <2> QED  BY <2>1, <2>2 DEF IInv
<1> QED  BY <1>1, <1>2, <1>3, <1>4, <1>5 DEF Next

\* What a step does to the table.  Only the statements of Create, Update,
\* Delete, Rotate and of the migration write it.
LEMMA TableStep ==
  ASSUME IInv, Next
  PROVE  \/ rows' = rows
         \/ pc[Main] = "migrate" /\ \A i \in Id : rows'[i] = rows[i] \/ i > lastId
         \/ \A i \in Id : rows'[i] # None =>
              \/ rows[i] # None
                 /\ (rows'[i].hash = rows[i].hash \/ rows'[i].hash \notin used)
              \/ i > lastId /\ rows'[i].hash \notin used
<1>1. ASSUME NEW p \in All, Load(p)
      PROVE  rows' = rows
  BY <1>1 DEF Load, LoadQuery, LoadCut, LoadFail, LoadInstall, dbVars
<1>2. ASSUME NEW p \in Proc, Request(p) \/ Reread(p)
      PROVE  rows' = rows
  BY <1>2 DEF Request, Lookup, Reread, dbVars
<1>3. CASE Age \/ Expire \/ Crash
  BY <1>3 DEF Age, Expire, Crash, dbVars
<1>4. CASE MigrateToken \/ MigrateFail \/ MigrateEnd
  <2>1. pc[Main] = "migrate"
    BY <1>4 DEF MigrateToken, MigrateFail, MigrateEnd
  <2> QED  BY <1>4, <2>1, MigrateFacts DEF IInv
<1>5. ASSUME NEW p \in Proc, Create(p)
      PROVE  \A i \in Id : rows'[i] = rows[i] \/ (i > lastId /\ rows'[i].hash \notin used)
  BY <1>5, CreateFacts DEF IInv
<1>6. ASSUME NEW p \in Proc, NEW id \in Id, Delete(p, id)
      PROVE  \A i \in Id : rows'[i] # None => rows'[i] = rows[i]
  BY <1>6 DEF Delete, Commit, IInv, TypeInv, Table
<1>7. ASSUME NEW p \in Proc, NEW id \in Id,
             (\E c \in Changes : UpdateGet(p, id, c)) \/ RotateGet(p, id) \/ ExecFail(p)
      PROVE  rows' = rows
  BY <1>7 DEF UpdateGet, RotateGet, ExecFail, dbVars
<1>8. ASSUME NEW p \in Proc, ExecFail(p)
      PROVE  rows' = rows
  BY <1>8 DEF ExecFail, dbVars
<1>9. ASSUME NEW p \in Proc, Admin(p)
      PROVE  \/ rows' = rows
             \/ \A i \in Id : rows'[i] # None =>
                  \/ rows[i] # None
                     /\ (rows'[i].hash = rows[i].hash \/ rows'[i].hash \notin used)
                  \/ i > lastId /\ rows'[i].hash \notin used
  BY <1>5, <1>6, <1>7, <1>8, <1>9, UpdateExecFacts, RotateExecFacts DEF Admin
<1> QED  BY <1>1, <1>2, <1>3, <1>4, <1>9 DEF Next

-----------------------------------------------------------------------------
\* The cache is the image of one version of the table, whatever loads, writes
\* and migrations overlap; only a broken scan makes entries miss.
THEOREM CacheIsOneVersionHolds == Spec => []CacheIsOneVersion
<1>1. IInv => CacheIsOneVersion
  BY DEF IInv, VersionInv, Shows, CacheIsOneVersion
<1> QED  BY InitIInv, NextIInv, <1>1, PTL DEF Spec

\* Overlapping loads never set the cache back behind what it showed when last
\* no load was in flight.
THEOREM NoRegressPastFloorHolds == Spec => []NoRegressPastFloor
<1>1. IInv => NoRegressPastFloor
  BY DEF IInv, VersionInv, TypeInv, NoRegressPastFloor
<1> QED  BY InitIInv, NextIInv, <1>1, PTL DEF Spec

\* A request that Auth lets through carries a token that was in the table and
\* enabled, in a version no older than the cache showed when the request came.
THEOREM AdmittedWasValidHolds == Spec => []AdmittedWasValid
<1>1. IInv => AdmittedWasValid
  BY DEF IInv
<1> QED  BY InitIInv, NextIInv, <1>1, PTL DEF Spec

\* No update, rotation, crash or migration brings a deleted token back under
\* its id.
THEOREM DeletedIdStaysDeletedHolds == Spec => DeletedIdStaysDeleted
<1> DEFINE Stays == \A i \in Id : i <= lastId /\ rows[i] = None => rows'[i] = None
<1>1. IInv /\ [Next]_vars => [Stays]_vars
  <2> SUFFICES ASSUME IInv, Next, NEW i \in Id, i <= lastId, rows[i] = None
               PROVE  rows'[i] = None
    OBVIOUS
  <2>1. ~(i > lastId)
    BY DEF IInv, TypeInv, Id
  <2> QED  BY <2>1, TableStep
<1> QED  BY InitIInv, NextIInv, <1>1, PTL DEF Spec, DeletedIdStaysDeleted

\* No update or rotation brings a used secret back that is not in the table.
THEOREM RevokedStaysOutHolds == Spec => RevokedStaysOut
<1> DEFINE Out == \A h \in used :
                    /\ \A i \in Live(rows) : rows[i].hash # h
                    /\ \E i \in Live(rows') : rows'[i].hash = h
                    => pc[Main] = "migrate"
<1>1. IInv /\ [Next]_vars => [Out]_vars
  <2> SUFFICES ASSUME IInv, Next, NEW h \in used,
                      \A i \in Live(rows) : rows[i].hash # h,
                      NEW i \in Live(rows'), rows'[i].hash = h
               PROVE  pc[Main] = "migrate"
    OBVIOUS
  <2>1. i \in Id /\ rows'[i] # None
    BY DEF Live
  <2>2. ~(rows[i] # None /\ rows[i].hash = h)
    BY <2>1 DEF Live
  <2> QED  BY <2>1, <2>2, TableStep DEF Live
<1> QED  BY InitIInv, NextIInv, <1>1, PTL DEF Spec, RevokedStaysOut
=============================================================================
