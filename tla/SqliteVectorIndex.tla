------------------------- MODULE SqliteVectorIndex -------------------------
(***************************************************************************)
(* The vector index in SQLite (src/vector/sqlite/database.ts): a table of  *)
(* vectors, one row per metadata scalar for filtering, one row per lookup  *)
(* key, and the dimension.  Calls are served one at a time (handler.ts) by *)
(* one connection, so a call is one step: a statement, a transaction, or a *)
(* DELETE and the SELECT that counts what it removed.  A batch that fails  *)
(* leaves some of its rows to the rollback.  The module shows that the     *)
(* database answers as VectorIndex does.                                   *)
(***************************************************************************)
EXTENDS Naturals, Sequences, FiniteSets, SequencesExt, Ordered

CONSTANTS
    Ids, Vectors, Dim, Finite, Queries, Distance,
    Batches,        \* sequences of records: id, vector, metadata, lookupKeys
    Filters, IdLists, DeleteLists, Limits,
    LookupQueries,  \* sequences of lookup keys
    Frequencies,    \* maxDocumentFrequency
    Persistent,
    MaxBind,        \* SQLITE_MAX_BIND_PARAMETERS
    MaxQueryKeys,   \* MAX_LOOKUP_QUERY_KEYS
    MaxRowid,       \* bound on rowids, which replacements push up
    MaxFaults, SqlNull

\* A scalar of validateMetadata: one null, and values of the other kinds.
IsScalar(s) ==
    /\ s = [kind |-> s.kind, value |-> s.value]
    /\ s.kind \in {"string", "number", "boolean", "null"}
    /\ s.kind = "null" => s.value = SqlNull

IsMetadata(m) == \A k \in DOMAIN m : IsScalar(m[k])

ASSUME SqliteVectorAssumption ==
    /\ Ids \subseteq Nat /\ MaxRowid \in Nat /\ MaxFaults \in Nat
    /\ MaxBind \in Nat /\ MaxBind > 1
    /\ Persistent \in BOOLEAN
    /\ \A v \in Vectors : Dim[v] \in Nat \ {0}
    /\ \A q \in Queries, v \in Vectors \cap Finite :
           q \in Finite /\ Dim[q] = Dim[v] => Distance[q][v] \in Nat
    /\ \A b \in Batches : \A n \in DOMAIN b :
           /\ b[n].id \in Ids /\ b[n].vector \in Vectors
           /\ IsMetadata(b[n].metadata)
    /\ \A b \in Batches : Len(b) \in Nat /\ DOMAIN b = 1 .. Len(b)
    /\ \A f \in Filters : IsMetadata(f) /\ IsFiniteSet(DOMAIN f)
    /\ \A keys \in LookupQueries : Len(keys) \in Nat /\ DOMAIN keys = 1 .. Len(keys)
    /\ \A ids \in IdLists : Len(ids) \in Nat /\ DOMAIN ids = 1 .. Len(ids)

VARIABLES
    db,         \* the tables: dimension, vec, meta, lookup
    open,       \* the Worker has an index that is not disposed
    answer,     \* of the last VectorIndex call
    found,      \* of the last call, if it is lookupIds
    faults,
    keyed       \* history: the lookup keys each id was last inserted with, and
                \* the pairs of ids of which the second was inserted later

sqliteVars == <<db, open, answer, found, faults, keyed>>

EmptyDb == [dimension |-> 0, vec |-> {}, meta |-> {}, lookup |-> {}]
Nothing == [keys |-> [i \in {} |-> {}], later |-> {}]

SqliteInit ==
    /\ db = EmptyDb /\ open = FALSE /\ faults = 0
    /\ answer = <<"none">> /\ found = <<>> /\ keyed = Nothing

-----------------------------------------------------------------------------
(* Rows.                                                                   *)

\* encodeScalar: the kind keeps a boolean apart from the number that encodes it.
\* Defect: only the encoded value is stored.
encodeScalar_NoKind(s) ==
    [kind |-> "any",
     text |-> IF s.kind = "string" THEN s.value ELSE SqlNull,
     number |-> IF s.kind \in {"number", "boolean"} THEN s.value ELSE SqlNull]

encodeScalar(s) ==
    [kind |-> s.kind,
     text |-> IF s.kind = "string" THEN s.value ELSE SqlNull,
     number |-> IF s.kind \in {"number", "boolean"} THEN s.value ELSE SqlNull]

MetaRows(i, metadata) ==
    {[id |-> i, key |-> k, scalar |-> encodeScalar(metadata[k])] : k \in DOMAIN metadata}
LookupRows(i, keys) == {[id |-> i, key |-> k] : k \in keys}

\* filterClause: one EXISTS per key.
SelectedBy(d, filters) ==
    {r \in d.vec : \A k \in DOMAIN filters :
        \E m \in d.meta : m.id = r.id /\ m.key = k /\ m.scalar = encodeScalar(filters[k])}

\* DELETE, with the foreign keys' ON DELETE CASCADE.
DeleteRows(d, rows) ==
    LET gone == {r.id : r \in rows} IN
    [d EXCEPT !.vec = @ \ rows,
              !.meta = {m \in @ : m.id \notin gone},
              !.lookup = {l \in @ : l.id \notin gone}]

WithId(d, ids) == {r \in d.vec : r.id \in ids}
NextRowid(d)   == 1 + Max({0} \cup {r.rowid : r \in d.vec})

\* Defect: an update in place keeps the row's place.
replaceRecord_InPlace(d, r, keys) ==
    LET e == DeleteRows(d, WithId(d, {r.id}))
        old == WithId(d, {r.id}) IN
    [e EXCEPT
        !.vec = @ \cup {[rowid |-> IF old = {} THEN NextRowid(d)
                                   ELSE (CHOOSE o \in old : TRUE).rowid,
                         id |-> r.id, embedding |-> r.vector,
                         metadata_json |-> r.metadata]},
        !.meta = @ \cup MetaRows(r.id, r.metadata),
        !.lookup = @ \cup LookupRows(r.id, keys)]

\* #replaceRecord.  metadata_json gives back what it was made from, but for -0.
replaceRecord(d, r, keys) ==
    LET e == DeleteRows(d, WithId(d, {r.id})) IN
    [e EXCEPT
        !.vec = @ \cup {[rowid |-> NextRowid(e), id |-> r.id, embedding |-> r.vector,
                         metadata_json |-> r.metadata]},
        !.meta = @ \cup MetaRows(r.id, r.metadata),
        !.lookup = @ \cup LookupRows(r.id, keys)]

Valid(v) == Dim[v] = db.dimension /\ v \in Finite

Hit(q, r) == [id |-> r.id, distance |-> Distance[q][r.embedding],
              metadata |-> r.metadata_json]

\* By distance, ties by id.
Closer(a, b) == a.distance < b.distance \/ (a.distance = b.distance /\ a.id < b.id)

\* What a call leaves alone.
Answered(a) == answer' = a /\ found' = <<>> /\ UNCHANGED <<open, faults>>
Refused     == Answered(<<"refused">>) /\ UNCHANGED <<db, keyed>>
Failed ==
    /\ faults < MaxFaults
    /\ faults' = faults + 1
    /\ answer' = <<"failed">>
    /\ UNCHANGED <<open, found>>

-----------------------------------------------------------------------------
(* Opening and closing.                                                    *)

\* #initialize: INSERT OR IGNORE fixes the dimension, a different one throws.
Initialize(d) ==
    /\ ~open
    /\ IF db.dimension \in {0, d}
       THEN db' = [db EXCEPT !.dimension = d] /\ open' = TRUE /\ answer' = <<"done">>
       ELSE answer' = <<"refused">> /\ UNCHANGED <<db, open>>
    /\ UNCHANGED <<found, faults, keyed>>

\* dispose, or the Worker's death: a ":memory:" database goes with it.
Dispose ==
    /\ open
    /\ open' = FALSE
    /\ db' = IF Persistent THEN db ELSE EmptyDb
    /\ keyed' = IF Persistent THEN keyed ELSE Nothing
    /\ answer' = <<"none">>
    /\ UNCHANGED <<found, faults>>

UseDisposed == ~open /\ Refused

\* A single statement fails: it has done nothing.
Fails == open /\ Failed /\ UNCHANGED <<db, keyed>>

-----------------------------------------------------------------------------
(* Changes.                                                                *)

Forget(s, ids) ==
    [keys  |-> [i \in DOMAIN s.keys \ ids |-> s.keys[i]],
     later |-> {p \in s.later : p[1] \notin ids /\ p[2] \notin ids}]

Remember(s, i, keys) ==
    LET others == DOMAIN s.keys \ {i} IN
    [keys  |-> [j \in others \cup {i} |-> IF j = i THEN keys ELSE s.keys[j]],
     later |-> Forget(s, {i}).later \cup {<<j, i>> : j \in others}]

\* insert drops the lookup keys of what it replaces; insertKeyed stores new
\* ones, each once (uniqueLookupKeys).
KeysOf(r, withKeys) == IF withKeys THEN ToSet(r.lookupKeys) ELSE {}

\* The tables after each record of the batch, and the history.
Replaced(batch, withKeys) ==
    LET after[n \in 0 .. Len(batch)] ==
            IF n = 0 THEN db
            ELSE replaceRecord(after[n - 1], batch[n], KeysOf(batch[n], withKeys))
    IN after
Remembered(batch, withKeys) ==
    LET after[n \in 0 .. Len(batch)] ==
            IF n = 0 THEN keyed
            ELSE Remember(after[n - 1], batch[n].id, KeysOf(batch[n], withKeys))
    IN after

InsertWith(batch, withKeys) ==
    /\ open /\ NextRowid(db) + Len(batch) - 1 <= MaxRowid
    /\ IF \A n \in DOMAIN batch : Valid(batch[n].vector)
       THEN /\ db' = Replaced(batch, withKeys)[Len(batch)]
            /\ keyed' = Remembered(batch, withKeys)[Len(batch)]
            /\ Answered(<<"done">>)
       ELSE Refused

Insert(batch)      == InsertWith(batch, FALSE)
InsertKeyed(batch) == InsertWith(batch, TRUE)

\* Defect: the statements of a batch are not wrapped in a transaction.
RolledBack_Kept(before, after) == after

\* transaction: a callback that throws, or dies, takes back what it wrote.
RolledBack(before, after) == before

\* A statement of a batch fails when some of its records have been replaced.
InsertFails(batch) ==
    /\ open /\ NextRowid(db) + Len(batch) - 1 <= MaxRowid
    /\ \A n \in DOMAIN batch : Valid(batch[n].vector)
    /\ \E withKeys \in BOOLEAN, n \in 0 .. Len(batch) :
          db' = RolledBack(db, Replaced(batch, withKeys)[n])
    /\ Failed
    /\ UNCHANGED keyed

\* changes() counts the rows of the statement, not those of the cascade.  The
\* rows are gone even if counting them fails.
DeleteSelected(rows) ==
    /\ open
    /\ db' = DeleteRows(db, rows)
    /\ keyed' = Forget(keyed, {r.id : r \in rows})
    /\ Answered(<<"count", Cardinality(rows)>>) \/ Failed

\* delete binds every id, and four values per filter, in one statement.
FitsBind(ids, filters) ==
    Cardinality(ToSet(ids)) + 4 * Cardinality(DOMAIN filters) <= MaxBind
Delete(ids, filters) ==
    /\ open
    /\ IF ToSet(ids) # {} /\ ~FitsBind(ids, filters)
       THEN Refused
       ELSE DeleteSelected(WithId(db, ToSet(ids)) \cap SelectedBy(db, filters))

DeleteWhere(filters) ==
    /\ open
    /\ IF DOMAIN filters = {} THEN Refused ELSE DeleteSelected(SelectedBy(db, filters))

Clear == DeleteSelected(db.vec)

-----------------------------------------------------------------------------
(* Queries.                                                                *)

Read(i) ==
    /\ open
    /\ LET rows == WithId(db, {i})
           row == CHOOSE r \in rows : TRUE IN
       Answered(<<"record", IF rows = {} THEN <<>>
                            ELSE <<[vector |-> row.embedding,
                                    metadata |-> row.metadata_json]>>>>)
    /\ UNCHANGED <<db, keyed>>

Search(q, limit, filters) ==
    /\ open
    /\ IF Valid(q)
       THEN LET hits == {Hit(q, r) : r \in SelectedBy(db, filters)}
                rows == Sorted(hits, {p \in hits \X hits : Closer(p[1], p[2])}) IN
            Answered(<<"hits", SubSeq(rows, 1, IF limit < Len(rows) THEN limit
                                               ELSE Len(rows))>>)
       ELSE Answered(<<"refused">>)
    /\ UNCHANGED <<db, keyed>>

\* uniqueIds and uniqueLookupKeys: first occurrences, in order.
Unique(s) ==
    LET first == {n \in DOMAIN s : \A m \in DOMAIN s : s[m] = s[n] => n <= m}
        kept == Sorted(first, Increasing(first)) IN
    [n \in DOMAIN kept |-> s[kept[n]]]

\* chunks: what each slice of a size holds.
chunks(s, size) ==
    LET part(n) == (n - 1) \div size IN
    [c \in {part(n) : n \in DOMAIN s} |-> {s[n] : n \in {m \in DOMAIN s : part(m) = c}}]

\* searchByIds: one statement per chunk of ids, their hits sorted together; the
\* sort is stable.
SearchByIds(q, ids) ==
    /\ open
    /\ IF Valid(q)
       THEN LET parts == chunks(Unique(ids), MaxBind - 1)
                hits == UNION {{[part |-> c, hit |-> Hit(q, r)] : r \in WithId(db, parts[c])} :
                                   c \in DOMAIN parts}
                rows == Sorted(hits, {p \in hits \X hits :
                                        \/ Closer(p[1].hit, p[2].hit)
                                        \/ p[1].hit = p[2].hit /\ p[1].part < p[2].part}) IN
            Answered(<<"hits", [n \in DOMAIN rows |-> rows[n].hit]>>)
       ELSE Answered(<<"refused">>)
    /\ UNCHANGED <<db, keyed>>

Stats(filters) ==
    /\ open
    /\ Answered(<<"count", Cardinality(SelectedBy(db, filters))>>)
    /\ UNCHANGED <<db, keyed>>

\* lookupIds: keys on too many records are dropped; the records of the others
\* come in the order of the first key that they match, then of their rowids.
lookupIds(keys, maxDocumentFrequency) ==
    LET query == Unique(keys)
        having(k) == {l \in db.lookup : l.key = k}
        eligible == {n \in DOMAIN query :
                        Cardinality(having(query[n])) <= maxDocumentFrequency}
        matched(r) == {n \in eligible : [id |-> r.id, key |-> query[n]] \in db.lookup}
        \* With their first_query_ordinal.
        ranked == {p \in db.vec \X eligible :
                     p[2] \in matched(p[1]) /\ \A m \in matched(p[1]) : p[2] <= m}
        rows == Sorted(ranked, {p \in ranked \X ranked :
                   \/ p[1][2] < p[2][2]
                   \/ p[1][2] = p[2][2] /\ p[1][1].rowid < p[2][1].rowid}) IN
    [n \in DOMAIN rows |-> rows[n][1].id]

\* More than MaxQueryKeys distinct keys throw.
LookupIds(keys, maxDocumentFrequency) ==
    /\ open /\ Len(Unique(keys)) <= MaxQueryKeys
    /\ found' = lookupIds(keys, maxDocumentFrequency)
    /\ UNCHANGED <<db, open, answer, faults, keyed>>

-----------------------------------------------------------------------------
SqliteNext ==
    \/ \E d \in {Dim[v] : v \in Vectors} : Initialize(d)
    \/ \E b \in Batches : Insert(b) \/ InsertKeyed(b) \/ InsertFails(b)
    \/ \E i \in Ids : Read(i)
    \/ \E q \in Queries, f \in Filters, n \in Limits : Search(q, n, f)
    \/ \E q \in Queries, ids \in IdLists : SearchByIds(q, ids)
    \/ \E ids \in DeleteLists, f \in Filters : Delete(ids, f)
    \/ \E f \in Filters : DeleteWhere(f) \/ Stats(f)
    \/ \E keys \in LookupQueries, n \in Frequencies : LookupIds(keys, n)
    \/ Clear \/ Dispose \/ UseDisposed \/ Fails

SqliteSpec == SqliteInit /\ [][SqliteNext]_sqliteVars

-----------------------------------------------------------------------------
(* Properties.                                                             *)

\* The database answers every call as the in-memory index would: a batch goes
\* in whole or not at all, scopes and ties mean the same, counts agree, and a
\* reopened index holds what it held.
RecordsOf(d) == [i \in {r.id : r \in d.vec} |->
                   LET r == CHOOSE r \in d.vec : r.id = i IN
                   [vector |-> r.embedding, metadata |-> r.metadata_json]]
records == RecordsOf(db)

Flat == INSTANCE VectorIndex WITH dimension <- db.dimension

RefinesFlat == Flat!VectorSpec

\* The types, the keys of the vector table and what its rows were checked for.
RowsOK(d) ==
    /\ d = [dimension |-> d.dimension, vec |-> d.vec, meta |-> d.meta, lookup |-> d.lookup]
    /\ IsFiniteSet(d.vec)
    /\ \A r \in d.vec : /\ r.id \in Ids /\ r.rowid \in Nat \ {0}
                        /\ r.embedding \in Vectors \cap Finite
                        /\ Dim[r.embedding] = d.dimension
                        /\ IsMetadata(r.metadata_json)
    /\ \A r, s \in d.vec : r.id = s.id \/ r.rowid = s.rowid => r = s

SqliteTypeOK ==
    /\ RowsOK(db)
    /\ db.dimension \in {0} \cup {Dim[v] : v \in Vectors}
    /\ keyed = [keys |-> keyed.keys, later |-> keyed.later]
    /\ open \in BOOLEAN /\ faults \in 0 .. MaxFaults
    /\ found \in Seq(Ids)

\* The three tables agree after any sequence of replacements and deletions: no
\* scalar or lookup key outlives its record, each record is filtered by the
\* metadata it is answered with and found by the keys it was last inserted
\* with, and a record inserted later has the larger rowid.
AgreeWith(d, s) ==
    /\ DOMAIN s.keys = {r.id : r \in d.vec}
    /\ d.meta = UNION {MetaRows(r.id, r.metadata_json) : r \in d.vec}
    /\ d.lookup = UNION {LookupRows(i, s.keys[i]) : i \in DOMAIN s.keys}
    /\ \A r, t \in d.vec : <<r.id, t.id>> \in s.later <=> r.rowid < t.rowid

TablesAgree == AgreeWith(db, keyed)

\* lookupIds answers by the keys each record was last inserted with, the most
\* recent insertion last, whatever was replaced or deleted since.
LookupIsRanked ==
    \A keys \in LookupQueries, n \in Frequencies :
        LET query == Unique(keys)
            rare == {m \in DOMAIN query :
                       Cardinality({i \in DOMAIN keyed.keys :
                                      query[m] \in keyed.keys[i]}) <= n}
            matched(i) == {m \in rare : query[m] \in keyed.keys[i]}
            ids == lookupIds(keys, n) IN
        /\ ToSet(ids) = {i \in DOMAIN keyed.keys : matched(i) # {}}
        /\ \A a, b \in DOMAIN ids : a < b =>
              /\ ids[a] # ids[b]
              /\ \E m \in matched(ids[a]) : \A l \in matched(ids[b]) :
                    m < l \/ (m = l /\ <<ids[a], ids[b]>> \in keyed.later)

\* The tables are what their records say, and lookups rank by them.
SqliteInvariant ==
    /\ SqliteTypeOK
    /\ TablesAgree
    /\ LookupIsRanked
=============================================================================
