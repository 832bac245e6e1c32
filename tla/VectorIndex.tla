---------------------------- MODULE VectorIndex ----------------------------
(***************************************************************************)
(* What a vector index promises (src/vector/types.ts), as the in-memory    *)
(* FlatVectorIndex (src/vector/flat.ts) computes it: records by id, exact  *)
(* search over those in scope, and inserts that take a batch whole.        *)
(*                                                                         *)
(* Ids are numbers in the order compareCodeUnits gives them.  Vectors are  *)
(* symbols; Distance gives the cosine distance of a query to each of them. *)
(***************************************************************************)
EXTENDS Naturals, Sequences, FiniteSets, SequencesExt, Ordered

CONSTANTS
    Ids,
    Vectors,     \* vectors a caller may pass
    Dim,         \* [Vectors -> Nat]: the length of each
    Finite,      \* the vectors without NaN or infinity
    Queries, Distance,   \* Distance[q][v], for vectors of the query's length
    Batches,     \* sequences of records a caller may insert
    Filters,     \* metadata scopes; the empty function is "unscoped"
    IdLists, DeleteLists, Limits,
    Persistent,  \* capabilities.persistent
    MaxFaults

VARIABLES
    records,     \* #records: a record for some of the ids
    dimension,   \* of the stored vectors, 0 before the first opening
    open,        \* ~#disposed
    answer,      \* of the last call
    faults

indexVars == <<records, dimension, open, answer, faults>>

Empty == [i \in {} |-> i]

VectorInit ==
    /\ records = Empty /\ dimension = 0 /\ open = FALSE
    /\ answer = <<"none">> /\ faults = 0

-----------------------------------------------------------------------------
matches(metadata, filters) ==
    \A k \in DOMAIN filters : k \in DOMAIN metadata /\ metadata[k] = filters[k]

InScope(filters) == {i \in DOMAIN records : matches(records[i].metadata, filters)}

Valid(v) == Dim[v] = dimension /\ v \in Finite

Hit(q, i) == [id |-> i, distance |-> Distance[q][records[i].vector],
              metadata |-> records[i].metadata]

\* By distance, ties by id.
Closer(a, b) == a.distance < b.distance \/ (a.distance = b.distance /\ a.id < b.id)
Nearest(hits) == Sorted(hits, {p \in hits \X hits : Closer(p[1], p[2])})
Hits(q, ids)  == Nearest({Hit(q, i) : i \in ids})

First(s, limit) == SubSeq(s, 1, IF limit < Len(s) THEN limit ELSE Len(s))

Without(ids) == [i \in DOMAIN records \ ids |-> records[i]]

Answered(a) == answer' = a /\ UNCHANGED <<dimension, open, faults>>
Refused     == Answered(<<"refused">>) /\ UNCHANGED records
Failed ==
    /\ faults < MaxFaults
    /\ faults' = faults + 1
    /\ answer' = <<"failed">>
    /\ UNCHANGED <<dimension, open>>

-----------------------------------------------------------------------------
\* The constructor.  What is stored already has a dimension.
OpenIndex(d) ==
    /\ ~open
    /\ IF dimension \in {0, d}
       THEN dimension' = d /\ open' = TRUE /\ answer' = <<"done">>
       ELSE answer' = <<"refused">> /\ UNCHANGED <<dimension, open>>
    /\ UNCHANGED <<records, faults>>

\* The records after each of the batch; a later one with an id replaces it.
With(rs, r) == [i \in DOMAIN rs \cup {r.id} |->
                  IF i = r.id THEN [vector |-> r.vector, metadata |-> r.metadata]
                  ELSE rs[i]]
Published(batch) ==
    LET after[n \in 0 .. Len(batch)] ==
            IF n = 0 THEN records ELSE With(after[n - 1], batch[n])
    IN after

\* insert: the whole batch is validated before any record is published.
Insert(batch) ==
    /\ open
    /\ IF \A n \in DOMAIN batch : Valid(batch[n].vector)
       THEN /\ records' = Published(batch)[Len(batch)]
            /\ Answered(<<"done">>)
       ELSE Refused

Read(i) ==
    /\ open
    /\ Answered(<<"record", IF i \in DOMAIN records THEN <<records[i]>> ELSE <<>>>>)
    /\ UNCHANGED records

Search(q, limit, filters) ==
    /\ open
    /\ IF Valid(q)
       THEN Answered(<<"hits", First(Hits(q, InScope(filters)), limit)>>)
       ELSE Answered(<<"refused">>)
    /\ UNCHANGED records

SearchByIds(q, ids) ==
    /\ open
    /\ IF Valid(q)
       THEN Answered(<<"hits", Hits(q, ToSet(ids) \cap DOMAIN records)>>)
       ELSE Answered(<<"refused">>)
    /\ UNCHANGED records

\* delete, deleteWhere and clear answer the number of records they remove; an
\* index that stores its records may fail to, the records being removed.
RemoveRecords(ids) ==
    /\ open
    /\ records' = Without(ids)
    /\ Answered(<<"count", Cardinality(ids)>>) \/ Failed

Delete(ids, filters) == RemoveRecords(ToSet(ids) \cap InScope(filters))

DeleteWhere(filters) ==
    /\ open
    /\ IF DOMAIN filters = {} THEN Refused ELSE RemoveRecords(InScope(filters))

Clear == RemoveRecords(DOMAIN records)

Stats(filters) ==
    /\ open
    /\ Answered(<<"count", Cardinality(InScope(filters))>>)
    /\ UNCHANGED records

\* dispose, and the end of the context the index lives in.
Dispose ==
    /\ open
    /\ open' = FALSE
    /\ records' = IF Persistent THEN records ELSE Empty
    /\ dimension' = IF Persistent THEN dimension ELSE 0
    /\ answer' = <<"none">>
    /\ UNCHANGED faults

\* #assertOpen: a disposed index refuses every call.
UseDisposed == ~open /\ Refused

\* Any call may fail before it has changed anything.
Fails == open /\ Failed /\ UNCHANGED records

VectorNext ==
    \/ \E d \in {Dim[v] : v \in Vectors} : OpenIndex(d)
    \/ \E b \in Batches : Insert(b)
    \/ \E i \in Ids : Read(i)
    \/ \E q \in Queries, f \in Filters, n \in Limits : Search(q, n, f)
    \/ \E q \in Queries, ids \in IdLists : SearchByIds(q, ids)
    \/ \E ids \in DeleteLists, f \in Filters : Delete(ids, f)
    \/ \E f \in Filters : DeleteWhere(f) \/ Stats(f)
    \/ Clear \/ Dispose \/ UseDisposed \/ Fails

VectorSpec == VectorInit /\ [][VectorNext]_indexVars
=============================================================================
