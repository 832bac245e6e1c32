# Verification of edgeproc-browser

`edgeproc-browser` syncs a signed, content-addressed bundle into a browser's
storage and serves it from there, online or not. The promise it lives by is that
no sequence of network faults, replays, crashes, full disks, damaged rows,
several tabs, or upgrades from older versions makes it serve a release that is
older than one it has accepted, that forks it, that is not signed by an
unrevoked key, or that is incomplete. The TLA+ modules here state that promise,
model the code that keeps it, check the models with TLC on small instances and
prove the most important results with TLAPS for all instances.

`PROJECT.json` relates every definition to the source lines it models, lists the
runs with their properties, the defects that each property is shown to catch,
the hazards the properties are aimed at, and the theorems.

## 1. The system's parts

### Engine (`src/src/engine`)

| Part | State it keeps | Operations | What makes it correct |
|---|---|---|---|
| Anti-rollback gate (`activePointer.ts`, `sqliteStore.ts:425-506`) | one row: active pointer, floor sequence, floor identity | admit and install a pointer, merge legacy slots, read the pointer under the floor | the floor never falls; one release per sequence |
| Chunk store (`sqliteStore.ts`) | tables `chunk`, `manifest`, `active_pointer`, `legacy_migration`; an ingest buffer in memory | put/get chunk and manifest, flush, promote, clearActiveIf, pruneInactive, clear, legacy import | what was promoted stays readable; a crash loses only the buffer |
| Sync (`sync.ts`, `integrity.ts`) | locals of one `syncIndex` call | pointer, checks, manifest, chunks, read-back, promote; fallback to the cache on outage and quota | results are authentic, current and complete; a failed sync changes nothing that is served |
| Transport (`fetchBytes.ts`) | stall timer, bytes so far | read head and body under a ceiling, abort on silence | a slow link is not cut off, a silent one is; what is over its ceiling is never an outage |
| Chunk download pool (`sync.ts:771-849`) | budget, in-flight count, waiters, first failure | reserve, take, release, fetch with retries, put | the byte cap holds; nobody waits forever |
| Trust root (`keyring.ts`, `crypto.ts`, `canonical.ts`) | none; loaded for every sync | load, select a key, refuse revoked keys | a revoked key never verifies, cached releases included |
| Worker handlers (`worker.ts`) | configuration fixed by the first call | sync, readFile, clear | each runs in one session of the chunk database |
| Chunk database (`chunkDatabase.ts`, `cacheLock.ts`) | queue, drain, session, memory fallback | run, drain, open, batch, close | exclusive operations run alone over all tabs; every call is answered; no operation runs under too low a floor |
| Migration of 0.2.x stores (`migration.ts`, `legacyStores.ts`) | `legacy_migration` row; the old OPFS and IndexedDB stores | import floor, copy, remove, mark done | repeatable after a crash at each step, never loses the floor |
| Engine client (`client.ts`, `workerFault.ts`, `protocol.ts`) | pending requests with deadlines, crash latch | sync, readFile, clear, dispose; messages, errors, timeouts | every call is settled once; no Worker is left running |
| Network sentinel, Zstandard | counters; none | | not modelled |

### SQL storage (`src/src/sql`), state store (`src/src/sqlite`), vectors (`src/src/vector`), sealing (`src/src/seal`)

| Part | State it keeps | Operations | What makes it correct |
|---|---|---|---|
| Pool ownership (`sql/open.ts`, `opfsPool.ts`, `legacy.ts`, `vector/sqlite/poolOwner.ts`) | owner and operation Web Locks, sync access handles, the pool's OPFS directory | open, operate by name, remove, migrate a legacy pool | a connection keeps its files; no lease is orphaned; a legacy database is removed only after its import; every wait is bounded |
| `opfs-sahpool` VFS (patched `sqlite3.mjs`, `sahPool.ts`) | slots with headers, files by path, a lock table per file | install, reserve slots, open, delete, lock, unlock, pause | slots are neither lost nor leaked; readers see committed data only; a writer gets its turn |
| SQL client, handler, engine (`client.ts`, `handler.ts`, `engine.ts`, `control.ts`) | call line, FIFO queue, the one open transaction | plain calls, interactive transactions, close | nothing interleaves with a transaction; callers are told the truth; `close()` waits for no user code |
| SQL import/export (`portable.ts`, `serializer.ts`, `node.ts`) | none | | schema analysis of foreign files: text, no state |
| Application state store (`sqlite/database.ts`, `client.ts`, `worker.ts`) | epoch, rows with revisions, one staged import per tab | batch, migrate, reset, read, export, stage, commit, discard, dispose | an epoch names one state for ever; conditional changes apply to the state they name |
| Vector index (`flat.ts`, `packed.ts`) | records by id | insert, read, search, delete, count | a batch goes in whole; search is exact |
| Vector database (`vector/sqlite`) | tables of vectors, metadata scalars, lookup keys, the dimension | the same, and lookups by key | it answers as the in-memory index does |
| Memory profile, sealing | none | | a table; stateless cryptography |

### How the parts interact

The application calls an `EngineClient` on the main thread, which posts requests
to a Worker and waits for replies under a deadline. The Worker's handlers call
`ChunkDatabase.run`, which queues the operation, takes the cache Web Lock that is
shared by all tabs, opens the SQLite pool (or falls back to memory), imports the
floor of 0.2.x stores, runs batches of operations over one `SqliteCacheStore`,
flushes, closes and releases the lock. A `sync` operation loads the trust root,
calls `syncIndex`, which downloads with the pool of chunk fetches into the store's
buffer, reads everything back and promotes in one transaction.

The SQL database is a handle on the main thread that posts to a Worker, whose
handler serves one call after the other on one SQLite connection. The connection
lives in a pool of OPFS files that one context at a time may own: ownership is
settled by Web Locks (`SqlPool`), the files themselves are handed out by the VFS
(`SahPool`). The vector database has a pool of its own, owned in the same way. The
application state store has one Worker per tab over one database; each operation of
a Worker holds the database's exclusive Web Lock for one transaction.

The behaviours that are hard to test are the orders in which these meet: a crash
between two steps, an answer after its deadline, a full disk in the middle of a
batch, a row damaged between two sessions, a pointer replayed while an update is
half stored, a drain that ends as a call arrives. `PROJECT.json` lists them under
`hazards`, each at its line.

## 2. The modules

```
ReleaseRegister         abstract: what the floor promises
   ^ refines
FloorGate <- ChunkStore <- SyncEngine -> SyncChecks

ChunkTransfer           FetchBytes, then FetchPool, then ChunkReader: three
                        stages of SyncEngine, opened up
ChunkDatabase           the sessions SyncEngine's operations run in
EngineClient            the caller's side of them

VectorIndex             abstract: the index in memory
   ^ refines
SqliteVectorIndex       the index in SQLite
                        (both sort with Ordered)

SqlClient               one SQL database: handle, handler, engine
SqlPool                 who owns a pool of files
SahPool                 the files of a pool, under SQLite's pager
StateStore              the application state of several tabs
```

The proofs about a component `X` are in `XProofs`: ChunkTransferProofs,
ChunkDatabaseProofs, EngineClientProofs, StateStoreProofs, SqlClientProofs,
SqlPoolProofs, SyncEngineProofs, which also holds the proofs about the store that the
engine's rest on, and SqliteProofs for SahPool and SqliteVectorIndex, which share nothing
but that SQLite keeps its data in them.

**FloorGate** — pure operators: `samePointer`, `canPromotePointer`,
`selectHighestPointer` (`activePointer.ts`) and the row's `admits`,
`installPointer`, `mergeLegacyFloor`, `readActive` (`sqliteStore.ts`). A pointer is
a record with the fields that the code compares; sequence -1 is the absent one, as
`sequenceOf` has it.

**ReleaseRegister** — the abstract specification: a floor that only rises unless it
is reset, the release pinned at it, and what readers are served.

**ChunkStore** — every state-changing method of `SqliteCacheStore` is one action.
A row is `"none"`, `"good"` or `"bad"` (does its body verify against its name).
A transaction is one step, since SQLite makes it so; one that throws is a stutter.
`Crash` loses the buffer at any point. `DamageChunk`, `DamageManifest` and
`EditPointer` change the file at rest, which the code treats as untrusted. Two
history variables record the releases accepted since the last reset and the chunks
that were proved for the active one.

**SyncChecks** — the checks of `sync.ts` and `keyring.ts` as predicates: pointer and
manifest shape with every cap, expiry, pinned identity, freshness (sequences, and
versions of releases without one), key selection, wanted paths. A signature is
abstracted to the key under which the bytes verify, a file's bytes to whether its
chunks reassemble to its hash.

**SyncEngine** — one operation at a time over the store, stage by stage: `job` holds
the locals of `syncIndex` or `readFile`, and its `pc` is the await it is at. Every
await may fail, the reads of the store included; `Throw` is the catch of `syncIndex`.
The server may replay anything it published or send anything else in `Hostile`;
releases are published, the trust root rotates and the clock moves between any two
steps. Each step is a step of ChunkStore's actions (`StoreSpec`, checked and proved), so
that the store's theorems hold here.

**FetchBytes** — one request: the awaits of `fetchBytes`, its stall timer, and the wire
with what has arrived and how long ago. `RequestInvariant`: the timer measures
silence and nothing else (`StallIsSilence`), the caller gets all that was sent or a
refusal that is no outage (`WholeOrRefused`), and neither timer nor connection
outlives the request (`NothingOutlives`, but for a response refused by its head).

**FetchPool** — `fetchMissing`, one step per stretch of code between two awaits.
`PoolInvariant`: the budget is conserved and the cap holds (`BudgetConserved`,
`CapHolds`), a waiter can be woken (`NoLostWakeup`), a pool that succeeds put every
chunk once (`SuccessIsComplete`).

**ChunkReader** — `verifyReassembly`: a bounded map over the files, in it a bounded map
over the chunks of each, and under both one reader that limits the reads of the whole
pass and joins reads of the same chunk. `ReaderInvariant`: the limit holds and a
queued read will be woken (`ReadsBounded`), no read outlives its file or the pass
(`NoReadOutlives`), success means that everything was read (`PassIsTrue`).

**ChunkTransfer** — one after the other, as `syncIndex` runs them.

**ChunkDatabase** — several Workers over one profile: queue, drain, lock, opening
and fallback, migration step by step, batches, reset, close. The store is reduced
to its floor here, because ChunkStore shows that the floor itself is kept; the
question is which floor an operation runs under. The 0.2.x stores are their four
pointer slots (the single one and the pair `active.a`, `active.b` of the OPFS store, and
IndexedDB's), each absent, a floor, or torn, with the rules of `legacyStores.ts` for what
counts as readable; removal deletes them entry by entry. `DatabaseInvariant`: no operation
runs under too low a floor (`FloorInForce`), nothing is removed before its floor is on
disk (`RemovedWhenInForce`), and exclusive operations run alone (`ExclusiveRunsAlone`).

**EngineClient** — the client, both message channels and a Worker that runs requests
in batches but may also hang, throw or answer late. `released` counts the calls of
`terminate()`. `EngineInvariant` is mainly `CrashReleasesAll`.

**StateStore** — per tab a client, a message queue and a Worker, over one database.
A request is queued, begun (under the lock, when the epoch is read) and run; the
Worker may die and SQLite may fail in between. A staged import is a snapshot kept by
the Worker under an id; `told` records what its caller was shown. The epoch is a
JavaScript number, so the model keeps `MaxSafe`. `StateStoreInvariant`: an epoch
names one state (`EpochIdentifiesState`), the checks of an import accept what the store
exports while its epoch is a safe integer, though the file may be too large
(`RevisionsWithinEpoch`), a posted call is answered even if `dispose()` follows
(`PostedIsAnswered`).

**SqlClient** — the handle's line of calls, both channels, the handler's queue and
the engine's transaction. `ran` records the calls SQLite started, `engine.log` what is
committed. An `exec` of several statements that fails keeps the first of them. A
callback of an interactive transaction is user code: it may send statements at any
time, too late included, and need not settle. `SqlInvariant`:
`NothingInterleaves`, `CallOrder`, `CloseIsClean`.

**SqlPool** — contexts (Workers of tabs) with one job each: open a named database, run
a bounded operation by name, open a vector index, or remove a pool; over the owner
lock, the operation lock by which a holder says that waiting is worth while, the
handles, and the directory, which an installation creates before it opens the handles
(`Install`, `Acquire`). A dead context's locks are free at once, its handles only later.
A tab of an old build holds handles without asking for locks, and writes; the history
`overtaken` names the migrations that it wrote behind, between removeVfs's closing of
the handles and its deletion. `SqlPoolInvariant`: `NoOrphanedLease`,
`HandlesUnderLease`. `OwnedPoolStays`: nobody removes a pool under the job that owns it.
`MigrationKeepsTheData`: what a migration removes is what it copied.

**SahPool** — the slots of the VFS with the headers on disk beside the maps in memory,
the lock table of the repository's patch, and SQLite's pager as the sequence of VFS
calls its rollback journal makes. The Worker may die within a call, and between the
two writes of a header. `SahInvariant`: `SlotsAreTrue`, `SlotForEveryFile`,
`PoolDoesNotGrow`, `LocksAreCompatible`, `JournalCoversWrites`.

**VectorIndex**, **SqliteVectorIndex** — the first is `FlatVectorIndex` and serves as the
abstract specification; the second keeps the three tables of `vector/sqlite/database.ts`
and implements it (`RefinesFlat`, with the records read off the vector table). A sorted
answer is `Sorted` of **Ordered**: the element at place n is the one with n - 1 before it.
A batch is a recursive function that gives the tables after each of its records; one
that fails (`InsertFails`) leaves the tables of any of its stages to the rollback. A
deletion whose count fails has deleted all the same. `keyed` is a history of insertions:
the lookup keys each id was last inserted with, and which of two ids was inserted later.
`SqliteInvariant`: the tables agree with each other and with that history
(`TablesAgree`), and lookups are ranked by it (`LookupIsRanked`), which does not mention
rowids.

Each `MC` module fixes the constants; definitions named `X_Something` with a
comment "Defect:" are plausible wrong versions of `X`, used to show that a property
would notice.

## 3. The runs

| Run | Properties | Shows |
|---|---|---|
| `chunk_store` | `StoreInvariant`, `ServedIsNewest`, `ActiveComplete`, `RegisterSpec` | every order of store operations, crashes and damage keeps the floor and the proved chunks, and refines `ReleaseRegister` |
| `sync_engine` | `ResultNeverRollsBack`, `ServedUnderPolicy`, `DeliveredReadable`, `FailureKeepsRelease`, `ReleaseStaysServable`, `StoreSpec` | syncs, fallbacks, reads and resets with two adverse events |
| `sync_live` | `EventuallyCurrent` | once faults stop, an application that keeps syncing reaches the newest release whole |
| `chunk_transfer` | `RequestInvariant`, `PoolInvariant`, `ReaderInvariant`, `TransferEnds` | the manifest's request, downloads under one budget and the reads that follow: complete or failed, never stuck |
| `chunk_database` | `DatabaseInvariant`, `ResetIsTotal`, `CallsAnswered` | two Workers take turns through crashes at every step of the migration, refused OPFS, unreadable floors and resets |
| `engine_client` | `EngineInvariant`, `OutcomeIsFinal`, `RequestsSettle` | every call is settled once and for good, and no failure leaves a Worker behind |
| `state_store` | `StateStoreInvariant`, `ConditionalChange`, `CommitsWhatWasStaged`, `StoreSettles` | two tabs change, export and import one database while Workers die and `dispose()` comes at any time |
| `sql_client` | `SqlInvariant`, `OutcomeIsTrue`, `CloseSettles`, `CallsSettle` | plain calls, transactions, late and failing statements, failing COMMITs and `close()` in every order |
| `sql_pool` | `SqlPoolInvariant`, `OwnedPoolStays`, `RefusedForAConnection`, `MigrationKeepsTheData`, `JobsSettle` | contexts open, operate on, remove and migrate pools, with and without Web Locks, beside an old build that reads and writes |
| `sah_pool` | `SahInvariant`, `ReadsCommitted`, `DatabaseFileSurvives`, `WriterGetsItsTurn` | three connections over the VFS, with a Worker that dies at every step |
| `vector_index` | `SqliteInvariant`, `RefinesFlat` | the SQLite index answers every sequence of calls as the in-memory one does, batches that fail half-way included |

One more run, `chunk_migration`, ends in a counterexample (`MigrationIsRepeatable`).
`migration.ts:10-11` says of a crash after the copy: "the next boot re-runs 1–5, which
is idempotent". A 0.2.x store may hold a torn slot beside a readable one, the
documented crash state, which the floor import accepts. The removal deletes the
entries one by one (`legacyStores.ts:283`). If the Worker dies after the readable
slot is deleted and before the torn one is, the next session finds an unreadable
floor and refuses every sync and read until the user resets, although the floor is
on disk already. `FloorInForce` holds all the while: the failure is one of
availability.

Differences between text and code, met while modelling, that have no run of their own:

- An outage while the trust root is fetched fails the sync although the cache could
  serve (`worker.ts:138`; SECURITY.md:95-97 "When the origin is unreachable, sync serves
  the already-verified cached bundle").
- A body that breaks off rejects with the browser's own error, which only the head's
  `fetch()` is guarded against (`fetchBytes.ts:145,167`): such a chunk is not retried, and
  such a pointer does not serve the cache (docs/API.md:111-112 "A chunk fetch that fails
  or stalls ... is retried with bounded backoff").
- A reservation made while others hold the budget is smaller than its chunk, which
  then fails with the cap error (`sync.ts:793`; syncHardening.test.ts:1001-1002, chunks
  that fit the budget succeed). In `chunk_transfer` five chunks that fit fail in some
  orders. The cap refusal also replaces an earlier failure (`sync.ts:809`), where the
  other paths keep the first.
- A call made between a drain's end and the microtask that forgets it is queued with
  no drain (`chunkDatabase.ts:135`; lines 103-104, the session is held while operations
  are queued). It needs a caller that calls `run()` from a promise continuation: with
  `MicrotaskCalls = TRUE` the run `chunk_database` refutes `CallsAnswered`. The Worker's
  own handlers call it from message events.
- A Worker in memory never looks at the disk again (`chunkDatabase.ts:202`;
  chunkDatabase.test.ts:293 "never an empty in-memory floor beside a persisted one").
- A request's deadline runs while it waits behind one that reports progress
  (`client.ts:280`; docs/API.md:115-116 "only a Worker that stays silent ... is
  terminated").
- An open that fails frees the owner lock while the handles are still open
  (`sql/open.ts:148`; `opfsPool.ts:11-13`, whoever holds the handles holds the lock).
  `HandlesUnderLease` excepts exactly this case; `poolOwner.ts` closes first.
- `removeVfs` closes the handles before it deletes the files (`sqlite3.mjs:20633-20634`). A
  tab of an old build that opens the pool, writes and lets go in between loses what it
  wrote, other files included (docs/sql.md:337-338 "Old tabs cannot write during the move";
  372-373, the pool is removed "only when it holds nothing but `fromFile` and its
  journal"). `MigrationKeepsTheData` excepts exactly this case (`overtaken`).
- A quota error also serves the cache (`sync.ts:1108`; ARCHITECTURE.md:214 "A network
  outage is the only condition that may serve cache").
- With a floor but no active pointer an older release is downloaded and only refused
  by `promote` (`sync.ts:1070`; types.ts:43-45 "rejected before manifest fetch").
- When removing the second legacy store fails the first is gone (`migration.ts:119`;
  ARCHITECTURE.md:143 "deletes nothing").
- A pool in use fails the operation (`chunkDatabase.ts:208`; ARCHITECTURE.md:127-129,
  which says the Worker then uses memory).
- A `delete` of very many ids exceeds SQLite's bind limit and is refused where the
  in-memory index accepts it (`vector/sqlite/database.ts:254`); `RefinesFlat` is checked
  for lists below it and proved on that condition (`DeletesFit`).

The passing runs include all of these behaviours except where a line says so, and
show that none of them lowers a floor or shows uncommitted data.

### Bounds

- `chunk_store`: two manifests that share a chunk, a buffer that fills at two
  chunks, four pointers: one without a sequence, two that fork at one sequence, a
  newer one; legacy slots that agree, disagree at the top and disagree below it.
  No bound on the number of steps: the state space is finite and is exhausted.
- `sync_engine`: two releases signed by different keys, a fork, a pointer whose
  manifest carries another version, a 0.1.x pointer in a legacy store; three trust
  roots (rotation, then revocation); an expiry; wanted paths that are everything, a
  directory and a file that only the second release has. `MaxFaults = 2`, because
  each wrong outcome looked for needs at most a fault that leaves something behind
  and one that meets it; the theorems have no such bound.
- `chunk_transfer`: a ceiling of three bytes and a stall of three ticks, so that parts of
  a body arrive before, at and after the deadline; then three workers and five chunks
  whose sizes add up to the budget, so that workers wait and are woken together, some
  orders exhaust the budget and some succeed; three faults. Then three files, two of which share chunks and one of which
  repeats one, read two at a time: reads are joined within and across files, queued,
  and fail in every order.
- `chunk_database`: two Workers; an OPFS store with a floor and a torn twin beside an
  IndexedDB store with a higher floor; three calls (a shared pair and an exclusive
  one, or a queue behind a session); one fault (crash, failing step, OPFS granted or
  withdrawn).
- `engine_client`: three requests (one running, one queued, one late), a deadline of
  two ticks so that progress can fall before, at and after it.
- `state_store`: two tabs, one key with two values, five calls of which two of a tab may
  be pending, one fault; imported files of an epoch far ahead, at `MaxSafe`, and one
  that is refused. Each wrong outcome needs one call to learn an epoch or a staged
  id, one to change it, and one to use it.
- `sql_client`: three calls (a transaction, one behind it, one behind both), two
  statements each, one fault.
- `sql_pool`: two contexts, a SQL pool, a vector pool and a legacy pool, three jobs, two
  faults, both with and without Web Locks, and an old build's tab, which opens the pool
  at the price of a fault.
- `sah_pool`: three connections (two readers keep a writer waiting), two temp files,
  three initial slots of at most six. Nothing else is bounded: the state space is
  finite and deadlock is checked.
- `vector_index`: four ids of which two are equally far from a query, metadata that
  differs in kind only, batches with repeated ids and bad vectors, four rowids, one
  fault. The bind limit is below the length of one id list, so that lists are split.

`CHECK_DEADLOCK FALSE` stands where calls, jobs or requests are bounded or the
transfer ends.

### Fairness

- SyncEngine: weak fairness of a job step that meets no adverse event. Every fetch
  has a stall deadline (`fetchBytes.ts`) and every retry loop a bound, so an await
  settles. Strong fairness of `Request` says that the application keeps calling
  sync; it is needed because other operations may be in progress whenever it looks.
- ChunkTransfer: weak fairness of a request (time passes; nothing is assumed of the
  server), of each worker's step, since every request settles, and of the read-back,
  whose reads are local.
- ChunkDatabase: weak fairness of the drain's steps; strong fairness of `TakeLock`,
  because Web Locks are granted in request order.
- EngineClient: time passes, the main thread runs its timers and its messages.
  Nothing is assumed of the Worker, which may hang at any point.
- StateStore: strong fairness of `Begin`, because the Web Lock is granted in request
  order and another tab may hold it whenever one looks; weak fairness of `Run`.
- SqlClient: weak fairness of the Worker, of the delivery of its answers and of the
  line's own continuations. Nothing is assumed of a callback: `CloseSettles` must hold
  without it, and `CallsSettle` excepts calls behind one that does not settle.
- SqlPool: weak fairness of a context's own steps, of the end of bounded operations and
  of the browser's release of a dead context's handles. An open database need never
  be closed.
- SahPool: weak fairness of calls in progress, of the end of a read and of a waiting
  writer's next attempt; nothing makes a connection start.

## 4. What is proved

Every safety invariant, action property and refinement of the passing runs is a
theorem. A component's proofs are in its `Proofs` module, where the
parts of its inductive invariant stand before the lemmas about its steps. The proofs
about the three parts of ChunkTransfer stand in one module; the parts share no variable,
and nothing is assumed of one in the proofs about another.

The theorems hold for every value of the constants that satisfy the assumption named
in the component's module; TLC evaluates the assumptions in the runs. They say:

- of bounds and limits, that they are numbers (positive where the code needs at least
  one), and of `Workers`, `Tabs`, `Conns` and `Temps`, that they are finite; vector ids
  and the distances of valid vectors are numbers too, which puts them in an order;
- of symbols, that `null` is none of the values it is compared with, and that marks such
  as `torn`, `Closing` and a header's `"free"` are none of the values they stand beside;
- of what comes from outside, its type: pointers have a sequence of at least -1
  (`PointersAssumption`), published releases increase, trust roots are well-formed
  keyrings and `ChunksOf` is what the manifest's content lists (`SyncAssumption`), chunk
  sizes are positive (`FetchPoolAssumption`), 0.2.x slots hold a floor, a torn body or
  nothing (`ChunkDatabaseAssumption`), batches are sequences of mutations and foreign
  files snapshots (`StateStoreAssumption`), metadata holds scalars with one null and
  filters finitely many of them (`SqliteVectorAssumption`), SQL and vector pools have
  different names (`SqlPoolConstants`).

Steps are never counted, and the bounds on calls and faults may be any numbers.

**SyncEngineProofs, the store.** The properties are not inductive by themselves: that two
accepted releases never share a sequence does not say why the next promotion keeps
it so. `StoreInvariant` adds that accepted releases lie at or below the floor
(`FloorBoundsAccepted`), that a floor with an identity names an accepted release
(`FloorIdentityAccepted`), and that the proved chunks belong to the active manifest
and are readable (`NeedsOfActive`, which is why pruning cannot touch them).
Lemmas about `admits`, `installPointer` and `mergeLegacyFloor` say what a row written
by the gate satisfies; each action then preserves the invariant by one of them.
Theorems: `StoreIsInvariant`, `TypeCorrect`, `NoEquivocation`, `ServedNeverRollsBack`,
`ActiveStaysComplete`, `FloorIsMonotone`, and `ImplementsRegister` (the store refines
`ReleaseRegister`, with the floor row as refinement mapping).

**SyncEngineProofs, the engine.** `EngineUsesStore` shows that each step of the engine is
a store step or none, so that the store's theorems carry over. `EngineInvariant` is the
conjunction of what each stage knows: types (`SyncTypeOK`), the locals a stage relies
on (`StageLocals`), that nothing before promotion changed the row (`RowKept`), that
the cache path serves the active release (`ServesActive`), that its pointer passed
the checks of this sync's trust root (`PolicyKept`), that chunks already read back
are still good (`ReadBack`), and the same for the last online sync (`SyncedWhole`).
The last two are the heart: between the read-back and the answer other chunks are
evicted, the buffer is flushed and the promotion runs. Theorems: `EngineIsInvariant`,
`SyncTypeCorrect`, `ResultsNeverRollBack`, `ResultsUnderPolicy`, `ResultsReadable`,
`FailuresKeepRelease`, `SyncedStaysServable`.

**ChunkTransferProofs.** `RequestSound` ties the watchdog's timer to the silence on the
wire and the count to what was sent, at each await of `fetchBytes`. `PoolSound` keeps
two accounts of the download pool. The budget (`Accounts`): what remains, what is
reserved by the workers that hold a chunk, and what is spent add up to the limit, and a
chunk being put fits its reservation. The chunks (`Claims`): each that was taken is
stored, or claimed by exactly one worker, unless the pool has failed. A step of the code
is several calls in a row, so the lemmas are about `take`, `reserve`, `release` and
`failWith` on any state of the pool, with the worker in the middle of its step left out
of the accounts. `ReaderSound` says that a chunk waits for its turn exactly if it is in
the queue, once (`Tidy`), that somebody can pass the turn on (`Moving`), that a read has a
caller in an open file, and that a failure is on its way to the end of the pass until it
is there (`FailureKept`). Theorems: `RequestIsSound`, `DownloadIsSound`,
`ReadBackIsSound`, for any sizes, files and numbers of workers.

**ChunkDatabaseProofs.** `FloorInForce` needs to know how far each Worker is: the lock is
held from the opening to the release (`LockHeldInside`), a batch is shared or one
operation (`BatchShape`), and from the floor's import on the store has every legacy
floor that is still due, on disk (`ReachedOnDisk`) or in memory (`ReachedInMemory`).
A reset lowers floors on purpose: `ResetProgress` says which are gone at which of its
steps, and `IdsAreUnique` that the reset which is answered is the one that ran.
Theorems: `FloorsStayInForce`, `ResetsAreTotal`.

**EngineClientProofs.** A request waits exactly while its deadline is set
(`WaitsWhileArmed`); a crash of the client, whichever way it comes, settles all that
wait and releases the Worker. Theorems: `CrashedHoldsNothing`, `OutcomesAreFinal`.

**StateStoreProofs.** Transactions exclude each other, so the epoch that a transaction
has read is the database's for as long as it runs (`Exclusive`, `ReadsTheEpoch`). What a
tab's messages refer to stands still while they wait: stage ids are never reused in a
client's life, dispose is its last message, and a client that is gone leaves nothing
behind (`Lifecycle`, `Posted`, `Staging`). Theorems: `EpochsIdentifyStates`,
`ChangesAreConditional`, `CommitsAreTrue`.

**SqlClientProofs.** Messages and answers travel one way, in order, through `inbox` and
then `outbox`. `SqlSound` says what may precede what on that way (`ChannelsOrdered`:
close()'s messages are last, nothing is sent behind a BEGIN until it is answered), what
a message says of its call and a waiting call of its messages (`MessagesBelong`,
`AnswersCome`), that the line is in order behind all that was sent (`LineKept`), that the
open transaction belongs to the call SQLite started last and only its messages are on
their way to it (`TransactionKept`), and that what is in the log is whole and reported
or being reported (`LogKept`). Theorems: `SqlIsSound`, `OutcomesAreTrue`.

**SqlPoolProofs.** Each shared variable is bound to the stage of the job that put its
value there, in both directions: what a stage must hold (`HoldsLocks`, `HoldsHandles`,
`AnnouncesItself`) and at which stages something may be held at all (`OwnsForAJob`,
`OpensForAJob`). `FindsItsPool` says at which stages the directory must be there, and
`HasImported` what a migration has copied at each stage of its removal. A step writes, of
the shared variables, only what its context or nobody holds (`Footprint`), so the other
contexts keep their part for that reason alone. Theorems: `OwnershipIsSound`,
`OwnedPoolsStay`, `OperationsAreWaitedFor`, `MigrationsKeepTheData`.

**SqliteProofs, the VFS.** Headers name each file once and the Worker's maps say the same
(`Headers`, `SlotsAreTrue`), so used and free slots add up to the pool, and a pool as
large as the set of paths has a slot for each (`SlotsSuffice`, by cardinalities). The
lock table describes the connections' locks (`LocksAreCompatible`). What is not committed
is in the file only while its journal is on disk, and no stage that reads can meet it
(`Pager`). Theorems: `PoolIsSound`, `CommittedIsRead`, `DatabaseIsKept`.

**SqliteProofs, the vector tables.** `TablesAgree` is inductive with the types:
`DeleteRowsKeeps` and `ReplaceKeeps` say what a deletion and a replacement do to the
three tables, the history and the records together. `BatchKeeps` carries that, and
equality with the in-memory records, through a batch: it looks at the first record after
which it would fail. What is left is about answers. `SortedIsInOrder` shows that the
ranks of a finite set under a strict order are 1 to n, each once, so `Sorted` lists the
set in order, and `SortedImage` that a one-to-one map that keeps the order takes one
sorted list to the other; a search's hits are such an image of the records in scope
(`SelectionIsScope`, where encoded scalars must be equal exactly if the scalars are),
and so are the hits of a search by ids that was split over several statements
(`PartsAreSearched`). A lookup's order is first by the key that matched, then by rowid,
and the history has the rowids' order. Theorems: `SqliteInvariantHolds` and
`SqliteRefinesFlat`. The second assumes `DeletesFit`: no delete binds more values than a
statement takes, because the code refuses such a delete and the in-memory index does
not.

Where an argument needs an induction (a batch, the ranks of a set, a sum over a finite
set, a maximum, the longest prefix of shared operations), it takes the least
counterexample, because the library's induction theorems cannot be applied here.

Only model-checked:

- the liveness properties, which are out of the prover's reach: `EventuallyCurrent`,
  `TransferEnds`, `CallsAnswered`, `RequestsSettle`, `StoreSettles`, `CloseSettles`,
  `CallsSettle`, `JobsSettle`, `WriterGetsItsTurn`;
- that `MigrationIsRepeatable` does not hold, which is a counterexample.

## 5. Abstractions to know of

- SyncEngine runs one operation at a time. The cache lock and the batches make that
  so for syncs and resets (`ExclusiveRunsAlone`), but reads of one batch overlap in
  the code, and their `getChunk` calls interleave. Each of those is one store step,
  and ChunkStore allows them in every order.
- In SyncEngine chunk reads are unordered and their first failure wins; ChunkReader
  shows that the code's bounded, joined reads amount to that.
- A chunk's request is one await in FetchPool, which settles with bytes, a network error
  or another error; FetchBytes, shown once for the manifest, is why it settles. A
  cancelled stream is let go at once, as the Fetch standard has it.
- In FetchPool, ChunkReader and SqlClient, continuations that are due together run in
  any order; the code runs them in one.
- In SyncEngine legacy stores hand over their pointers, not their bodies; the copy
  is ChunkStore's `ImportLegacy`, and its order of steps ChunkDatabase's.
- A browser without Web Locks is not modelled: the code then runs without the
  exclusion that ChunkDatabase shows.
- With a bounded number of calls, a tab that always has another call queued and so
  keeps its session open cannot be seen; `CallsAnswered` says nothing of it.
- A browser that refuses the OPFS root is taken to have no OPFS 0.2.x store, as the
  comment in the code takes it; `opfs` in ChunkDatabase is only whether the pool opens.
- StateStore: values are symbols and the text checks of an imported file are one
  predicate. A call made in the turn of a `dispose()` is refused before it is posted,
  which is `Dispose` without the call; a Worker that dies between a COMMIT and its answer
  is one whose answer nobody acts on before it dies.
- SqlClient: a caller that sends BEGIN through `exec` itself is left out. A callback runs
  although `close()` came while BEGIN was under way (`client.ts:357`); its calls are
  refused, so it does nothing here.
- SqlClient: the calls that `close()` settles leave the line when their turn comes and
  find nothing to post (`client.ts:323-329`), as in the code.
- SqlPool: `navigator.locks.query` is assumed wherever Web Locks are; its snapshot and the
  decision taken on it are one step, and the longer wait for a bounded operation is a wait
  that may time out, without its length. A directory goes in one step, or not at all while
  its files are open: that is the browser's refusal, which `removeUnderLease` answers
  with "in-use". Without Web Locks `OwnedPoolStays` claims nothing, because nothing keeps
  a removal from coming between the creation of a directory and the opening of its
  handles. A migration repeated after a crash replaces what the target holds by then, as
  `importDatabase` documents (`sql/types.ts:103`); no property judges that.
- SahPool: SQLite's pager is its VFS calls with a rollback journal, which is what the
  repository configures.
- Vector index: distances are a table, so rounding and -0 cannot be seen, and ids are
  numbers in one order, where SQLite's BINARY collation and JavaScript's code units
  differ outside the basic plane. The vector database's client has the protocol of
  the state store's client and is modelled there.
- Progress reporting, error texts, JSON decoding, SHA-256, Ed25519 and Zstandard are
  reduced to what they decide.

## 6. Not modelled, and what is left

Two thirds of the repository's lines are vendored: `sqlite3.mjs` (21,605 lines of
generated glue, of which the `opfs-sahpool` VFS with the repository's patches is
modelled) and `sqlite3-opfs-async-proxy.js` with the `opfs-wl` VFS it serves. The state
store opens its database on that VFS and runs every operation under a Web Lock of its
own, so StateStore takes SQLite there to be what it promises: a transaction is
atomic, and one that is cut off is rolled back. Of the rest:

- `portable.ts`, `serializer.ts` and the schema checks of the state store's import analyse
  SQL text; they keep no state and are one predicate or one step where they are used.
- `flat.ts`'s kernels and `packed.ts` are floating point.
- `seal` is stateless cryptography over the age format; Zstandard a third-party decoder
  behind "does the body verify"; the memory profile a table; the network sentinel
  counts requests.
- The fixing of the Worker's configuration by the first call is not modelled.

No safety property is left without a theorem. What the proofs do not reach is liveness,
above, and what the abstractions of section 5 leave out.
