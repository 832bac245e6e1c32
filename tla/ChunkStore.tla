----------------------------- MODULE ChunkStore -----------------------------
(***************************************************************************)
(* SqliteCacheStore (src/engine/sqliteStore.ts): the content-addressed     *)
(* cache as SQLite rows, with the ingest buffer that lives only in memory. *)
(*                                                                         *)
(* A row's body is abstracted to whether it verifies against its own name. *)
(* A transaction is one step: SQLite commits it whole or, when it throws   *)
(* (quota, I/O), not at all.  The Worker can die between any two steps,    *)
(* which loses the buffer; and the file is untrusted durable state, so     *)
(* bodies and the pointer column may change at rest.                       *)
(***************************************************************************)
EXTENDS FloorGate, FiniteSets

CONSTANTS
    Chunks,         \* chunk hashes
    ChunksOf,       \* [Manifests -> SUBSET Chunks]: what a manifest lists
    LegacySlots,    \* candidate sequences a 0.2.x migration may hand over
    LegacyChunks,   \* chunks and manifests a 0.2.x store may hold: the
    LegacyManifests,\* migration imports those that verify
    FlushChunks     \* FLUSH_CHUNKS: the buffer is committed at this size

ASSUME ChunkStoreAssumption ==
    /\ null \notin Chunks
    /\ ChunksOf \in [Manifests -> SUBSET Chunks]
    /\ LegacySlots \subseteq Seq(Pointers \cup {null})
    /\ LegacyChunks \subseteq Chunks
    /\ LegacyManifests \subseteq Manifests
    /\ FlushChunks \in Nat \ {0}

VARIABLES
    chunk,      \* table chunk:     hash -> "none", "good" or "bad" body
    manifest,   \* table manifest:  hash -> "none", "good" or "bad" body
    row,        \* table active_pointer, a FloorRow
    migration,  \* table legacy_migration
    pending     \* #pending, the verified chunks not yet committed

(* History, for the properties only. *)
VARIABLES
    accepted,   \* pointers made active since the last reset
    needs       \* chunks promote() proved for the active pointer, less those
                \* whose row was changed at rest before or since

storeVars == <<chunk, manifest, row, migration, pending>>
history   == <<accepted, needs>>
vars      == <<storeVars, history>>

Body == {"none", "good", "bad"}

TypeOK ==
    /\ chunk \in [Chunks -> Body]
    /\ manifest \in [Manifests -> Body]
    /\ row \in FloorRow
    /\ migration \in {"none", "copied", "done"}
    /\ pending \subseteq Chunks
    /\ accepted \subseteq Pointers
    /\ needs \subseteq Chunks

(* SqliteCacheStore.open on a file without the schema. *)
Init ==
    /\ chunk = [c \in Chunks |-> "none"]
    /\ manifest = [m \in Manifests |-> "none"]
    /\ row = EmptyRow
    /\ migration = "none"
    /\ pending = {}
    /\ accepted = {}
    /\ needs = {}

-----------------------------------------------------------------------------
(* Reads and row updates shared by the operations.                         *)

present == {c \in Chunks : chunk[c] # "none"}

hasChunk(c) == c \in pending \cup present

(* #insertRows: INSERT OR IGNORE, so a row that is there is kept as it is. *)
insertRows(table, names) ==
    [c \in Chunks |-> IF c \in names /\ table[c] = "none"
                      THEN "good" ELSE table[c]]

(* The history after a step that writes newRow, having proved some chunks. *)
historyAfter(newRow, proved) ==
    /\ accepted' = accepted \cup
          {p \in Pointers : /\ newRow.pointer = p
                            /\ newRow.floorIdentity = pointerIdentity(p)}
    /\ needs' = IF newRow.pointer = row.pointer THEN needs \cup proved
                ELSE proved

-----------------------------------------------------------------------------
(* putChunkCompressed, after decompressAndVerify accepted the bytes: into
   the buffer, and the buffer is committed once it is full.  A commit that
   throws leaves the buffer as it is. *)
PutChunk(c) ==
    LET buffer == pending \cup {c}
        full   == c \notin pending /\ Cardinality(buffer) >= FlushChunks
    IN  /\ \/ /\ full
              /\ chunk' = insertRows(chunk, buffer)
              /\ pending' = {}
           \/ /\ pending' = buffer
              /\ UNCHANGED chunk
        /\ UNCHANGED <<manifest, row, migration, history>>

(* flush *)
Flush ==
    /\ pending # {}
    /\ chunk' = insertRows(chunk, pending)
    /\ pending' = {}
    /\ UNCHANGED <<manifest, row, migration, history>>

(* Defect: a row that fails its content address is left in place. *)
GetChunk_NoEviction(c) ==
    /\ chunk' = insertRows(chunk, pending)
    /\ pending' = {}
    /\ UNCHANGED <<manifest, row, migration, history>>

(* getChunk: commit the buffer, read the row, and evict it when its body
   fails its content address.  Returns the plaintext only for a good row. *)
GetChunk(c) ==
    LET rows == insertRows(chunk, pending)
    IN  /\ chunk' = [rows EXCEPT ![c] = IF @ = "bad" THEN "none" ELSE @]
        /\ pending' = {}
        /\ UNCHANGED <<manifest, row, migration, history>>

(* Defect: only the newest manifest is kept. *)
PutManifest_Replaces(m) ==
    /\ manifest' = [n \in Manifests |-> IF n = m THEN "good" ELSE "none"]
    /\ UNCHANGED <<chunk, row, migration, pending, history>>

(* putManifest: the body replaces whatever the row held. *)
PutManifest(m) ==
    /\ manifest' = [manifest EXCEPT ![m] = "good"]
    /\ UNCHANGED <<chunk, row, migration, pending, history>>

(* getManifest: a body that fails its content address is evicted. *)
GetManifest(m) ==
    /\ manifest' = [manifest EXCEPT ![m] = IF @ = "bad" THEN "none" ELSE @]
    /\ UNCHANGED <<chunk, row, migration, pending, history>>

(* Defect: promotion does not ask the gate. *)
promoteAllowed_Ungated(p, chunks) == chunks \subseteq present \cup pending

(* promote: one transaction that commits the buffer, proves that every chunk
   the caller names is a row, asks the gate and writes pointer and floor.
   Refusals (IntegrityError, RollbackError) roll the insert back and keep the
   buffer, which is a stuttering step. *)
promoteAllowed(p, chunks) ==
    /\ chunks \subseteq present \cup pending
    /\ admits(row, p)

Promote(p, chunks) ==
    /\ promoteAllowed(p, chunks)
    /\ chunk' = insertRows(chunk, pending)
    /\ row' = installPointer(row, p)
    /\ pending' = {}
    /\ historyAfter(row', {c \in chunks : chunk'[c] = "good"})
    /\ UNCHANGED <<manifest, migration>>

(* Defect: clearing the pointer clears the floor with it. *)
ClearActiveIf_DropsFloor(expected) ==
    /\ samePointer(row.pointer, expected)
    /\ row' = EmptyRow
    /\ historyAfter(row', {})
    /\ UNCHANGED <<chunk, manifest, migration, pending>>

(* clearActiveIf: the pointer goes, the floor stays. *)
ClearActiveIf(expected) ==
    /\ samePointer(row.pointer, expected)
    /\ row' = [row EXCEPT !.pointer = null]
    /\ historyAfter(row', {})
    /\ UNCHANGED <<chunk, manifest, migration, pending>>

(* Defect: the condition of the delete is inverted. *)
PruneInactive_Inverted ==
    LET rows   == insertRows(chunk, pending)
        active == readActive(row)
    IN  /\ pending' = {}
        /\ active # null
        /\ chunk' = [c \in Chunks |->
                       IF c \in ChunksOf[active.manifest_hash]
                       THEN "none" ELSE rows[c]]
        /\ UNCHANGED <<manifest, row, migration, history>>

(* pruneInactive: commit the buffer; without an active pointer, or when its
   manifest cannot be read (a bad body is evicted by getManifest), nothing is
   pruned; otherwise one transaction deletes every other row. *)
PruneInactive ==
    LET rows   == insertRows(chunk, pending)
        active == readActive(row)
    IN  /\ pending' = {}
        /\ \/ /\ active = null
              /\ chunk' = rows
              /\ UNCHANGED manifest
           \/ /\ active # null
              /\ manifest[active.manifest_hash] # "good"
              /\ chunk' = rows
              /\ manifest' = [manifest EXCEPT ![active.manifest_hash] = "none"]
           \/ /\ active # null
              /\ manifest[active.manifest_hash] = "good"
              /\ chunk' = [c \in Chunks |->
                             IF c \in ChunksOf[active.manifest_hash]
                             THEN rows[c] ELSE "none"]
              /\ manifest' = [m \in Manifests |->
                                IF m = active.manifest_hash
                                THEN "good" ELSE "none"]
        /\ UNCHANGED <<row, migration, history>>

(* clear: the explicit reset of chunks, manifests, pointer and floor.  The
   migration's own row stays. *)
Clear ==
    /\ pending' = {}
    /\ chunk' = [c \in Chunks |-> "none"]
    /\ manifest' = [m \in Manifests |-> "none"]
    /\ row' = EmptyRow
    /\ accepted' = {}
    /\ needs' = {}
    /\ UNCHANGED migration

(* importLegacy: verified 0.2.x rows and their pointers, in one transaction. *)
ImportLegacy(chunks, manifests, candidates) ==
    /\ chunk' = insertRows(chunk, chunks)
    /\ manifest' = [m \in Manifests |->
                      IF m \in manifests /\ manifest[m] = "none"
                      THEN "good" ELSE manifest[m]]
    /\ row' = mergeLegacyFloor(row, candidates)
    /\ migration' = IF migration = "done" THEN "done" ELSE "copied"
    /\ historyAfter(row', {})
    /\ UNCHANGED <<pending>>

(* raiseLegacyFloor: the pointers alone, before anything is copied. *)
RaiseLegacyFloor(candidates) ==
    /\ row' = mergeLegacyFloor(row, candidates)
    /\ historyAfter(row', {})
    /\ UNCHANGED <<chunk, manifest, migration, pending>>

(* markMigrationDone *)
MarkMigrationDone ==
    /\ migration' = "done"
    /\ UNCHANGED <<chunk, manifest, row, pending, history>>

-----------------------------------------------------------------------------
(* The environment: the Worker dies, or the file changes at rest.          *)

Crash ==
    /\ pending' = {}
    /\ UNCHANGED <<chunk, manifest, row, migration, history>>

DamageChunk(c) ==
    /\ chunk[c] = "good"
    /\ chunk' = [chunk EXCEPT ![c] = "bad"]
    /\ needs' = needs \ {c}
    /\ UNCHANGED <<manifest, row, migration, pending, accepted>>

DamageManifest(m) ==
    /\ manifest[m] = "good"
    /\ manifest' = [manifest EXCEPT ![m] = "bad"]
    /\ UNCHANGED <<chunk, row, migration, pending, history>>

(* The pointer column is replaced, or made unreadable; the trigger protects
   the floor from every UPDATE that would lower it. *)
EditPointer(p) ==
    /\ row' = [row EXCEPT !.pointer = p]
    /\ needs' = {}
    /\ UNCHANGED <<chunk, manifest, migration, pending, accepted>>

-----------------------------------------------------------------------------
Next ==
    \/ \E c \in Chunks : PutChunk(c) \/ GetChunk(c) \/ DamageChunk(c)
    \/ Flush
    \/ \E m \in Manifests : PutManifest(m) \/ GetManifest(m) \/ DamageManifest(m)
    \/ \E p \in Pointers : \E chunks \in SUBSET ChunksOf[p.manifest_hash] :
          Promote(p, chunks)
    \/ \E p \in Pointers : ClearActiveIf(p)
    \/ PruneInactive
    \/ Clear
    \/ \E chunks \in SUBSET LegacyChunks, manifests \in SUBSET LegacyManifests,
          candidates \in LegacySlots :
             ImportLegacy(chunks, manifests, candidates)
    \/ \E candidates \in LegacySlots : RaiseLegacyFloor(candidates)
    \/ MarkMigrationDone
    \/ Crash
    \/ \E p \in Pointers \cup {null} : EditPointer(p)

Spec == Init /\ [][Next]_vars

-----------------------------------------------------------------------------
(* Properties.                                                             *)

(* "The floor can only go up": whatever sequence of promotions, legacy
   imports, refusals, damage and crashes, no step lowers floor_sequence
   except the explicit reset, which empties the store with it. *)
FloorNeverFalls ==
    [][ \/ row'.floorSequence >= row.floorSequence
        \/ row' = EmptyRow /\ \A c \in Chunks : chunk'[c] = "none" ]_vars

(* The store never makes two different releases active at one sequence, not
   even across a cleared pointer, a damaged pointer column or a legacy import:
   a publisher that equivocates at a sequence is refused for good. *)
OneReleasePerSequence ==
    \A a, b \in accepted :
        hasSequence(a) /\ a.sequence = b.sequence => a = b

(* A reader (an online sync's floor, an offline sync, readFile) is never given
   a pointer older than one the store has accepted, nor a fork of it, even
   when the pointer column was rewritten at rest. *)
ServedIsNewest ==
    LET served == readActive(row)
    IN  served # null =>
          \A a \in accepted :
             /\ a.sequence <= served.sequence
             /\ hasSequence(a) /\ a.sequence = served.sequence => a = served

(* Every chunk promote() proved for the active pointer is still readable: no
   crash between ingest and promotion, eviction of another chunk, prune or
   refused promotion takes one away; only damage at rest can. *)
ActiveComplete ==
    readActive(row) # null => \A c \in needs : chunk[c] = "good"

(* Why the above hold, as one inductive invariant: accepted releases lie at or
   below the floor, a floor that has an identity names the accepted release at
   its sequence, and what was proved for the active pointer belongs to its
   manifest and is readable. *)
FloorBoundsAccepted ==
    \A a \in accepted :
        /\ a.sequence <= row.floorSequence
        /\ hasSequence(a) /\ a.sequence = row.floorSequence =>
              row.floorIdentity \in {null, pointerIdentity(a)}

FloorIdentityAccepted ==
    row.floorIdentity # null =>
        \E a \in accepted : row.floorIdentity = pointerIdentity(a)

NeedsOfActive ==
    \A c \in needs :
        /\ chunk[c] = "good"
        /\ row.pointer # null
        /\ c \in ChunksOf[row.pointer.manifest_hash]

StoreInvariant ==
    /\ TypeOK
    /\ FloorBoundsAccepted
    /\ FloorIdentityAccepted
    /\ OneReleasePerSequence
    /\ NeedsOfActive

(* The store implements the abstract register of releases. *)
Register ==
    INSTANCE ReleaseRegister WITH
        Identity <- pointerIdentity,
        floor    <- row.floorSequence,
        pinned   <- row.floorIdentity,
        served   <- readActive(row)

RegisterSpec == Register!Spec
=============================================================================
