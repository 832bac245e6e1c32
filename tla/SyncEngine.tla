----------------------------- MODULE SyncEngine -----------------------------
(***************************************************************************)
(* One Worker operation at a time over the chunk store: syncIndex with its *)
(* cache fallbacks (src/engine/sync.ts), and the sync, readFile and clear  *)
(* handlers that run it inside a session (src/engine/worker.ts).           *)
(*                                                                         *)
(* The cache Web Lock lets one session run at a time over all tabs, so     *)
(* `job' is the one operation in progress, and its variables are those of  *)
(* syncIndex.  Every await is a step boundary.  The network, the disk and  *)
(* the Worker may fail at any of them, MaxFaults times in a behaviour.     *)
(***************************************************************************)
EXTENDS ChunkStore, SyncChecks

CONSTANTS
    Releases,     \* Seq(Pointers): what the publisher signs, oldest first
    Hostile,      \* other pointers a server may send or a disk may hold
    TrustRoots,   \* Seq of keyrings: the trust root's successive contents
    WantedPaths,  \* values of wantedPaths an application may pass
    ExpectedIds,  \* values of the identity pin it may pass
    MaxClock,     \* the clock is 0 .. MaxClock
    MaxFaults     \* bound on adverse events

VARIABLES
    job,        \* the operation in progress
    latest,     \* index of the newest published release
    root,       \* index of the trust root now served
    now,        \* the device clock
    faults,     \* adverse events so far
    legacyStores, \* the 0.2.x stores are still there
    synced      \* history: the last release synced online, see Settle

envVars  == <<latest, root, now, faults, legacyStores>>
syncVars == <<vars, job, envVars, synced>>

Stages == {"idle", "trustRoot", "pointer", "floor", "manifest", "fetch",
           "verify", "promote", "cache", "cacheVerify", "settle"}

Errors == {"none", "network", "integrity", "rollback", "quota", "storage",
           "notFound"}

Idle == [pc |-> "idle", wanted |-> null, expected |-> "any", trust |-> 1,
         pointer |-> null, active |-> null, chunks |-> {}, error |-> "none",
         via |-> "network", expired |-> FALSE, started |-> 0,
         before |-> EmptyRow]

(* wantedPaths of a sync; of readFile, the one path. *)
JobPaths == WantedPaths \cup {{path} : path \in UNION (WantedPaths \ {null})}
                        \cup {null}

Jobs == [pc : Stages, wanted : JobPaths,
         expected : ExpectedIds \cup {"any"}, trust : DOMAIN TrustRoots,
         pointer : Pointers \cup {null},
         active : Pointers \cup {null}, chunks : SUBSET Chunks,
         error : Errors, via : {"network", "outage", "quota", "read"},
         expired : BOOLEAN, started : 0 .. MaxClock, before : FloorRow]

NotSynced == [pointer |-> null, chunks |-> {}, intact |-> TRUE]

ASSUME SyncAssumption ==
    /\ Releases \in Seq(Pointers) /\ Len(Releases) > 0
    /\ Hostile \subseteq Pointers
    /\ \A i \in DOMAIN Releases : hasSequence(Releases[i])
    /\ \A i, j \in DOMAIN Releases :
          i < j => Releases[i].sequence < Releases[j].sequence
    /\ \A p \in Pointers : p.expires_at # null => p.expires_at \in Nat
    /\ TrustRoots \in Seq({TrustRoots[i] : i \in DOMAIN TrustRoots})
    /\ Len(TrustRoots) > 0 /\ \A i \in DOMAIN TrustRoots : assertKeyring(TrustRoots[i])
    /\ DOMAIN Content = Manifests
    /\ \A m \in Manifests : ChunksOf[m] = selectedChunks(m, null)
    /\ MaxClock \in Nat /\ MaxFaults \in Nat

SyncInit ==
    /\ Init
    /\ job = Idle
    /\ latest = 1 /\ root = 1 /\ now = 0 /\ faults = 0 /\ legacyStores = TRUE
    /\ synced = NotSynced

-----------------------------------------------------------------------------
StoreIdle == UNCHANGED vars

(* An adverse event; the others leave the environment alone. *)
Fault   == /\ faults < MaxFaults /\ faults' = faults + 1
           /\ UNCHANGED <<latest, root, now, legacyStores>>
NoFault == UNCHANGED envVars

published == {Releases[i] : i \in 1 .. latest}

At(stage) == job.pc = stage
Goto(stage) == job' = [job EXCEPT !.pc = stage]
Fail(error) == job' = [job EXCEPT !.pc = "settle", !.error = error]

(* The catch of syncIndex: a quota error falls back to the cache when an
   active release was read. *)
Throw(error) ==
    job' = IF error = "quota" /\ job.active # null
           THEN [job EXCEPT !.pc = "cache", !.via = "quota", !.error = "none"]
           ELSE [job EXCEPT !.pc = "settle", !.error = error]

(* Fetch and read pools report the first failure. *)
firstError(error) == IF job.error = "none" THEN error ELSE job.error

(* missingChunks *)
missingChunks(wanted) == {c \in wanted : ~ hasChunk(c)}

wantedChunks == selectedChunks(job.pointer.manifest_hash, job.wanted)

-----------------------------------------------------------------------------
(* Requests.  handleSync and handleReadFile start a job; handleClear is one
   transaction, after which the 0.2.x stores are removed, if that succeeds. *)
StartSync(wanted, expected) ==
    /\ At("idle")
    /\ job' = [Idle EXCEPT !.pc = "trustRoot", !.wanted = wanted,
                 !.expected = expected, !.started = now, !.before = row]
    /\ StoreIdle /\ NoFault /\ UNCHANGED synced

StartReadFile(path) ==
    /\ At("idle")
    /\ job' = [Idle EXCEPT !.pc = "cache", !.via = "read", !.wanted = {path},
                 !.started = now, !.before = row]
    /\ StoreIdle /\ NoFault /\ UNCHANGED synced

HandleClear ==
    /\ At("idle")
    /\ Clear
    /\ synced' = NotSynced
    /\ legacyStores' \in {legacyStores, FALSE}
    /\ faults < MaxFaults /\ faults' = faults + 1
    /\ UNCHANGED <<job, latest, root, now>>

(* loadTrustRoot, on every sync and never from a cache. *)
LoadTrustRoot ==
    /\ At("trustRoot")
    /\ StoreIdle /\ UNCHANGED synced
    /\ \/ job' = [job EXCEPT !.pc = "pointer", !.trust = root] /\ NoFault
       \/ Fail("network") /\ Fault
       \/ Fail("integrity") /\ Fault

(* fetchPointer, and the checks that follow it.  The server may replay what
   was published, or send anything signed by anyone. *)
FetchPointer ==
    /\ At("pointer")
    /\ StoreIdle /\ UNCHANGED synced
    /\ \/ /\ \E pointer \in published \cup Hostile :
                /\ IF pointer = Releases[latest] THEN NoFault ELSE Fault
                /\ IF /\ assertVersionPointer(pointer)
                      /\ verifyWithKeyring(TrustRoots[job.trust], pointer)
                      /\ ~ isExpired(pointer, now)
                      /\ assertExpectedIdentity(pointer, job.expected)
                   THEN job' = [job EXCEPT !.pc = "floor", !.pointer = pointer]
                   ELSE Fail("integrity")
       \/ /\ job' = [job EXCEPT !.pc = "cache", !.via = "outage"]
          /\ Fault

(* Defect: a fresh pointer is promoted before its content is fetched. *)
CheckFloor_Promotes ==
    /\ At("floor")
    /\ Promote(job.pointer, {})
    /\ job' = [job EXCEPT !.pc = "manifest", !.active = job.pointer]
    /\ NoFault /\ UNCHANGED synced

(* rollbackFloor and downgradeReason. *)
CheckFloor ==
    /\ At("floor")
    /\ LET active == readActive(row)
       IN  \/ /\ IF active # null /\ ~ assertExpectedIdentity(active, job.expected)
                 THEN Fail("integrity")
                 ELSE IF active # null /\ ~ provablyFresh(job.pointer, active)
                 THEN Fail("rollback")
                 ELSE job' = [job EXCEPT !.pc = "manifest", !.active = active]
              /\ NoFault
           \/ Fail("storage") /\ Fault
    /\ StoreIdle /\ UNCHANGED synced

(* fetchManifest, selectedFiles, missingChunks, which may fail once the
   manifest is stored. *)
FetchManifest ==
    LET m == job.pointer.manifest_hash
    IN  /\ At("manifest")
        /\ UNCHANGED synced
        /\ \/ /\ assertManifest(Content[m], job.pointer)
              /\ PutManifest(m)
              /\ IF pathsFound(Content[m], job.wanted)
                 THEN job' = [job EXCEPT !.pc = "fetch",
                                !.chunks = missingChunks(wantedChunks)]
                 ELSE Throw("integrity")
              /\ NoFault
           \/ /\ assertManifest(Content[m], job.pointer)
              /\ PutManifest(m)
              /\ Throw("storage") /\ Fault
           \/ /\ ~ assertManifest(Content[m], job.pointer)
              /\ Throw("integrity")
              /\ StoreIdle /\ NoFault
           \/ /\ \E error \in {"network", "integrity", "quota", "storage"} :
                    Throw(error)
              /\ StoreIdle /\ Fault

(* Defect: the chunk is written past the ingest buffer. *)
FetchChunk_Direct(c) ==
    /\ At("fetch")
    /\ c \in job.chunks
    /\ chunk' = [chunk EXCEPT ![c] = "good"]
    /\ job' = [job EXCEPT !.chunks = @ \ {c}]
    /\ NoFault
    /\ UNCHANGED <<manifest, row, migration, pending, history, synced>>

(* fetchMissing, one chunk at a time in any order.  A put whose commit throws
   leaves a full buffer; puts under way when another worker fails complete. *)
FetchChunk(c) ==
    /\ At("fetch")
    /\ c \in job.chunks
    /\ PutChunk(c)
    /\ UNCHANGED synced
    /\ IF Cardinality(pending') < FlushChunks
       THEN /\ job' = [job EXCEPT !.chunks = @ \ {c}]
            /\ NoFault
       ELSE /\ \E error \in {"quota", "storage"} :
                  job' = [job EXCEPT !.chunks = @ \ {c},
                                     !.error = firstError(error)]
            /\ Fault

(* A chunk that stays unreachable after its retries or fails its check; the
   aggregate cap, which replaces the error of a worker that failed before. *)
FetchChunkFails(c) ==
    /\ At("fetch")
    /\ c \in job.chunks
    /\ \/ \E error \in {"network", "integrity"} :
             job' = [job EXCEPT !.chunks = @ \ {c}, !.error = firstError(error)]
       \/ job' = [job EXCEPT !.chunks = @ \ {c}, !.error = "integrity"]
    /\ StoreIdle /\ Fault /\ UNCHANGED synced

(* Defect: chunks found in the cache are not read back. *)
FetchEnds_Unverified ==
    /\ At("fetch")
    /\ job.error = "none"
    /\ job.chunks = {}
    /\ Goto("promote")
    /\ StoreIdle /\ NoFault /\ UNCHANGED synced

FetchEnds ==
    /\ At("fetch")
    /\ \/ /\ job.error # "none"
          /\ Throw(job.error)
       \/ /\ job.error = "none"
          /\ job.chunks = {}
          /\ job' = [job EXCEPT !.pc = "verify", !.chunks = wantedChunks]
    /\ StoreIdle /\ NoFault /\ UNCHANGED synced

(* verifyReassembly: getChunk on every chunk of the selected files; reads
   under way when another one fails complete. *)
ReadChunk(c) ==
    /\ At("verify") \/ At("cacheVerify")
    /\ c \in job.chunks
    /\ UNCHANGED synced
    /\ \/ /\ GetChunk(c)
          /\ job' = [job EXCEPT !.chunks = @ \ {c},
                       !.error = IF chunk'[c] = "good" THEN @
                                 ELSE IF hasChunk(c) THEN firstError("integrity")
                                 ELSE firstError("notFound")]
          /\ NoFault
       \/ /\ \E error \in {"quota", "storage"} :
                /\ error = "quota" => pending # {}
                /\ job' = [job EXCEPT !.chunks = @ \ {c},
                                      !.error = firstError(error)]
          /\ StoreIdle /\ Fault

(* An error of the cache fallback is the job's, but a quota error stays the
   one that is reported. *)
cacheError(error) == IF job.via = "quota" THEN "quota" ELSE error

VerifyEnds ==
    LET sound == selectionSound(job.pointer.manifest_hash, job.wanted)
        error == IF job.error # "none" THEN job.error
                 ELSE IF sound THEN "none" ELSE "integrity"
    IN  /\ job.error # "none" \/ job.chunks = {}
        /\ \/ /\ At("verify")
              /\ IF error = "none" THEN Goto("promote") ELSE Throw(error)
           \/ /\ At("cacheVerify")
              /\ IF error = "none" THEN Goto("settle")
                 ELSE Fail(cacheError(error))
        /\ StoreIdle /\ NoFault /\ UNCHANGED synced

PromoteRelease ==
    /\ At("promote")
    /\ UNCHANGED synced
    /\ \/ /\ Promote(job.pointer, wantedChunks)
          /\ Goto("settle")
          /\ NoFault
       \/ /\ ~ promoteAllowed(job.pointer, wantedChunks)
          /\ Throw(IF admits(row, job.pointer) THEN "integrity" ELSE "rollback")
          /\ StoreIdle /\ NoFault
       \/ /\ \E error \in {"quota", "storage"} : Throw(error)
          /\ StoreIdle /\ Fault

(* Defect: what is cached was authentic when it was stored. *)
cacheTrusted_Unchecked(active) == TRUE

(* syncFromCache trusts the cached pointer under the current trust root only;
   readFile checks neither signature nor identity. *)
cacheTrusted(active) ==
    job.via # "read" =>
       /\ verifyWithKeyring(TrustRoots[job.trust], active)
       /\ assertExpectedIdentity(active, job.expected)

(* syncFromCache up to its reads; readFile's loadActiveManifest and
   fileEntry. *)
SyncFromCache ==
    LET active   == readActive(row)
        m        == active.manifest_hash
        wellFormed == /\ job.via # "read" => assertManifest(Content[m], active)
                      /\ pathsFound(Content[m], job.wanted)
    IN  /\ At("cache")
        /\ UNCHANGED synced
        /\ \/ /\ active = null
              /\ Fail(CASE job.via = "outage" -> "network"
                        [] job.via = "quota"  -> "quota"
                        [] job.via = "read"   -> "notFound")
              /\ StoreIdle /\ NoFault
           \/ /\ active # null
              /\ ~ cacheTrusted(active)
              /\ Fail(cacheError("integrity"))
              /\ StoreIdle /\ NoFault
           \/ Fail(cacheError("storage")) /\ StoreIdle /\ Fault
           \/ /\ active # null
              /\ cacheTrusted(active)
              /\ NoFault
              /\ GetManifest(m)
              /\ CASE manifest[m] = "none" -> Fail(cacheError("notFound"))
                   [] manifest[m] = "bad"  -> Fail(cacheError("integrity"))
                   [] manifest[m] = "good" /\ ~ wellFormed ->
                        Fail(cacheError(IF job.via = "read" THEN "notFound"
                                        ELSE "integrity"))
                   [] manifest[m] = "good" /\ wellFormed ->
                        job' = [job EXCEPT !.pc = "cacheVerify",
                                  !.pointer = active,
                                  !.chunks = selectedChunks(m, job.wanted),
                                  !.expired = isExpired(active, now)]

(* withFlush: what is still buffered is committed whether the operation
   succeeded or not; then the caller is answered. *)
Settle ==
    /\ At("settle")
    /\ job' = Idle
    /\ \/ /\ IF pending = {} THEN StoreIdle ELSE Flush
          /\ synced' = IF job.error = "none" /\ job.via = "network"
                       THEN [pointer |-> job.pointer, chunks |-> wantedChunks,
                             intact |-> TRUE]
                       ELSE synced
          /\ NoFault
       \/ /\ pending # {}
          /\ StoreIdle /\ Fault /\ UNCHANGED synced

-----------------------------------------------------------------------------
(* The environment. *)

(* The Worker dies; or, between operations, the session closes and with it
   the store object and its buffer. *)
WorkerDies ==
    /\ Crash
    /\ job' = Idle
    /\ IF At("idle") THEN pending # {} /\ NoFault ELSE Fault
    /\ UNCHANGED synced

(* The 0.2.x floor is merged when a session opens, as long as its stores are
   there and the migration is not done; here their bodies are never copied. *)
OpenSession(candidates) ==
    /\ At("idle")
    /\ legacyStores
    /\ migration # "done"
    /\ RaiseLegacyFloor(candidates)
    /\ row' # row
    /\ NoFault /\ UNCHANGED <<job, synced>>

(* The file can only change while no session holds its access handles. *)
Damage ==
    /\ At("idle")
    /\ \/ \E c \in Chunks :
             /\ DamageChunk(c)
             /\ synced' = [synced EXCEPT !.intact = @ /\ c \notin synced.chunks]
       \/ \E m \in Manifests :
             /\ DamageManifest(m)
             /\ synced' = [synced EXCEPT !.intact =
                  @ /\ (synced.pointer # null => m # synced.pointer.manifest_hash)]
       \/ \E p \in published \cup Hostile \cup {null} :
             /\ EditPointer(p)
             /\ p # row.pointer
             /\ UNCHANGED synced
    /\ Fault /\ UNCHANGED job

Publish ==
    /\ latest < Len(Releases)
    /\ latest' = latest + 1
    /\ UNCHANGED <<vars, job, root, now, faults, legacyStores, synced>>

RotateTrustRoot ==
    /\ root < Len(TrustRoots)
    /\ root' = root + 1
    /\ UNCHANGED <<vars, job, latest, now, faults, legacyStores, synced>>

Tick ==
    /\ now < MaxClock
    /\ now' = now + 1
    /\ UNCHANGED <<vars, job, latest, root, faults, legacyStores, synced>>

-----------------------------------------------------------------------------
Request ==
    \E wanted \in WantedPaths, expected \in ExpectedIds :
        StartSync(wanted, expected)

JobStep ==
    \/ LoadTrustRoot \/ FetchPointer \/ CheckFloor \/ FetchManifest
    \/ \E c \in Chunks : FetchChunk(c) \/ FetchChunkFails(c) \/ ReadChunk(c)
    \/ FetchEnds \/ VerifyEnds \/ PromoteRelease \/ SyncFromCache \/ Settle

SyncNext ==
    \/ Request
    \/ \E paths \in WantedPaths \ {null} : \E path \in paths :
          ~ path.directory /\ StartReadFile(path)
    \/ HandleClear
    \/ JobStep
    \/ WorkerDies
    \/ \E candidates \in LegacySlots : OpenSession(candidates)
    \/ Damage
    \/ Publish \/ RotateTrustRoot \/ Tick

SyncSpec == SyncInit /\ [][SyncNext]_syncVars

(* Fairness: the Worker's event loop runs, every fetch settles within its
   stall deadline and every retry loop is bounded, so a job that can move
   without an adverse event moves.  An application that wants to be current
   keeps calling sync. *)
LiveSpec ==
    /\ SyncSpec
    /\ WF_syncVars(JobStep /\ faults' = faults)
    /\ SF_syncVars(Request)

-----------------------------------------------------------------------------
(* Properties.                                                             *)

SyncTypeOK ==
    /\ TypeOK
    /\ job \in Jobs
    /\ latest \in DOMAIN Releases
    /\ root \in DOMAIN TrustRoots
    /\ now \in 0 .. MaxClock
    /\ faults \in 0 .. MaxFaults
    /\ legacyStores \in BOOLEAN
    /\ synced \in [pointer : Pointers \cup {null}, chunks : SUBSET Chunks,
                   intact : BOOLEAN]

(* The caller is about to be given a result. *)
Delivered == At("settle") /\ job.error = "none"

(* Whatever path a result came by (online, outage, quota fallback, readFile)
   and whatever failed before it, it never names a release older than one the
   store has accepted since the last reset, nor a fork of it. *)
ResultNeverRollsBack ==
    Delivered =>
       \A a \in accepted :
          /\ a.sequence <= job.pointer.sequence
          /\ hasSequence(a) /\ a.sequence = job.pointer.sequence
                => a = job.pointer

(* A sync's result was signed by a key unrevoked in the trust root that this
   sync loaded, carries the pinned identity, and was not past its deadline
   when the sync began unless the result says so: a cached release whose key
   was revoked, or whose deadline passed, since it was stored included. *)
ServedUnderPolicy ==
    Delivered /\ job.via # "read" =>
       /\ verifyWithKeyring(TrustRoots[job.trust], job.pointer)
       /\ assertExpectedIdentity(job.pointer, job.expected)
       /\ isExpired(job.pointer, job.started) => job.expired

(* A delivered result can be read back: its release is the one readers are
   given, its manifest and every chunk of the wanted files verify. *)
DeliveredReadable ==
    Delivered =>
       /\ readActive(row) = job.pointer
       /\ manifest[job.pointer.manifest_hash] = "good"
       /\ \A c \in wantedChunks : chunk[c] = "good"

(* An operation that reports failure leaves the active release and the floor
   exactly as it found them, at whichever step it failed. *)
FailureKeepsRelease ==
    At("settle") /\ job.error # "none" => row = job.before

(* A release synced online stays servable offline, through failed updates,
   crashes, evictions and refused releases, until another release replaces it
   or its own rows are changed at rest. *)
ReleaseStaysServable ==
    synced.pointer # null /\ synced.intact /\ readActive(row) = synced.pointer =>
       /\ manifest[synced.pointer.manifest_hash] = "good"
       /\ \A c \in synced.chunks : chunk[c] = "good"

(* Every step of an operation is a step of the chunk store, or none: what is
   proved of the store holds under the engine. *)
StoreSpec == Spec

(* Once the faults stop, an application that keeps syncing everything reaches
   the newest release, whole, and stays there: no damaged row, interrupted
   sync, replayed pointer or leftover of a failure wedges the cache. *)
Current ==
    LET newest == Releases[latest]
    IN  /\ readActive(row) = newest
        /\ \A c \in ChunksOf[newest.manifest_hash] : chunk[c] = "good"

EventuallyCurrent ==
    <>[](verifyWithKeyring(TrustRoots[root], Releases[latest])
         /\ ~ isExpired(Releases[latest], now) => Current)
=============================================================================
