------------------------------- MODULE SqlPool -------------------------------
(***************************************************************************)
(* Who owns an opfs-sahpool: src/src/sql/open.ts (openSqlStorage and the   *)
(* owner leases), src/src/sql/opfsPool.ts (removal), src/src/sql/legacy.ts *)
(* (migration out of a pool another build left behind) and                 *)
(* src/src/vector/sqlite/poolOwner.ts (the vector index's pool).           *)
(*                                                                         *)
(* A context is a Worker of some tab.  It serves one job: open a named     *)
(* database, run an operation by name (import, export, migrate), open a    *)
(* vector index, or remove a pool.  Two Web Locks guard a pool: the owner  *)
(* lock of every holder and the operation lock ("marker") by which a       *)
(* bounded operation says that waiting for it is worth while.  The browser *)
(* grants a pool's sync access handles to one context at a time.  A        *)
(* context may die at any step: its locks are free at once, its handles    *)
(* only after a while.  Where the browser has no Web Locks every lease is  *)
(* granted at once and only the handles keep contexts apart.               *)
(***************************************************************************)
EXTENDS Integers

CONSTANTS Contexts,     \* Workers
          SqlPools,     \* pools of named databases
          VectorPools,  \* pools of vector indexes
          LegacyPool,   \* a pool an older build left behind
          MaxRequests,  \* bound on jobs
          MaxFaults,    \* bound on deaths and on failures of OPFS or SQLite
          null

Pools == SqlPools \cup VectorPools \cup {LegacyPool}

\* The jobs of a context.
Kinds == {"open", "operation", "vector", "remove"}

\* The holders of a pool's handles that are no context of this library: a
\* dead Worker's handles that are still closing, and a tab of the old build.
Closing == "closing"
OldBuild == "old build"

ASSUME SqlPoolConstants ==
    /\ MaxRequests \in Nat /\ MaxFaults \in Nat
    /\ SqlPools \cap VectorPools = {}
    /\ LegacyPool \notin SqlPools \cup VectorPools
    /\ null \notin Contexts \cup Pools \cup Kinds
    /\ {Closing, OldBuild} \cap (Contexts \cup {null}) = {}

VARIABLES
    webLocks,  \* whether the browser has Web Locks
    owner,     \* Pools -> holder of the lock "${pool}-owner", or null
    marker,    \* Pools -> holder of the lock "${pool}-operation", or null
    handles,   \* Pools -> who has the pool's sync access handles open
    dir,       \* Pools -> what the pool's OPFS directory holds
    kind,      \* Contexts -> the job's kind
    pool,      \* Contexts -> the job's pool
    stage,     \* Contexts -> how far the job is
    unmarked,  \* operations that gave up waiting for the operation lock
    overtaken, \* history: migrations whose removal an old build wrote before
    requests,  \* jobs started so far
    faults     \* faults so far

vars == <<webLocks, owner, marker, handles, dir, kind, pool, stage, unmarked,
          overtaken, requests, faults>>

\* "legacy" is a legacy database alone in its pool, "rewritten" one that the
\* old build has written to since, and in another pool what was imported from
\* it; "shared" is a legacy database whose pool holds other files as well.
Contents == {"absent", "empty", "legacy", "rewritten", "shared"}

Waiting == {"wait", "waitAgain", "mark", "legacyWait"}
Migrating == {"legacyWait", "legacyCheck", "legacyInstall", "legacyAcquire",
              "legacyImport", "legacyRelease", "legacyRemove", "legacyRemoveRoot",
              "legacyPause", "legacyUnlock"}
Connected == {"open"} \cup Migrating
Stages == {"idle", "memory", "query", "install", "acquire", "opening",
           "remove", "pause", "unlock", "unmark"} \cup Waiting \cup Connected

\* The stages in which a context holds its job's owner lock.
Leased == {"mark", "install", "acquire", "opening", "remove", "pause", "unlock"} \cup Connected

PoolsFor(k) ==
    CASE k \in {"open", "operation"} -> SqlPools
      [] k = "vector" -> VectorPools
      [] k = "remove" -> Pools

SqlPoolInit ==
    /\ webLocks \in BOOLEAN
    /\ owner = [p \in Pools |-> null] /\ marker = [p \in Pools |-> null]
    /\ handles = [p \in Pools |-> null]
    /\ \E c \in {"absent", "legacy", "shared"} :
          dir = [p \in Pools |-> IF p = LegacyPool THEN c ELSE "absent"]
    /\ kind = [c \in Contexts |-> null] /\ pool = [c \in Contexts |-> null]
    /\ stage = [c \in Contexts |-> "idle"]
    /\ unmarked = {} /\ overtaken = {} /\ requests = 0 /\ faults = 0

(***************************************************************************)
(* Steps of a job                                                          *)
(***************************************************************************)

Goto(c, s) == stage' = [stage EXCEPT ![c] = s]
At(c, s) == stage[c] = s

\* acquirePoolLease, granted: the lock is the context's; without Web Locks the
\* lease is granted and nothing is held.
Take(lock, p, c) == IF webLocks THEN [lock EXCEPT ![p] = c] ELSE lock
Free(lock, p, c) == IF lock[p] = c THEN [lock EXCEPT ![p] = null] ELSE lock
Grantable(lock, p) == ~webLocks \/ lock[p] = null

\* The Worker ends: the lock manager drops what it held and what it waited
\* for, its handles begin to close.
Ends(c) ==
    /\ owner' = [p \in Pools |-> IF owner[p] = c THEN null ELSE owner[p]]
    /\ marker' = [p \in Pools |-> IF marker[p] = c THEN null ELSE marker[p]]
    /\ handles' = [p \in Pools |-> IF handles[p] = c THEN Closing ELSE handles[p]]
    /\ kind' = [kind EXCEPT ![c] = null]
    /\ pool' = [pool EXCEPT ![c] = null]
    /\ unmarked' = unmarked \ {c}
    /\ Goto(c, "idle")

\* fallBack: an open that allowed it goes on in memory, and its Worker with it;
\* otherwise the error reaches the client, which terminates the Worker.
Refused(c) ==
    \/ /\ kind[c] = "open"
       /\ Goto(c, "memory")
       /\ owner' = Free(owner, pool[c], c)
       /\ UNCHANGED <<marker, handles, kind, pool, unmarked>>
    \/ Ends(c)

Fault == faults < MaxFaults /\ faults' = faults + 1

\* openSqlDatabase, an operation by name, createSqliteVectorIndex or removeOpfsPool.
Request(c, k, p) ==
    /\ At(c, "idle") /\ requests < MaxRequests /\ p \in PoolsFor(k)
    /\ requests' = requests + 1
    /\ kind' = [kind EXCEPT ![c] = k]
    /\ pool' = [pool EXCEPT ![c] = p]
    /\ Goto(c, "wait")
    /\ UNCHANGED <<webLocks, owner, marker, handles, dir, unmarked, overtaken,
                   faults>>

Granted(c) ==
    /\ stage[c] \in {"wait", "waitAgain"}
    /\ Grantable(owner, pool[c])
    /\ owner' = Take(owner, pool[c], c)
    /\ Goto(c, CASE kind[c] = "operation" -> "mark"
                 [] kind[c] = "remove" -> "remove"
                 [] OTHER -> "install")
    /\ UNCHANGED <<webLocks, marker, handles, dir, kind, pool, unmarked, overtaken,
                   requests, faults>>

\* The wait's signal fires.  The vector index is refused outright, the others
\* look at the lock manager; a second wait is the last.
WaitTimesOut(c) ==
    /\ stage[c] \in {"wait", "waitAgain"} /\ webLocks
    /\ IF At(c, "wait") /\ kind[c] # "vector"
       THEN Goto(c, "query") /\ UNCHANGED <<owner, marker, handles, kind, pool, unmarked>>
       ELSE Refused(c)
    /\ UNCHANGED <<webLocks, dir, overtaken, requests, faults>>

WorthWaiting(p) == marker[p] # null \/ owner[p] = null

\* Defect: a removal whose wait timed out removes all the same.
Query_RemovesAnyway(c) ==
    /\ At(c, "query")
    /\ \/ /\ kind[c] = "remove"
          /\ Goto(c, "remove") /\ UNCHANGED <<owner, marker, handles, kind, pool, unmarked>>
       \/ /\ kind[c] # "remove" /\ WorthWaiting(pool[c])
          /\ Goto(c, "waitAgain") /\ UNCHANGED <<owner, marker, handles, kind, pool, unmarked>>
       \/ kind[c] # "remove" /\ ~WorthWaiting(pool[c]) /\ Refused(c)
    /\ UNCHANGED <<webLocks, dir, overtaken, requests, faults>>

\* acquireOwnerLease after the timeout: wait for an operation, wait again for a
\* pool whose owner let go in the meantime, refuse while a connection lives.
\* A removal answers "in-use" or "timeout" and ends (confirmOwner).
Query(c) ==
    /\ At(c, "query")
    /\ IF kind[c] # "remove" /\ WorthWaiting(pool[c])
       THEN Goto(c, "waitAgain") /\ UNCHANGED <<owner, marker, handles, kind, pool, unmarked>>
       ELSE Refused(c)
    /\ UNCHANGED <<webLocks, dir, overtaken, requests, faults>>

\* markOperation: take the operation lock, or go on without it after the wait.
MarkOperation(c) ==
    /\ At(c, "mark")
    /\ \/ /\ Grantable(marker, pool[c])
          /\ marker' = Take(marker, pool[c], c)
          /\ UNCHANGED unmarked
       \/ /\ marker[pool[c]] # null
          /\ unmarked' = unmarked \cup {c}
          /\ UNCHANGED marker
    /\ Goto(c, "install")
    /\ UNCHANGED <<webLocks, owner, handles, dir, kind, pool, overtaken, requests,
                   faults>>

Created(p) == IF dir[p] = "absent" THEN [dir EXCEPT ![p] = "empty"] ELSE dir

\* installPool creates what is missing of the pool's directory.  A retry does so
\* again if the directory has gone in the meantime.
Install(c) ==
    /\ At(c, "install") \/ (At(c, "acquire") /\ dir[pool[c]] = "absent")
    /\ dir' = Created(pool[c])
    /\ Goto(c, "acquire")
    /\ UNCHANGED <<webLocks, owner, marker, handles, kind, pool, unmarked,
                   overtaken, requests, faults>>

\* It succeeds once nobody else has the handles open.
Acquire(c) ==
    /\ At(c, "acquire")
    /\ handles[pool[c]] \in {null, c} /\ dir[pool[c]] # "absent"
    /\ handles' = [handles EXCEPT ![pool[c]] = c]
    /\ Goto(c, "opening")
    /\ UNCHANGED <<webLocks, owner, marker, dir, kind, pool, unmarked, overtaken,
                   requests, faults>>

\* Defect: the installation is retried for as long as the pool is contended.
InstallGivesUp_Never(c) == FALSE /\ UNCHANGED vars

\* The retries of a contended installation run out, or it finds no directory.
InstallGivesUp(c) ==
    /\ At(c, "acquire")
    /\ handles[pool[c]] \notin {null, c} \/ dir[pool[c]] = "absent"
    /\ Refused(c)
    /\ UNCHANGED <<webLocks, dir, overtaken, requests, faults>>

InstallFails(c) ==
    /\ stage[c] \in {"install", "acquire"} /\ Fault
    /\ Refused(c)
    /\ UNCHANGED <<webLocks, dir, overtaken, requests>>

\* The slots are topped up and the file is open.
Opened(c) ==
    /\ At(c, "opening")
    /\ Goto(c, "open")
    /\ UNCHANGED <<webLocks, owner, marker, handles, dir, kind, pool, unmarked,
                   overtaken, requests, faults>>

\* Defect: a failed open goes on in memory and keeps its lease.
OpenFails_KeepsLease(c) ==
    /\ At(c, "opening") /\ Fault
    /\ IF kind[c] = "open"
       THEN Goto(c, "memory") /\ UNCHANGED <<owner, marker, handles, kind, pool, unmarked>>
       ELSE Ends(c)
    /\ UNCHANGED <<webLocks, dir, overtaken, requests>>

\* Topping up or opening fails.  openSqlStorage frees the lease and leaves the
\* handles as they are; the vector index pauses its pool first.
OpenFails(c) ==
    /\ At(c, "opening") /\ Fault
    /\ IF kind[c] = "vector"
       THEN Goto(c, "pause") /\ UNCHANGED <<owner, marker, handles, kind, pool, unmarked>>
       ELSE Refused(c)
    /\ UNCHANGED <<webLocks, dir, overtaken, requests>>

\* close(), the end of an operation by name, or a connection that the engine
\* refuses to serve: the connection is closed first.
Close(c) ==
    /\ At(c, "open")
    /\ Goto(c, "pause")
    /\ UNCHANGED <<webLocks, owner, marker, handles, dir, kind, pool, unmarked,
                   overtaken, requests, faults>>

\* close() of a database that went on in memory: the Worker ends.
CloseMemory(c) ==
    /\ At(c, "memory")
    /\ Ends(c)
    /\ UNCHANGED <<webLocks, dir, overtaken, requests, faults>>

\* pauseVfs: close the handles.
Pause(c) ==
    /\ At(c, "pause")
    /\ handles' = [handles EXCEPT ![pool[c]] = null]
    /\ Goto(c, "unlock")
    /\ UNCHANGED <<webLocks, owner, marker, dir, kind, pool, unmarked, overtaken,
                   requests, faults>>

\* Defect: the operation lock is freed first, the owner lock after it.
Unlock_MarkerFirst(c) ==
    /\ At(c, "unlock")
    /\ IF marker[pool[c]] = c
       THEN marker' = Free(marker, pool[c], c) /\ UNCHANGED <<owner, stage>>
       ELSE owner' = Free(owner, pool[c], c) /\ Goto(c, "unmark") /\ UNCHANGED marker
    /\ UNCHANGED <<webLocks, handles, dir, kind, pool, unmarked, overtaken,
                   requests, faults>>

\* Free the owner lock; an operation frees its marker after it.
Unlock(c) ==
    /\ At(c, "unlock")
    /\ owner' = Free(owner, pool[c], c)
    /\ Goto(c, "unmark")
    /\ UNCHANGED <<webLocks, marker, handles, dir, kind, pool, unmarked, overtaken,
                   requests, faults>>

\* The job is over and its Worker ends with it.
Unmark(c) ==
    /\ At(c, "unmark")
    /\ Ends(c)
    /\ UNCHANGED <<webLocks, dir, overtaken, requests, faults>>

\* removeUnderLease: "removed", "absent", or "in-use" when the browser refuses
\* to delete files that are open.
RemoveUnderLease(c) ==
    /\ At(c, "remove")
    /\ dir' = IF handles[pool[c]] = null THEN [dir EXCEPT ![pool[c]] = "absent"] ELSE dir
    /\ Goto(c, "unlock")
    /\ UNCHANGED <<webLocks, owner, marker, handles, kind, pool, unmarked,
                   overtaken, requests, faults>>

(***************************************************************************)
(* migrateLegacySahPool, on an open database                               *)
(***************************************************************************)

MigrateStarts(c) ==
    /\ At(c, "open") /\ kind[c] \in {"open", "operation"}
    /\ requests < MaxRequests /\ requests' = requests + 1
    /\ Goto(c, "legacyWait")
    /\ UNCHANGED <<webLocks, owner, marker, handles, dir, kind, pool, unmarked,
                   overtaken, faults>>

\* The legacy pool's lock, or "in-use".
LegacyLock(c) ==
    /\ At(c, "legacyWait")
    /\ \/ /\ Grantable(owner, LegacyPool)
          /\ owner' = Take(owner, LegacyPool, c)
          /\ Goto(c, "legacyCheck")
       \/ /\ owner[LegacyPool] # null
          /\ Goto(c, "open")
          /\ UNCHANGED owner
    /\ UNCHANGED <<webLocks, marker, handles, dir, kind, pool, unmarked, overtaken,
                   requests, faults>>

\* poolExists: a pool that is not there is not created.
LegacyCheck(c) ==
    /\ At(c, "legacyCheck")
    /\ Goto(c, IF dir[LegacyPool] = "absent" THEN "legacyUnlock" ELSE "legacyInstall")
    /\ UNCHANGED <<webLocks, owner, marker, handles, dir, kind, pool, unmarked,
                   overtaken, requests, faults>>

LegacyInstall(c) ==
    /\ At(c, "legacyInstall")
    /\ dir' = Created(LegacyPool)
    /\ Goto(c, "legacyAcquire")
    /\ UNCHANGED <<webLocks, owner, marker, handles, kind, pool, unmarked,
                   overtaken, requests, faults>>

\* Open all of its handles; somebody who has them makes it "in-use".
LegacyAcquire(c) ==
    /\ At(c, "legacyAcquire")
    /\ IF handles[LegacyPool] = null /\ dir[LegacyPool] # "absent"
       THEN handles' = [handles EXCEPT ![LegacyPool] = c] /\ Goto(c, "legacyImport")
       ELSE Goto(c, "legacyUnlock") /\ UNCHANGED handles
    /\ UNCHANGED <<webLocks, owner, marker, dir, kind, pool, unmarked, overtaken,
                   requests, faults>>

HasDatabase(p) == dir[p] \in {"legacy", "rewritten", "shared"}

\* What an import copies: the database, and nothing else of its pool.
Copied == IF dir[LegacyPool] = "shared" THEN "legacy" ELSE dir[LegacyPool]

\* Defect: a failed import is taken for a finished one.
LegacyImport_Unchecked(c) ==
    /\ At(c, "legacyImport")
    /\ \/ /\ HasDatabase(LegacyPool)
          /\ dir' = [dir EXCEPT ![pool[c]] = Copied]
          /\ Goto(c, "legacyPause")
       \/ /\ Goto(c, IF dir[LegacyPool] # "shared" THEN "legacyRelease" ELSE "legacyPause")
          /\ UNCHANGED dir
    /\ UNCHANGED <<webLocks, owner, marker, handles, kind, pool, unmarked,
                   overtaken, requests, faults>>

\* migrateFrom: recover and import the database in one transaction, then
\* remove the pool if asked to and if nothing else is in it.  A database that
\* is not there, or that the import rejects, leaves everything as it is.
LegacyImport(c) ==
    /\ At(c, "legacyImport")
    /\ \/ /\ HasDatabase(LegacyPool)
          /\ dir' = [dir EXCEPT ![pool[c]] = Copied]
          /\ \E removeLegacy \in BOOLEAN :
                Goto(c, IF removeLegacy /\ dir[LegacyPool] # "shared"
                        THEN "legacyRelease" ELSE "legacyPause")
       \/ Goto(c, "legacyPause") /\ UNCHANGED dir
    /\ UNCHANGED <<webLocks, owner, marker, handles, kind, pool, unmarked,
                   overtaken, requests, faults>>

\* removeVfs closes the handles before it deletes ...
LegacyRelease(c) ==
    /\ At(c, "legacyRelease")
    /\ handles' = [handles EXCEPT ![LegacyPool] = null]
    /\ Goto(c, "legacyRemove")
    /\ overtaken' = overtaken \ {c}
    /\ UNCHANGED <<webLocks, owner, marker, dir, kind, pool, unmarked, requests,
                   faults>>

\* ... the files, unless somebody opened them in between ("kept") ...
LegacyRemove(c) ==
    /\ At(c, "legacyRemove")
    /\ IF handles[LegacyPool] = null /\ dir[LegacyPool] # "absent"
       THEN dir' = [dir EXCEPT ![LegacyPool] = "empty"] /\ Goto(c, "legacyRemoveRoot")
       ELSE Goto(c, "legacyUnlock") /\ UNCHANGED dir
    /\ UNCHANGED <<webLocks, owner, marker, handles, kind, pool, unmarked,
                   overtaken, requests, faults>>

\* ... and then the directory.
LegacyRemoveRoot(c) ==
    /\ At(c, "legacyRemoveRoot")
    /\ dir' = IF handles[LegacyPool] = null THEN [dir EXCEPT ![LegacyPool] = "absent"] ELSE dir
    /\ Goto(c, "legacyUnlock")
    /\ UNCHANGED <<webLocks, owner, marker, handles, kind, pool, unmarked,
                   overtaken, requests, faults>>

LegacyPause(c) ==
    /\ At(c, "legacyPause")
    /\ handles' = [handles EXCEPT ![LegacyPool] = null]
    /\ Goto(c, "legacyUnlock")
    /\ UNCHANGED <<webLocks, owner, marker, dir, kind, pool, unmarked, overtaken,
                   requests, faults>>

LegacyUnlock(c) ==
    /\ At(c, "legacyUnlock")
    /\ owner' = Free(owner, LegacyPool, c)
    /\ Goto(c, "open")
    /\ UNCHANGED <<webLocks, marker, handles, dir, kind, pool, unmarked, overtaken,
                   requests, faults>>

(***************************************************************************)
(* The environment                                                         *)
(***************************************************************************)

\* A tab closes or a Worker dies.
Dies(c) ==
    /\ stage[c] # "idle" /\ Fault
    /\ Ends(c)
    /\ UNCHANGED <<webLocks, dir, overtaken, requests>>

\* The browser closes the handles of a Worker that ended.
HandlesClose(p) ==
    /\ handles[p] = Closing
    /\ handles' = [handles EXCEPT ![p] = null]
    /\ UNCHANGED <<webLocks, owner, marker, dir, kind, pool, stage, unmarked,
                   overtaken, requests, faults>>

\* A tab of the old build knows no owner lock: it opens the pool's handles when
\* nobody has them, and closes them when it goes.
OldBuildOpens ==
    /\ handles[LegacyPool] = null /\ Fault
    /\ handles' = [handles EXCEPT ![LegacyPool] = OldBuild]
    /\ dir' = Created(LegacyPool)
    /\ UNCHANGED <<webLocks, owner, marker, kind, pool, stage, unmarked, overtaken,
                   requests>>

\* Its database, new or rewritten, and perhaps files besides it.
OldBuildWrites ==
    /\ handles[LegacyPool] = OldBuild
    /\ \E d \in {"rewritten", "shared"} : dir' = [dir EXCEPT ![LegacyPool] = d]
    /\ overtaken' = overtaken \cup
          {c \in Contexts : stage[c] \in {"legacyRemove", "legacyRemoveRoot"}}
    /\ UNCHANGED <<webLocks, owner, marker, handles, kind, pool, stage, unmarked,
                   requests, faults>>

OldBuildCloses ==
    /\ handles[LegacyPool] = OldBuild
    /\ handles' = [handles EXCEPT ![LegacyPool] = null]
    /\ UNCHANGED <<webLocks, owner, marker, dir, kind, pool, stage, unmarked,
                   overtaken, requests, faults>>

\* What a context does once its job runs.
Step(c) ==
    \/ Granted(c) \/ WaitTimesOut(c) \/ Query(c) \/ MarkOperation(c)
    \/ Install(c) \/ Acquire(c) \/ InstallGivesUp(c) \/ InstallFails(c)
    \/ Opened(c) \/ OpenFails(c)
    \/ Pause(c) \/ Unlock(c) \/ Unmark(c) \/ RemoveUnderLease(c)
    \/ LegacyLock(c) \/ LegacyCheck(c) \/ LegacyInstall(c) \/ LegacyAcquire(c)
    \/ LegacyImport(c) \/ LegacyRelease(c) \/ LegacyRemove(c) \/ LegacyRemoveRoot(c)
    \/ LegacyPause(c) \/ LegacyUnlock(c)

SqlPoolNext ==
    \/ \E c \in Contexts :
          \/ \E k \in Kinds, p \in Pools : Request(c, k, p)
          \/ MigrateStarts(c) \/ Close(c) \/ CloseMemory(c) \/ Dies(c)
          \/ Step(c)
    \/ \E p \in Pools : HandlesClose(p)
    \/ OldBuildOpens \/ OldBuildWrites \/ OldBuildCloses

SqlPoolSpec == SqlPoolInit /\ [][SqlPoolNext]_vars

\* An event loop runs what is ready, a timer fires, a lock manager grants a
\* free lock, an operation by name closes what it opened, and the browser
\* closes a dead Worker's handles.  Nobody has to close a connection.
FairSqlPoolSpec ==
    /\ SqlPoolSpec
    /\ \A c \in Contexts : WF_vars(Step(c)) /\ WF_vars(kind[c] = "operation" /\ Close(c))
    /\ \A p \in Pools : WF_vars(HandlesClose(p))

(***************************************************************************)
(* Properties                                                              *)
(***************************************************************************)

\* Every variable has its type, and a context has a job unless it is idle.
SqlPoolTypeOK ==
    /\ webLocks \in BOOLEAN
    /\ owner \in [Pools -> Contexts \cup {null}]
    /\ marker \in [Pools -> Contexts \cup {null}]
    /\ handles \in [Pools -> Contexts \cup {null, Closing, OldBuild}]
    /\ dir \in [Pools -> Contents]
    /\ kind \in [Contexts -> Kinds \cup {null}]
    /\ pool \in [Contexts -> Pools \cup {null}]
    /\ stage \in [Contexts -> Stages]
    /\ unmarked \subseteq Contexts /\ overtaken \subseteq Contexts
    /\ requests \in 0 .. MaxRequests /\ faults \in 0 .. MaxFaults
    /\ \A c \in Contexts : stage[c] # "idle" <=> kind[c] # null /\ pool[c] # null

\* A lock is held only by a context that is on its way to free it: no failed
\* open, refused job, finished migration or dead Worker leaves a pool locked
\* (the release paths of openSqlStorage, ownPool, removeOpfsPool and withLock).
NoOrphanedLease ==
    \A p \in Pools, c \in Contexts :
        /\ owner[p] = c => \/ pool[c] = p /\ stage[c] \in Leased
                           \/ p = LegacyPool /\ stage[c] \in Migrating \ {"legacyWait"}
        /\ marker[p] = c => /\ kind[c] = "operation" /\ pool[c] = p
                            /\ stage[c] \in (Leased \ {"mark"}) \cup {"unmark"}

\* Where the browser has Web Locks, a live context that has a pool's handles
\* open holds the pool's owner lock, so that the next owner can open them the
\* moment it gets the lock (release() in open.ts and poolOwner.ts).  The
\* exception is an open that failed after the installation and goes on in
\* memory.
HandlesUnderLease ==
    webLocks => \A p \in Pools, c \in Contexts :
        handles[p] = c => owner[p] = c \/ stage[c] = "memory"

\* Who has locks and handles of a pool, and why, at every step of every job.
SqlPoolInvariant ==
    /\ SqlPoolTypeOK
    /\ NoOrphanedLease
    /\ HandlesUnderLease

\* The stages of a job that relies on its pool's directory being there, and
\* those of a migration that relies on the legacy pool's.
UsesPool == {"acquire", "opening", "pause", "unlock"} \cup Connected
UsesLegacy == {"legacyAcquire", "legacyImport", "legacyRelease", "legacyRemove",
               "legacyRemoveRoot", "legacyPause"}

\* Where the browser has Web Locks, nobody removes a pool under the job that
\* owns it: from the creation of the directory, before its handles are open,
\* until the lock is free again, after they are closed (removeOpfsPool takes
\* the owner lock or answers, a migration removes what it has locked), whatever
\* died or timed out in between.
OwnedPoolStays ==
    webLocks => \A c \in Contexts :
        /\ kind[c] # "remove" /\ stage[c] \in UsesPool => dir[pool[c]] # "absent"
        /\ stage[c] \in UsesLegacy => dir[LegacyPool] # "absent"

\* A job that looks at the lock manager is refused only because of a
\* connection, of a removal, or of an operation that has not announced itself:
\* it gave up doing so, or is about to; never because of an operation by name
\* that holds both locks (acquireOwnerLease waits for it, and markOperation
\* frees the marker last).
RefusedForAConnection ==
    [][\A c \in Contexts :
          stage[c] = "query" /\ kind[c] \in {"open", "operation"}
             /\ stage'[c] \in {"idle", "memory"} /\ faults' = faults =>
          LET o == owner[pool[c]] IN
          /\ o # null
          /\ kind[o] = "operation" => o \in unmarked \/ stage[o] = "mark"]_vars

\* A legacy database leaves its pool only when removal of that pool was asked
\* for, or when a migration has committed a copy of exactly what it removes, in
\* a pool with nothing else in it (migrateFrom, removeLegacy): an old build's
\* write is never lost, whenever it comes and whoever dies or fails in between.
\* The exception is a tab of the old build that opens the pool, writes and lets
\* go between removeVfs's closing of the handles and its deletion of the files.
MigrationKeepsTheData ==
    [][HasDatabase(LegacyPool) /\ ~HasDatabase(LegacyPool)' =>
          \/ \E c \in Contexts :
                pool[c] = LegacyPool /\ stage[c] = "remove" /\ stage'[c] = "unlock"
          \/ \E c \in Contexts :
                /\ stage[c] \in {"legacyRemove", "legacyRemoveRoot"}
                /\ \/ c \in overtaken
                   \/ dir[LegacyPool] # "shared" /\ dir[pool[c]] = dir[LegacyPool]]_vars

Settled(c) ==
    stage[c] \in {"idle", "memory"} \/ (stage[c] = "open" /\ kind[c] # "operation")

\* Every job comes to an end or to an open connection: each wait is bounded,
\* although a connection may stay open for ever (lockWaitMs,
\* OPERATION_WAIT_BUDGETS, installWithinLockWait).
JobsSettle == \A c \in Contexts : ~Settled(c) ~> Settled(c)
==============================================================================
