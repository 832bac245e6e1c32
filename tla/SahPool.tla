------------------------------- MODULE SahPool -------------------------------
(***************************************************************************)
(* The opfs-sahpool VFS (class OpfsSAHPool, its io and vfs methods and     *)
(* installOpfsSAHPoolVfs in src/src/vector/sqlite/assets/sqlite3.mjs, with *)
(* the repository's patches) as src/src/sql/sahPool.ts sets it up: a pool  *)
(* of pre-opened OPFS files ("slots") whose headers say which SQLite file, *)
(* if any, a slot stores, and the lock table of the handles one Worker has *)
(* on one database.                                                        *)
(*                                                                         *)
(* SQLite's pager is the client: it is modelled by the VFS calls its       *)
(* rollback-journal protocol makes.  All calls of a Worker run in one      *)
(* thread, so connections interleave between statements only; but the      *)
(* Worker may die at any point, also in the middle of a call and of the    *)
(* two writes that make a header.                                          *)
(***************************************************************************)
EXTENDS Integers, FiniteSets

CONSTANTS Conns,            \* connections to the database
          Temps,            \* temp files SQLite may have open (TEMP_FILE_SLOTS)
          InitialCapacity,  \* slots of a new pool (6 in sqlite3.mjs)
          MaxSlots,         \* bound on slots
          null

Slots == 1 .. MaxSlots
Db == "db"
Journal == "journal"
Paths == {Db, Journal} \cup Temps

ASSUME SahPoolConstants ==
    /\ IsFiniteSet(Conns) /\ IsFiniteSet(Temps)
    /\ MaxSlots \in Nat /\ InitialCapacity \in 1 .. MaxSlots
    /\ {Db, Journal, "free", "torn"} \cap Temps = {}
    /\ null \notin Conns \cup Slots

VARIABLES
    \* on disk
    files,    \* the slots that exist
    header,   \* Slots -> the path the slot stores, "free", or "torn"
    data,     \* the database file: "clean", "partial" or "complete" (not yet committed)
    \* in the Worker
    state,    \* "closed" (not installed, or paused), "initial", "reserving" or "ready"
    target,   \* the capacity being added up to
    sah,      \* Paths -> slot or null: mapFilenameToSAH
    avail,    \* availableSAH
    pc,       \* Conns -> where the connection is in the pager's protocol
    held,     \* Conns -> lockType of the connection's database file
    lk,       \* the database's entry of mapPathToLock
    temp,     \* Temps -> the connection that has it open, or null
    thread    \* the connection that is in the middle of a call, or null

vars == <<files, header, data, state, target, sah, avail, pc, held, lk, temp, thread>>
pool == <<files, header, state, target, sah, avail, temp>>

\* SQLITE_LOCK_*
NONE == 0
SHARED == 1
RESERVED == 2
PENDING == 3
EXCLUSIVE == 4

NoLock == [nShared |-> 0, lockType |-> NONE]

SahInit ==
    /\ files = {} /\ header = [s \in Slots |-> "free"] /\ data = "clean"
    /\ state = "closed" /\ target = 0
    /\ sah = [p \in Paths |-> null] /\ avail = {}
    /\ pc = [c \in Conns |-> "none"] /\ held = [c \in Conns |-> NONE] /\ lk = NoLock
    /\ temp = [t \in Temps |-> null] /\ thread = null

(***************************************************************************)
(* Slots                                                                   *)
(***************************************************************************)

\* nextAvailableSAH; slots are interchangeable, so the least stands for any.
NextAvailable == CHOOSE s \in avail : \A t \in avail : s <= t

\* xOpen with SQLITE_OPEN_CREATE: the slot that stores the path, or a free one
\* (setAssociatedPath).  A pool with no free slot would refuse;
\* SlotForEveryFile shows that it never has to.
XOpen(p) ==
    \/ sah[p] # null /\ UNCHANGED <<header, sah, avail>>
    \/ /\ sah[p] = null /\ avail # {}
       /\ header' = [header EXCEPT ![NextAvailable] = p]
       /\ sah' = [sah EXCEPT ![p] = NextAvailable]
       /\ avail' = avail \ {NextAvailable}

\* Defect: the name stays in the map.
DeletePath_KeepsName(p) ==
    /\ header' = [header EXCEPT ![sah[p]] = "free"]
    /\ avail' = avail \cup {sah[p]}
    /\ UNCHANGED sah

\* deletePath: the slot's header is cleared and the slot is free again.
DeletePath(p) ==
    /\ header' = [header EXCEPT ![sah[p]] = "free"]
    /\ sah' = [sah EXCEPT ![p] = null]
    /\ avail' = avail \cup {sah[p]}

\* getAssociatedPath: a torn header fails its digest, a temp file is one that
\* an untimely end left behind; both slots are freed.
AssociatedPath(h) == IF h \in Temps \cup {"torn"} THEN "free" ELSE h

\* releaseAccessHandles, and every file that was open.
Released ==
    /\ state' = "closed" /\ target' = 0
    /\ sah' = [p \in Paths |-> null] /\ avail' = {}
    /\ pc' = [c \in Conns |-> "none"] /\ held' = [c \in Conns |-> NONE] /\ lk' = NoLock
    /\ temp' = [t \in Temps |-> null] /\ thread' = null

\* installOpfsSAHPoolVfs or unpauseVfs: acquireAccessHandles gets every slot.
\* A pool without slots is given its initial ones.
Install ==
    /\ state = "closed" /\ state' = "initial"
    /\ header' = [s \in Slots |-> AssociatedPath(header[s])]
    /\ sah' = [p \in Paths |-> IF \E s \in files : header'[s] = p
                               THEN CHOOSE s \in files : header'[s] = p ELSE null]
    /\ avail' = {s \in files : header'[s] = "free"}
    /\ target' = IF files = {} THEN InitialCapacity ELSE 0
    /\ UNCHANGED <<files, data, pc, held, lk, temp, thread>>

\* Defect: a failed setup removes the pool (preserveOnInitFailure = false).
InstallFails_Removes ==
    /\ state = "closed" /\ files # {}
    /\ files' = {} /\ header' = [s \in Slots |-> "free"]
    /\ UNCHANGED <<data, state, target, sah, avail, pc, held, lk, temp, thread>>

\* Another context has one of the slots open: the ones that were acquired are
\* released again and nothing is deleted (preserveOnInitFailure).
InstallFails ==
    /\ state = "closed" /\ files # {}
    /\ \E acquired \in SUBSET files :
          /\ acquired # files
          /\ header' = [s \in Slots |-> IF s \in acquired THEN AssociatedPath(header[s])
                                                          ELSE header[s]]
    /\ UNCHANGED <<files, data, state, target, sah, avail, pc, held, lk, temp, thread>>

\* One turn of addCapacity.
AddSlot ==
    /\ state \in {"initial", "reserving"} /\ Cardinality(files) < target
    /\ \E s \in Slots \ files :
          /\ \A t \in Slots \ files : s <= t
          /\ files' = files \cup {s} /\ avail' = avail \cup {s}
          /\ header' = [header EXCEPT ![s] = "free"]
    /\ UNCHANGED <<data, state, target, sah, pc, held, lk, temp, thread>>

InUse == {p \in Paths : sah[p] # null}

\* sahPoolSlotsNeeded
SlotsNeeded == Cardinality(InUse \cup {Db, Journal}) + Cardinality(Temps)

\* reserveSahPoolSlots, once the pool is installed.
Reserve ==
    /\ state = "initial" /\ Cardinality(files) >= target
    /\ state' = "reserving" /\ target' = SlotsNeeded
    /\ UNCHANGED <<files, header, data, sah, avail, pc, held, lk, temp, thread>>

Ready ==
    /\ state = "reserving" /\ Cardinality(files) >= target
    /\ state' = "ready" /\ target' = 0
    /\ UNCHANGED <<files, header, data, sah, avail, pc, held, lk, temp, thread>>

\* pauseVfs refuses while SQLite has files open.
PauseVfs ==
    /\ state = "ready" /\ \A c \in Conns : pc[c] = "none"
    /\ Released
    /\ UNCHANGED <<files, header, data>>

(***************************************************************************)
(* Locks                                                                   *)
(***************************************************************************)

\* Defect: a waiting writer does not keep new readers out.
Conflicts_NoPending(c, want) ==
    held[c] # lk.lockType /\ (lk.lockType = EXCLUSIVE \/ want > SHARED)

\* lockFile's refusal, before anything is changed.
Conflicts(c, want) ==
    held[c] # lk.lockType /\ (lk.lockType >= PENDING \/ want > SHARED)

Granted(c, want) ==
    ~Conflicts(c, want) /\ ~(want = EXCLUSIVE /\ lk.nShared > 1)

\* lockFile, granted.
LockTable(want) ==
    IF want = SHARED
    THEN [nShared |-> lk.nShared + 1,
          lockType |-> IF lk.lockType = NONE THEN SHARED ELSE lk.lockType]
    ELSE [lk EXCEPT !.lockType = want]

\* unlockFile: a writer's lock falls back to SHARED, the last SHARED lock
\* deletes the entry.
UnlockTable(c, to) ==
    IF to = NONE /\ lk.nShared = 1 THEN NoLock
    ELSE [nShared |-> IF to = NONE THEN lk.nShared - 1 ELSE lk.nShared,
          lockType |-> IF held[c] > SHARED THEN SHARED ELSE lk.lockType]

\* xUnlock
Unlock(c, to) ==
    IF held[c] <= to THEN UNCHANGED <<lk, held>>
    ELSE lk' = UnlockTable(c, to) /\ held' = [held EXCEPT ![c] = to]

\* Defect: the answer of older builds, in which every lock looked reserved.
HasReservedLock_Always == TRUE

\* hasReservedLock, of any handle on the file.
HasReservedLock == lk.lockType > SHARED

(***************************************************************************)
(* The pager                                                               *)
(***************************************************************************)

Goto(c, s) == pc' = [pc EXCEPT ![c] = s]
Idle(c) == state = "ready" /\ thread = null /\ pc[c] # "none"

OpenDb(c) ==
    /\ state = "ready" /\ thread = null /\ pc[c] = "none"
    /\ XOpen(Db)
    /\ Goto(c, "idle")
    /\ UNCHANGED <<files, data, state, target, held, lk, temp, thread>>

\* The first read of a transaction: a SHARED lock and the look for a hot
\* journal, one that is there while nobody holds a reserved lock.
BeginRead(c) ==
    /\ Idle(c) /\ pc[c] = "idle" /\ Granted(c, SHARED)
    /\ lk' = LockTable(SHARED) /\ held' = [held EXCEPT ![c] = SHARED]
    /\ IF sah[Journal] # null /\ ~HasReservedLock
       THEN Goto(c, "hot") /\ thread' = c
       ELSE Goto(c, "read") /\ UNCHANGED thread
    /\ UNCHANGED <<data, pool>>

\* A hot journal is rolled back under an EXCLUSIVE lock and deleted; while
\* another reader makes that impossible the read fails (SQLITE_BUSY).
RollBackHot(c) ==
    /\ thread = c /\ pc[c] = "hot"
    /\ IF Granted(c, EXCLUSIVE)
       THEN data' = "clean" /\ DeletePath(Journal) /\ Goto(c, "read") /\ UNCHANGED <<held, lk>>
       ELSE /\ Unlock(c, NONE) /\ Goto(c, "idle")
            /\ UNCHANGED <<data, header, sah, avail>>
    /\ thread' = null
    /\ UNCHANGED <<files, state, target, temp>>

EndRead(c) ==
    /\ Idle(c) /\ pc[c] = "read"
    /\ Unlock(c, NONE) /\ Goto(c, "idle")
    /\ UNCHANGED <<data, thread, pool>>

\* The first write: RESERVED, and the rollback journal is created.
BeginWrite(c) ==
    /\ Idle(c) /\ pc[c] = "read" /\ Granted(c, RESERVED)
    /\ lk' = LockTable(RESERVED) /\ held' = [held EXCEPT ![c] = RESERVED]
    /\ XOpen(Journal)
    /\ Goto(c, "write")
    /\ UNCHANGED <<files, data, state, target, temp, thread>>

\* COMMIT or a full cache writes pages under EXCLUSIVE.  A refusal leaves a
\* RESERVED lock PENDING.
Flush(c) ==
    /\ Idle(c) /\ pc[c] = "write"
    /\ IF Granted(c, EXCLUSIVE)
       THEN /\ lk' = LockTable(EXCLUSIVE) /\ held' = [held EXCEPT ![c] = EXCLUSIVE]
            /\ data' = "partial" /\ Goto(c, "flush") /\ thread' = c
       ELSE /\ held[c] = RESERVED
            /\ lk' = [lk EXCEPT !.lockType = PENDING] /\ held' = [held EXCEPT ![c] = PENDING]
            /\ UNCHANGED <<data, pc, thread>>
    /\ UNCHANGED pool

\* Only some of the pages had to leave the cache: the transaction goes on.
Spilled(c) ==
    /\ thread = c /\ pc[c] = "flush"
    /\ Goto(c, "write") /\ thread' = null
    /\ UNCHANGED <<data, held, lk, pool>>

Written(c) ==
    /\ thread = c /\ pc[c] = "flush"
    /\ data' = "complete" /\ Goto(c, "commit")
    /\ UNCHANGED <<held, lk, thread, pool>>

\* The commit point: the journal is deleted.
EndWrite(c) ==
    /\ thread = c /\ pc[c] = "commit"
    /\ data' = "clean" /\ DeletePath(Journal)
    /\ Unlock(c, NONE) /\ Goto(c, "idle") /\ thread' = null
    /\ UNCHANGED <<files, state, target, temp>>

\* ROLLBACK plays the journal back and deletes it.
RollBack(c) ==
    /\ Idle(c) /\ pc[c] = "write"
    /\ data' = "clean" /\ DeletePath(Journal)
    /\ Unlock(c, NONE) /\ Goto(c, "idle")
    /\ UNCHANGED <<files, state, target, temp, thread>>

OpenTemp(c, t) ==
    /\ Idle(c) /\ temp[t] = null
    /\ XOpen(t) /\ temp' = [temp EXCEPT ![t] = c]
    /\ UNCHANGED <<files, data, state, target, pc, held, lk, thread>>

\* xClose with SQLITE_OPEN_DELETEONCLOSE.
CloseTemp(c, t) ==
    /\ Idle(c) /\ temp[t] = c
    /\ DeletePath(t) /\ temp' = [temp EXCEPT ![t] = null]
    /\ UNCHANGED <<files, data, state, target, pc, held, lk, thread>>

\* xClose of the database file drops the lock it may still hold.
CloseDb(c) ==
    /\ Idle(c) /\ pc[c] \in {"idle", "read"} /\ \A t \in Temps : temp[t] # c
    /\ Unlock(c, NONE) /\ Goto(c, "none")
    /\ UNCHANGED <<data, thread, pool>>

\* The slot whose header may be half written when the Worker dies: one that is
\* being given a path, or the one whose file is being deleted.
Tearable ==
    avail \cup {sah[t] : t \in {u \in Temps : temp[u] # null}}
          \cup (IF \E c \in Conns : pc[c] = "commit" THEN {sah[Journal]} ELSE {})

\* The Worker dies; what is on disk stays.  A journal whose deletion has begun
\* is no longer one, so its transaction is committed.
Crash ==
    /\ state # "closed"
    /\ \/ UNCHANGED <<header, data>>
       \/ \E s \in Tearable :
             /\ header' = [header EXCEPT ![s] = "torn"]
             /\ data' = IF s = sah[Journal] THEN "clean" ELSE data
    /\ Released
    /\ UNCHANGED files

Setup == Install \/ AddSlot \/ Reserve \/ Ready

Call(c) == RollBackHot(c) \/ Spilled(c) \/ Written(c) \/ EndWrite(c)

SahNext ==
    \/ Setup \/ InstallFails \/ PauseVfs \/ Crash
    \/ \E c \in Conns :
          \/ OpenDb(c) \/ BeginRead(c) \/ EndRead(c) \/ BeginWrite(c) \/ Flush(c)
          \/ RollBack(c) \/ CloseDb(c) \/ Call(c)
          \/ \E t \in Temps : OpenTemp(c, t) \/ CloseTemp(c, t)

SahSpec == SahInit /\ [][SahNext]_vars

\* A call of SQLite returns; a reader finishes; a writer that was refused tries again.
FairSahSpec ==
    /\ SahSpec
    /\ \A c \in Conns : WF_vars(Call(c)) /\ WF_vars(EndRead(c)) /\ WF_vars(Flush(c))

(***************************************************************************)
(* Properties                                                              *)
(***************************************************************************)

\* Every variable has its type.
SahTypeOK ==
    /\ files \subseteq Slots /\ avail \subseteq files
    /\ header \in [Slots -> Paths \cup {"free", "torn"}]
    /\ data \in {"clean", "partial", "complete"}
    /\ state \in {"closed", "initial", "reserving", "ready"} /\ target \in Nat
    /\ sah \in [Paths -> Slots \cup {null}]
    /\ pc \in [Conns -> {"none", "idle", "hot", "read", "write", "flush", "commit"}]
    /\ held \in [Conns -> NONE .. EXCLUSIVE]
    /\ lk \in [nShared : 0 .. Cardinality(Conns), lockType : NONE .. EXCLUSIVE]
    /\ temp \in [Temps -> Conns \cup {null}] /\ thread \in Conns \cup {null}

\* What the Worker believes of its slots is what is on disk: every slot is
\* either free or stores exactly one file, and the same in its header, after
\* any sequence of creations, deletions, crashes and setups.
SlotsAreTrue ==
    state # "closed" =>
        /\ avail = {s \in files : header[s] = "free"}
        /\ \A p \in Paths, s \in files : header[s] = p <=> sah[p] = s
        /\ \A p \in Paths : sah[p] # null => sah[p] \in files

\* A pool that was set up has a free slot for every file SQLite may still
\* create on it, so that no statement fails on a full pool (sahPoolSlotsNeeded),
\* whatever earlier Workers left in it ...
SlotForEveryFile ==
    state = "ready" => Cardinality(avail) >= Cardinality(Paths \ InUse)

\* ... and it does not grow by what they left: files of dead Workers give
\* their slots back.
PoolDoesNotGrow ==
    \/ Cardinality(files) <= InitialCapacity
    \/ Cardinality(files) <= Cardinality(Paths)

\* The locks of the connections are compatible: one writer, and an EXCLUSIVE
\* lock alone; and the lock table says what the connections hold (lockFile,
\* unlockFile, xClose).
LocksAreCompatible ==
    /\ \A c, d \in Conns : c # d =>
          /\ held[c] >= RESERVED => held[d] <= SHARED
          /\ held[c] = EXCLUSIVE => held[d] = NONE
    /\ lk.nShared = Cardinality({c \in Conns : held[c] >= SHARED})
    /\ lk.lockType = NONE \/ \E c \in Conns : held[c] = lk.lockType
    /\ \A c \in Conns : held[c] <= lk.lockType

\* Only committed data is read: while a connection reads, no page of an
\* unfinished transaction is in the file, be it of another connection or of a
\* Worker that died while it wrote (xCheckReservedLock tells the hot journal
\* of a dead writer from the journal of a living one).
ReadsCommitted ==
    \A c \in Conns : pc[c] = "read" => data = "clean"

\* A half-written database has its journal on disk, in a slot that a new
\* Worker finds again.
JournalCoversWrites ==
    data = "partial" => \E s \in files : header[s] = Journal

\* What holds of slots, headers, locks and the journal, at every step and
\* after every death of the Worker.
SahInvariant ==
    /\ SahTypeOK
    /\ SlotsAreTrue
    /\ SlotForEveryFile
    /\ PoolDoesNotGrow
    /\ LocksAreCompatible
    /\ JournalCoversWrites

\* The database file, once created, keeps its slot through crashes, failed
\* setups and pauses.
DatabaseFileSurvives ==
    [][\A s \in Slots : header[s] = Db => header'[s] = Db]_vars

\* A writer that waits for readers to finish gets its turn, because a PENDING
\* lock admits no new reader.
WriterGetsItsTurn ==
    \A c \in Conns : held[c] = PENDING ~> held[c] # PENDING
==============================================================================
