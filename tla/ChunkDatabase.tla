--------------------------- MODULE ChunkDatabase ---------------------------
(***************************************************************************)
(* ChunkDatabase (src/engine/chunkDatabase.ts) in several Workers over one *)
(* profile: the queue of operations, the session that the cache Web Lock   *)
(* and the SQLite pool are held for, the fallback to a database in memory, *)
(* and the one-time migration of the 0.2.x stores (migration.ts,           *)
(* legacyStores.ts).                                                       *)
(*                                                                         *)
(* The store is reduced to its anti-rollback floor, a sequence number; -1  *)
(* is no floor.  ChunkStore shows that the floor is kept; here the question*)
(* is which floor an operation runs under.                                 *)
(***************************************************************************)
EXTENDS Integers, Sequences, FiniteSetsExt

CONSTANTS
    Tabs,           \* the Workers that use the namespace
    LegacyStates,   \* what the 0.2.x stores may hold when the new build starts
    Kinds,          \* operations the callers use: "sync", "read", "reset"
    MaxSequence,    \* releases are numbered 0 .. MaxSequence
    MaxCalls,       \* bound on calls of run()
    MaxFaults,      \* bound on adverse events
    MicrotaskCalls, \* callers may call run() from a promise continuation
    torn,           \* a pointer slot that does not parse
    null

(* The pointers of the 0.2.x stores in the order in which they are removed:
   "active", "active.a" and "active.b" of the OPFS store, "active" of the
   IndexedDB one. *)
Slots  == 1 .. 4
Floors == -1 .. MaxSequence

ASSUME ChunkDatabaseAssumption ==
    /\ IsFiniteSet(Tabs) /\ null \notin Tabs
    /\ LegacyStates # {} /\ LegacyStates \subseteq [Slots -> Floors \cup {torn, null}]
    /\ torn # null /\ {torn, null} \cap Floors = {}
    /\ Kinds \subseteq {"sync", "read", "reset"}
    /\ MaxSequence \in Nat /\ MaxCalls \in Nat /\ MaxFaults \in Nat
    /\ MicrotaskCalls \in BOOLEAN

VARIABLES
    tab,        \* the ChunkDatabase object of each Worker
    lock,       \* the holder of the cache Web Lock, or null
    disk,       \* the persistent pool: does it exist, its floor, its migration
    legacy,     \* the slots of the 0.2.x stores: a floor, torn, or null
    opfs,       \* whether the browser grants OPFS
    outcome,    \* what became of each call
    calls, faults

(* History: the legacy floor that must be respected until the user resets. *)
VARIABLE due

dbVars == <<tab, lock, disk, legacy, opfs, outcome, calls, faults, due>>

Calls == 1 .. MaxCalls
Ops   == [id : Calls, kind : Kinds]

(* Where #drain and its #session are: "none" is #draining = null. *)
DrainStates ==
    {"none", "waiting", "open", "floor", "copy", "remove", "mark", "run",
     "resetting", "closing", "test", "ended"}

Fresh == [queue |-> <<>>, at |-> "none", batch |-> {}, mode |-> "opfs",
          memory |-> null, refusal |-> FALSE, migrated |-> FALSE, next |-> 1]

highest(floors) == Max(floors \cup {-1})

readable(slot) == slot \notin {torn, null}

(* readOpfsPointers: 0.2.x wrote active.a and active.b in turn, so one torn slot
   of the pair beside a readable one is a crash it recovered from.  Any other
   unreadable pointer may have been the highest. *)
opfsReadable(slots) ==
    /\ slots[1] # torn
    /\ slots[2] = torn => readable(slots[3])
    /\ slots[3] = torn => readable(slots[2])

(* pointerFromValue: IndexedDB has no torn writes. *)
indexedDbReadable(slots) == slots[4] # torn

floorsReadable(slots) == opfsReadable(slots) /\ indexedDbReadable(slots)

floorsIn(slots) == {slots[s] : s \in {r \in Slots : readable(slots[r])}}

(* Defect: only the OPFS store is asked. *)
standing_First == floorsIn([legacy EXCEPT ![4] = null])

(* The floors of the 0.2.x stores that are left. *)
standing == floorsIn(legacy)

DatabaseTypeOK ==
    /\ tab \in [Tabs -> [queue : Seq(Ops), at : DrainStates,
                         batch : SUBSET Ops, mode : {"opfs", "memory"},
                         memory : Floors \cup {null}, refusal : BOOLEAN,
                         migrated : BOOLEAN, next : 1 .. 5]]
    /\ lock \in Tabs \cup {null}
    /\ disk \in [exists : BOOLEAN, floor : Floors,
                 migration : {"none", "copied", "done"}]
    /\ legacy \in [Slots -> Floors \cup {torn, null}]
    /\ opfs \in BOOLEAN
    /\ outcome \in [Calls -> {"none", "pending", "ok", "error", "lost"}]
    /\ calls \in 0 .. MaxCalls
    /\ faults \in 0 .. MaxFaults
    /\ due \in Floors

DatabaseInit ==
    /\ tab = [t \in Tabs |-> Fresh]
    /\ lock = null
    /\ disk = [exists |-> FALSE, floor |-> -1, migration |-> "none"]
    /\ legacy \in LegacyStates
    /\ opfs \in BOOLEAN
    /\ outcome = [i \in Calls |-> "none"]
    /\ calls = 0 /\ faults = 0
    /\ due = highest(floorsIn(legacy))

-----------------------------------------------------------------------------
At(t, state) == tab[t].at = state

Goto(t, state) == tab' = [tab EXCEPT ![t].at = state]

Fault   == faults < MaxFaults /\ faults' = faults + 1
NoFault == UNCHANGED faults

shared(op) == op.kind = "read"

(* Operations that end in one way. *)
settled(ops, result) ==
    [i \in Calls |-> IF \E op \in ops : op.id = i THEN result ELSE outcome[i]]

inQueue(t) == {tab[t].queue[i] : i \in DOMAIN tab[t].queue}

sessionFloor(t) == IF tab[t].mode = "memory" THEN tab[t].memory ELSE disk.floor

-----------------------------------------------------------------------------
(* run: queue the operation, and start a drain unless one is recorded.  A
   message event cannot come between the end of a drain and the microtask
   that forgets it; a promise continuation can. *)
Run(t, kind) ==
    /\ calls < MaxCalls
    /\ MicrotaskCalls \/ ~ At(t, "ended")
    /\ calls' = calls + 1
    /\ tab' = [tab EXCEPT
                 ![t].queue = Append(@, [id |-> calls + 1, kind |-> kind]),
                 ![t].at = IF @ = "none" THEN "waiting" ELSE @]
    /\ outcome' = [outcome EXCEPT ![calls + 1] = "pending"]
    /\ UNCHANGED <<lock, disk, legacy, opfs, due>> /\ NoFault

(* withLock *)
TakeLock(t) ==
    /\ At(t, "waiting")
    /\ lock = null
    /\ lock' = t
    /\ Goto(t, "open")
    /\ UNCHANGED <<disk, legacy, opfs, outcome, calls, due>> /\ NoFault

(* Defect: the queue is emptied and nobody is told. *)
SessionFails_Silent(t) ==
    /\ lock' = null
    /\ tab' = [tab EXCEPT ![t].at = "test", ![t].queue = <<>>]
    /\ UNCHANGED outcome

(* The session throws: the lock is free again and every queued call fails. *)
SessionFails(t) ==
    /\ lock' = null
    /\ tab' = [tab EXCEPT ![t].at = "test", ![t].queue = <<>>]
    /\ outcome' = settled(inQueue(t), "error")

(* #open: a kept memory database; the pool; or, with OPFS refused and no pool
   on disk, a memory database.  A pool held elsewhere, or a pool on disk that
   cannot be opened, is refused. *)
Open(t) ==
    /\ At(t, "open")
    /\ \/ /\ tab[t].memory # null
          /\ tab' = [tab EXCEPT ![t].at = "run", ![t].mode = "memory",
                                ![t].refusal = FALSE]
          /\ UNCHANGED <<disk, lock, outcome>> /\ NoFault
       \/ /\ tab[t].memory = null /\ opfs
          /\ disk' = [disk EXCEPT !.exists = TRUE]
          /\ LET done == tab[t].migrated \/ disk.migration = "done"
             IN  tab' = [tab EXCEPT ![t].at = IF done THEN "run" ELSE "floor",
                                    ![t].mode = "opfs", ![t].refusal = FALSE,
                                    ![t].migrated = done]
          /\ UNCHANGED <<lock, outcome>> /\ NoFault
       \/ /\ tab[t].memory = null /\ ~ opfs /\ ~ disk.exists
          /\ tab' = [tab EXCEPT ![t].at = "floor", ![t].mode = "memory",
                                ![t].refusal = FALSE]
          /\ UNCHANGED <<disk, lock, outcome>> /\ NoFault
       \/ /\ tab[t].memory = null /\ ~ opfs /\ disk.exists
          /\ SessionFails(t)
          /\ UNCHANGED disk /\ NoFault
       \/ /\ tab[t].memory = null
          /\ SessionFails(t)
          /\ disk' \in {disk, [disk EXCEPT !.exists = @ \/ opfs]}
          /\ Fault
    /\ UNCHANGED <<legacy, opfs, calls, due>>

(* importLegacyFloor: all the legacy floors or a refusal, because one does not
   parse or a step fails.  A memory database is kept for the Worker's life only
   if it has them. *)
ImportLegacyFloor(t) ==
    /\ At(t, "floor")
    /\ \/ /\ floorsReadable(legacy) /\ tab[t].mode = "opfs"
          /\ disk' = [disk EXCEPT !.floor = highest({@} \cup standing)]
          /\ Goto(t, "copy") /\ NoFault
       \/ /\ floorsReadable(legacy) /\ tab[t].mode = "memory"
          /\ tab' = [tab EXCEPT ![t].at = "run", ![t].memory = highest(standing)]
          /\ UNCHANGED disk /\ NoFault
       \/ /\ tab' = [tab EXCEPT ![t].at = "run", ![t].refusal = TRUE]
          /\ UNCHANGED disk
          /\ IF floorsReadable(legacy) THEN Fault ELSE NoFault
    /\ UNCHANGED <<lock, legacy, opfs, outcome, calls, due>>

(* migrateLegacyStores, step by step.  A step that throws ends it with a
   warning; the session goes on. *)
MigrationFails(t) ==
    /\ tab[t].at \in {"copy", "remove", "mark"}
    /\ Goto(t, "run") /\ Fault
    /\ UNCHANGED <<lock, disk, legacy, opfs, outcome, calls, due>>

Copy(t) ==
    /\ At(t, "copy")
    /\ disk' = [disk EXCEPT !.floor = highest({@} \cup standing),
                            !.migration = "copied"]
    /\ tab' = [tab EXCEPT ![t].at = "remove", ![t].next = 1]
    /\ UNCHANGED <<lock, legacy, opfs, outcome, calls, due>> /\ NoFault

(* remove() of the OPFS store, one entry after the other ... *)
RemoveEntry(t) ==
    /\ At(t, "remove") /\ tab[t].next < 4
    /\ legacy' = [legacy EXCEPT ![tab[t].next] = null]
    /\ tab' = [tab EXCEPT ![t].next = @ + 1]
    /\ UNCHANGED <<lock, disk, opfs, outcome, calls, due>> /\ NoFault

(* ... and then of the IndexedDB store, in one transaction. *)
DeleteOwnKeys(t) ==
    /\ At(t, "remove") /\ tab[t].next = 4
    /\ legacy' = [legacy EXCEPT ![4] = null]
    /\ Goto(t, "mark")
    /\ UNCHANGED <<lock, disk, opfs, outcome, calls, due>> /\ NoFault

MarkMigrationDone(t) ==
    /\ At(t, "mark")
    /\ disk' = [disk EXCEPT !.migration = "done"]
    /\ tab' = [tab EXCEPT ![t].at = "run", ![t].migrated = TRUE]
    /\ UNCHANGED <<lock, legacy, opfs, outcome, calls, due>> /\ NoFault

-----------------------------------------------------------------------------
(* The next exclusive operation alone, or every leading shared one. *)
batchLength(queue) ==
    IF ~ shared(queue[1]) THEN 1
    ELSE Max({n \in DOMAIN queue : \A i \in 1 .. n : shared(queue[i])})

NextBatch(t) ==
    /\ At(t, "run")
    /\ tab[t].batch = {}
    /\ IF tab[t].queue = <<>>
       THEN Goto(t, "closing")
       ELSE LET n == batchLength(tab[t].queue)
            IN  tab' = [tab EXCEPT
                  ![t].batch = {tab[t].queue[i] : i \in 1 .. n},
                  ![t].queue = SubSeq(@, n + 1, Len(@))]
    /\ UNCHANGED <<lock, disk, legacy, opfs, outcome, calls, due>> /\ NoFault

(* An operation of the batch is answered. *)
Answer(t, op, result, database) ==
    /\ tab' = [database EXCEPT ![t].batch = @ \ {op}, ![t].at = "run"]
    /\ outcome' = settled({op}, result)

Refuse(t, op) ==
    /\ At(t, "run") /\ op \in tab[t].batch
    /\ tab[t].refusal /\ op.kind # "reset"
    /\ Answer(t, op, "error", tab)
    /\ UNCHANGED <<lock, disk, legacy, opfs, calls, due>> /\ NoFault

(* A sync promotes what the gate admits, or fails and leaves the floor; its
   last flush may fail after the promotion. *)
Sync(t, op) ==
    /\ At(t, "run") /\ op \in tab[t].batch
    /\ op.kind = "sync" /\ ~ tab[t].refusal
    /\ \E sequence \in 0 .. MaxSequence, result \in {"ok", "error"} :
          /\ sequence >= sessionFloor(t)
          /\ IF tab[t].mode = "memory"
             THEN /\ Answer(t, op, result, [tab EXCEPT ![t].memory = sequence])
                  /\ UNCHANGED disk
             ELSE /\ Answer(t, op, result, tab)
                  /\ disk' = [disk EXCEPT !.floor = sequence]
          /\ IF result = "ok" THEN NoFault ELSE Fault
    /\ UNCHANGED <<lock, legacy, opfs, calls, due>>

(* A readFile, or a sync that is refused: the floor stays. *)
Read(t, op) ==
    /\ At(t, "run") /\ op \in tab[t].batch
    /\ op.kind \in {"read", "sync"} /\ ~ tab[t].refusal
    /\ \E result \in {"ok", "error"} :
          /\ op.kind = "sync" => result = "error"
          /\ Answer(t, op, result, tab)
    /\ UNCHANGED <<lock, disk, legacy, opfs, calls, due>> /\ NoFault

(* The explicit reset clears the store, then removes the legacy stores. *)
Reset(t, op) ==
    /\ At(t, "run") /\ op \in tab[t].batch
    /\ op.kind = "reset"
    /\ tab' = [tab EXCEPT ![t].at = "resetting", ![t].next = 1,
                 ![t].memory = IF @ = null THEN null ELSE -1]
    /\ disk' = IF tab[t].mode = "opfs" THEN [disk EXCEPT !.floor = -1] ELSE disk
    /\ due' = -1
    /\ UNCHANGED <<lock, legacy, opfs, outcome, calls>> /\ NoFault

(* Defect: the IndexedDB store is forgotten. *)
ResetRemoves_First(t) ==
    /\ At(t, "resetting")
    /\ legacy' = [s \in Slots |-> IF s = 4 THEN legacy[s] ELSE null]
    /\ \E op \in tab[t].batch : Answer(t, op, "ok", tab)
    /\ UNCHANGED <<lock, disk, opfs, calls, due>> /\ NoFault

ResetRemoves(t) ==
    /\ At(t, "resetting")
    /\ \/ /\ tab[t].next \in Slots
          /\ legacy' = [legacy EXCEPT ![tab[t].next] = null]
          /\ tab' = [tab EXCEPT ![t].next = @ + 1]
          /\ UNCHANGED outcome /\ NoFault
       \/ /\ tab[t].next \notin Slots
          /\ \E op \in tab[t].batch : Answer(t, op, "ok", tab)
          /\ UNCHANGED legacy /\ NoFault
       \/ /\ tab[t].next \in Slots
          /\ \E op \in tab[t].batch : Answer(t, op, "error", tab)
          /\ UNCHANGED legacy /\ Fault
    /\ UNCHANGED <<lock, disk, opfs, calls, due>>

(* session.close(), and the lock is released. *)
Close(t) ==
    /\ At(t, "closing")
    /\ \/ /\ lock' = null /\ Goto(t, "test")
          /\ UNCHANGED outcome /\ NoFault
       \/ SessionFails(t) /\ Fault
    /\ UNCHANGED <<disk, legacy, opfs, calls, due>>

(* The test of #drain's loop. *)
DrainTest(t) ==
    /\ At(t, "test")
    /\ Goto(t, IF tab[t].queue = <<>> THEN "ended" ELSE "waiting")
    /\ UNCHANGED <<lock, disk, legacy, opfs, outcome, calls, due>> /\ NoFault

(* The finally callback: #draining = null. *)
DrainEnds(t) ==
    /\ At(t, "ended")
    /\ Goto(t, "none")
    /\ UNCHANGED <<lock, disk, legacy, opfs, outcome, calls, due>> /\ NoFault

-----------------------------------------------------------------------------
(* The environment: a Worker dies, with its lock, and another takes its
   place; the browser stops or starts granting OPFS. *)
Crash(t) ==
    /\ tab[t] # Fresh
    /\ tab' = [tab EXCEPT ![t] = Fresh]
    /\ lock' = IF lock = t THEN null ELSE lock
    /\ outcome' = settled(inQueue(t) \cup tab[t].batch, "lost")
    /\ UNCHANGED <<disk, legacy, opfs, calls, due>> /\ Fault

OpfsChanges ==
    /\ opfs' = ~ opfs
    /\ UNCHANGED <<tab, lock, disk, legacy, outcome, calls, due>> /\ Fault

DrainStep(t) ==
    \/ Open(t) \/ ImportLegacyFloor(t) \/ MigrationFails(t) \/ Copy(t)
    \/ RemoveEntry(t) \/ DeleteOwnKeys(t) \/ MarkMigrationDone(t) \/ NextBatch(t)
    \/ \E op \in tab[t].batch :
          Refuse(t, op) \/ Sync(t, op) \/ Read(t, op) \/ Reset(t, op)
    \/ ResetRemoves(t) \/ Close(t) \/ DrainTest(t) \/ DrainEnds(t)

DatabaseNext ==
    \/ \E t \in Tabs : \/ \E kind \in Kinds : Run(t, kind)
                       \/ TakeLock(t) \/ DrainStep(t) \/ Crash(t)
    \/ OpfsChanges

DatabaseSpec == DatabaseInit /\ [][DatabaseNext]_dbVars

(* A Worker's event loop runs, and Web Locks are granted in request order, so
   a Worker that waits for the lock gets it. *)
FairDatabaseSpec ==
    /\ DatabaseSpec
    /\ \A t \in Tabs : /\ WF_dbVars(DrainStep(t) /\ faults' = faults)
                       /\ SF_dbVars(TakeLock(t))

-----------------------------------------------------------------------------
(* Properties.                                                             *)

(* Whatever failed or crashed before, no sync or read runs under a floor below
   one that a 0.2.x store held, until the user resets: not in a session whose
   migration failed, nor in memory, nor after a crash halfway. *)
FloorInForce ==
    \A t \in Tabs :
       At(t, "run") /\ ~ tab[t].refusal => sessionFloor(t) >= due

(* What the 0.2.x stores no longer say is on disk, or was given up by a reset:
   no crash between two removals of the migration loses a floor. *)
RemovedWhenInForce ==
    highest(floorsIn(legacy)) < due => disk.floor >= due

(* Shared operations run together, an exclusive one runs alone, and over all
   Workers only the holder of the cache lock runs any. *)
ExclusiveRunsAlone ==
    \A t \in Tabs :
       tab[t].batch # {} =>
          /\ lock = t
          /\ Cardinality(tab[t].batch) > 1 => \A op \in tab[t].batch : shared(op)

(* The floor of the 0.2.x stores, and who runs, through the sessions and the
   migration of several Workers. *)
DatabaseInvariant ==
    /\ DatabaseTypeOK
    /\ FloorInForce
    /\ RemovedWhenInForce
    /\ ExclusiveRunsAlone

(* A reset that reports success has removed every legacy store and left no
   floor in the store of its session. *)
ResetIsTotal ==
    [][ \A t \in Tabs : \A op \in tab[t].batch :
          /\ op.kind = "reset"
          /\ outcome[op.id] = "pending" /\ outcome'[op.id] = "ok"
          => /\ \A s \in Slots : legacy'[s] = null
             /\ tab'[t].mode = "opfs" => disk'.floor = -1
      ]_dbVars

(* What the header of migration.ts says of a crash between copying and marking:
   "the next boot re-runs 1-5, which is idempotent".  Stores whose floor could
   be read when the migration began can be read whenever a session imports
   their floor again. *)
MigrationIsRepeatable ==
    (\A slots \in LegacyStates : floorsReadable(slots)) =>
       \A t \in Tabs : At(t, "floor") => floorsReadable(legacy)

(* Every call is answered, unless its Worker dies. *)
CallsAnswered ==
    \A i \in Calls : outcome[i] = "pending" ~> outcome[i] # "pending"
=============================================================================
