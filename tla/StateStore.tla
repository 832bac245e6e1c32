----------------------------- MODULE StateStore -----------------------------
(***************************************************************************)
(* The application state store (src/sqlite): several tabs, each with a     *)
(* client on the main thread and a Worker of its own, over one database.   *)
(*                                                                         *)
(* A Worker takes its messages in order and runs each under the database's *)
(* exclusive Web Lock, inside BEGIN IMMEDIATE: the epoch is read when the  *)
(* transaction begins and compared with what the caller expects when the   *)
(* operation ends.  A Worker may die at any moment; SQLite then rolls the  *)
(* transaction back and the browser frees the lock.                        *)
(***************************************************************************)
EXTENDS Naturals, Sequences

CONSTANTS
    Tabs, Keys, Values,
    Batches,    \* the sequences of mutations callers use
    Foreign,    \* snapshots of other databases that a user may import
    MaxSafe,    \* Number.MAX_SAFE_INTEGER
    MaxCalls,   \* bound on calls, openings and dispose() included
    MaxPending, \* bound on a tab's calls under way
    MaxFaults,  \* bound on deaths of Workers and failures of SQLite
    null

Versions  == 1 .. 2
Row       == [value : Values, revision : Nat]
Snapshots == [schema : Versions, epoch : Nat, rows : [Keys -> Row \cup {null}]]
Mutations == [put : BOOLEAN, key : Keys, value : Values]

ASSUME StateStoreAssumption ==
    /\ Batches \subseteq Seq(Mutations)
    /\ Foreign \subseteq Snapshots
    /\ MaxSafe \in Nat /\ MaxCalls \in Nat
    /\ MaxPending \in Nat /\ MaxFaults \in Nat
    /\ null \notin Row /\ null \notin Snapshots /\ null \notin Nat
    /\ null \notin [id : Nat, snapshot : Snapshots]

VARIABLES
    disk,       \* the database: schema version, epoch, rows
    exports,    \* the exported files
    client,     \* per tab: "none", "starting" (#ready pending), "ready"
    disposed,   \* per tab: #disposed
    waiting,    \* per tab: calls that await #ready
    inbox,      \* per tab: messages to the Worker; the head is being served
    running,    \* per tab: the epoch its transaction has read, null outside one
    staged,     \* per tab: #staged
    stageSeq,   \* per tab: #stageSequence
    known,      \* per tab: the epoch of the last answer
    told,       \* per tab: the snapshot staged under each stage id
    calls, faults

(* History. *)
VARIABLES
    spent,      \* per tab: stage ids committed or discarded
    lost,       \* per tab: posted calls rejected without the Worker's answer
    died        \* per tab: its Worker has died, or its store failed to open

tabVars   == <<client, disposed, waiting, inbox, running, staged,
               stageSeq, known, told, spent, lost, died>>
storeVars == <<disk, exports, tabVars, calls, faults>>

-----------------------------------------------------------------------------
Expected == Nat \cup {null}

Requests ==
    [op : {"initialize", "read", "export", "dispose"}]
    \cup [op : {"batch"}, muts : Batches, expected : Expected]
    \cup [op : {"migrate"}, from : Versions, muts : Batches, expected : Expected]
    \cup [op : {"reset"}, expected : Expected]
    \cup [op : {"stage"}, snapshot : Snapshots]
    \cup [op : {"discard"}, id : Nat]
    \cup [op : {"commit"}, id : Nat, expected : Expected]

StateStoreTypeOK ==
    /\ disk \in Snapshots
    /\ exports \subseteq Snapshots
    /\ client \in [Tabs -> {"none", "starting", "ready"}]
    /\ disposed \in [Tabs -> BOOLEAN]
    /\ waiting \in [Tabs -> Seq(Requests)]
    /\ inbox \in [Tabs -> Seq(Requests)]
    /\ running \in [Tabs -> Nat \cup {null}]
    /\ staged \in [Tabs -> [id : Nat, snapshot : Snapshots] \cup {null}]
    /\ stageSeq \in [Tabs -> Nat]
    /\ known \in [Tabs -> Expected]
    /\ told \in [Tabs -> Seq(Snapshots)]
    /\ calls \in 0 .. MaxCalls /\ faults \in 0 .. MaxFaults
    /\ spent \in [Tabs -> SUBSET Nat]
    /\ lost \in [Tabs -> Nat]
    /\ died \in [Tabs -> BOOLEAN]

StateStoreInit ==
    /\ disk = [schema |-> 1, epoch |-> 0, rows |-> [k \in Keys |-> null]]
    /\ exports = {}
    /\ client = [t \in Tabs |-> "none"]
    /\ disposed = [t \in Tabs |-> FALSE]
    /\ waiting = [t \in Tabs |-> <<>>]
    /\ inbox = [t \in Tabs |-> <<>>]
    /\ running = [t \in Tabs |-> null]
    /\ staged = [t \in Tabs |-> null]
    /\ stageSeq = [t \in Tabs |-> 0]
    /\ known = [t \in Tabs |-> null]
    /\ told = [t \in Tabs |-> <<>>]
    /\ calls = 0 /\ faults = 0
    /\ spent = [t \in Tabs |-> {}]
    /\ lost = [t \in Tabs |-> 0]
    /\ died = [t \in Tabs |-> FALSE]

-----------------------------------------------------------------------------
(* The client.                                                             *)

\* The constructor: a new Worker, and "initialize" as its first message.
Construct(t) ==
    /\ client[t] = "none" /\ calls < MaxCalls
    /\ calls' = calls + 1
    /\ client' = [client EXCEPT ![t] = "starting"]
    /\ disposed' = [disposed EXCEPT ![t] = FALSE]
    /\ inbox' = [inbox EXCEPT ![t] = <<[op |-> "initialize"]>>]
    /\ stageSeq' = [stageSeq EXCEPT ![t] = 0]
    /\ known' = [known EXCEPT ![t] = null]
    /\ told' = [told EXCEPT ![t] = <<>>]
    /\ spent' = [spent EXCEPT ![t] = {}]
    /\ lost' = [lost EXCEPT ![t] = 0]
    /\ died' = [died EXCEPT ![t] = FALSE]
    /\ UNCHANGED <<disk, exports, waiting, running, staged, faults>>

\* What a caller may ask for: it expects no epoch, or the last one it learnt.
CallerRequests(t) ==
    LET expected == {null, known[t]} IN
    [op : {"read", "export"}]
    \cup [op : {"batch"}, muts : Batches, expected : expected]
    \cup [op : {"migrate"}, from : {1}, muts : Batches, expected : {known[t]}]
    \cup [op : {"reset"}, expected : expected]
    \cup [op : {"stage"}, snapshot : Foreign \cup exports]
    \cup [op : {"discard"}, id : DOMAIN told[t]]
    \cup [op : {"commit"}, id : DOMAIN told[t], expected : expected]

\* A call awaits #ready and posts; after dispose(), #request refuses it.  One
\* made in the turn of a dispose() is refused too: that is Dispose alone.
Call(t, r) ==
    /\ client[t] # "none" /\ ~disposed[t] /\ calls < MaxCalls
    /\ Len(waiting[t]) + Len(inbox[t]) < MaxPending
    /\ calls' = calls + 1
    /\ IF client[t] = "ready"
       THEN inbox' = [inbox EXCEPT ![t] = Append(@, r)] /\ UNCHANGED waiting
       ELSE waiting' = [waiting EXCEPT ![t] = Append(@, r)] /\ UNCHANGED inbox
    /\ UNCHANGED <<disk, exports, client, disposed, running, staged,
                   stageSeq, known, told, spent, lost, died, faults>>

\* terminate() and #failAll: the calls still posted are rejected unanswered.
Terminate(t, posted) ==
    /\ client' = [client EXCEPT ![t] = "none"]
    /\ lost' = [lost EXCEPT ![t] = Len(posted)]
    /\ waiting' = [waiting EXCEPT ![t] = <<>>]
    /\ inbox' = [inbox EXCEPT ![t] = <<>>]
    /\ running' = [running EXCEPT ![t] = null]
    /\ staged' = [staged EXCEPT ![t] = null]
    /\ UNCHANGED <<disk, exports, stageSeq, known, told, spent>>

\* dispose() awaits #ready too, and posts behind what was posted before it.
Dispose(t) ==
    /\ client[t] # "none" /\ ~disposed[t] /\ calls < MaxCalls
    /\ calls' = calls + 1
    /\ disposed' = [disposed EXCEPT ![t] = TRUE]
    /\ inbox' = IF client[t] = "ready"
                THEN [inbox EXCEPT ![t] = Append(@, [op |-> "dispose"])]
                ELSE inbox
    /\ UNCHANGED <<disk, exports, client, waiting, running, staged,
                   stageSeq, known, told, spent, lost, died, faults>>

\* The Worker dies, or posts what cannot be read: #failTerminal.  A death
\* between COMMIT and the answer is an answer that nobody acts on, then this.
WorkerDies(t) ==
    /\ client[t] # "none" /\ faults < MaxFaults
    /\ faults' = faults + 1
    /\ Terminate(t, inbox[t])
    /\ died' = [died EXCEPT ![t] = TRUE]
    /\ UNCHANGED <<disposed, calls>>

-----------------------------------------------------------------------------
(* The Worker.                                                             *)

\* withDatabaseLock and BEGIN IMMEDIATE: the lock is exclusive, and the epoch
\* is read under it.
\* Defect: a deferred transaction, outside the lock.
Begin_Deferred(t) ==
    /\ inbox[t] # <<>> /\ running[t] = null
    /\ running' = [running EXCEPT ![t] = disk.epoch]
    /\ UNCHANGED <<disk, exports, client, disposed, waiting, inbox, staged,
                   stageSeq, known, told, spent, lost, died, calls, faults>>

Begin(t) ==
    /\ inbox[t] # <<>>
    /\ \A u \in Tabs : running[u] = null
    /\ running' = [running EXCEPT ![t] = disk.epoch]
    /\ UNCHANGED <<disk, exports, client, disposed, waiting, inbox, staged,
                   stageSeq, known, told, spent, lost, died, calls, faults>>

\* The Worker serves request r of kind op: its transaction is open.
Serving(t, op) ==
    /\ inbox[t] # <<>> /\ running[t] # null
    /\ Head(inbox[t]).op = op

\* post and #receive: the lock is released and the caller has its answer.
Answer(t, epoch) ==
    /\ running' = [running EXCEPT ![t] = null]
    /\ inbox' = [inbox EXCEPT ![t] = Tail(@)]
    /\ known' = [known EXCEPT ![t] = epoch]
    /\ UNCHANGED <<client, disposed, waiting, lost, died, calls>>

\* An error answer: nothing is changed.
Refuse(t) ==
    /\ Answer(t, known[t])
    /\ UNCHANGED <<disk, exports, staged, stageSeq, told, spent>>

\* The store cannot be opened: #ready rejects, and that is terminal.
NeverReady(t) ==
    /\ Terminate(t, Tail(inbox[t]))
    /\ died' = [died EXCEPT ![t] = TRUE]
    /\ UNCHANGED <<disposed, calls>>

\* #assertEpoch, after #epoch(), which refuses an unsafe integer.
EpochMatches(t) ==
    LET r == Head(inbox[t]) IN
    /\ running[t] <= MaxSafe
    /\ r.expected # null => r.expected = running[t]

\* #applyBatch: the last mutation of a key decides; a put always counts as a
\* change, a delete if it finds a row, which an earlier put may have written.
Changes(rows, muts) ==
    \E i \in DOMAIN muts : muts[i].put \/ rows[muts[i].key] # null

Applied(rows, muts, next) ==
    [k \in Keys |->
        LET at == {i \in DOMAIN muts : muts[i].key = k} IN
        IF at = {} THEN rows[k]
        ELSE LET m == muts[CHOOSE i \in at : \A j \in at : j <= i] IN
             IF m.put THEN [value |-> m.value, revision |-> next] ELSE null]

\* openStore and #initialize, then runtimeInfo, which reads the epoch.  The
\* calls that await #ready are posted, or refused if dispose() came first.
\* Defect: a dispose() that awaits #ready is forgotten.
RunInitialize_NoDispose(t) ==
    /\ Serving(t, "initialize")
    /\ IF running[t] <= MaxSafe
       THEN /\ client' = [client EXCEPT ![t] = "ready"]
            /\ known' = [known EXCEPT ![t] = running[t]]
            /\ inbox' = [inbox EXCEPT ![t] = waiting[t]]
            /\ waiting' = [waiting EXCEPT ![t] = <<>>]
            /\ running' = [running EXCEPT ![t] = null]
            /\ UNCHANGED <<disk, exports, disposed, staged, stageSeq, told, spent,
                           lost, died, calls, faults>>
       ELSE NeverReady(t) /\ UNCHANGED faults

RunInitialize(t) ==
    /\ Serving(t, "initialize")
    /\ IF running[t] <= MaxSafe
       THEN /\ client' = [client EXCEPT ![t] = "ready"]
            /\ known' = [known EXCEPT ![t] = running[t]]
            /\ inbox' = [inbox EXCEPT ![t] =
                            IF disposed[t] THEN <<[op |-> "dispose"]>> ELSE waiting[t]]
            /\ waiting' = [waiting EXCEPT ![t] = <<>>]
            /\ running' = [running EXCEPT ![t] = null]
            /\ UNCHANGED <<disk, exports, disposed, staged, stageSeq, told, spent,
                           lost, died, calls, faults>>
       ELSE NeverReady(t) /\ UNCHANGED faults

\* get, list, integrity-check and runtime-info; the last one tells the epoch.
RunRead(t) ==
    /\ Serving(t, "read")
    /\ IF running[t] <= MaxSafe THEN Answer(t, running[t]) ELSE Answer(t, known[t])
    /\ UNCHANGED <<disk, exports, staged, stageSeq, told, spent, faults>>

\* exportBytes.
RunExport(t) ==
    /\ Serving(t, "export")
    /\ exports' = exports \cup {disk}
    /\ Answer(t, known[t])
    /\ UNCHANGED <<disk, staged, stageSeq, told, spent, faults>>

\* batch, put and delete.
RunBatch(t) ==
    /\ Serving(t, "batch")
    /\ LET r == Head(inbox[t])
           changed == Changes(disk.rows, r.muts)
           epoch == IF changed THEN running[t] + 1 ELSE running[t] IN
       IF EpochMatches(t)
       THEN /\ disk' = [disk EXCEPT !.epoch = epoch,
                                    !.rows = Applied(@, r.muts, running[t] + 1)]
            /\ Answer(t, epoch)
            /\ UNCHANGED <<exports, staged, stageSeq, told, spent, faults>>
       ELSE Refuse(t) /\ UNCHANGED faults

\* migrate: to the next version, and always a new epoch.
RunMigrate(t) ==
    /\ Serving(t, "migrate")
    /\ LET r == Head(inbox[t]) IN
       IF disk.schema = r.from /\ EpochMatches(t)
       THEN /\ disk' = [schema |-> r.from + 1, epoch |-> running[t] + 1,
                        rows |-> Applied(disk.rows, r.muts, running[t] + 1)]
            /\ Answer(t, running[t] + 1)
            /\ UNCHANGED <<exports, staged, stageSeq, told, spent, faults>>
       ELSE Refuse(t) /\ UNCHANGED faults

\* reset: an empty store keeps its epoch.
\* Defect: the rows go and the epoch stays.
RunReset_SameEpoch(t) ==
    /\ Serving(t, "reset")
    /\ IF EpochMatches(t)
       THEN /\ disk' = [disk EXCEPT !.rows = [k \in Keys |-> null]]
            /\ Answer(t, running[t])
            /\ UNCHANGED <<exports, staged, stageSeq, told, spent, faults>>
       ELSE Refuse(t) /\ UNCHANGED faults

RunReset(t) ==
    /\ Serving(t, "reset")
    /\ LET empty == \A k \in Keys : disk.rows[k] = null
           epoch == IF empty THEN running[t] ELSE running[t] + 1 IN
       IF EpochMatches(t)
       THEN /\ disk' = [disk EXCEPT !.epoch = epoch,
                                    !.rows = [k \in Keys |-> null]]
            /\ Answer(t, epoch)
            /\ UNCHANGED <<exports, staged, stageSeq, told, spent, faults>>
       ELSE Refuse(t) /\ UNCHANGED faults

\* readSnapshot and stageImport's checks of the imported rows.
Importable(s) ==
    /\ s.epoch <= MaxSafe
    /\ \A k \in Keys : s.rows[k] # null => s.rows[k].revision <= s.epoch

\* stageImport: the one slot holds the last snapshot that passed.  Whatever a
\* file holds, it may be larger than maxImportBytes.
RunStage(t) ==
    /\ Serving(t, "stage")
    /\ LET s == Head(inbox[t]).snapshot IN
       \/ /\ Importable(s)
          /\ stageSeq' = [stageSeq EXCEPT ![t] = @ + 1]
          /\ staged' = [staged EXCEPT ![t] = [id |-> stageSeq[t] + 1, snapshot |-> s]]
          /\ told' = [told EXCEPT ![t] = Append(@, s)]
          /\ Answer(t, known[t])
          /\ UNCHANGED <<disk, exports, spent, faults>>
       \/ Refuse(t) /\ UNCHANGED faults

\* discardImport: of another id it does nothing.
RunDiscard(t) ==
    /\ Serving(t, "discard")
    /\ LET id == Head(inbox[t]).id IN
       /\ staged' = IF staged[t] # null /\ staged[t].id = id
                    THEN [staged EXCEPT ![t] = null] ELSE staged
       /\ spent' = [spent EXCEPT ![t] = @ \cup {id}]
       /\ Answer(t, known[t])
       /\ UNCHANGED <<disk, exports, stageSeq, told, faults>>

\* commitImport: the new epoch is above both databases'; the slot is emptied
\* once the transaction is in.
MergedEpoch(own, imported) == (IF imported > own THEN imported ELSE own) + 1

\* Defect: the stage id is not compared.
RunCommit_AnyStage(t) ==
    /\ Serving(t, "commit")
    /\ IF staged[t] # null /\ EpochMatches(t)
       THEN LET s == staged[t].snapshot
                epoch == MergedEpoch(running[t], s.epoch) IN
            /\ disk' = [schema |-> s.schema, epoch |-> epoch, rows |-> s.rows]
            /\ staged' = [staged EXCEPT ![t] = null]
            /\ spent' = [spent EXCEPT ![t] = @ \cup {Head(inbox[t]).id}]
            /\ Answer(t, epoch)
            /\ UNCHANGED <<exports, stageSeq, told, faults>>
       ELSE Refuse(t) /\ UNCHANGED faults

RunCommit(t) ==
    /\ Serving(t, "commit")
    /\ IF /\ staged[t] # null
          /\ staged[t] # null => staged[t].id = Head(inbox[t]).id
          /\ EpochMatches(t)
       THEN LET s == staged[t].snapshot
                epoch == MergedEpoch(running[t], s.epoch) IN
            /\ disk' = [schema |-> s.schema, epoch |-> epoch, rows |-> s.rows]
            /\ staged' = [staged EXCEPT ![t] = null]
            /\ spent' = [spent EXCEPT ![t] = @ \cup {Head(inbox[t]).id}]
            /\ Answer(t, epoch)
            /\ UNCHANGED <<exports, stageSeq, told, faults>>
       ELSE Refuse(t) /\ UNCHANGED faults

\* dispose: the database is closed, and the client ends the Worker.
RunDispose(t) ==
    /\ Serving(t, "dispose")
    /\ Terminate(t, Tail(inbox[t]))
    /\ UNCHANGED <<disposed, died, calls, faults>>

\* SQLite fails (the disk is full, the file cannot be opened): the
\* transaction is rolled back and the staged import kept.
RunFails(t) ==
    /\ inbox[t] # <<>> /\ running[t] # null /\ faults < MaxFaults
    /\ faults' = faults + 1
    /\ CASE Head(inbox[t]).op = "initialize" -> NeverReady(t)
         [] Head(inbox[t]).op = "dispose" ->
                Terminate(t, Tail(inbox[t])) /\ UNCHANGED <<disposed, died, calls>>
         [] OTHER -> Refuse(t)

Run(t) ==
    \/ RunInitialize(t) \/ RunRead(t) \/ RunExport(t) \/ RunBatch(t)
    \/ RunMigrate(t) \/ RunReset(t) \/ RunStage(t) \/ RunDiscard(t)
    \/ RunCommit(t) \/ RunDispose(t) \/ RunFails(t)

-----------------------------------------------------------------------------
StateStoreNext ==
    \E t \in Tabs :
        \/ Construct(t) \/ Dispose(t) \/ WorkerDies(t)
        \/ \E r \in CallerRequests(t) : Call(t, r)
        \/ Begin(t) \/ Run(t)

StateStoreSpec == StateStoreInit /\ [][StateStoreNext]_storeVars

\* Workers run and events are delivered; the browser grants a Web Lock first
\* come, first served, so a waiting Worker has its turn however often the
\* other tabs take it.
FairStateStoreSpec ==
    /\ StateStoreSpec
    /\ \A t \in Tabs : /\ SF_storeVars(Begin(t))
                       /\ WF_storeVars(Run(t))

-----------------------------------------------------------------------------
(* Properties.                                                             *)

\* An epoch names one state for ever: two files exported at the same epoch,
\* by whichever tabs, hold the same state, and a caller that expects the
\* epoch of a file changes exactly the state of that file.
EpochIdentifiesState ==
    \A x \in exports :
        /\ x.epoch <= disk.epoch
        /\ \A y \in exports \cup {disk} : x.epoch = y.epoch => x = y

\* No row is newer than its database, after imports too: the checks of an
\* import accept what the store exports, unless its epoch is no safe integer
\* any more or the file is larger than maxImportBytes.
RevisionsWithinEpoch ==
    \A s \in exports \cup {disk} : s.epoch <= MaxSafe => Importable(s)

\* A change made on condition of an epoch is made to the state of that epoch,
\* whatever the other tabs did since the caller learnt it.
ConditionalChange ==
    [][\A t \in Tabs :
        (/\ disk' # disk
         /\ running[t] # null /\ running'[t] = null
         /\ Head(inbox[t]).op \in {"batch", "migrate", "reset", "commit"})
        => Head(inbox[t]).expected \in {null, disk.epoch}]_storeVars

\* A commit puts in force the snapshot its caller was told it staged under
\* that id, whole, and only once: never one staged by a later call, and never
\* one already committed or discarded.
CommitsWhatWasStaged ==
    [][\A t \in Tabs :
        (/\ running[t] # null /\ running'[t] = null /\ disk' # disk
         /\ Head(inbox[t]).op = "commit")
        => LET id == Head(inbox[t]).id IN
           /\ id \notin spent[t]
           /\ disk'.rows = told[t][id].rows
           /\ disk'.schema = told[t][id].schema]_storeVars

\* Unless its Worker dies or never opens, a call that was posted is answered
\* by the Worker, even if dispose() was called right after it.
PostedIsAnswered == \A t \in Tabs : ~died[t] => lost[t] = 0

\* What holds of the database and of its files, and what every tab may rely on.
StateStoreInvariant ==
    /\ StateStoreTypeOK
    /\ EpochIdentifiesState
    /\ RevisionsWithinEpoch
    /\ PostedIsAnswered

\* Every call is answered or rejected, and dispose() ends.
StoreSettles ==
    \A t \in Tabs :
        (disposed[t] \/ waiting[t] # <<>> \/ inbox[t] # <<>>)
        ~> /\ waiting[t] = <<>> /\ inbox[t] = <<>>
           /\ disposed[t] => client[t] = "none"
=============================================================================
