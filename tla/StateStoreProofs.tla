-------------------------- MODULE StateStoreProofs --------------------------
(***************************************************************************)
(* Proofs about StateStore, for any number of tabs, any keys, batches and  *)
(* files, and any bounds.                                                  *)
(*                                                                         *)
(* The store rests on two facts.  Transactions exclude each other, so the  *)
(* epoch that a transaction has read is the database's for as long as it   *)
(* runs (Exclusive): a change is therefore compared with the state it is   *)
(* made to, and leaves a new epoch unless it leaves everything as it was.  *)
(* And what a tab's messages refer to stands still while they wait: stage  *)
(* ids are counted up and never reused within a client's life, dispose is  *)
(* the last message of a client, and a client that is gone has left        *)
(* nothing behind (TabInvariant).                                          *)
(***************************************************************************)
EXTENDS StateStore, SequenceTheorems, WellFoundedInduction, TLAPS

\* A message as a caller may have posted it: for the migration there is, and
\* for a stage id already given out.
MayBePosted(t, r) ==
    /\ r \in Requests
    /\ r.op # "initialize"
    /\ r.op = "migrate" => r.from = 1
    /\ r.op \in {"discard", "commit"} => r.id \in 1 .. stageSeq[t]

\* A client that is gone has nothing under way; one that starts has posted
\* "initialize" alone, and one that is ready has posted all that waited.
Lifecycle(t) ==
    /\ client[t] = "none" =>
          /\ inbox[t] = <<>> /\ waiting[t] = <<>>
          /\ running[t] = null /\ staged[t] = null
    /\ client[t] = "starting" => inbox[t] = <<[op |-> "initialize"]>>
    /\ client[t] = "ready" => waiting[t] = <<>>

\* What is posted, and what waits for #ready; nothing follows a dispose.
Posted(t) ==
    /\ \A i \in 1 .. Len(waiting[t]) :
          MayBePosted(t, waiting[t][i]) /\ waiting[t][i].op # "dispose"
    /\ client[t] = "ready" =>
          \A i \in 1 .. Len(inbox[t]) :
             /\ MayBePosted(t, inbox[t][i])
             /\ inbox[t][i].op = "dispose" => disposed[t] /\ i = Len(inbox[t])

\* The slot holds what its stage id was told for, and only until it is spent.
Staging(t) ==
    /\ Len(told[t]) = stageSeq[t]
    /\ spent[t] \subseteq 1 .. stageSeq[t]
    /\ staged[t] # null =>
          /\ staged[t].id \in 1 .. stageSeq[t] /\ staged[t].id \notin spent[t]
          /\ staged[t].snapshot = told[t][staged[t].id]
          /\ Importable(staged[t].snapshot)

\* A transaction has read the epoch that the database has.
ReadsTheEpoch(t) == running[t] # null => running[t] = disk.epoch

TabInvariant(t) ==
    /\ Lifecycle(t) /\ Posted(t) /\ Staging(t) /\ ReadsTheEpoch(t)
    /\ ~died[t] => lost[t] = 0

\* BEGIN IMMEDIATE under the exclusive lock.
Exclusive == \A t, u \in Tabs : running[t] # null /\ running[u] # null => t = u

TransactionInvariant ==
    /\ StateStoreTypeOK
    /\ EpochIdentifiesState
    /\ RevisionsWithinEpoch
    /\ Exclusive
    /\ \A t \in Tabs : TabInvariant(t)

-----------------------------------------------------------------------------

(* A non-empty set of numbers up to n has its maximum among them. *)
LEMMA MaxOfBounded ==
    ASSUME NEW n \in Nat, NEW S \in SUBSET (1 .. n), S # {}
    PROVE  \E m \in S : \A j \in S : j <= m
<1> DEFINE R == OpToRel(<, Nat)
           below == {d \in Nat : \E j \in S : d = n - j}
<1>1. below \in SUBSET Nat /\ below # {}
  <2>1. PICK j \in S : TRUE
    OBVIOUS
  <2>2. n - j \in Nat
    BY <2>1
  <2> QED
    BY <2>1, <2>2
<1>2. IsWellFoundedOn(R, Nat)
  BY NatLessThanWellFounded
<1>3. PICK d \in below : \A e \in below : <<e, d>> \notin R
  <2> HIDE DEF R, below
  <2> QED
    BY <1>1, <1>2, WFMin
<1>4. PICK m \in S : d = n - m
  BY <1>3
<1>5. ASSUME NEW j \in S PROVE j <= m
  <2>1. n - j \in below /\ j \in Nat /\ m \in Nat
    OBVIOUS
  <2>2. ~ (n - j < d)
    BY <1>3, <2>1 DEF OpToRel
  <2> QED
    BY <1>4, <2>1, <2>2
<1> QED
  BY <1>5

(* What a message carries, by what it asks for. *)
LEMMA RequestFields ==
    ASSUME NEW r \in Requests
    PROVE  /\ r.op = "batch" => r.muts \in Batches /\ r.expected \in Expected
           /\ r.op = "migrate" =>
                 r.muts \in Batches /\ r.expected \in Expected /\ r.from \in Versions
           /\ r.op = "reset" => r.expected \in Expected
           /\ r.op = "stage" => r.snapshot \in Snapshots
           /\ r.op = "commit" => r.expected \in Expected
BY DEF Requests

(* #applyBatch: every row is an old one or carries the new epoch, and a batch
   that changes nothing leaves the rows as they are. *)
LEMMA AppliedRows ==
    ASSUME NEW rows \in [Keys -> Row \cup {null}], NEW muts \in Seq(Mutations),
           NEW next \in Nat
    PROVE  /\ Applied(rows, muts, next) \in [Keys -> Row \cup {null}]
           /\ \A k \in Keys : LET a == Applied(rows, muts, next)[k] IN
                 a = rows[k] \/ a = null \/ a.revision = next
           /\ ~Changes(rows, muts) => Applied(rows, muts, next) = rows
<1> DEFINE at(k) == {i \in DOMAIN muts : muts[i].key = k}
           m(k) == muts[CHOOSE i \in at(k) : \A j \in at(k) : j <= i]
           new(k) == IF m(k).put THEN [value |-> m(k).value, revision |-> next] ELSE null
<1>1. Applied(rows, muts, next) = [k \in Keys |-> IF at(k) = {} THEN rows[k] ELSE new(k)]
  BY DEF Applied
<1>2. ASSUME NEW k \in Keys, at(k) # {}
      PROVE  \E i \in DOMAIN muts : m(k) = muts[i] /\ muts[i].key = k
  <2>1. Len(muts) \in Nat /\ DOMAIN muts = 1 .. Len(muts)
    OBVIOUS
  <2>2. \E i \in at(k) : \A j \in at(k) : j <= i
    BY <1>2, <2>1, MaxOfBounded
  <2> QED
    BY <2>2
<1>3. ASSUME NEW i \in DOMAIN muts
      PROVE  muts[i].value \in Values
  <2>1. muts[i] \in Mutations
    OBVIOUS
  <2> QED
    BY <2>1 DEF Mutations
<1>4. ASSUME NEW k \in Keys, at(k) # {}
      PROVE  /\ new(k) \in Row \cup {null}
             /\ new(k) = null \/ new(k).revision = next
             /\ ~Changes(rows, muts) => new(k) = rows[k]
  <2>1. PICK i \in DOMAIN muts : m(k) = muts[i] /\ muts[i].key = k
    BY <1>2, <1>4
  <2>2. muts[i].value \in Values
    BY <1>3
  <2> HIDE DEF m
  <2>3. new(k) \in Row \cup {null} /\ (new(k) = null \/ new(k).revision = next)
    BY <2>1, <2>2 DEF Row
  <2>4. ASSUME ~Changes(rows, muts) PROVE new(k) = rows[k]
    BY <2>1, <2>4 DEF Changes
  <2> QED
    BY <2>3, <2>4
<1> HIDE DEF at, new
<1>5. Applied(rows, muts, next) \in [Keys -> Row \cup {null}]
  BY <1>1, <1>4
<1>6. \A k \in Keys : LET a == Applied(rows, muts, next)[k] IN
         a = rows[k] \/ a = null \/ a.revision = next
  BY <1>1, <1>4
<1>7. ~Changes(rows, muts) => Applied(rows, muts, next) = rows
  BY <1>1, <1>4
<1> QED
  BY <1>5, <1>6, <1>7

-----------------------------------------------------------------------------
(* The database.                                                           *)

\* What one change makes of the database: a new epoch, or nothing new.
MovesOn ==
    /\ disk' \in Snapshots
    /\ disk' = disk \/ disk'.epoch > disk.epoch
    /\ disk'.epoch <= MaxSafe => Importable(disk)'

(* A message at the head of the inbox, and the epoch that was read for it. *)
LEMMA Served ==
    ASSUME TransactionInvariant, NEW t \in Tabs, inbox[t] # <<>>
    PROVE  /\ Head(inbox[t]) \in Requests
           /\ inbox[t] \in Seq(Requests) /\ Head(inbox[t]) = inbox[t][1]
           /\ Len(inbox[t]) \in Nat /\ 1 \in 1 .. Len(inbox[t])
           /\ client[t] # "none"
           /\ Head(inbox[t]).op # "initialize" =>
                 client[t] = "ready" /\ MayBePosted(t, Head(inbox[t]))
           /\ running[t] # null => running[t] = disk.epoch /\ disk.epoch \in Nat
           /\ disk \in Snapshots
<1>1. /\ StateStoreTypeOK /\ Lifecycle(t) /\ Posted(t) /\ ReadsTheEpoch(t)
  BY DEF TransactionInvariant, TabInvariant
<1>2. inbox[t] \in Seq(Requests) /\ disk \in Snapshots /\ disk.epoch \in Nat
  BY <1>1 DEF StateStoreTypeOK, Snapshots
<1>3. /\ Head(inbox[t]) \in Requests /\ Head(inbox[t]) = inbox[t][1]
      /\ Len(inbox[t]) \in Nat /\ 1 \in 1 .. Len(inbox[t])
  BY <1>2
<1>4. client[t] # "none"
  BY <1>1 DEF Lifecycle
<1>5. ASSUME Head(inbox[t]).op # "initialize" PROVE client[t] = "ready"
  <2>1. CASE client[t] = "starting"
    <3>1. Head(inbox[t]) = [op |-> "initialize"]
      BY <1>1, <2>1 DEF Lifecycle
    <3> QED
      BY <1>5, <3>1
  <2> QED
    BY <1>1, <1>4, <2>1 DEF StateStoreTypeOK
<1>6. client[t] = "ready" => MayBePosted(t, Head(inbox[t]))
  BY <1>1, <1>3 DEF Posted
<1> QED
  BY <1>1, <1>2, <1>3, <1>4, <1>5, <1>6 DEF ReadsTheEpoch

(* A batch, a migration, a reset and a committed import move the database on;
   everything else leaves it alone. *)
LEMMA DiskMoves ==
    ASSUME TransactionInvariant, NEW t \in Tabs,
           RunBatch(t) \/ RunMigrate(t) \/ RunReset(t) \/ RunCommit(t)
    PROVE  MovesOn
<1> DEFINE r == Head(inbox[t])
<1>1. /\ r \in Requests /\ running[t] = disk.epoch /\ disk.epoch \in Nat
      /\ disk \in Snapshots /\ disk.schema \in Versions
      /\ disk.rows \in [Keys -> Row \cup {null}]
      /\ MayBePosted(t, r) /\ Staging(t)
      /\ MaxSafe \in Nat
  BY Served, StateStoreAssumption
     DEF RunBatch, RunMigrate, RunReset, RunCommit, Serving, TransactionInvariant,
         TabInvariant, Snapshots
<1>2. /\ disk.epoch <= MaxSafe => Importable(disk)
      /\ disk' = disk => MovesOn
  BY <1>1 DEF TransactionInvariant, RevisionsWithinEpoch, MovesOn
<1>3. \A k \in Keys : disk.rows[k] # null => disk.rows[k].revision \in Nat
  BY <1>1 DEF Row
<1>4. ASSUME Refuse(t) PROVE MovesOn
  BY <1>2, <1>4 DEF Refuse
<1>5. ASSUME EpochMatches(t), NEW muts \in Batches, NEW version \in Versions, NEW e \in Nat,
             disk' = [schema |-> version, epoch |-> e,
                      rows |-> Applied(disk.rows, muts, disk.epoch + 1)],
             e = disk.epoch + 1 \/ (e = disk.epoch /\ version = disk.schema
                                    /\ ~Changes(disk.rows, muts))
      PROVE  MovesOn
  <2> DEFINE rows == Applied(disk.rows, muts, disk.epoch + 1)
  <2>1. muts \in Seq(Mutations) /\ disk.epoch + 1 \in Nat
    BY <1>1, StateStoreAssumption
  <2>2. /\ rows \in [Keys -> Row \cup {null}]
        /\ \A k \in Keys : rows[k] = disk.rows[k] \/ rows[k] = null
                           \/ rows[k].revision = disk.epoch + 1
        /\ ~Changes(disk.rows, muts) => rows = disk.rows
    BY <1>1, <2>1, AppliedRows
  <2> HIDE DEF rows
  <2>3. disk' = [schema |-> version, epoch |-> e, rows |-> rows]
    BY <1>5 DEF rows
  <2>4. disk' \in Snapshots
    BY <2>2, <2>3 DEF Snapshots
  <2>5. CASE e = disk.epoch
    <3>1. rows = disk.rows /\ version = disk.schema
      BY <1>1, <1>5, <2>2, <2>5
    <3>2. disk = [schema |-> disk.schema, epoch |-> disk.epoch, rows |-> disk.rows]
      BY <1>1 DEF Snapshots
    <3> QED
      BY <1>2, <2>3, <2>5, <3>1, <3>2
  <2>6. CASE e = disk.epoch + 1
    <3>1. disk'.epoch > disk.epoch
      BY <1>1, <2>3, <2>6
    <3>2. disk.epoch <= MaxSafe
      BY <1>1, <1>5 DEF EpochMatches
    <3>3. \A k \in Keys : rows[k] # null => rows[k].revision <= e
      BY <1>1, <1>2, <1>3, <2>2, <2>6, <3>2 DEF Importable
    <3>4. disk'.epoch <= MaxSafe => Importable(disk)'
      BY <2>3, <3>3 DEF Importable
    <3> QED
      BY <2>4, <3>1, <3>4 DEF MovesOn
  <2> QED
    BY <1>5, <2>5, <2>6
<1>6. ASSUME RunBatch(t), ~Refuse(t) PROVE MovesOn
  <2>1. r.muts \in Batches
    BY <1>1, <1>6, RequestFields DEF RunBatch, Serving
  <2> DEFINE e == IF Changes(disk.rows, r.muts) THEN running[t] + 1 ELSE running[t]
  <2>2. EpochMatches(t) /\ disk' = [disk EXCEPT !.epoch = e,
                               !.rows = Applied(@, r.muts, running[t] + 1)]
    BY <1>6 DEF RunBatch
  <2>3. disk' = [schema |-> disk.schema, epoch |-> e,
                 rows |-> Applied(disk.rows, r.muts, disk.epoch + 1)]
    BY <1>1, <2>2 DEF Snapshots
  <2>4. e \in Nat /\ (e = disk.epoch + 1 \/ (e = disk.epoch /\ ~Changes(disk.rows, r.muts)))
    BY <1>1
  <2> QED
    BY <1>1, <1>5, <2>1, <2>2, <2>3, <2>4
<1>7. ASSUME RunMigrate(t), ~Refuse(t) PROVE MovesOn
  <2>1. r.muts \in Batches /\ r.from = 1
    BY <1>1, <1>7, RequestFields DEF RunMigrate, Serving, MayBePosted
  <2>2. EpochMatches(t) /\ disk' = [schema |-> 2, epoch |-> disk.epoch + 1,
                       rows |-> Applied(disk.rows, r.muts, disk.epoch + 1)]
    BY <1>1, <1>7, <2>1 DEF RunMigrate
  <2>3. 2 \in Versions /\ disk.epoch + 1 \in Nat
    BY <1>1 DEF Versions
  <2> QED
    BY <1>5, <2>1, <2>2, <2>3
<1>8. ASSUME RunReset(t), ~Refuse(t) PROVE MovesOn
  <2> DEFINE empty == \A k \in Keys : disk.rows[k] = null
             e == IF empty THEN disk.epoch ELSE disk.epoch + 1
             rows == [k \in Keys |-> null]
  <2>1. EpochMatches(t) /\ disk' = [disk EXCEPT !.epoch = e, !.rows = rows]
    BY <1>1, <1>8 DEF RunReset
  <2>2. disk' = [schema |-> disk.schema, epoch |-> e, rows |-> rows]
    BY <1>1, <2>1 DEF Snapshots
  <2>3. disk' \in Snapshots
    BY <1>1, <2>2 DEF Snapshots
  <2>4. CASE empty
    <3>1. rows = disk.rows
      BY <1>1, <2>4
    <3>2. disk = [schema |-> disk.schema, epoch |-> disk.epoch, rows |-> disk.rows]
      BY <1>1 DEF Snapshots
    <3> QED
      BY <1>2, <2>2, <2>4, <3>1, <3>2
  <2>5. CASE ~empty
    <3>1. disk'.epoch > disk.epoch
      BY <1>1, <2>2, <2>5
    <3>2. disk'.epoch <= MaxSafe => Importable(disk)'
      BY <2>2 DEF Importable
    <3> QED
      BY <2>3, <3>1, <3>2 DEF MovesOn
  <2> QED
    BY <2>4, <2>5
<1>9. ASSUME RunCommit(t), ~Refuse(t) PROVE MovesOn
  <2> DEFINE s == staged[t].snapshot
             e == MergedEpoch(disk.epoch, s.epoch)
  <2>1. staged[t] # null /\ disk' = [schema |-> s.schema, epoch |-> e, rows |-> s.rows]
    BY <1>1, <1>9 DEF RunCommit
  <2>2. s \in Snapshots /\ Importable(s)
    BY <1>1, <2>1 DEF TransactionInvariant, StateStoreTypeOK, Staging
  <2>3. s.schema \in Versions /\ s.epoch \in Nat /\ s.rows \in [Keys -> Row \cup {null}]
    BY <2>2 DEF Snapshots
  <2> HIDE DEF s
  <2>4. e \in Nat /\ e > disk.epoch /\ e >= s.epoch
    BY <1>1, <2>3 DEF MergedEpoch
  <2>5. disk' \in Snapshots
    BY <2>1, <2>3, <2>4 DEF Snapshots
  <2>6. \A k \in Keys : s.rows[k] # null => s.rows[k].revision \in Nat
    BY <2>3 DEF Row
  <2>7. \A k \in Keys : s.rows[k] # null => s.rows[k].revision <= e
    BY <2>2, <2>3, <2>4, <2>6 DEF Importable
  <2> HIDE DEF e
  <2>8. disk'.epoch > disk.epoch /\ (disk'.epoch <= MaxSafe => Importable(disk)')
    BY <2>1, <2>4, <2>7 DEF Importable
  <2> QED
    BY <2>5, <2>8 DEF MovesOn
<1> QED
  BY <1>4, <1>6, <1>7, <1>8, <1>9

-----------------------------------------------------------------------------
(* The tabs.                                                               *)

TabSame(u) ==
    /\ client'[u] = client[u] /\ disposed'[u] = disposed[u]
    /\ waiting'[u] = waiting[u] /\ inbox'[u] = inbox[u] /\ running'[u] = running[u]
    /\ staged'[u] = staged[u] /\ stageSeq'[u] = stageSeq[u]
    /\ told'[u] = told[u] /\ spent'[u] = spent[u]
    /\ lost'[u] = lost[u] /\ died'[u] = died[u]

\* A step of one tab.
TabStep(t) ==
    \/ Construct(t) \/ Dispose(t) \/ WorkerDies(t)
    \/ \E r \in CallerRequests(t) : Call(t, r)
    \/ Begin(t) \/ Run(t)

\* A tab's step leaves the other tabs as they are, and changes the database
\* only inside its own transaction.
Footprint(t) ==
    /\ \A u \in Tabs \ {t} : TabSame(u)
    /\ running'[t] = running[t] \/ running'[t] = null
       \/ (running'[t] = disk.epoch /\ \A u \in Tabs : running[u] = null)
    /\ \/ disk' = disk /\ (exports' = exports \/ exports' = exports \cup {disk})
       \/ running[t] # null /\ running'[t] = null /\ MovesOn /\ exports' = exports

(* A terminated client's tab is the only one that changes. *)
LEMMA TerminateFootprint ==
    ASSUME StateStoreTypeOK, NEW t \in Tabs, NEW posted, Terminate(t, posted),
           disposed' = disposed,
           died' = died \/ died' = [died EXCEPT ![t] = TRUE]
    PROVE  Footprint(t)
BY DEF Terminate, Footprint, TabSame, StateStoreTypeOK

(* An answer touches only the tab that gets it. *)
LEMMA AnswerFootprint ==
    ASSUME StateStoreTypeOK, NEW t \in Tabs, NEW e, Answer(t, e)
    PROVE  /\ running'[t] = null /\ client'[t] = client[t] /\ waiting'[t] = waiting[t]
           /\ disposed'[t] = disposed[t] /\ lost'[t] = lost[t] /\ died'[t] = died[t]
           /\ inbox'[t] = Tail(inbox[t])
           /\ \A u \in Tabs \ {t} :
                 /\ client'[u] = client[u] /\ disposed'[u] = disposed[u]
                 /\ waiting'[u] = waiting[u] /\ inbox'[u] = inbox[u]
                 /\ running'[u] = running[u] /\ lost'[u] = lost[u] /\ died'[u] = died[u]
BY DEF Answer, StateStoreTypeOK

(* The footprint of a tab's step. *)
LEMMA StepFootprint ==
    ASSUME TransactionInvariant, NEW t \in Tabs, TabStep(t)
    PROVE  Footprint(t)
<1>1. StateStoreTypeOK
  BY DEF TransactionInvariant
<1>2. ASSUME Construct(t) PROVE Footprint(t)
  BY <1>1, <1>2 DEF Construct, Footprint, TabSame, StateStoreTypeOK
<1>3. ASSUME Dispose(t) \/ Begin(t) \/ (\E r \in CallerRequests(t) : Call(t, r))
      PROVE  Footprint(t)
  <2>1. CASE Dispose(t)
    BY <1>1, <2>1 DEF Dispose, Footprint, TabSame, StateStoreTypeOK
  <2>2. CASE Begin(t)
    BY <1>1, <2>2 DEF Begin, Footprint, TabSame, StateStoreTypeOK
  <2>3. ASSUME NEW r \in CallerRequests(t), Call(t, r) PROVE Footprint(t)
    BY <1>1, <2>3 DEF Call, Footprint, TabSame, StateStoreTypeOK
  <2> QED
    BY <1>3, <2>1, <2>2, <2>3
<1>4. ASSUME WorkerDies(t) \/ NeverReady(t) \/ RunDispose(t) PROVE Footprint(t)
  BY <1>1, <1>4, TerminateFootprint DEF WorkerDies, NeverReady, RunDispose
<1>5. ASSUME Refuse(t) PROVE Footprint(t)
  BY <1>1, <1>5, AnswerFootprint DEF Refuse, Footprint, TabSame
<1>6. ASSUME RunInitialize(t), ~NeverReady(t) PROVE Footprint(t)
  BY <1>1, <1>6 DEF RunInitialize, Footprint, TabSame, StateStoreTypeOK
<1>7. ASSUME RunRead(t) \/ RunExport(t) PROVE Footprint(t)
  <2>1. \E e : Answer(t, e)
    BY <1>7 DEF RunRead, RunExport
  <2>2. /\ UNCHANGED <<disk, staged, stageSeq, told, spent>>
        /\ exports' = exports \/ exports' = exports \cup {disk}
    BY <1>7 DEF RunRead, RunExport
  <2> QED
    BY <1>1, <2>1, <2>2, AnswerFootprint DEF Footprint, TabSame
<1>8. ASSUME RunBatch(t) \/ RunMigrate(t) \/ RunReset(t) \/ RunCommit(t), ~Refuse(t)
      PROVE  Footprint(t)
  <2>1. MovesOn
    BY <1>8, DiskMoves
  <2>2. running[t] # null /\ \E e : Answer(t, e)
    BY <1>8 DEF RunBatch, RunMigrate, RunReset, RunCommit, Serving
  <2>3. /\ exports' = exports
        /\ \A u \in Tabs \ {t} : /\ staged'[u] = staged[u] /\ stageSeq'[u] = stageSeq[u]
                                 /\ told'[u] = told[u] /\ spent'[u] = spent[u]
    BY <1>1, <1>8 DEF RunBatch, RunMigrate, RunReset, RunCommit, StateStoreTypeOK
  <2> QED
    BY <1>1, <2>1, <2>2, <2>3, AnswerFootprint DEF Footprint, TabSame
<1>9. ASSUME RunStage(t) \/ RunDiscard(t), ~Refuse(t) PROVE Footprint(t)
  <2>1. Answer(t, known[t])
    BY <1>9 DEF RunStage, RunDiscard
  <2>2. /\ UNCHANGED <<disk, exports>>
        /\ \A u \in Tabs \ {t} : /\ staged'[u] = staged[u] /\ stageSeq'[u] = stageSeq[u]
                                 /\ told'[u] = told[u] /\ spent'[u] = spent[u]
    BY <1>1, <1>9 DEF RunStage, RunDiscard, StateStoreTypeOK
  <2> QED
    BY <1>1, <2>1, <2>2, AnswerFootprint DEF Footprint, TabSame
<1>10. ASSUME RunFails(t) PROVE Footprint(t)
  <2>1. \/ NeverReady(t) \/ Refuse(t)
        \/ Terminate(t, Tail(inbox[t])) /\ UNCHANGED <<disposed, died, calls>>
    BY <1>10 DEF RunFails
  <2> QED
    BY <1>1, <1>4, <1>5, <2>1, TerminateFootprint
<1> QED
  BY <1>2, <1>3, <1>4, <1>5, <1>6, <1>7, <1>8, <1>9, <1>10 DEF TabStep, Run

(* The other tabs keep their part of the invariant: the epoch that they have
   read does not change under them. *)
LEMMA OthersKeep ==
    ASSUME TransactionInvariant, NEW t \in Tabs, Footprint(t), NEW u \in Tabs, u # t
    PROVE  TabInvariant(u)'
<1>1. TabSame(u) /\ TabInvariant(u)
  BY DEF Footprint, TransactionInvariant
<1>2. Lifecycle(u)' /\ (~died[u] => lost[u] = 0)'
  BY <1>1 DEF TabSame, TabInvariant, Lifecycle
<1>3. Posted(u)'
  BY <1>1 DEF TabSame, TabInvariant, Posted, MayBePosted
<1>4. Staging(u)'
  BY <1>1 DEF TabSame, TabInvariant, Staging, Importable
<1>5. ReadsTheEpoch(u)'
  <2>1. running[u] # null => disk' = disk
    BY DEF Footprint, TransactionInvariant, Exclusive
  <2> QED
    BY <1>1, <2>1 DEF TabSame, TabInvariant, ReadsTheEpoch
<1> QED
  BY <1>2, <1>3, <1>4, <1>5 DEF TabInvariant

(* No two transactions run at once, the files that were exported keep their
   epochs, and no row becomes newer than its database. *)
LEMMA DatabaseKeeps ==
    ASSUME TransactionInvariant, NEW t \in Tabs, Footprint(t)
    PROVE  Exclusive' /\ EpochIdentifiesState' /\ RevisionsWithinEpoch'
<1>1. Exclusive'
  BY DEF Footprint, TabSame, TransactionInvariant, Exclusive
<1>2. /\ disk \in Snapshots /\ disk.epoch \in Nat /\ MaxSafe \in Nat
      /\ \A x \in exports : x \in Snapshots /\ x.epoch \in Nat
  BY StateStoreAssumption DEF TransactionInvariant, StateStoreTypeOK, Snapshots
<1>3. CASE disk' = disk /\ exports' \subseteq exports \cup {disk}
  BY <1>1, <1>2, <1>3
     DEF TransactionInvariant, EpochIdentifiesState, RevisionsWithinEpoch, Importable
<1>4. CASE MovesOn /\ disk' # disk /\ exports' = exports
  <2>1. disk'.epoch \in Nat /\ disk'.epoch > disk.epoch
    BY <1>4 DEF MovesOn, Snapshots
  <2>2. EpochIdentifiesState'
    BY <1>2, <1>4, <2>1 DEF TransactionInvariant, EpochIdentifiesState
  <2>3. RevisionsWithinEpoch'
    BY <1>4 DEF TransactionInvariant, RevisionsWithinEpoch, MovesOn, Importable
  <2> QED
    BY <1>1, <2>2, <2>3
<1> QED
  BY <1>3, <1>4 DEF Footprint

(* terminate() leaves nothing under way; calls are lost only by a death. *)
LEMMA TerminateKeeps ==
    ASSUME TransactionInvariant, NEW t \in Tabs, NEW posted \in Seq(Requests),
           Terminate(t, posted), posted = <<>> \/ died'[t],
           died' = died \/ died' = [died EXCEPT ![t] = TRUE]
    PROVE  TabInvariant(t)'
<1>1. StateStoreTypeOK /\ Staging(t)
  BY DEF TransactionInvariant, TabInvariant
<1>2. /\ client'[t] = "none" /\ inbox'[t] = <<>> /\ waiting'[t] = <<>>
      /\ running'[t] = null /\ staged'[t] = null /\ lost'[t] = Len(posted)
      /\ UNCHANGED <<stageSeq, told, spent>>
  BY <1>1 DEF Terminate, StateStoreTypeOK
<1>3. Lifecycle(t)' /\ Posted(t)' /\ ReadsTheEpoch(t)'
  BY <1>2 DEF Lifecycle, Posted, ReadsTheEpoch
<1>4. Staging(t)'
  BY <1>1, <1>2 DEF Staging
<1>5. ~died'[t] => lost'[t] = 0
  BY <1>2
<1> QED
  BY <1>3, <1>4, <1>5 DEF TabInvariant

(* An answer takes the head of the inbox, and what is behind it still fits. *)
LEMMA AnswerKeeps ==
    ASSUME TransactionInvariant, NEW t \in Tabs, inbox[t] # <<>>,
           client[t] = "ready", NEW e, Answer(t, e),
           stageSeq'[t] \in Nat, stageSeq'[t] >= stageSeq[t], Staging(t)'
    PROVE  TabInvariant(t)'
<1>1. StateStoreTypeOK /\ TabInvariant(t)
  BY DEF TransactionInvariant
<1>2. /\ running'[t] = null /\ client'[t] = "ready" /\ waiting'[t] = waiting[t]
      /\ disposed'[t] = disposed[t] /\ lost'[t] = lost[t] /\ died'[t] = died[t]
      /\ inbox'[t] = Tail(inbox[t])
  BY <1>1, AnswerFootprint
<1>3. Lifecycle(t)' /\ ReadsTheEpoch(t)' /\ (~died'[t] => lost'[t] = 0)
  BY <1>1, <1>2 DEF TabInvariant, Lifecycle, ReadsTheEpoch
<1>4. Posted(t)'
  <2>1. /\ inbox[t] \in Seq(Requests) /\ stageSeq[t] \in Nat
        /\ Len(inbox[t]) \in Nat /\ Len(inbox'[t]) = Len(inbox[t]) - 1
        /\ \A i \in 1 .. Len(inbox'[t]) :
              i + 1 \in 1 .. Len(inbox[t]) /\ inbox'[t][i] = inbox[t][i + 1]
    BY <1>1, <1>2 DEF StateStoreTypeOK
  <2>2. ASSUME NEW i \in 1 .. Len(inbox'[t])
        PROVE  /\ MayBePosted(t, inbox[t][i])'
               /\ inbox'[t][i].op = "dispose" => disposed'[t] /\ i = Len(inbox'[t])
    <3>1. /\ MayBePosted(t, inbox[t][i + 1])
          /\ inbox[t][i + 1].op = "dispose" => disposed[t] /\ i + 1 = Len(inbox[t])
      BY <1>1, <1>2, <2>1 DEF TabInvariant, Posted
    <3>2. MayBePosted(t, inbox[t][i])'
      <4>1. inbox'[t][i] = inbox[t][i + 1]
        BY <2>1
      <4>2. 1 .. stageSeq[t] \subseteq 1 .. stageSeq'[t]
        BY <2>1
      <4> QED
        BY <3>1, <4>1, <4>2 DEF MayBePosted
    <3>3. inbox'[t][i].op = "dispose" => disposed'[t] /\ i = Len(inbox'[t])
      BY <1>2, <2>1, <3>1
    <3> QED
      BY <3>2, <3>3
  <2>3. waiting'[t] = <<>>
    BY <1>1, <1>2 DEF TabInvariant, Lifecycle
  <2> QED
    BY <2>2, <2>3 DEF Posted
<1> QED
  BY <1>3, <1>4 DEF TabInvariant

(* What a caller asks for may be posted. *)
LEMMA CallersAskWhatMayBePosted ==
    ASSUME TransactionInvariant, NEW t \in Tabs, NEW r \in CallerRequests(t)
    PROVE  MayBePosted(t, r) /\ r.op # "dispose"
<1>1. /\ known[t] \in Expected /\ null \in Expected
      /\ Foreign \cup exports \subseteq Snapshots
      /\ DOMAIN told[t] = 1 .. stageSeq[t]
      /\ DOMAIN told[t] \subseteq Nat
  BY StateStoreAssumption
     DEF TransactionInvariant, StateStoreTypeOK, TabInvariant, Staging, Expected
<1>2. r \in Requests /\ r.op # "dispose"
  BY <1>1 DEF CallerRequests, Requests, Versions
<1>3. r.op # "initialize" /\ (r.op = "migrate" => r.from = 1)
  BY DEF CallerRequests
<1>4. r.op \in {"discard", "commit"} => r.id \in 1 .. stageSeq[t]
  BY <1>1 DEF CallerRequests
<1> QED
  BY <1>2, <1>3, <1>4 DEF MayBePosted

(* A sequence and one more element at its end. *)
LEMMA Appended ==
    ASSUME NEW S, NEW s \in Seq(S), NEW e \in S
    PROVE  /\ Append(s, e) \in Seq(S) /\ Len(Append(s, e)) = Len(s) + 1
           /\ Len(s) \in Nat
           /\ \A i \in 1 .. Len(s) : Append(s, e)[i] = s[i]
           /\ Append(s, e)[Len(s) + 1] = e
BY AppendProperties

(* A staged import gets a fresh id; a discarded or committed one is gone. *)
LEMMA StagingKeeps ==
    ASSUME TransactionInvariant, NEW t \in Tabs, inbox[t] # <<>>,
           RunStage(t) \/ RunDiscard(t) \/ RunCommit(t), ~Refuse(t)
    PROVE  Staging(t)' /\ stageSeq'[t] \in Nat /\ stageSeq'[t] >= stageSeq[t]
<1>1. /\ StateStoreTypeOK /\ Staging(t) /\ stageSeq[t] \in Nat
      /\ told[t] \in Seq(Snapshots)
      /\ Head(inbox[t]) \in Requests /\ null \notin [id : Nat, snapshot : Snapshots]
      /\ staged[t] # null => staged[t] \in [id : Nat, snapshot : Snapshots]
  BY Served, StateStoreAssumption DEF TransactionInvariant, TabInvariant, StateStoreTypeOK
<1>2. CASE RunStage(t)
  <2> DEFINE s == Head(inbox[t]).snapshot
  <2>1. /\ Importable(s) /\ s \in Snapshots
        /\ stageSeq' = [stageSeq EXCEPT ![t] = @ + 1]
        /\ staged' = [staged EXCEPT ![t] = [id |-> stageSeq[t] + 1, snapshot |-> s]]
        /\ told' = [told EXCEPT ![t] = Append(@, s)]
        /\ spent' = spent
    BY <1>1, <1>2, RequestFields DEF RunStage, Serving
  <2> HIDE DEF s
  <2>2. /\ stageSeq'[t] = stageSeq[t] + 1 /\ told'[t] = Append(told[t], s)
        /\ staged'[t] = [id |-> stageSeq[t] + 1, snapshot |-> s] /\ spent'[t] = spent[t]
    BY <1>1, <2>1 DEF StateStoreTypeOK
  <2>3. Len(told'[t]) = stageSeq'[t] /\ told'[t][stageSeq[t] + 1] = s
    BY <1>1, <2>1, <2>2, Appended DEF Staging
  <2>4. spent'[t] \subseteq 1 .. stageSeq'[t] /\ stageSeq[t] + 1 \notin spent'[t]
    BY <1>1, <2>2 DEF Staging
  <2>5. Importable(staged[t].snapshot)'
    BY <2>1, <2>2 DEF Importable
  <2> QED
    BY <1>1, <2>2, <2>3, <2>4, <2>5 DEF Staging
<1>3. CASE RunDiscard(t)
  <2> DEFINE id == Head(inbox[t]).id
  <2>1. client[t] = "ready" /\ id \in 1 .. stageSeq[t]
    BY <1>3, Served DEF RunDiscard, Serving, MayBePosted
  <2>2. /\ stageSeq' = stageSeq /\ told' = told /\ spent'[t] = spent[t] \cup {id}
        /\ \/ staged'[t] = null
           \/ staged'[t] = staged[t] /\ (staged[t] # null => staged[t].id # id)
    BY <1>1, <1>3 DEF RunDiscard, StateStoreTypeOK
  <2> QED
    BY <1>1, <2>1, <2>2 DEF Staging, Importable
<1>4. CASE RunCommit(t)
  <2>1. client[t] = "ready" /\ Head(inbox[t]).id \in 1 .. stageSeq[t]
    BY <1>4, Served DEF RunCommit, Serving, MayBePosted
  <2>2. /\ stageSeq' = stageSeq /\ told' = told /\ staged'[t] = null
        /\ spent'[t] = spent[t] \cup {Head(inbox[t]).id}
    BY <1>1, <1>4 DEF RunCommit, StateStoreTypeOK
  <2> QED
    BY <1>1, <2>1, <2>2 DEF Staging
<1> QED
  BY <1>2, <1>3, <1>4

(* A tab's own step keeps its part of the invariant. *)
LEMMA OwnKeeps ==
    ASSUME TransactionInvariant, NEW t \in Tabs, TabStep(t)
    PROVE  TabInvariant(t)'
<1>1. /\ StateStoreTypeOK /\ TabInvariant(t)
      /\ inbox[t] \in Seq(Requests) /\ waiting[t] \in Seq(Requests)
      /\ stageSeq[t] \in Nat /\ Len(inbox[t]) \in Nat /\ Len(waiting[t]) \in Nat
  BY DEF TransactionInvariant, StateStoreTypeOK
<1>2. ASSUME Construct(t) PROVE TabInvariant(t)'
  <2>1. /\ client'[t] = "starting" /\ inbox'[t] = <<[op |-> "initialize"]>>
        /\ waiting'[t] = <<>> /\ running'[t] = null /\ staged'[t] = null
        /\ stageSeq'[t] = 0 /\ told'[t] = <<>> /\ spent'[t] = {} /\ lost'[t] = 0
    BY <1>1, <1>2 DEF Construct, StateStoreTypeOK, TabInvariant, Lifecycle
  <2> QED
    BY <2>1 DEF TabInvariant, Lifecycle, Posted, Staging, ReadsTheEpoch
<1>3. ASSUME NEW r \in CallerRequests(t), Call(t, r) PROVE TabInvariant(t)'
  <2>1. MayBePosted(t, r) /\ r.op # "dispose" /\ r \in Requests
    BY CallersAskWhatMayBePosted DEF MayBePosted
  <2>2. /\ client[t] # "none" /\ client' = client /\ disposed' = disposed /\ ~disposed[t]
        /\ UNCHANGED <<disk, running, staged, stageSeq, told, spent, lost, died>>
    BY <1>3 DEF Call
  <2>3. Staging(t)' /\ ReadsTheEpoch(t)' /\ (~died'[t] => lost'[t] = 0)
    BY <1>1, <2>2 DEF TabInvariant, Staging, ReadsTheEpoch, Importable
  <2>4. CASE client[t] = "ready"
    <3>1. inbox'[t] = Append(inbox[t], r) /\ waiting' = waiting
      BY <1>1, <1>3, <2>4 DEF Call, StateStoreTypeOK
    <3>2. Lifecycle(t)'
      BY <1>1, <2>2, <2>4, <3>1 DEF TabInvariant, Lifecycle
    <3>3. /\ Len(inbox'[t]) = Len(inbox[t]) + 1
          /\ \A i \in 1 .. Len(inbox[t]) : inbox'[t][i] = inbox[t][i]
          /\ inbox'[t][Len(inbox[t]) + 1] = r
      BY <1>1, <2>1, <3>1, Appended
    <3>4. \A i \in 1 .. Len(inbox[t]) :
             MayBePosted(t, inbox[t][i]) /\ inbox[t][i].op # "dispose"
      BY <1>1, <2>2, <2>4 DEF TabInvariant, Posted
    <3>5. ASSUME NEW i \in 1 .. Len(inbox'[t])
          PROVE  MayBePosted(t, inbox[t][i])' /\ inbox'[t][i].op # "dispose"
      <4>1. i \in 1 .. Len(inbox[t]) \/ i = Len(inbox[t]) + 1
        BY <1>1, <3>3
      <4> QED
        BY <2>1, <2>2, <3>3, <3>4, <4>1 DEF MayBePosted
    <3>6. Posted(t)'
      BY <1>1, <2>2, <3>1, <3>5 DEF TabInvariant, Posted, MayBePosted
    <3> QED
      BY <2>3, <3>2, <3>6 DEF TabInvariant
  <2>5. CASE client[t] # "ready"
    <3>1. waiting'[t] = Append(waiting[t], r) /\ inbox' = inbox
      BY <1>1, <1>3, <2>5 DEF Call, StateStoreTypeOK
    <3>2. Lifecycle(t)'
      BY <1>1, <2>2, <2>5, <3>1 DEF TabInvariant, Lifecycle
    <3>3. /\ Len(waiting'[t]) = Len(waiting[t]) + 1
          /\ \A i \in 1 .. Len(waiting[t]) : waiting'[t][i] = waiting[t][i]
          /\ waiting'[t][Len(waiting[t]) + 1] = r
      BY <1>1, <2>1, <3>1, Appended
    <3>4. ASSUME NEW i \in 1 .. Len(waiting'[t])
          PROVE  MayBePosted(t, waiting[t][i])' /\ waiting'[t][i].op # "dispose"
      <4>1. i \in 1 .. Len(waiting[t]) \/ i = Len(waiting[t]) + 1
        BY <1>1, <3>3
      <4> QED
        BY <1>1, <2>1, <2>2, <3>3, <4>1 DEF TabInvariant, Posted, MayBePosted
    <3>5. Posted(t)'
      BY <2>2, <2>5, <3>4 DEF Posted
    <3> QED
      BY <2>3, <3>2, <3>5 DEF TabInvariant
  <2> QED
    BY <2>4, <2>5
<1>4. ASSUME Dispose(t) PROVE TabInvariant(t)'
  <2>1. /\ client[t] # "none" /\ client' = client /\ disposed'[t] = TRUE /\ ~disposed[t]
        /\ UNCHANGED <<disk, waiting, running, staged, stageSeq, told, spent, lost, died>>
    BY <1>1, <1>4 DEF Dispose, StateStoreTypeOK
  <2>2. Staging(t)' /\ ReadsTheEpoch(t)' /\ (~died'[t] => lost'[t] = 0)
    BY <1>1, <2>1 DEF TabInvariant, Staging, ReadsTheEpoch, Importable
  <2>3. CASE client[t] = "ready"
    <3> DEFINE d == [op |-> "dispose"]
    <3>1. inbox'[t] = Append(inbox[t], d) /\ d \in Requests /\ d.op = "dispose"
      BY <1>1, <1>4, <2>3 DEF Dispose, StateStoreTypeOK, Requests
    <3> HIDE DEF d
    <3>2. /\ Len(inbox'[t]) = Len(inbox[t]) + 1
          /\ \A i \in 1 .. Len(inbox[t]) : inbox'[t][i] = inbox[t][i]
          /\ inbox'[t][Len(inbox[t]) + 1] = d
      BY <1>1, <3>1, Appended
    <3>3. \A i \in 1 .. Len(inbox[t]) :
             MayBePosted(t, inbox[t][i]) /\ inbox[t][i].op # "dispose"
      BY <1>1, <2>1, <2>3 DEF TabInvariant, Posted
    <3>4. MayBePosted(t, d)
      BY <3>1 DEF MayBePosted
    <3>5. ASSUME NEW i \in 1 .. Len(inbox'[t])
          PROVE  /\ MayBePosted(t, inbox[t][i])'
                 /\ inbox'[t][i].op = "dispose" => i = Len(inbox'[t])
      <4>1. i \in 1 .. Len(inbox[t]) \/ i = Len(inbox[t]) + 1
        BY <1>1, <3>2
      <4> QED
        BY <2>1, <3>2, <3>3, <3>4, <4>1 DEF MayBePosted
    <3>6. Posted(t)'
      BY <1>1, <2>1, <3>5 DEF TabInvariant, Posted, MayBePosted
    <3>7. Lifecycle(t)'
      BY <1>1, <2>1, <2>3 DEF TabInvariant, Lifecycle
    <3> QED
      BY <2>2, <3>6, <3>7 DEF TabInvariant
  <2>4. CASE client[t] # "ready"
    <3>1. inbox' = inbox
      BY <1>4, <2>4 DEF Dispose
    <3>2. Lifecycle(t)' /\ Posted(t)'
      BY <1>1, <2>1, <2>4, <3>1 DEF TabInvariant, Lifecycle, Posted, MayBePosted
    <3> QED
      BY <2>2, <3>2 DEF TabInvariant
  <2> QED
    BY <2>3, <2>4
<1>5. ASSUME Begin(t) PROVE TabInvariant(t)'
  <2>1. /\ running'[t] = disk.epoch /\ inbox[t] # <<>>
        /\ UNCHANGED <<disk, client, disposed, waiting, inbox, staged, stageSeq, told,
                       spent, lost, died>>
    BY <1>1, <1>5 DEF Begin, StateStoreTypeOK
  <2>2. Lifecycle(t)' /\ Posted(t)'
    BY <1>1, <2>1 DEF TabInvariant, Lifecycle, Posted, MayBePosted
  <2>3. Staging(t)' /\ ReadsTheEpoch(t)'
    BY <1>1, <2>1 DEF TabInvariant, Staging, ReadsTheEpoch, Importable
  <2> QED
    BY <1>1, <2>1, <2>2, <2>3 DEF TabInvariant
<1>6. ASSUME WorkerDies(t) \/ (NeverReady(t) /\ inbox[t] # <<>>) PROVE TabInvariant(t)'
  <2>1. Tail(inbox[t]) \in Seq(Requests) \/ inbox[t] = <<>>
    BY <1>1
  <2>2. died' = [died EXCEPT ![t] = TRUE] /\ died'[t] = TRUE
    BY <1>1, <1>6 DEF WorkerDies, NeverReady, StateStoreTypeOK
  <2> QED
    BY <1>1, <1>6, <2>1, <2>2, TerminateKeeps DEF WorkerDies, NeverReady
<1>7. ASSUME Serving(t, "dispose") \/ (inbox[t] # <<>> /\ Head(inbox[t]).op = "dispose"),
             Terminate(t, Tail(inbox[t])), died' = died
      PROVE  TabInvariant(t)'
  <2>1. inbox[t] # <<>> /\ Head(inbox[t]).op = "dispose"
    BY <1>7 DEF Serving
  <2>2. client[t] = "ready" /\ Head(inbox[t]) = inbox[t][1] /\ 1 \in 1 .. Len(inbox[t])
    BY <2>1, Served
  <2>3. Len(inbox[t]) = 1
    BY <1>1, <2>1, <2>2 DEF TabInvariant, Posted
  <2>4. Tail(inbox[t]) \in Seq(Requests) /\ Tail(inbox[t]) = <<>>
    <3>1. Tail(inbox[t]) \in Seq(Requests) /\ Len(Tail(inbox[t])) = Len(inbox[t]) - 1
      BY <1>1, <2>1
    <3>2. Len(Tail(inbox[t])) = 0
      BY <2>3, <3>1
    <3> QED
      BY <3>1, <3>2, EmptySeq
  <2> QED
    BY <1>7, <2>4, TerminateKeeps
<1>8. ASSUME RunInitialize(t), ~NeverReady(t) PROVE TabInvariant(t)'
  <2>1. /\ client'[t] = "ready" /\ waiting'[t] = <<>> /\ running'[t] = null
        /\ inbox'[t] = IF disposed[t] THEN <<[op |-> "dispose"]>> ELSE waiting[t]
        /\ UNCHANGED <<disk, disposed, staged, stageSeq, told, spent, lost, died>>
    BY <1>1, <1>8 DEF RunInitialize, StateStoreTypeOK
  <2>2. Staging(t)' /\ ReadsTheEpoch(t)' /\ Lifecycle(t)' /\ (~died'[t] => lost'[t] = 0)
    BY <1>1, <2>1 DEF TabInvariant, Staging, ReadsTheEpoch, Lifecycle, Importable
  <2>3. CASE disposed[t]
    <3> DEFINE d == [op |-> "dispose"]
    <3>1. inbox'[t] = <<d>> /\ MayBePosted(t, d)
      BY <2>1, <2>3 DEF MayBePosted, Requests
    <3> HIDE DEF d
    <3>2. \A i \in 1 .. Len(inbox'[t]) : i = 1 /\ inbox'[t][i] = d /\ i = Len(inbox'[t])
      BY <3>1
    <3>3. Posted(t)'
      BY <2>1, <2>3, <3>1, <3>2 DEF Posted, MayBePosted
    <3> QED
      BY <2>2, <3>3 DEF TabInvariant
  <2>4. CASE ~disposed[t]
    <3>1. inbox'[t] = waiting[t]
      BY <2>1, <2>4
    <3>2. ASSUME NEW i \in 1 .. Len(inbox'[t])
          PROVE  MayBePosted(t, inbox[t][i])' /\ inbox'[t][i].op # "dispose"
      BY <1>1, <2>1, <3>1 DEF TabInvariant, Posted, MayBePosted
    <3>3. Posted(t)'
      BY <2>1, <3>2 DEF Posted
    <3> QED
      BY <2>2, <3>3 DEF TabInvariant
  <2> QED
    BY <2>3, <2>4
<1>9. ASSUME inbox[t] # <<>>, Head(inbox[t]).op # "initialize", NEW e, Answer(t, e),
             UNCHANGED <<staged, stageSeq, told, spent>>
      PROVE  TabInvariant(t)'
  <2>1. client[t] = "ready"
    BY <1>9, Served
  <2>2. Staging(t)' /\ stageSeq'[t] \in Nat /\ stageSeq'[t] >= stageSeq[t]
    BY <1>1, <1>9 DEF TabInvariant, Staging, Importable
  <2> QED
    BY <1>9, <2>1, <2>2, AnswerKeeps
<1>10. ASSUME RunRead(t) \/ RunExport(t) \/ RunBatch(t) \/ RunMigrate(t) \/ RunReset(t)
       PROVE  TabInvariant(t)'
  <2>1. inbox[t] # <<>> /\ Head(inbox[t]).op # "initialize"
    BY <1>10 DEF RunRead, RunExport, RunBatch, RunMigrate, RunReset, Serving
  <2>2. (\E e : Answer(t, e)) /\ UNCHANGED <<staged, stageSeq, told, spent>>
    BY <1>10 DEF RunRead, RunExport, RunBatch, RunMigrate, RunReset, Refuse
  <2> QED
    BY <1>9, <2>1, <2>2
<1>11. ASSUME RunStage(t) \/ RunDiscard(t) \/ RunCommit(t) PROVE TabInvariant(t)'
  <2>1. inbox[t] # <<>> /\ Head(inbox[t]).op # "initialize" /\ client[t] = "ready"
    BY <1>11, Served DEF RunStage, RunDiscard, RunCommit, Serving
  <2>2. CASE Refuse(t)
    BY <1>9, <2>1, <2>2 DEF Refuse
  <2>3. CASE ~Refuse(t)
    <3>1. \E e : Answer(t, e)
      BY <1>11, <2>3 DEF RunStage, RunDiscard, RunCommit
    <3> QED
      BY <1>11, <2>1, <2>3, <3>1, StagingKeeps, AnswerKeeps
  <2> QED
    BY <2>2, <2>3
<1>12. ASSUME RunFails(t) PROVE TabInvariant(t)'
  <2>1. inbox[t] # <<>>
    BY <1>12 DEF RunFails
  <2>2. CASE Head(inbox[t]).op = "initialize"
    BY <1>6, <1>12, <2>1, <2>2 DEF RunFails
  <2>3. CASE Head(inbox[t]).op = "dispose"
    BY <1>7, <1>12, <2>1, <2>3 DEF RunFails
  <2>4. CASE Head(inbox[t]).op \notin {"initialize", "dispose"}
    BY <1>9, <1>12, <2>1, <2>4 DEF RunFails, Refuse
  <2> QED
    BY <2>2, <2>3, <2>4
<1>13. ASSUME RunInitialize(t) \/ RunDispose(t) PROVE TabInvariant(t)'
  BY <1>6, <1>7, <1>8, <1>13 DEF RunInitialize, RunDispose, Serving
<1> QED
  BY <1>2, <1>3, <1>4, <1>5, <1>6, <1>10, <1>11, <1>12, <1>13 DEF TabStep, Run

-----------------------------------------------------------------------------

(* The values that a step gives the variables have their types. *)
LEMMA TypeStep ==
    ASSUME TransactionInvariant, NEW t \in Tabs, TabStep(t)
    PROVE  StateStoreTypeOK'
<1>1. /\ StateStoreTypeOK /\ null \in Expected
      /\ MaxCalls \in Nat /\ MaxFaults \in Nat /\ null \notin Nat
  BY StateStoreAssumption DEF TransactionInvariant, Expected
<1>2. disk \in Snapshots /\ disk.epoch \in Nat /\ disk.epoch \in Expected
  BY <1>1 DEF StateStoreTypeOK, Snapshots, Expected
<1>3. ASSUME NEW posted \in Seq(Requests), Terminate(t, posted),
             disposed' = disposed, calls' = calls, faults' \in 0 .. MaxFaults,
             died' = died \/ died' = [died EXCEPT ![t] = TRUE]
      PROVE  StateStoreTypeOK'
  <2>1. Len(posted) \in Nat /\ <<>> \in Seq(Requests)
    OBVIOUS
  <2>2. died' \in [Tabs -> BOOLEAN]
    BY <1>1, <1>3, Zenon DEF StateStoreTypeOK
  <2> QED
    BY <1>1, <1>3, <2>1, <2>2 DEF Terminate, StateStoreTypeOK
<1>4. ASSUME NEW e \in Expected, Answer(t, e), inbox[t] # <<>>,
             disk' \in Snapshots, exports' \subseteq Snapshots,
             staged' \in [Tabs -> [id : Nat, snapshot : Snapshots] \cup {null}],
             stageSeq' \in [Tabs -> Nat], told' \in [Tabs -> Seq(Snapshots)],
             spent' \in [Tabs -> SUBSET Nat], faults' \in 0 .. MaxFaults
      PROVE  StateStoreTypeOK'
  <2>1. Tail(inbox[t]) \in Seq(Requests)
    BY <1>1, <1>4 DEF StateStoreTypeOK
  <2> QED
    BY <1>1, <1>4, <2>1 DEF Answer, StateStoreTypeOK
<1>5. ASSUME inbox[t] # <<>>, faults' \in 0 .. MaxFaults, Refuse(t)
      PROVE  StateStoreTypeOK'
  <2>1. known[t] \in Expected
    BY <1>1 DEF StateStoreTypeOK
  <2> QED
    BY <1>1, <1>4, <1>5, <2>1 DEF Refuse, StateStoreTypeOK
<1>6. ASSUME Construct(t) PROVE StateStoreTypeOK'
  <2>1. <<[op |-> "initialize"]>> \in Seq(Requests) /\ <<>> \in Seq(Snapshots)
    BY DEF Requests
  <2>2. calls' \in 0 .. MaxCalls
    BY <1>1, <1>6 DEF Construct, StateStoreTypeOK
  <2>3. disposed' \in [Tabs -> BOOLEAN] /\ died' \in [Tabs -> BOOLEAN]
    BY <1>1, <1>6, Zenon DEF Construct, StateStoreTypeOK
  <2> QED
    BY <1>1, <1>6, <2>1, <2>2, <2>3 DEF Construct, StateStoreTypeOK
<1>7. ASSUME NEW r \in CallerRequests(t), Call(t, r) PROVE StateStoreTypeOK'
  <2>1. r \in Requests
    BY CallersAskWhatMayBePosted DEF MayBePosted
  <2>2. Append(inbox[t], r) \in Seq(Requests) /\ Append(waiting[t], r) \in Seq(Requests)
    BY <1>1, <2>1 DEF StateStoreTypeOK
  <2>3. calls' \in 0 .. MaxCalls
    BY <1>1, <1>7 DEF Call, StateStoreTypeOK
  <2> QED
    BY <1>1, <1>7, <2>2, <2>3 DEF Call, StateStoreTypeOK
<1>8. ASSUME Dispose(t) PROVE StateStoreTypeOK'
  <2>1. [op |-> "dispose"] \in Requests
    BY DEF Requests
  <2>2. Append(inbox[t], [op |-> "dispose"]) \in Seq(Requests)
    BY <1>1, <2>1 DEF StateStoreTypeOK
  <2>3. calls' \in 0 .. MaxCalls
    BY <1>1, <1>8 DEF Dispose, StateStoreTypeOK
  <2>4. disposed' \in [Tabs -> BOOLEAN]
    BY <1>1, <1>8, Zenon DEF Dispose, StateStoreTypeOK
  <2> QED
    BY <1>1, <1>8, <2>2, <2>3, <2>4 DEF Dispose, StateStoreTypeOK
<1>9. ASSUME Begin(t) PROVE StateStoreTypeOK'
  BY <1>1, <1>2, <1>9 DEF Begin, StateStoreTypeOK
<1>10. ASSUME WorkerDies(t) PROVE StateStoreTypeOK'
  <2>1. faults' \in 0 .. MaxFaults /\ inbox[t] \in Seq(Requests)
    BY <1>1, <1>10 DEF WorkerDies, StateStoreTypeOK
  <2> QED
    BY <1>3, <1>10, <2>1 DEF WorkerDies
<1>11. ASSUME NeverReady(t), inbox[t] # <<>>, faults' \in 0 .. MaxFaults
       PROVE  StateStoreTypeOK'
  <2>1. Tail(inbox[t]) \in Seq(Requests)
    BY <1>1, <1>11 DEF StateStoreTypeOK
  <2> QED
    BY <1>3, <1>11, <2>1 DEF NeverReady
<1>12. ASSUME RunInitialize(t) PROVE StateStoreTypeOK'
  <2>1. inbox[t] # <<>> /\ faults' \in 0 .. MaxFaults
    BY <1>1, <1>12 DEF RunInitialize, Serving, StateStoreTypeOK
  <2>2. CASE NeverReady(t)
    BY <1>11, <2>1, <2>2
  <2>3. CASE ~NeverReady(t)
    <3>1. running[t] \in Expected
      BY <1>1 DEF StateStoreTypeOK, Expected
    <3>2. <<[op |-> "dispose"]>> \in Seq(Requests) /\ <<>> \in Seq(Requests)
      BY DEF Requests
    <3>3. inbox' \in [Tabs -> Seq(Requests)]
      <4> DEFINE next == IF disposed[t] THEN <<[op |-> "dispose"]>> ELSE waiting[t]
      <4>1. inbox' = [inbox EXCEPT ![t] = next]
        BY <1>12, <2>3 DEF RunInitialize
      <4>2. next \in Seq(Requests) /\ inbox \in [Tabs -> Seq(Requests)]
        BY <1>1, <3>2 DEF StateStoreTypeOK
      <4> HIDE DEF next
      <4> QED
        BY <4>1, <4>2
    <3>4. /\ client' \in [Tabs -> {"none", "starting", "ready"}]
          /\ waiting' \in [Tabs -> Seq(Requests)]
          /\ known' \in [Tabs -> Expected] /\ running' \in [Tabs -> Nat \cup {null}]
      <4>1. /\ client' = [client EXCEPT ![t] = "ready"]
            /\ waiting' = [waiting EXCEPT ![t] = <<>>]
            /\ known' = [known EXCEPT ![t] = running[t]]
            /\ running' = [running EXCEPT ![t] = null]
        BY <1>12, <2>3 DEF RunInitialize
      <4> QED
        BY <1>1, <3>1, <3>2, <4>1 DEF StateStoreTypeOK
    <3>5. UNCHANGED <<disk, exports, disposed, staged, stageSeq, told, spent, lost, died,
                      calls, faults>>
      BY <1>12, <2>3 DEF RunInitialize
    <3> QED
      BY <1>1, <3>3, <3>4, <3>5 DEF StateStoreTypeOK
  <2> QED
    BY <2>2, <2>3
<1>13. ASSUME RunRead(t) \/ RunExport(t) PROVE StateStoreTypeOK'
  <2>1. \E e \in Expected : Answer(t, e)
    BY <1>1, <1>13 DEF RunRead, RunExport, StateStoreTypeOK, Expected
  <2>2. inbox[t] # <<>> /\ exports' \subseteq exports \cup {disk}
        /\ UNCHANGED <<disk, staged, stageSeq, told, spent, faults>>
    BY <1>13 DEF RunRead, RunExport, Serving
  <2> QED
    BY <1>1, <1>4, <2>1, <2>2 DEF StateStoreTypeOK
<1>14. ASSUME RunBatch(t) \/ RunMigrate(t) \/ RunReset(t) \/ RunCommit(t)
       PROVE  StateStoreTypeOK'
  <2>1. inbox[t] # <<>> /\ running[t] # null /\ running[t] = disk.epoch /\ disk' \in Snapshots
    BY <1>14, DiskMoves, Served
       DEF RunBatch, RunMigrate, RunReset, RunCommit, Serving, MovesOn
  <2>2. faults' = faults
    BY <1>14 DEF RunBatch, RunMigrate, RunReset, RunCommit
  <2>3. CASE Refuse(t)
    BY <1>1, <1>5, <2>1, <2>2, <2>3 DEF StateStoreTypeOK
  <2>4. CASE ~Refuse(t)
    <3>1. \E e \in Expected : Answer(t, e)
      <4>1. ASSUME RunCommit(t) PROVE \E e \in Expected : Answer(t, e)
        <5>1. staged[t] # null /\ Answer(t, MergedEpoch(running[t], staged[t].snapshot.epoch))
          BY <2>4, <4>1 DEF RunCommit
        <5>2. staged[t].snapshot.epoch \in Nat
          BY <1>1, <5>1 DEF StateStoreTypeOK, Snapshots
        <5>3. MergedEpoch(running[t], staged[t].snapshot.epoch) \in Expected
          BY <1>2, <2>1, <5>2 DEF MergedEpoch, Expected
        <5> QED
          BY <5>1, <5>3
      <4>2. disk.epoch + 1 \in Expected
        BY <1>2 DEF Expected
      <4> QED
        BY <1>2, <1>14, <2>1, <2>4, <4>1, <4>2 DEF RunBatch, RunMigrate, RunReset
    <3>2. /\ exports' = exports /\ stageSeq' = stageSeq /\ told' = told
      BY <1>14, <2>4 DEF RunBatch, RunMigrate, RunReset, RunCommit
    <3>3. staged' \in [Tabs -> [id : Nat, snapshot : Snapshots] \cup {null}]
      BY <1>1, <1>14, <2>4 DEF RunBatch, RunMigrate, RunReset, RunCommit, StateStoreTypeOK
    <3>4. spent' \in [Tabs -> SUBSET Nat]
      <4>1. RunCommit(t) => Head(inbox[t]).id \in Nat
        BY <2>1, Served DEF RunCommit, Serving, MayBePosted, TransactionInvariant,
                            StateStoreTypeOK
      <4>2. CASE RunCommit(t)
        <5>1. spent' = [spent EXCEPT ![t] = @ \cup {Head(inbox[t]).id}]
          BY <2>4, <4>2 DEF RunCommit
        <5>2. spent[t] \cup {Head(inbox[t]).id} \in SUBSET Nat
          BY <1>1, <4>1, <4>2 DEF StateStoreTypeOK
        <5> QED
          BY <1>1, <5>1, <5>2 DEF StateStoreTypeOK
      <4>3. CASE ~RunCommit(t)
        BY <1>1, <1>14, <2>4, <4>3 DEF RunBatch, RunMigrate, RunReset, StateStoreTypeOK
      <4> QED
        BY <4>2, <4>3
    <3> QED
      BY <1>1, <1>4, <2>1, <2>2, <3>1, <3>2, <3>3, <3>4 DEF StateStoreTypeOK
  <2> QED
    BY <2>3, <2>4
<1>15. ASSUME RunStage(t) PROVE StateStoreTypeOK'
  <2> DEFINE s == Head(inbox[t]).snapshot
  <2>1. inbox[t] # <<>> /\ s \in Snapshots /\ faults' = faults /\ known[t] \in Expected
    BY <1>1, <1>15, Served, RequestFields DEF RunStage, Refuse, Serving, StateStoreTypeOK
  <2>2. CASE Refuse(t)
    BY <1>1, <1>5, <2>1, <2>2 DEF StateStoreTypeOK
  <2>3. CASE ~Refuse(t)
    <3>1. /\ Answer(t, known[t]) /\ UNCHANGED <<disk, exports, spent>>
          /\ stageSeq' = [stageSeq EXCEPT ![t] = @ + 1]
          /\ staged' = [staged EXCEPT ![t] = [id |-> stageSeq[t] + 1, snapshot |-> s]]
          /\ told' = [told EXCEPT ![t] = Append(@, s)]
      BY <1>15, <2>3 DEF RunStage
    <3> HIDE DEF s
    <3>2. stageSeq' \in [Tabs -> Nat]
      BY <1>1, <3>1 DEF StateStoreTypeOK
    <3>3. staged' \in [Tabs -> [id : Nat, snapshot : Snapshots] \cup {null}]
      BY <1>1, <2>1, <3>1 DEF StateStoreTypeOK
    <3>4. told' \in [Tabs -> Seq(Snapshots)]
      <4>1. Append(told[t], s) \in Seq(Snapshots)
        BY <1>1, <2>1 DEF StateStoreTypeOK
      <4> QED
        BY <1>1, <3>1, <4>1 DEF StateStoreTypeOK
    <3> QED
      BY <1>1, <1>4, <2>1, <3>1, <3>2, <3>3, <3>4 DEF StateStoreTypeOK
  <2> QED
    BY <2>2, <2>3
<1>16. ASSUME RunDiscard(t) PROVE StateStoreTypeOK'
  <2>1. /\ inbox[t] # <<>> /\ known[t] \in Expected /\ Answer(t, known[t])
        /\ UNCHANGED <<disk, exports, stageSeq, told, faults>>
    BY <1>1, <1>16 DEF RunDiscard, Serving, StateStoreTypeOK
  <2>2. Head(inbox[t]).id \in Nat
    BY <1>16, Served DEF RunDiscard, Serving, MayBePosted, TransactionInvariant,
                         StateStoreTypeOK
  <2>3. staged' \in [Tabs -> [id : Nat, snapshot : Snapshots] \cup {null}]
    BY <1>1, <1>16 DEF RunDiscard, StateStoreTypeOK
  <2>4. spent' \in [Tabs -> SUBSET Nat]
    BY <1>1, <1>16, <2>2 DEF RunDiscard, StateStoreTypeOK
  <2> QED
    BY <1>1, <1>4, <2>1, <2>3, <2>4 DEF StateStoreTypeOK
<1>17. ASSUME RunDispose(t) \/ RunFails(t) PROVE StateStoreTypeOK'
  <2>1. /\ inbox[t] # <<>> /\ faults' \in 0 .. MaxFaults
        /\ \/ NeverReady(t) \/ Refuse(t)
           \/ Terminate(t, Tail(inbox[t])) /\ UNCHANGED <<disposed, died, calls>>
    BY <1>1, <1>17 DEF RunDispose, RunFails, Serving, StateStoreTypeOK
  <2>2. Tail(inbox[t]) \in Seq(Requests)
    BY <1>1, <2>1 DEF StateStoreTypeOK
  <2> QED
    BY <1>3, <1>5, <1>11, <2>1, <2>2
<1> QED
  BY <1>6, <1>7, <1>8, <1>9, <1>10, <1>12, <1>13, <1>14, <1>15, <1>16, <1>17 DEF TabStep, Run

-----------------------------------------------------------------------------

(* The initial state satisfies the invariant. *)
LEMMA TransactionInit == StateStoreInit => TransactionInvariant
<1> SUFFICES ASSUME StateStoreInit PROVE TransactionInvariant
  OBVIOUS
<1>1. disk.epoch = 0 /\ (\A k \in Keys : disk.rows[k] = null) /\ disk \in Snapshots
  BY DEF StateStoreInit, Snapshots, Versions
<1>2. StateStoreTypeOK
  <2>1. disposed \in [Tabs -> BOOLEAN] /\ died \in [Tabs -> BOOLEAN]
    BY Zenon DEF StateStoreInit
  <2>2. calls \in 0 .. MaxCalls /\ faults \in 0 .. MaxFaults
    BY StateStoreAssumption DEF StateStoreInit
  <2>3. <<>> \in Seq(Requests) /\ <<>> \in Seq(Snapshots) /\ null \in Expected
    BY DEF Expected
  <2> QED
    BY <1>1, <2>1, <2>2, <2>3 DEF StateStoreInit, StateStoreTypeOK
<1>3. EpochIdentifiesState /\ RevisionsWithinEpoch /\ Exclusive
  BY <1>1 DEF StateStoreInit, EpochIdentifiesState, RevisionsWithinEpoch, Importable, Exclusive
<1>4. ASSUME NEW t \in Tabs PROVE TabInvariant(t)
  <2>1. Lifecycle(t) /\ Posted(t) /\ ReadsTheEpoch(t) /\ lost[t] = 0
    BY DEF StateStoreInit, Lifecycle, Posted, ReadsTheEpoch
  <2>2. Staging(t)
    BY DEF StateStoreInit, Staging
  <2> QED
    BY <2>1, <2>2 DEF TabInvariant
<1> QED
  BY <1>2, <1>3, <1>4 DEF TransactionInvariant

(* Every step of a tab keeps it. *)
LEMMA TransactionStep ==
    TransactionInvariant /\ [StateStoreNext]_storeVars => TransactionInvariant'
<1> SUFFICES ASSUME TransactionInvariant, [StateStoreNext]_storeVars
             PROVE  TransactionInvariant'
  OBVIOUS
<1>1. ASSUME NEW t \in Tabs, TabStep(t) PROVE TransactionInvariant'
  <2>1. Footprint(t)
    BY <1>1, StepFootprint
  <2>2. \A u \in Tabs : TabInvariant(u)'
    BY <1>1, <2>1, OthersKeep, OwnKeeps
  <2> QED
    BY <1>1, <2>1, <2>2, DatabaseKeeps, TypeStep DEF TransactionInvariant
<1>2. CASE UNCHANGED storeVars
  BY <1>2 DEF storeVars, tabVars, TransactionInvariant, StateStoreTypeOK,
     EpochIdentifiesState, RevisionsWithinEpoch, Importable, Exclusive, TabInvariant,
     Lifecycle, Posted, MayBePosted, Staging, ReadsTheEpoch
<1> QED
  BY <1>1, <1>2 DEF StateStoreNext, TabStep

(* The invariant holds for ever. *)
LEMMA TransactionAlways == StateStoreSpec => []TransactionInvariant
BY TransactionInit, TransactionStep, PTL DEF StateStoreSpec

(* An epoch names one state, what the store exports it accepts back, and a
   posted call is answered unless its Worker died, whichever tabs change,
   import, export and dispose() in between (store.ts, client.ts). *)
THEOREM EpochsIdentifyStates == StateStoreSpec => []StateStoreInvariant
<1>1. TransactionInvariant => StateStoreInvariant
  BY DEF TransactionInvariant, TabInvariant, StateStoreInvariant, PostedIsAnswered
<1> QED
  BY <1>1, TransactionAlways, PTL

(* The change that a step makes is the change its tab's message asks for. *)
LEMMA ChangeIsServed ==
    ASSUME TransactionInvariant, NEW t \in Tabs, TabStep(t), disk' # disk
    PROVE  /\ \A u \in Tabs : running[u] # null /\ running'[u] = null => u = t
           /\ RunBatch(t) \/ RunMigrate(t) \/ RunReset(t) \/ RunCommit(t)
           /\ ~Refuse(t)
<1>1. \A u \in Tabs : running[u] # null /\ running'[u] = null => u = t
  BY StepFootprint DEF Footprint, TabSame
<1>2. RunBatch(t) \/ RunMigrate(t) \/ RunReset(t) \/ RunCommit(t)
  BY DEF TabStep, Run, Construct, Dispose, WorkerDies, Call, Begin, RunInitialize, RunRead,
     RunExport, RunStage, RunDiscard, RunDispose, RunFails, NeverReady, Terminate, Refuse
<1>3. ~Refuse(t)
  BY DEF Refuse
<1> QED
  BY <1>1, <1>2, <1>3

(* A change made on condition of an epoch is made to the state of that epoch:
   no tab's transaction comes between the comparison and the change. *)
THEOREM ChangesAreConditional == StateStoreSpec => ConditionalChange
<1> DEFINE Conditional ==
       \A t \in Tabs :
        (/\ disk' # disk
         /\ running[t] # null /\ running'[t] = null
         /\ Head(inbox[t]).op \in {"batch", "migrate", "reset", "commit"})
        => Head(inbox[t]).expected \in {null, disk.epoch}
<1>1. TransactionInvariant /\ [StateStoreNext]_storeVars => [Conditional]_storeVars
  <2> SUFFICES ASSUME TransactionInvariant, StateStoreNext, disk' # disk, NEW t \in Tabs,
                      running[t] # null, running'[t] = null
               PROVE  Head(inbox[t]).expected \in {null, disk.epoch}
    OBVIOUS
  <2>1. PICK u \in Tabs : TabStep(u)
    BY DEF StateStoreNext, TabStep
  <2>2. u = t /\ ~Refuse(t)
    BY <2>1, ChangeIsServed
  <2>3. RunBatch(t) \/ RunMigrate(t) \/ RunReset(t) \/ RunCommit(t)
    BY <2>1, <2>2, ChangeIsServed
  <2>4. EpochMatches(t) /\ inbox[t] # <<>>
    BY <2>2, <2>3 DEF RunBatch, RunMigrate, RunReset, RunCommit, Serving
  <2>5. running[t] = disk.epoch
    BY <2>4, Served
  <2> QED
    BY <2>4, <2>5 DEF EpochMatches
<1>2. StateStoreSpec => [][Conditional]_storeVars
  BY <1>1, TransactionAlways, PTL DEF StateStoreSpec
<1> QED
  BY <1>2 DEF ConditionalChange

(* A commit puts in force the snapshot that was staged under its id, whole and
   once: the slot's id is compared, and an id is never given out twice. *)
THEOREM CommitsAreTrue == StateStoreSpec => CommitsWhatWasStaged
<1> DEFINE Committed ==
       \A t \in Tabs :
        (/\ running[t] # null /\ running'[t] = null /\ disk' # disk
         /\ Head(inbox[t]).op = "commit")
        => LET id == Head(inbox[t]).id IN
           /\ id \notin spent[t]
           /\ disk'.rows = told[t][id].rows
           /\ disk'.schema = told[t][id].schema
<1>1. TransactionInvariant /\ [StateStoreNext]_storeVars => [Committed]_storeVars
  <2> SUFFICES ASSUME TransactionInvariant, StateStoreNext, disk' # disk, NEW t \in Tabs,
                      running[t] # null, running'[t] = null, Head(inbox[t]).op = "commit"
               PROVE  LET id == Head(inbox[t]).id IN
                      /\ id \notin spent[t]
                      /\ disk'.rows = told[t][id].rows
                      /\ disk'.schema = told[t][id].schema
    OBVIOUS
  <2>1. PICK u \in Tabs : TabStep(u)
    BY DEF StateStoreNext, TabStep
  <2>2. u = t /\ ~Refuse(t)
    BY <2>1, ChangeIsServed
  <2>3. RunCommit(t)
    <3>1. RunBatch(t) \/ RunMigrate(t) \/ RunReset(t) \/ RunCommit(t)
      BY <2>1, <2>2, ChangeIsServed
    <3> QED
      BY <3>1 DEF RunBatch, RunMigrate, RunReset, Serving
  <2> DEFINE s == staged[t].snapshot
  <2>4. /\ staged[t] # null /\ staged[t].id = Head(inbox[t]).id
        /\ disk' = [schema |-> s.schema, epoch |-> MergedEpoch(running[t], s.epoch),
                    rows |-> s.rows]
    BY <2>2, <2>3 DEF RunCommit
  <2>5. Staging(t)
    BY DEF TransactionInvariant, TabInvariant
  <2> QED
    BY <2>4, <2>5 DEF Staging
<1>2. StateStoreSpec => [][Committed]_storeVars
  BY <1>1, TransactionAlways, PTL DEF StateStoreSpec
<1> QED
  BY <1>2 DEF CommitsWhatWasStaged
=============================================================================
