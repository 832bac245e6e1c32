------------------------ MODULE ChunkDatabaseProofs ------------------------
(***************************************************************************)
(* Proofs about ChunkDatabase, for any number of Workers, calls and faults *)
(* and any contents of the 0.2.x stores.                                   *)
(***************************************************************************)
EXTENDS ChunkDatabase, SequenceTheorems, FiniteSetTheorems, TLAPS

(* What happens between TakeLock and the release of the lock. *)
Inside == {"open", "floor", "copy", "remove", "mark", "run", "resetting", "closing"}

LockHeldInside ==
    \A t \in Tabs : tab[t].at \in Inside => lock = t

(* A batch is all shared or a single operation, and exists only in a session
   that runs; a reset under way is the whole of it. *)
BatchShape ==
    \A t \in Tabs :
       /\ tab[t].batch # {} => tab[t].at \in {"run", "resetting"}
       /\ \/ \A op \in tab[t].batch : shared(op)
          \/ \E op \in tab[t].batch : tab[t].batch = {op}
       /\ At(t, "resetting") =>
             \E op \in tab[t].batch : op.kind = "reset" /\ tab[t].batch = {op}

held(t) == inQueue(t) \cup tab[t].batch

(* No two operations have the same id. *)
IdsAreUnique ==
    /\ \A t \in Tabs : \A op \in held(t) : op.id <= calls
    /\ \A t, u \in Tabs : \A op \in held(t), other \in held(u) :
          op.id = other.id => t = u /\ op = other

(* The store on disk has every legacy floor that is due. *)
FloorReached == disk.floor >= due

(* From which point of a session, and of the life of a store, on. *)
ReachedOnDisk ==
    /\ disk.migration # "none" => FloorReached
    /\ ~ disk.exists => disk.floor = -1
    /\ \A t \in Tabs :
          /\ tab[t].migrated => FloorReached
          /\ tab[t].at \in {"copy", "remove", "mark"} =>
                tab[t].mode = "opfs" /\ FloorReached
          /\ At(t, "run") /\ ~ tab[t].refusal /\ tab[t].mode = "opfs" => FloorReached
          /\ tab[t].at \in {"floor", "copy", "remove", "mark", "run", "resetting"} =>
                (tab[t].mode = "memory" => ~ At(t, "floor") \/ ~ disk.exists)
                /\ (tab[t].mode = "opfs" => disk.exists)

(* A database in memory has them from the start. *)
ReachedInMemory ==
    \A t \in Tabs :
       /\ tab[t].memory # null => tab[t].memory >= due
       /\ tab[t].at \in {"run", "resetting"} /\ ~ tab[t].refusal
          /\ tab[t].mode = "memory" => tab[t].memory # null

(* How far a reset is. *)
ResetProgress ==
    \A t \in Tabs :
       At(t, "resetting") =>
          /\ due = -1
          /\ tab[t].mode = "opfs" => disk.floor = -1
          /\ \A s \in Slots : s < tab[t].next => legacy[s] = null

(* What the sessions of all Workers keep. *)
SessionInvariant ==
    /\ DatabaseTypeOK
    /\ LockHeldInside
    /\ BatchShape
    /\ IdsAreUnique
    /\ ReachedOnDisk
    /\ ReachedInMemory
    /\ ResetProgress
    /\ RemovedWhenInForce

Sessions == [queue : Seq(Ops), at : DrainStates, batch : SUBSET Ops,
             mode : {"opfs", "memory"}, memory : Floors \cup {null},
             refusal : BOOLEAN, migrated : BOOLEAN, next : 1 .. 5]

-----------------------------------------------------------------------------
(* A non-empty set of naturals has a least element. *)
LEMMA LeastNatural ==
    ASSUME NEW S \in SUBSET Nat, S # {}
    PROVE  \E k \in S : \A m \in S : k <= m
<1> DEFINE R == OpToRel(<, Nat)
<1>1. IsWellFoundedOn(R, Nat)
  BY NatLessThanWellFounded
<1>2. PICK k \in S : \A m \in S : <<m, k>> \notin R
  <2> HIDE DEF R
  <2> QED
    BY <1>1, WFMin
<1>3. ASSUME NEW m \in S PROVE k <= m
  <2>1. ~ (m < k)
    BY <1>2 DEF OpToRel
  <2> QED
    BY <2>1
<1> QED
  BY <1>3

(* A non-empty set of integers between two bounds has its maximum in it. *)
LEMMA MaxOfBounded ==
    ASSUME NEW low \in Int, NEW high \in Int, NEW S \in SUBSET (low .. high), S # {}
    PROVE  Max(S) \in S /\ \A x \in S : Max(S) >= x
<1> DEFINE below == {k \in Nat : \E j \in S : k = high - j}
<1>1. below \in SUBSET Nat /\ below # {}
  <2>1. PICK j \in S : TRUE
    OBVIOUS
  <2>2. high - j \in Nat
    BY <2>1
  <2> QED
    BY <2>1, <2>2
<1>2. PICK k \in below : \A m \in below : k <= m
  BY <1>1, LeastNatural
<1>3. PICK j \in S : k = high - j
  BY <1>2
<1>4. ASSUME NEW i \in S PROVE j >= i
  <2>1. high - i \in below /\ i \in Int /\ j \in Int
    OBVIOUS
  <2>2. k <= high - i
    BY <2>1, <1>2
  <2> QED
    BY <2>1, <2>2, <1>3
<1>5. \E x \in S : \A y \in S : x >= y
  BY <1>4
<1> QED
  BY <1>5 DEF Max

(* highest: no floor among the slots exceeds it, and it is a floor or -1. *)
LEMMA HighestBounds ==
    ASSUME NEW S \in SUBSET Floors
    PROVE  /\ highest(S) \in Floors /\ highest(S) >= -1 /\ highest(S) \in S \cup {-1}
           /\ \A x \in S : highest(S) >= x
<1> DEFINE T == S \cup {-1}
<1>1. T \in SUBSET (-1 .. MaxSequence) /\ T # {} /\ MaxSequence \in Int /\ -1 \in Int
  BY ChunkDatabaseAssumption DEF Floors
<1>2. Max(T) \in T /\ \A x \in T : Max(T) >= x
  <2> HIDE DEF T
  <2> QED
    BY <1>1, MaxOfBounded
<1> QED
  BY <1>1, <1>2 DEF highest, Floors

(* What the slots hold, where it can be read, are floors. *)
LEMMA SlotsHoldFloors ==
    ASSUME NEW slots \in [Slots -> Floors \cup {torn, null}]
    PROVE  floorsIn(slots) \in SUBSET Floors
BY DEF floorsIn, readable

(* #nextBatch: the batch is a prefix of the queue. *)
LEMMA BatchIsPrefix ==
    ASSUME NEW q \in Seq(Ops), q # <<>>
    PROVE  /\ batchLength(q) \in 1 .. Len(q)
           /\ \/ batchLength(q) = 1
              \/ \A i \in 1 .. batchLength(q) : shared(q[i])
<1> DEFINE S == {j \in DOMAIN q : \A i \in 1 .. j : shared(q[i])}
<1>1. Len(q) \in Nat \ {0} /\ DOMAIN q = 1 .. Len(q)
  BY EmptySeq, LenProperties
<1>2. CASE shared(q[1])
  <2>1. \A i \in 1 .. 1 : i = 1
    OBVIOUS
  <2>2. 1 \in S
    BY <1>1, <1>2, <2>1
  <2>3. S \in SUBSET (1 .. Len(q)) /\ 1 \in Int /\ Len(q) \in Int
    BY <1>1
  <2>4. Max(S) \in S
    <3> HIDE DEF S
    <3> QED
      BY <2>2, <2>3, MaxOfBounded
  <2>5. batchLength(q) = Max(S)
    BY <1>2 DEF batchLength
  <2> QED
    BY <1>1, <2>4, <2>5
<1>3. CASE ~ shared(q[1])
  BY <1>1, <1>3 DEF batchLength
<1> QED
  BY <1>2, <1>3

(* Taking a batch moves operations from the queue and loses or adds none. *)
LEMMA BatchTaken ==
    ASSUME NEW q \in Seq(Ops), q # <<>>, NEW n \in 1 .. Len(q)
    PROVE  LET rest  == SubSeq(q, n + 1, Len(q))
               batch == {q[i] : i \in 1 .. n}
           IN  /\ rest \in Seq(Ops) /\ batch \in SUBSET Ops
               /\ batch \subseteq {q[i] : i \in DOMAIN q}
               /\ {rest[i] : i \in DOMAIN rest} \subseteq {q[i] : i \in DOMAIN q}
<1>1. /\ Len(q) \in Nat /\ DOMAIN q = 1 .. Len(q)
      /\ \A i \in 1 .. Len(q) : q[i] \in Ops
  BY LenProperties, ElementOfSeq
<1> DEFINE rest == SubSeq(q, n + 1, Len(q))
<1>2. /\ rest \in Seq(Ops)
      /\ Len(rest) = IF n + 1 <= Len(q) THEN Len(q) - (n + 1) + 1 ELSE 0
      /\ \A i \in 1 .. Len(q) - (n + 1) + 1 : rest[i] = q[n + 1 + i - 1]
  BY <1>1, SubSeqProperties
<1>3. DOMAIN rest = 1 .. Len(rest)
  BY <1>2, LenProperties
<1>4. ASSUME NEW i \in DOMAIN rest
      PROVE  \E j \in DOMAIN q : rest[i] = q[j]
  <2> HIDE DEF rest
  <2>0. i \in 1 .. Len(rest) /\ n \in Nat /\ n <= Len(q)
    BY <1>1, <1>3
  <2>1. i \in 1 .. Len(q) - (n + 1) + 1
    <3>1. Len(q) \in Nat /\ Len(rest) = IF n + 1 <= Len(q) THEN Len(q) - (n + 1) + 1 ELSE 0
      BY <1>1, <1>2
    <3> QED
      BY <2>0, <3>1
  <2>2. rest[i] = q[n + 1 + i - 1]
    BY <1>2, <2>1
  <2>3. n + 1 + i - 1 \in 1 .. Len(q)
    BY <1>1, <2>1
  <2> QED
    BY <1>1, <2>2, <2>3
<1>5. {q[i] : i \in 1 .. n} \in SUBSET Ops
      /\ {q[i] : i \in 1 .. n} \subseteq {q[i] : i \in DOMAIN q}
  BY <1>1
<1> QED
  BY <1>2, <1>4, <1>5

(* Telling callers what became of their operations. *)
LEMMA SettledTyped ==
    ASSUME outcome \in [Calls -> {"none", "pending", "ok", "error", "lost"}],
           NEW ops, NEW result \in {"ok", "error", "lost"}
    PROVE  settled(ops, result) \in [Calls -> {"none", "pending", "ok", "error", "lost"}]
BY DEF settled

-----------------------------------------------------------------------------
(* The types are kept. *)
(* The object a Worker starts with. *)
LEMMA FreshTyped == Fresh \in Sessions
<1>1. <<>> \in Seq(Ops)
  BY EmptySeq
<1> QED
  BY <1>1 DEF Fresh, Sessions, DrainStates

(* The initial values have their types. *)
LEMMA TypeInit == DatabaseInit => DatabaseTypeOK
<1> SUFFICES ASSUME DatabaseInit PROVE DatabaseTypeOK
  OBVIOUS
<1>2. tab \in [Tabs -> Sessions]
  BY FreshTyped DEF DatabaseInit
<1>3. legacy \in [Slots -> Floors \cup {torn, null}] /\ opfs \in BOOLEAN /\ lock = null
  BY ChunkDatabaseAssumption DEF DatabaseInit
<1>4. due \in Floors
  BY <1>3, SlotsHoldFloors, HighestBounds DEF DatabaseInit
<1>5. /\ outcome \in [Calls -> {"none", "pending", "ok", "error", "lost"}]
      /\ calls \in 0 .. MaxCalls /\ faults \in 0 .. MaxFaults
  BY ChunkDatabaseAssumption DEF DatabaseInit
<1>6. disk \in [exists : BOOLEAN, floor : Floors, migration : {"none", "copied", "done"}]
  BY ChunkDatabaseAssumption DEF DatabaseInit, Floors
<1> QED
  BY <1>2, <1>3, <1>4, <1>5, <1>6 DEF DatabaseTypeOK, Sessions

SessionStep(t) ==
    \/ \E kind \in Kinds : Run(t, kind)
    \/ TakeLock(t) \/ DrainStep(t) \/ Crash(t)

Writes(t, s) == tab' = [tab EXCEPT ![t] = s] /\ s \in Sessions

(* A step of one Worker writes that Worker's session and no other. *)
LEMMA WritesOneSession ==
    ASSUME DatabaseTypeOK, NEW t \in Tabs, SessionStep(t)
    PROVE  Writes(t, tab'[t])
<1> DEFINE s == tab[t]
<1>0. tab \in [Tabs -> Sessions] /\ s \in Sessions
  BY DEF DatabaseTypeOK, Sessions
<1>1. SUFFICES \E r : Writes(t, r)
  BY <1>0 DEF Writes
<1>2. \A r : r \in Sessions /\ tab' = [tab EXCEPT ![t] = r] => \E q : Writes(t, q)
  BY DEF Writes
<1>3. <<>> \in Seq(Ops)
  BY EmptySeq
<1>4. highest(standing) \in Floors
  BY HighestBounds, SlotsHoldFloors DEF standing, DatabaseTypeOK
<1>5. -1 \in Floors /\ \A n \in 0 .. MaxSequence : n \in Floors
  BY ChunkDatabaseAssumption DEF Floors
<1>6. ASSUME NEW kind \in Kinds, Run(t, kind) PROVE \E r : Writes(t, r)
  <2> DEFINE op == [id |-> calls + 1, kind |-> kind]
             r  == [s EXCEPT !.queue = Append(@, op),
                             !.at = IF @ = "none" THEN "waiting" ELSE @]
  <2>1. op \in Ops
    BY <1>6, ChunkDatabaseAssumption DEF Run, Ops, Calls, DatabaseTypeOK
  <2>2. Append(s.queue, op) \in Seq(Ops)
    BY <1>0, <2>1, AppendProperties DEF Sessions
  <2>3. r \in Sessions
    BY <1>0, <2>2 DEF Sessions, DrainStates
  <2>4. tab' = [tab EXCEPT ![t] = r]
    BY <1>0, <1>6 DEF Run
  <2> QED
    BY <1>2, <2>3, <2>4
<1>7. ASSUME NEW a \in DrainStates, Goto(t, a) PROVE \E r : Writes(t, r)
  <2> DEFINE r == [s EXCEPT !.at = a]
  <2>1. r \in Sessions /\ tab' = [tab EXCEPT ![t] = r]
    BY <1>0, <1>7 DEF Goto, Sessions
  <2> QED
    BY <1>2, <2>1
<1>8. ASSUME SessionFails(t) PROVE \E r : Writes(t, r)
  <2> DEFINE r == [s EXCEPT !.at = "test", !.queue = <<>>]
  <2>1. r \in Sessions /\ tab' = [tab EXCEPT ![t] = r]
    BY <1>0, <1>3, <1>8 DEF SessionFails, Sessions, DrainStates
  <2> QED
    BY <1>2, <2>1
<1>9. ASSUME NEW op, NEW result, NEW m \in Floors \cup {null},
             Answer(t, op, result, [tab EXCEPT ![t].memory = m])
      PROVE  \E r : Writes(t, r)
  <2> DEFINE r == [s EXCEPT !.memory = m, !.batch = @ \ {op}, !.at = "run"]
  <2>1. r \in Sessions
    BY <1>0 DEF Sessions, DrainStates
  <2>2. tab' = [tab EXCEPT ![t] = r]
    BY <1>0, <1>9 DEF Answer
  <2> QED
    BY <1>2, <2>1, <2>2
<1>10. ASSUME NEW op, NEW result, Answer(t, op, result, tab)
       PROVE  \E r : Writes(t, r)
  <2> DEFINE r == [s EXCEPT !.batch = @ \ {op}, !.at = "run"]
  <2>1. r \in Sessions
    BY <1>0 DEF Sessions, DrainStates
  <2>2. tab' = [tab EXCEPT ![t] = r]
    BY <1>0, <1>10 DEF Answer
  <2> QED
    BY <1>2, <2>1, <2>2
<1>11. CASE TakeLock(t) \/ MigrationFails(t) \/ DeleteOwnKeys(t) \/ DrainTest(t)
            \/ DrainEnds(t)
  BY <1>7, <1>11 DEF TakeLock, MigrationFails, DeleteOwnKeys, DrainTest, DrainEnds,
                     DrainStates
<1>12. CASE Open(t)
  <2>1. CASE SessionFails(t)
    BY <1>8, <2>1
  <2>2. CASE \E b \in BOOLEAN, a \in DrainStates, m \in {"opfs", "memory"} :
                tab' = [tab EXCEPT ![t].at = a, ![t].mode = m, ![t].refusal = FALSE,
                                   ![t].migrated = b]
    <3>1. PICK b \in BOOLEAN, a \in DrainStates, m \in {"opfs", "memory"} :
             tab' = [tab EXCEPT ![t].at = a, ![t].mode = m, ![t].refusal = FALSE,
                                ![t].migrated = b]
      BY <2>2
    <3> DEFINE r == [s EXCEPT !.at = a, !.mode = m, !.refusal = FALSE, !.migrated = b]
    <3>2. r \in Sessions
      BY <1>0 DEF Sessions
    <3>3. tab' = [tab EXCEPT ![t] = r]
      BY <1>0, <3>1
    <3> QED
      BY <1>2, <3>2, <3>3
  <2>3. CASE \E a \in DrainStates :
                tab' = [tab EXCEPT ![t].at = a, ![t].mode = "memory",
                                   ![t].refusal = FALSE]
    <3>1. PICK a \in DrainStates :
             tab' = [tab EXCEPT ![t].at = a, ![t].mode = "memory", ![t].refusal = FALSE]
      BY <2>3
    <3> DEFINE r == [s EXCEPT !.at = a, !.mode = "memory", !.refusal = FALSE]
    <3>2. r \in Sessions /\ tab' = [tab EXCEPT ![t] = r]
      BY <1>0, <3>1 DEF Sessions
    <3> QED
      BY <1>2, <3>2
  <2>4. (tab[t].migrated \/ disk.migration = "done") \in BOOLEAN
    OBVIOUS
  <2> QED
    BY <1>12, <2>1, <2>2, <2>3, <2>4 DEF Open, DrainStates
<1>13. CASE ImportLegacyFloor(t)
  <2>1. CASE Goto(t, "copy")
    BY <1>7, <2>1 DEF DrainStates
  <2>2. CASE tab' = [tab EXCEPT ![t].at = "run", ![t].memory = highest(standing)]
    <3> DEFINE r == [s EXCEPT !.at = "run", !.memory = highest(standing)]
    <3>1. r \in Sessions
      BY <1>0, <1>4 DEF Sessions, DrainStates
    <3>2. tab' = [tab EXCEPT ![t] = r]
      BY <1>0, <2>2
    <3> QED
      BY <1>2, <3>1, <3>2
  <2>3. CASE tab' = [tab EXCEPT ![t].at = "run", ![t].refusal = TRUE]
    <3> DEFINE r == [s EXCEPT !.at = "run", !.refusal = TRUE]
    <3>1. r \in Sessions
      BY <1>0 DEF Sessions, DrainStates
    <3>2. tab' = [tab EXCEPT ![t] = r]
      BY <1>0, <2>3
    <3> QED
      BY <1>2, <3>1, <3>2
  <2> QED
    BY <1>13, <2>1, <2>2, <2>3 DEF ImportLegacyFloor
<1>14. CASE Copy(t)
  <2> DEFINE r == [s EXCEPT !.at = "remove", !.next = 1]
  <2>1. "remove" \in DrainStates /\ 1 \in 1 .. 5
    BY DEF DrainStates
  <2>2. r \in Sessions
    BY <1>0, <2>1 DEF Sessions
  <2>3. tab' = [tab EXCEPT ![t] = r]
    BY <1>0, <1>14 DEF Copy
  <2> QED
    BY <1>2, <2>2, <2>3
<1>15. CASE RemoveEntry(t)
  <2> DEFINE r == [s EXCEPT !.next = @ + 1]
  <2>1. s.next + 1 \in 1 .. 5
    BY <1>0, <1>15 DEF RemoveEntry, Sessions
  <2>2. r \in Sessions
    BY <1>0, <2>1 DEF Sessions
  <2>3. tab' = [tab EXCEPT ![t] = r]
    BY <1>0, <1>15 DEF RemoveEntry
  <2> QED
    BY <1>2, <2>2, <2>3
<1>16. CASE MarkMigrationDone(t)
  <2> DEFINE r == [s EXCEPT !.at = "run", !.migrated = TRUE]
  <2>1. r \in Sessions
    BY <1>0 DEF Sessions, DrainStates
  <2>2. tab' = [tab EXCEPT ![t] = r]
    BY <1>0, <1>16 DEF MarkMigrationDone
  <2> QED
    BY <1>2, <2>1, <2>2
<1>17. CASE NextBatch(t)
  <2>1. CASE s.queue = <<>>
    BY <1>7, <1>17, <2>1 DEF NextBatch, DrainStates
  <2>2. CASE s.queue # <<>>
    <3> DEFINE q == s.queue
               n == batchLength(q)
               r == [s EXCEPT !.batch = {q[i] : i \in 1 .. n},
                              !.queue = SubSeq(@, n + 1, Len(@))]
    <3>1. q \in Seq(Ops) /\ n \in 1 .. Len(q)
      BY <1>0, <2>2, BatchIsPrefix DEF Sessions
    <3>2. SubSeq(q, n + 1, Len(q)) \in Seq(Ops) /\ {q[i] : i \in 1 .. n} \in SUBSET Ops
      BY <2>2, <3>1, BatchTaken
    <3>3. r \in Sessions
      BY <1>0, <3>2 DEF Sessions
    <3>4. tab' = [tab EXCEPT ![t] = r]
      BY <1>0, <1>17, <2>2 DEF NextBatch
    <3> QED
      BY <1>2, <3>3, <3>4
  <2> QED
    BY <2>1, <2>2
<1>18. ASSUME NEW op \in s.batch, Refuse(t, op) \/ Sync(t, op) \/ Read(t, op)
       PROVE  \E r : Writes(t, r)
  BY <1>5, <1>9, <1>10, <1>18 DEF Refuse, Sync, Read
<1>19. ASSUME NEW op \in s.batch, Reset(t, op) PROVE \E r : Writes(t, r)
  <2> DEFINE m == IF s.memory = null THEN null ELSE -1
             r == [s EXCEPT !.at = "resetting", !.next = 1, !.memory = m]
  <2>1. r \in Sessions
    <3>1. m \in Floors \cup {null}
      BY <1>5
    <3>2. ASSUME NEW n \in Floors \cup {null}
          PROVE  [s EXCEPT !.at = "resetting", !.next = 1, !.memory = n] \in Sessions
      <4>1. "resetting" \in DrainStates /\ 1 \in 1 .. 5
        BY DEF DrainStates
      <4> QED
        BY <1>0, <4>1 DEF Sessions
    <3> QED
      BY <3>1, <3>2
  <2>2. tab' = [tab EXCEPT ![t] = r]
    BY <1>0, <1>19 DEF Reset
  <2> QED
    BY <1>2, <2>1, <2>2
<1>20. CASE ResetRemoves(t)
  <2>1. CASE s.next \in Slots /\ tab' = [tab EXCEPT ![t].next = @ + 1]
    <3> DEFINE r == [s EXCEPT !.next = @ + 1]
    <3>1. s.next + 1 \in 1 .. 5
      BY <2>1 DEF Slots
    <3>2. r \in Sessions
      BY <1>0, <3>1 DEF Sessions
    <3>3. tab' = [tab EXCEPT ![t] = r]
      BY <1>0, <2>1
    <3> QED
      BY <1>2, <3>2, <3>3
  <2> QED
    BY <1>10, <1>20, <2>1 DEF ResetRemoves
<1>21. CASE Close(t)
  BY <1>7, <1>8, <1>21 DEF Close, DrainStates
<1>22. CASE Crash(t)
  BY <1>2, <1>22, FreshTyped DEF Crash
<1> QED
  BY <1>6, <1>11, <1>12, <1>13, <1>14, <1>15, <1>16, <1>17, <1>18, <1>19, <1>20,
     <1>21, <1>22
  DEF SessionStep, DrainStep

(* The lock, and the holder of it. *)
LEMMA LockTyped ==
    ASSUME DatabaseTypeOK, NEW t \in Tabs, SessionStep(t)
    PROVE  lock' \in Tabs \cup {null} /\ (lock' # lock => lock' \in {t, null})
BY DEF DatabaseTypeOK, SessionStep, DrainStep, Run, TakeLock, Crash, Open, SessionFails,
       ImportLegacyFloor, MigrationFails, Copy, RemoveEntry, DeleteOwnKeys,
       MarkMigrationDone, NextBatch, Refuse, Sync, Read, Reset, ResetRemoves, Close,
       DrainTest, DrainEnds

(* Every step keeps the types. *)
LEMMA TypeStep ==
    ASSUME DatabaseTypeOK, [DatabaseNext]_dbVars
    PROVE  DatabaseTypeOK'
<1> DEFINE Outcomes == [Calls -> {"none", "pending", "ok", "error", "lost"}]
           Disks == [exists : BOOLEAN, floor : Floors,
                     migration : {"none", "copied", "done"}]
<1>1. ASSUME NEW t \in Tabs, SessionStep(t) PROVE DatabaseTypeOK'
  <2>1. tab' \in [Tabs -> Sessions]
    BY <1>1, WritesOneSession DEF Writes, DatabaseTypeOK, Sessions
  <2>2. lock' \in Tabs \cup {null}
    BY <1>1, LockTyped
  <2>3. disk' \in Disks
    <3>1. /\ standing \in SUBSET Floors /\ {disk.floor} \cup standing \in SUBSET Floors
          /\ disk \in Disks
      BY SlotsHoldFloors DEF standing, DatabaseTypeOK
    <3>2. highest({disk.floor} \cup standing) \in Floors
      BY <3>1, HighestBounds
    <3>3. -1 \in Floors /\ \A n \in 0 .. MaxSequence : n \in Floors
      BY ChunkDatabaseAssumption DEF Floors
    <3>4. CASE UNCHANGED disk
      BY <3>1, <3>4
    <3>5. CASE Open(t)
      <4>1. disk' \in {disk, [disk EXCEPT !.exists = TRUE],
                       [disk EXCEPT !.exists = disk.exists \/ opfs]}
        BY <1>1, <3>5 DEF Open
      <4>2. [disk EXCEPT !.exists = disk.exists \/ opfs] \in Disks
        BY <3>1, Zenon
      <4> QED
        BY <3>1, <4>1, <4>2
    <3>6. CASE ImportLegacyFloor(t) \/ Copy(t) \/ MarkMigrationDone(t)
      BY <3>1, <3>2, <3>6 DEF ImportLegacyFloor, Copy, MarkMigrationDone
    <3>7. ASSUME NEW op \in tab[t].batch, Sync(t, op) \/ Reset(t, op)
          PROVE  disk' \in Disks
      BY <3>1, <3>3, <3>7 DEF Sync, Reset
    <3> QED
      BY <1>1, <3>4, <3>5, <3>6, <3>7
      DEF SessionStep, DrainStep, Run, TakeLock, Crash, MigrationFails, RemoveEntry,
          DeleteOwnKeys, NextBatch, Refuse, Read, ResetRemoves, Close, DrainTest, DrainEnds
  <2>4. legacy' \in [Slots -> Floors \cup {torn, null}]
    <3>1. CASE UNCHANGED legacy
      BY <3>1 DEF DatabaseTypeOK
    <3>2. CASE \E s \in Slots : legacy' = [legacy EXCEPT ![s] = null]
      BY <3>2 DEF DatabaseTypeOK
    <3>3. CASE RemoveEntry(t)
      <4>1. tab[t].next \in Slots
        BY <3>3 DEF RemoveEntry, DatabaseTypeOK, Slots
      <4> QED
        BY <3>2, <3>3, <4>1 DEF RemoveEntry
    <3>4. CASE DeleteOwnKeys(t)
      BY <3>2, <3>4 DEF DeleteOwnKeys, Slots
    <3>5. CASE ResetRemoves(t)
      BY <3>1, <3>2, <3>5 DEF ResetRemoves
    <3> QED
      BY <1>1, <3>1, <3>3, <3>4, <3>5
      DEF SessionStep, DrainStep, Run, TakeLock, Crash, Open, ImportLegacyFloor,
          MigrationFails, Copy, MarkMigrationDone, NextBatch, Refuse, Sync, Read, Reset,
          Close, DrainTest, DrainEnds
  <2>5. outcome' \in Outcomes
    <3>1. \A ops : \A result \in {"ok", "error", "lost"} : settled(ops, result) \in Outcomes
      BY SettledTyped DEF DatabaseTypeOK
    <3>2. outcome \in Outcomes
      BY DEF DatabaseTypeOK
    <3>3. ASSUME NEW kind \in Kinds, Run(t, kind) PROVE outcome' \in Outcomes
      BY <3>2, <3>3 DEF Run
    <3>4. CASE Crash(t) \/ ResetRemoves(t) \/ Close(t) \/ Open(t)
      <4>1. \/ outcome' = settled(inQueue(t), "error")
            \/ outcome' = settled(inQueue(t) \cup tab[t].batch, "lost")
            \/ \E op \in tab[t].batch, result \in {"ok", "error"} :
                  outcome' = settled({op}, result)
            \/ UNCHANGED outcome
        BY <3>4 DEF Crash, ResetRemoves, Close, Open, SessionFails, Answer
      <4> HIDE DEF Outcomes
      <4> QED
        BY <3>1, <3>2, <4>1
    <3>5. ASSUME NEW op \in tab[t].batch, Refuse(t, op) \/ Sync(t, op) \/ Read(t, op)
          PROVE  outcome' \in Outcomes
      <4>1. \E result \in {"ok", "error"} : \E database : Answer(t, op, result, database)
        BY <3>5 DEF Refuse, Sync, Read
      <4>2. \E result \in {"ok", "error"} : outcome' = settled({op}, result)
        BY <4>1 DEF Answer
      <4> QED
        BY <3>1, <4>2
    <3> QED
      BY <1>1, <3>2, <3>3, <3>4, <3>5
      DEF SessionStep, DrainStep, TakeLock, ImportLegacyFloor, MigrationFails, Copy,
          RemoveEntry, DeleteOwnKeys, MarkMigrationDone, NextBatch, Reset, DrainTest,
          DrainEnds
  <2>6. calls' \in 0 .. MaxCalls /\ opfs' \in BOOLEAN
    <3>1. \/ UNCHANGED calls
          \/ calls < MaxCalls /\ calls' = calls + 1
      BY <1>1
      DEF SessionStep, DrainStep, Run, TakeLock, Crash, Open, ImportLegacyFloor,
          MigrationFails, Copy, RemoveEntry, DeleteOwnKeys, MarkMigrationDone, NextBatch,
          Refuse, Sync, Read, Reset, ResetRemoves, Close, DrainTest, DrainEnds
    <3>2. UNCHANGED opfs
      BY <1>1
      DEF SessionStep, DrainStep, Run, TakeLock, Crash, Open, ImportLegacyFloor,
          MigrationFails, Copy, RemoveEntry, DeleteOwnKeys, MarkMigrationDone, NextBatch,
          Refuse, Sync, Read, Reset, ResetRemoves, Close, DrainTest, DrainEnds
    <3>3. calls \in 0 .. MaxCalls /\ MaxCalls \in Nat
      BY ChunkDatabaseAssumption DEF DatabaseTypeOK
    <3>4. calls' \in 0 .. MaxCalls
      BY <3>1, <3>3
    <3> QED
      BY <3>2, <3>4 DEF DatabaseTypeOK
  <2>7. faults' \in 0 .. MaxFaults
    <3>1. faults \in 0 .. MaxFaults /\ MaxFaults \in Nat
      BY ChunkDatabaseAssumption DEF DatabaseTypeOK
    <3>2. NoFault => faults' \in 0 .. MaxFaults
      BY <3>1 DEF NoFault
    <3>3. Fault => faults' \in 0 .. MaxFaults
      BY <3>1 DEF Fault
    <3> QED
      BY <1>1, <3>2, <3>3
      DEF SessionStep, DrainStep, Run, TakeLock, Crash, Open, ImportLegacyFloor,
          MigrationFails, Copy, RemoveEntry, DeleteOwnKeys, MarkMigrationDone, NextBatch,
          Refuse, Sync, Read, Reset, ResetRemoves, Close, DrainTest, DrainEnds
  <2>8. due' \in Floors
    <3>1. due \in Floors /\ -1 \in Floors
      BY ChunkDatabaseAssumption DEF DatabaseTypeOK, Floors
    <3> QED
      BY <1>1, <3>1
      DEF SessionStep, DrainStep, Run, TakeLock, Crash, Open, ImportLegacyFloor,
          MigrationFails, Copy, RemoveEntry, DeleteOwnKeys, MarkMigrationDone, NextBatch,
          Refuse, Sync, Read, Reset, ResetRemoves, Close, DrainTest, DrainEnds
  <2> QED
    BY <2>1, <2>2, <2>3, <2>4, <2>5, <2>6, <2>7, <2>8 DEF DatabaseTypeOK, Sessions
<1>2. CASE OpfsChanges
  <2>1. opfs' \in BOOLEAN
    BY <1>2 DEF OpfsChanges
  <2>2. faults' \in 0 .. MaxFaults
    BY <1>2, ChunkDatabaseAssumption DEF OpfsChanges, Fault, DatabaseTypeOK
  <2> QED
    BY <1>2, <2>1, <2>2 DEF OpfsChanges, DatabaseTypeOK
<1>3. CASE UNCHANGED dbVars
  BY <1>3 DEF dbVars, DatabaseTypeOK
<1> QED
  BY <1>1, <1>2, <1>3 DEF DatabaseNext, SessionStep

-----------------------------------------------------------------------------
(* Who holds the cache lock. *)

(* A step of a Worker takes the lock that is free, keeps things as they are, or
   leaves the session and frees the lock that it holds. *)
LEMMA LockMoves ==
    ASSUME DatabaseTypeOK, NEW t \in Tabs, SessionStep(t)
    PROVE  \/ lock = null /\ lock' = t
           \/ lock' = lock /\ (tab'[t].at \in Inside => tab[t].at \in Inside)
           \/ /\ tab[t].at \in Inside \/ lock = t
              /\ lock' = null /\ tab'[t].at \notin Inside
<1>0. tab \in [Tabs -> Sessions]
  BY DEF DatabaseTypeOK, Sessions
<1>1. CASE TakeLock(t)
  BY <1>1 DEF TakeLock
<1>2. ASSUME NEW kind \in Kinds, Run(t, kind)
      PROVE  lock' = lock /\ (tab'[t].at \in Inside => tab[t].at \in Inside)
  <2>1. tab'[t].at = IF tab[t].at = "none" THEN "waiting" ELSE tab[t].at
    BY <1>0, <1>2 DEF Run, Sessions
  <2> QED
    BY <1>2, <2>1 DEF Run, Inside
<1>3. SessionFails(t) => lock' = null /\ tab'[t].at = "test"
  BY <1>0 DEF SessionFails, Sessions
<1>4. CASE Open(t)
  BY <1>3, <1>4 DEF Open, At, Inside
<1>5. CASE ImportLegacyFloor(t) \/ MigrationFails(t) \/ Copy(t) \/ RemoveEntry(t)
           \/ DeleteOwnKeys(t) \/ MarkMigrationDone(t) \/ NextBatch(t) \/ ResetRemoves(t)
  BY <1>5 DEF ImportLegacyFloor, MigrationFails, Copy, RemoveEntry, DeleteOwnKeys,
              MarkMigrationDone, NextBatch, ResetRemoves, At, Inside
<1>6. ASSUME NEW op \in tab[t].batch, Refuse(t, op) \/ Sync(t, op) \/ Read(t, op)
                                      \/ Reset(t, op)
      PROVE  lock' = lock /\ tab[t].at \in Inside
  BY <1>6 DEF Refuse, Sync, Read, Reset, At, Inside
<1>7. CASE Close(t)
  <2>1. Goto(t, "test") => tab'[t].at = "test"
    BY <1>0 DEF Goto, Sessions
  <2> QED
    BY <1>3, <1>7, <2>1 DEF Close, At, Inside
<1>8. CASE DrainTest(t) \/ DrainEnds(t)
  <2>1. \A a : Goto(t, a) => tab'[t].at = a
    BY <1>0 DEF Goto, Sessions
  <2> QED
    BY <1>8, <2>1 DEF DrainTest, DrainEnds, Inside
<1>9. CASE Crash(t)
  <2>1. tab'[t].at = "none"
    BY <1>0, <1>9 DEF Crash, Fresh
  <2> QED
    BY <1>9, <2>1 DEF Crash, Inside
<1> QED
  BY <1>1, <1>2, <1>4, <1>5, <1>6, <1>7, <1>8, <1>9 DEF SessionStep, DrainStep

(* Every step leaves the lock with the Worker that is inside, if one is. *)
LEMMA LockStep ==
    ASSUME DatabaseTypeOK, LockHeldInside, NEW t \in Tabs, SessionStep(t)
    PROVE  LockHeldInside'
<1> SUFFICES ASSUME NEW u \in Tabs, tab'[u].at \in Inside PROVE lock' = u
  BY DEF LockHeldInside
<1>1. tab[t].at \in Inside => lock = t
  BY DEF LockHeldInside
<1>2. null \notin Tabs
  BY ChunkDatabaseAssumption
<1>3. CASE u = t
  BY <1>1, <1>3, LockMoves
<1>4. CASE u # t
  <2>1. tab'[u] = tab[u]
    BY <1>4, WritesOneSession DEF Writes, DatabaseTypeOK
  <2>2. lock = u
    BY <2>1 DEF LockHeldInside
  <2> QED
    BY <1>1, <1>2, <1>4, <2>2, LockMoves
<1> QED
  BY <1>3, <1>4

(* A step of a Worker outside its session leaves every other Worker's session
   alone, and no two Workers are inside at once. *)
LEMMA OneInside ==
    ASSUME LockHeldInside, NEW t \in Tabs, NEW u \in Tabs,
           tab[t].at \in Inside, tab[u].at \in Inside
    PROVE  t = u
BY DEF LockHeldInside

-----------------------------------------------------------------------------
(* The batches. *)
LEMMA BatchStep ==
    ASSUME DatabaseTypeOK, BatchShape, NEW t \in Tabs, SessionStep(t)
    PROVE  BatchShape'
<1> DEFINE Good(s) ==
      /\ s.batch # {} => s.at \in {"run", "resetting"}
      /\ \/ \A op \in s.batch : shared(op)
         \/ \E op \in s.batch : s.batch = {op}
      /\ s.at = "resetting" => \E op \in s.batch : op.kind = "reset" /\ s.batch = {op}
<1>0. tab \in [Tabs -> Sessions] /\ tab[t] \in Sessions
  BY DEF DatabaseTypeOK, Sessions
<1>1. Good(tab[t])
  BY DEF BatchShape, At
<1>2. SUFFICES Good(tab'[t])
  <2>1. ASSUME NEW u \in Tabs PROVE Good(tab'[u])
    <3>1. u # t => tab'[u] = tab[u]
      BY WritesOneSession DEF Writes, DatabaseTypeOK
    <3>2. Good(tab[u])
      BY DEF BatchShape, At
    <3> QED
      BY <1>2, <3>1, <3>2
  <2> QED
    BY <2>1 DEF BatchShape, At
<1>3. ASSUME tab[t].batch = {}, tab'[t].batch = tab[t].batch, tab'[t].at # "resetting"
      PROVE  Good(tab'[t])
  BY <1>3
<1>4. \A a : Goto(t, a) => tab'[t].batch = tab[t].batch /\ tab'[t].at = a
  BY <1>0 DEF Goto, Sessions
<1>5. SessionFails(t) => tab'[t].batch = tab[t].batch /\ tab'[t].at = "test"
  BY <1>0 DEF SessionFails, Sessions
<1>6. ASSUME NEW kind \in Kinds, Run(t, kind) PROVE Good(tab'[t])
  <2>1. /\ tab'[t].at = IF tab[t].at = "none" THEN "waiting" ELSE tab[t].at
        /\ tab'[t].batch = tab[t].batch
    BY <1>0, <1>6 DEF Run, Sessions
  <2> QED
    BY <1>1, <2>1
<1>7. CASE TakeLock(t) \/ MigrationFails(t) \/ DeleteOwnKeys(t) \/ DrainTest(t)
           \/ DrainEnds(t) \/ Close(t)
  <2>1. tab[t].batch = {}
    BY <1>1, <1>7 DEF TakeLock, MigrationFails, DeleteOwnKeys, DrainTest, DrainEnds,
                      Close, At
  <2>2. tab'[t].batch = tab[t].batch /\ tab'[t].at # "resetting"
    BY <1>4, <1>5, <1>7 DEF TakeLock, MigrationFails, DeleteOwnKeys, DrainTest,
                            DrainEnds, Close
  <2> QED
    BY <1>3, <2>1, <2>2
<1>8. CASE Open(t)
  <2>1. tab[t].batch = {}
    BY <1>1, <1>8 DEF Open, At
  <2>2. tab'[t].batch = tab[t].batch /\ tab'[t].at # "resetting"
    BY <1>0, <1>5, <1>8 DEF Open, Sessions
  <2> QED
    BY <1>3, <2>1, <2>2
<1>9. CASE ImportLegacyFloor(t) \/ Copy(t) \/ RemoveEntry(t) \/ MarkMigrationDone(t)
  <2>1. tab[t].batch = {}
    BY <1>1, <1>9 DEF ImportLegacyFloor, Copy, RemoveEntry, MarkMigrationDone, At
  <2>2. tab'[t].batch = tab[t].batch /\ tab'[t].at # "resetting"
    BY <1>0, <1>9 DEF ImportLegacyFloor, Copy, RemoveEntry, MarkMigrationDone, At,
                      Goto, Sessions
  <2> QED
    BY <1>3, <2>1, <2>2
<1>10. CASE NextBatch(t)
  <2> DEFINE q == tab[t].queue
             n == batchLength(q)
  <2>1. CASE q = <<>>
    BY <1>3, <1>4, <1>10, <2>1 DEF NextBatch
  <2>2. CASE q # <<>>
    <3>1. /\ n \in 1 .. Len(q)
          /\ \/ n = 1
             \/ \A i \in 1 .. n : shared(q[i])
      BY <1>0, <2>2, BatchIsPrefix DEF Sessions
    <3>2. tab'[t].batch = {q[i] : i \in 1 .. n} /\ tab'[t].at = "run"
      BY <1>0, <1>10, <2>2 DEF NextBatch, At, Sessions
    <3>3. CASE n = 1
      <4>1. tab'[t].batch = {q[1]}
        BY <3>2, <3>3
      <4> QED
        BY <3>2, <4>1
    <3>4. CASE \A i \in 1 .. n : shared(q[i])
      <4> HIDE DEF n
      <4> QED
        BY <3>2, <3>4
    <3> QED
      BY <3>1, <3>3, <3>4
  <2> QED
    BY <2>1, <2>2
<1>11. ASSUME NEW op \in tab[t].batch, Refuse(t, op) \/ Sync(t, op) \/ Read(t, op)
       PROVE  Good(tab'[t])
  <2>1. tab'[t].batch = tab[t].batch \ {op} /\ tab'[t].at = "run"
    <3>1. \A result : Answer(t, op, result, tab) =>
             tab'[t].batch = tab[t].batch \ {op} /\ tab'[t].at = "run"
      BY <1>0 DEF Answer, Sessions
    <3>2. \A result, m : Answer(t, op, result, [tab EXCEPT ![t].memory = m]) =>
             tab'[t].batch = tab[t].batch \ {op} /\ tab'[t].at = "run"
      BY <1>0 DEF Answer, Sessions
    <3> QED
      BY <1>11, <3>1, <3>2 DEF Refuse, Sync, Read
  <2> QED
    BY <1>1, <2>1
<1>12. ASSUME NEW op \in tab[t].batch, Reset(t, op) PROVE Good(tab'[t])
  <2>1. tab'[t].batch = tab[t].batch /\ tab'[t].at = "resetting" /\ op.kind = "reset"
    BY <1>0, <1>12 DEF Reset, Sessions
  <2>2. tab[t].batch = {op}
    BY <1>1, <2>1 DEF shared
  <2> QED
    BY <2>1, <2>2
<1>13. CASE ResetRemoves(t)
  <2>1. CASE /\ tab[t].next \in Slots
             /\ tab' = [tab EXCEPT ![t].next = @ + 1]
    <3>1. tab'[t].batch = tab[t].batch /\ tab'[t].at = tab[t].at
      BY <1>0, <2>1 DEF Sessions
    <3> QED
      BY <1>1, <3>1
  <2>2. CASE \E op \in tab[t].batch : \E result : Answer(t, op, result, tab)
    <3>1. PICK op \in tab[t].batch : tab'[t].batch = tab[t].batch \ {op}
                                     /\ tab'[t].at = "run"
      BY <1>0, <2>2 DEF Answer, Sessions
    <3> QED
      BY <1>1, <3>1
  <2> QED
    BY <1>13, <2>1, <2>2 DEF ResetRemoves
<1>14. CASE Crash(t)
  BY <1>0, <1>14 DEF Crash, Fresh
<1> QED
  BY <1>6, <1>7, <1>8, <1>9, <1>10, <1>11, <1>12, <1>13, <1>14
  DEF SessionStep, DrainStep

-----------------------------------------------------------------------------
(* The identity of the operations. *)

(* A session gains only the operation that run() has just queued. *)
LEMMA HeldMoves ==
    ASSUME DatabaseTypeOK, NEW t \in Tabs, SessionStep(t)
    PROVE  \/ calls' = calls /\ held(t)' \subseteq held(t)
           \/ /\ calls' = calls + 1
              /\ \E op : op.id = calls + 1 /\ held(t)' \subseteq held(t) \cup {op}
<1>0. tab \in [Tabs -> Sessions] /\ tab[t] \in Sessions
  BY DEF DatabaseTypeOK, Sessions
<1>1. \A S : tab'[t].queue = tab[t].queue /\ tab'[t].batch = S /\ S \subseteq tab[t].batch
        => held(t)' \subseteq held(t)
  BY DEF held, inQueue
<1>2. tab'[t].queue = <<>> /\ tab'[t].batch \subseteq tab[t].batch
        => held(t)' \subseteq held(t)
  BY DEF held, inQueue
<1>3. ASSUME NEW kind \in Kinds, Run(t, kind)
      PROVE  /\ calls' = calls + 1
             /\ \E op : op.id = calls + 1 /\ held(t)' \subseteq held(t) \cup {op}
  <2> DEFINE op == [id |-> calls + 1, kind |-> kind]
  <2>1. tab'[t].queue = Append(tab[t].queue, op) /\ tab'[t].batch = tab[t].batch
    BY <1>0, <1>3 DEF Run, Sessions
  <2>2. op \in Ops
    BY <1>3, ChunkDatabaseAssumption DEF Run, Ops, Calls, DatabaseTypeOK
  <2>3. ASSUME NEW i \in DOMAIN tab'[t].queue
        PROVE  tab'[t].queue[i] = op \/ \E j \in DOMAIN tab[t].queue :
                                           tab'[t].queue[i] = tab[t].queue[j]
    <3> DEFINE q == tab[t].queue
               r == Append(q, op)
    <3>1. q \in Seq(Ops)
      BY <1>0 DEF Sessions
    <3>2. /\ r \in Seq(Ops) /\ Len(r) = Len(q) + 1 /\ Len(q) \in Nat
          /\ DOMAIN q = 1 .. Len(q)
          /\ \A k \in 1 .. Len(q) : r[k] = q[k]
          /\ r[Len(q) + 1] = op
      <4> HIDE DEF q, op
      <4> QED
        BY <2>2, <3>1, AppendProperties, LenProperties
    <3>3. DOMAIN r = 1 .. Len(r)
      BY <3>2, LenProperties
    <3>4. i \in 1 .. Len(q) \/ i = Len(q) + 1
      BY <2>1, <3>2, <3>3
    <3> QED
      BY <2>1, <3>2, <3>4
  <2>4. held(t)' \subseteq held(t) \cup {op}
    BY <2>1, <2>3 DEF held, inQueue
  <2> QED
    BY <1>3, <2>4 DEF Run
<1>4. \A a : Goto(t, a) => held(t)' \subseteq held(t)
  <2>1. \A a : Goto(t, a) => tab'[t].queue = tab[t].queue /\ tab'[t].batch = tab[t].batch
    BY <1>0 DEF Goto, Sessions
  <2> QED
    BY <1>1, <2>1
<1>5. SessionFails(t) => held(t)' \subseteq held(t)
  <2>1. SessionFails(t) => tab'[t].queue = <<>> /\ tab'[t].batch = tab[t].batch
    BY <1>0 DEF SessionFails, Sessions
  <2> QED
    BY <1>2, <2>1
<1>6. CASE TakeLock(t) \/ MigrationFails(t) \/ DeleteOwnKeys(t) \/ DrainTest(t)
           \/ DrainEnds(t) \/ Close(t)
  BY <1>4, <1>5, <1>6 DEF TakeLock, MigrationFails, DeleteOwnKeys, DrainTest, DrainEnds,
                          Close
<1>7. CASE Open(t)
  <2>1. SessionFails(t) \/ (tab'[t].queue = tab[t].queue /\ tab'[t].batch = tab[t].batch)
    BY <1>0, <1>7 DEF Open, Sessions
  <2> QED
    BY <1>1, <1>5, <1>7, <2>1 DEF Open
<1>8. CASE ImportLegacyFloor(t) \/ Copy(t) \/ RemoveEntry(t) \/ MarkMigrationDone(t)
  <2>1. tab'[t].queue = tab[t].queue /\ tab'[t].batch = tab[t].batch
    BY <1>0, <1>8 DEF ImportLegacyFloor, Copy, RemoveEntry, MarkMigrationDone, Goto,
                      Sessions
  <2> QED
    BY <1>1, <1>8, <2>1 DEF ImportLegacyFloor, Copy, RemoveEntry, MarkMigrationDone
<1>9. CASE NextBatch(t)
  <2> DEFINE q == tab[t].queue
             n == batchLength(q)
  <2>1. CASE q = <<>>
    BY <1>4, <1>9, <2>1 DEF NextBatch
  <2>2. CASE q # <<>>
    <3>1. q \in Seq(Ops) /\ n \in 1 .. Len(q)
      BY <1>0, <2>2, BatchIsPrefix DEF Sessions
    <3>2. tab'[t].batch = {q[i] : i \in 1 .. n} /\ tab'[t].queue = SubSeq(q, n + 1, Len(q))
      BY <1>0, <1>9, <2>2 DEF NextBatch, Sessions
    <3>3. /\ {q[i] : i \in 1 .. n} \subseteq {q[i] : i \in DOMAIN q}
          /\ {SubSeq(q, n + 1, Len(q))[i] : i \in DOMAIN SubSeq(q, n + 1, Len(q))}
                \subseteq {q[i] : i \in DOMAIN q}
      <4> HIDE DEF n, q
      <4> QED
        BY <2>2, <3>1, BatchTaken
    <3>4. held(t)' \subseteq held(t)
      BY <3>2, <3>3 DEF held, inQueue
    <3> QED
      BY <1>9, <3>4 DEF NextBatch
  <2> QED
    BY <2>1, <2>2
<1>10. ASSUME NEW op, NEW result, Answer(t, op, result, tab)
       PROVE  held(t)' \subseteq held(t)
  <2>1. tab'[t].queue = tab[t].queue /\ tab'[t].batch = tab[t].batch \ {op}
    BY <1>0, <1>10 DEF Answer, Sessions
  <2> QED
    BY <1>1, <2>1
<1>11. ASSUME NEW op, NEW result, NEW m, Answer(t, op, result, [tab EXCEPT ![t].memory = m])
       PROVE  held(t)' \subseteq held(t)
  <2>1. tab'[t].queue = tab[t].queue /\ tab'[t].batch = tab[t].batch \ {op}
    BY <1>0, <1>11 DEF Answer, Sessions
  <2> QED
    BY <1>1, <2>1
<1>12. ASSUME NEW op \in tab[t].batch, Refuse(t, op) \/ Sync(t, op) \/ Read(t, op)
       PROVE  calls' = calls /\ held(t)' \subseteq held(t)
  BY <1>10, <1>11, <1>12 DEF Refuse, Sync, Read
<1>13. ASSUME NEW op \in tab[t].batch, Reset(t, op)
       PROVE  calls' = calls /\ held(t)' \subseteq held(t)
  <2>1. tab'[t].queue = tab[t].queue /\ tab'[t].batch = tab[t].batch
    BY <1>0, <1>13 DEF Reset, Sessions
  <2> QED
    BY <1>1, <1>13, <2>1 DEF Reset
<1>14. CASE ResetRemoves(t)
  <2>1. CASE tab' = [tab EXCEPT ![t].next = @ + 1]
    <3>1. tab'[t].queue = tab[t].queue /\ tab'[t].batch = tab[t].batch
      BY <1>0, <2>1 DEF Sessions
    <3> QED
      BY <1>1, <1>14, <3>1 DEF ResetRemoves
  <2> QED
    BY <1>10, <1>14, <2>1 DEF ResetRemoves
<1>15. CASE Crash(t)
  <2>1. tab'[t].queue = <<>> /\ tab'[t].batch = {}
    BY <1>0, <1>15 DEF Crash, Fresh
  <2> QED
    BY <1>2, <1>15, <2>1 DEF Crash
<1> QED
  BY <1>3, <1>6, <1>7, <1>8, <1>9, <1>12, <1>13, <1>14, <1>15 DEF SessionStep, DrainStep

(* Every step keeps the identifiers unique: no operation is queued twice. *)
LEMMA IdsStep ==
    ASSUME DatabaseTypeOK, IdsAreUnique, NEW t \in Tabs, SessionStep(t)
    PROVE  IdsAreUnique'
<1>0. calls \in Int
  BY DEF DatabaseTypeOK
<1>1. ASSUME NEW u \in Tabs, u # t PROVE held(u)' = held(u)
  <2>1. tab'[u] = tab[u]
    BY <1>1, WritesOneSession DEF Writes, DatabaseTypeOK
  <2> QED
    BY <2>1 DEF held, inQueue
<1>2. ASSUME NEW u \in Tabs, NEW op \in held(u) PROVE op.id \in Int /\ op.id <= calls
  <2>1. tab[u].queue \in Seq(Ops) /\ tab[u].batch \in SUBSET Ops
    BY DEF DatabaseTypeOK
  <2>2. DOMAIN tab[u].queue = 1 .. Len(tab[u].queue)
        /\ \A i \in 1 .. Len(tab[u].queue) : tab[u].queue[i] \in Ops
    BY <2>1, LenProperties, ElementOfSeq
  <2>3. op \in Ops
    BY <2>1, <2>2 DEF held, inQueue
  <2> QED
    BY <2>3, <1>2 DEF Ops, Calls, IdsAreUnique
<1>3. CASE calls' = calls /\ held(t)' \subseteq held(t)
  <2>1. \A u \in Tabs : held(u)' \subseteq held(u)
    BY <1>1, <1>3
  <2> QED
    BY <1>3, <2>1 DEF IdsAreUnique
<1>4. ASSUME NEW new, new.id = calls + 1, calls' = calls + 1,
             held(t)' \subseteq held(t) \cup {new}
      PROVE  IdsAreUnique'
  <2>1. \A u \in Tabs : \A op \in held(u)' :
          op \in held(u) \/ (u = t /\ op = new)
    BY <1>1, <1>4
  <2>2. \A u \in Tabs : \A op \in held(u)' : op.id <= calls'
    BY <1>0, <1>2, <1>4, <2>1
  <2>3. ASSUME NEW u \in Tabs, NEW v \in Tabs, NEW op \in held(u)', NEW other \in held(v)',
               op.id = other.id
        PROVE  u = v /\ op = other
    BY <1>0, <1>2, <1>4, <2>1, <2>3 DEF IdsAreUnique
  <2> QED
    BY <2>2, <2>3 DEF IdsAreUnique
<1> QED
  BY <1>3, <1>4, HeldMoves

-----------------------------------------------------------------------------
(* The floors. *)
StoreKept == UNCHANGED <<disk, legacy, due>>

(* The steps that change neither the store, nor the 0.2.x stores, nor what is
   due. *)
LEMMA StoreKeptBy ==
    ASSUME NEW t \in Tabs,
           \/ \E kind \in Kinds : Run(t, kind)
           \/ TakeLock(t) \/ MigrationFails(t) \/ NextBatch(t) \/ Close(t)
           \/ DrainTest(t) \/ DrainEnds(t) \/ Crash(t)
           \/ \E op \in tab[t].batch : Refuse(t, op) \/ Read(t, op)
    PROVE  StoreKept
BY DEF StoreKept, Run, TakeLock, MigrationFails, NextBatch, Close, DrainTest, DrainEnds,
       Crash, Refuse, Read

(* importLegacyFloor and copy(): the store then has every floor that is due,
   from the stores that are left or from an earlier import. *)
LEMMA ImportReaches ==
    ASSUME DatabaseTypeOK, RemovedWhenInForce
    PROVE  /\ highest({disk.floor} \cup standing) \in Floors
           /\ highest({disk.floor} \cup standing) >= due
           /\ highest({disk.floor} \cup standing) >= disk.floor
           /\ highest(standing) \in Floors
           /\ highest(standing) >= due \/ FloorReached
<1> DEFINE all == {disk.floor} \cup standing
<1>0. /\ disk.floor \in Floors /\ due \in Floors /\ Floors \subseteq Int
      /\ standing \in SUBSET Floors
  BY SlotsHoldFloors, ChunkDatabaseAssumption DEF DatabaseTypeOK, standing, Floors
<1>1. all \in SUBSET Floors
  BY <1>0
<1>2. /\ highest(all) \in Floors /\ highest(all) >= -1
      /\ \A x \in all : highest(all) >= x
  <2> HIDE DEF all
  <2> QED
    BY <1>1, HighestBounds
<1>3. highest(standing) \in Floors /\ highest(standing) \in standing \cup {-1}
  BY <1>0, HighestBounds
<1>4. highest(all) >= disk.floor /\ highest(all) >= highest(standing)
  BY <1>2, <1>3
<1>5. highest(standing) >= due \/ FloorReached
  <2>1. highest(standing) \in Int /\ due \in Int
    BY <1>0, <1>3
  <2>2. highest(standing) < due => FloorReached
    BY DEF RemovedWhenInForce, standing, FloorReached
  <2> QED
    BY <2>1, <2>2
<1>6. highest(all) >= due
  <2> HIDE DEF all
  <2>1. /\ highest(all) \in Int /\ highest(standing) \in Int
        /\ disk.floor \in Int /\ due \in Int
    BY <1>0, <1>2, <1>3
  <2> QED
    BY <1>4, <1>5, <2>1 DEF FloorReached
<1> QED
  BY <1>2, <1>3, <1>4, <1>5, <1>6

(* What a step may do to the store on disk and to what is due. *)
LEMMA StoreMoves ==
    ASSUME SessionInvariant, NEW t \in Tabs, SessionStep(t)
    PROVE  /\ due' = due \/ due' = -1
           /\ FloorReached => FloorReached'
           /\ disk.exists => disk'.exists
           /\ disk'.exists # disk.exists => At(t, "open")
           /\ disk'.floor # disk.floor =>
                 /\ tab[t].at \in {"floor", "copy", "run"}
                 /\ tab[t].mode = "opfs"
           /\ disk'.migration = disk.migration \/ At(t, "copy") \/ At(t, "mark")
           /\ \A s \in Slots : legacy'[s] = legacy[s] \/ legacy'[s] = null
           /\ legacy' # legacy => tab[t].at \in {"remove", "resetting"}
<1> USE DEF SessionInvariant
<1>0. /\ disk.floor \in Int /\ disk.floor >= -1 /\ due \in Int /\ due >= -1
      /\ disk \in [exists : BOOLEAN, floor : Floors, migration : {"none", "copied", "done"}]
      /\ legacy \in [Slots -> Floors \cup {torn, null}]
  BY ChunkDatabaseAssumption DEF DatabaseTypeOK, Floors
<1>1. CASE StoreKept
  BY <1>1 DEF StoreKept, FloorReached
<1>2. CASE Open(t)
  <2>1. UNCHANGED <<legacy, due>> /\ At(t, "open")
    BY <1>2 DEF Open
  <2>2. disk' = disk \/ \E b \in BOOLEAN : disk' = [disk EXCEPT !.exists = @ \/ b]
    BY <1>2 DEF Open, DatabaseTypeOK
  <2>3. /\ disk'.floor = disk.floor /\ disk'.migration = disk.migration
        /\ disk.exists => disk'.exists
    BY <1>0, <2>2
  <2> QED
    BY <2>1, <2>3 DEF FloorReached
<1>3. CASE ImportLegacyFloor(t)
  <2>1. UNCHANGED <<legacy, due>> /\ At(t, "floor")
    BY <1>3 DEF ImportLegacyFloor
  <2>2. CASE UNCHANGED disk
    BY <2>1, <2>2 DEF FloorReached
  <2>3. CASE tab[t].mode = "opfs"
             /\ disk' = [disk EXCEPT !.floor = highest({@} \cup standing)]
    <3>1. /\ disk'.floor = highest({disk.floor} \cup standing)
          /\ disk'.exists = disk.exists /\ disk'.migration = disk.migration
      BY <1>0, <2>3
    <3> QED
      BY <2>1, <2>3, <3>1, ImportReaches DEF FloorReached, At
  <2> QED
    BY <1>3, <2>2, <2>3 DEF ImportLegacyFloor
<1>4. CASE Copy(t)
  <2>1. /\ disk'.floor = highest({disk.floor} \cup standing)
        /\ disk'.exists = disk.exists
    BY <1>0, <1>4 DEF Copy
  <2>2. tab[t].mode = "opfs"
    BY <1>4 DEF Copy, At, ReachedOnDisk
  <2> QED
    BY <1>4, <2>1, <2>2, ImportReaches DEF Copy, FloorReached, At
<1>5. CASE RemoveEntry(t) \/ DeleteOwnKeys(t)
  BY <1>0, <1>5 DEF RemoveEntry, DeleteOwnKeys, FloorReached, At
<1>6. CASE MarkMigrationDone(t)
  BY <1>0, <1>6 DEF MarkMigrationDone, FloorReached, At
<1>7. ASSUME NEW op \in tab[t].batch, Sync(t, op)
      PROVE  /\ disk' = disk \/ (tab[t].mode = "opfs" /\
                                 \E n \in 0 .. MaxSequence :
                                    n >= disk.floor /\ disk' = [disk EXCEPT !.floor = n])
             /\ UNCHANGED <<legacy, due>> /\ At(t, "run")
  BY <1>7 DEF Sync, sessionFloor, DatabaseTypeOK
<1>8. ASSUME NEW op \in tab[t].batch, Reset(t, op)
      PROVE  /\ due' = -1 /\ disk'.exists = disk.exists /\ disk'.migration = disk.migration
             /\ disk'.floor = disk.floor \/ (disk'.floor = -1 /\ tab[t].mode = "opfs")
             /\ UNCHANGED legacy /\ At(t, "run")
  BY <1>0, <1>8 DEF Reset
<1>9. CASE ResetRemoves(t)
  BY <1>0, <1>9 DEF ResetRemoves, FloorReached, At
<1>10. ASSUME NEW op \in tab[t].batch, Sync(t, op)
       PROVE  /\ disk'.floor >= disk.floor /\ disk'.floor \in Int
              /\ disk'.exists = disk.exists /\ disk'.migration = disk.migration
              /\ disk'.floor # disk.floor => tab[t].mode = "opfs"
  BY <1>0, <1>7, <1>10, ChunkDatabaseAssumption
<1>11. CASE \E op \in tab[t].batch : Sync(t, op)
  BY <1>0, <1>7, <1>10, <1>11 DEF FloorReached, At
<1>12. CASE \E op \in tab[t].batch : Reset(t, op)
  BY <1>0, <1>8, <1>12 DEF FloorReached, At
<1> QED
  BY <1>1, <1>2, <1>3, <1>4, <1>5, <1>6, <1>9, <1>11, <1>12, StoreKeptBy
  DEF SessionStep, DrainStep

(* What the floor is worth to one session. *)
SessionReached(s) ==
    /\ s.migrated => FloorReached
    /\ s.at \in {"copy", "remove", "mark"} => s.mode = "opfs" /\ FloorReached
    /\ s.at = "run" /\ ~ s.refusal /\ s.mode = "opfs" => FloorReached
    /\ s.at \in {"floor", "copy", "remove", "mark", "run", "resetting"} =>
          (s.mode = "memory" => ~ s.at = "floor" \/ ~ disk.exists)
          /\ (s.mode = "opfs" => disk.exists)
    /\ s.memory # null => s.memory >= due
    /\ s.at \in {"run", "resetting"} /\ ~ s.refusal /\ s.mode = "memory"
          => s.memory # null
    /\ s.at = "resetting" =>
          /\ due = -1
          /\ s.mode = "opfs" => disk.floor = -1
          /\ \A i \in Slots : i < s.next => legacy[i] = null

(* The three conjuncts on what is due, taken together for one session. *)
LEMMA SessionReachedDef ==
    ReachedOnDisk /\ ReachedInMemory /\ ResetProgress =>
       \A t \in Tabs : SessionReached(tab[t])
BY DEF SessionReached, ReachedOnDisk, ReachedInMemory, ResetProgress, At

(* The steps of another Worker leave a session what it has. *)
LEMMA OthersReached ==
    ASSUME SessionInvariant, NEW t \in Tabs, SessionStep(t), NEW u \in Tabs, u # t
    PROVE  SessionReached(tab[u])'
<1> USE DEF SessionInvariant
<1>0. /\ tab'[u] = tab[u] /\ tab[u] \in Sessions /\ tab[t] \in Sessions
      /\ SessionReached(tab[u])
  BY WritesOneSession, SessionReachedDef DEF Writes, DatabaseTypeOK, Sessions
<1>1. /\ disk.floor \in Int /\ due \in Int /\ due >= -1
      /\ tab[u].memory # null => tab[u].memory \in Int /\ tab[u].memory >= -1
  BY <1>0, ChunkDatabaseAssumption DEF DatabaseTypeOK, Floors, Sessions
<1>2. tab[t].at \notin Inside \/ tab[u].at \notin Inside
  BY OneInside
<1>3. /\ due' = due \/ due' = -1
      /\ FloorReached => FloorReached'
      /\ disk.exists => disk'.exists
      /\ disk'.exists # disk.exists => At(t, "open")
      /\ disk'.floor # disk.floor => tab[t].at \in {"floor", "copy", "run"}
      /\ \A s \in Slots : legacy'[s] = legacy[s] \/ legacy'[s] = null
  BY StoreMoves
<1>4. tab[u].memory # null => tab[u].memory >= due'
  BY <1>0, <1>1, <1>3 DEF SessionReached
<1>5. tab[u].at = "floor" => disk'.exists = disk.exists
  BY <1>2, <1>3 DEF Inside, At
<1>6. tab[u].at = "resetting" =>
         /\ due' = -1 /\ disk'.floor = disk.floor
         /\ \A i \in Slots : i < tab[u].next => legacy'[i] = null
  BY <1>0, <1>2, <1>3 DEF Inside, SessionReached
<1> QED
  BY <1>0, <1>3, <1>4, <1>5, <1>6 DEF SessionReached

(* A step leaves the session it writes as far as it says. *)
LEMMA OwnReached ==
    ASSUME SessionInvariant, NEW t \in Tabs, SessionStep(t)
    PROVE  SessionReached(tab[t])'
<1> USE DEF SessionInvariant
<1> DEFINE s == tab[t]
           r == tab'[t]
<1>0. tab \in [Tabs -> Sessions] /\ s \in Sessions /\ r \in Sessions
  BY WritesOneSession DEF Writes, DatabaseTypeOK, Sessions
<1>1. SessionReached(s)
  BY SessionReachedDef
<1>2. /\ disk.floor \in Int /\ disk.floor >= -1 /\ due \in Int /\ due >= -1
      /\ \A m \in Floors : m \in Int /\ m >= -1 /\ m # null
      /\ disk \in [exists : BOOLEAN, floor : Floors, migration : {"none", "copied", "done"}]
  <2>1. \A m \in Floors : m \in Int /\ m >= -1
    BY ChunkDatabaseAssumption DEF Floors
  <2>2. \A m \in Floors : m # null
    BY ChunkDatabaseAssumption
  <2> QED
    BY <2>1, <2>2 DEF DatabaseTypeOK
<1>3. /\ due' = due \/ due' = -1
      /\ FloorReached => FloorReached'
      /\ disk.exists => disk'.exists
      /\ \A i \in Slots : legacy'[i] = legacy[i] \/ legacy'[i] = null
  BY StoreMoves
<1>4. /\ s.memory # null => s.memory >= due'
      /\ s.migrated => FloorReached'
  <2>1. s.memory # null => s.memory \in Int /\ s.memory >= -1
    BY <1>0, <1>2 DEF Sessions
  <2> QED
    BY <1>1, <1>2, <1>3, <2>1 DEF SessionReached
(* Where only the place in the program changes. *)
<1>5. ASSUME NEW a, r.at = a, a \in {"none", "waiting", "open", "closing", "test", "ended"},
             r.memory = s.memory, r.migrated = s.migrated
      PROVE  SessionReached(s)'
  <2>1. ~ (a \in {"floor", "copy", "remove", "mark", "run", "resetting"})
    BY <1>5
  <2> QED
    BY <1>4, <1>5, <2>1 DEF SessionReached
<1>6. ASSUME NEW a, Goto(t, a)
      PROVE  /\ r.at = a /\ r.mode = s.mode /\ r.memory = s.memory /\ r.next = s.next
             /\ r.refusal = s.refusal /\ r.migrated = s.migrated
  BY <1>0, <1>6 DEF Goto, Sessions
<1>7. ASSUME SessionFails(t) PROVE SessionReached(s)'
  <2>1. r.at = "test" /\ r.memory = s.memory /\ r.migrated = s.migrated
    BY <1>0, <1>7 DEF SessionFails, Sessions
  <2> QED
    BY <1>5, <2>1
<1>8. ASSUME NEW kind \in Kinds, Run(t, kind) PROVE SessionReached(s)'
  <2>1. /\ r.at = IF s.at = "none" THEN "waiting" ELSE s.at
        /\ r.mode = s.mode /\ r.memory = s.memory /\ r.next = s.next
        /\ r.refusal = s.refusal /\ r.migrated = s.migrated
    BY <1>0, <1>8 DEF Run, Sessions
  <2>2. StoreKept
    BY <1>8, StoreKeptBy
  <2>3. CASE s.at = "none"
    BY <1>5, <2>1, <2>3
  <2>4. CASE s.at # "none"
    <3>1. /\ r.at = s.at /\ r.mode = s.mode /\ r.memory = s.memory /\ r.next = s.next
          /\ r.refusal = s.refusal /\ r.migrated = s.migrated
      BY <2>1, <2>4
    <3>2. disk' = disk /\ legacy' = legacy /\ due' = due
      BY <2>2 DEF StoreKept
    <3> QED
      BY <1>1, <3>1, <3>2 DEF SessionReached, FloorReached
  <2> QED
    BY <2>3, <2>4
<1>9. CASE TakeLock(t) \/ DrainTest(t) \/ DrainEnds(t) \/ Close(t)
  <2>1. SessionFails(t) \/ \E a \in {"none", "waiting", "open", "test", "ended"} : Goto(t, a)
    BY <1>9 DEF TakeLock, DrainTest, DrainEnds, Close
  <2>2. ASSUME NEW a \in {"none", "waiting", "open", "test", "ended"}, Goto(t, a)
        PROVE  SessionReached(s)'
    BY <1>5, <1>6, <2>2
  <2> QED
    BY <1>7, <2>1, <2>2
<1>10. CASE Open(t)
  <2>1. CASE SessionFails(t)
    BY <1>7, <2>1
  <2>2. CASE s.memory # null /\ r.at = "run" /\ r.mode = "memory" /\ r.memory = s.memory
             /\ r.migrated = s.migrated
    BY <1>4, <2>2 DEF SessionReached
  <2>3. CASE /\ r.at = IF s.migrated \/ disk.migration = "done" THEN "run" ELSE "floor"
             /\ r.mode = "opfs" /\ r.memory = s.memory
             /\ r.migrated <=> (s.migrated \/ disk.migration = "done")
             /\ disk'.exists
    <3>1. s.migrated \/ disk.migration = "done" => FloorReached'
      BY <1>3, <1>4 DEF ReachedOnDisk
    <3> QED
      BY <1>4, <2>3, <3>1 DEF SessionReached
  <2>4. CASE /\ r.at = "floor" /\ r.mode = "memory" /\ r.memory = s.memory
             /\ r.migrated = s.migrated /\ ~ disk'.exists
    BY <1>4, <2>4 DEF SessionReached
  <2>5. ASSUME tab' = [tab EXCEPT ![t].at = "run", ![t].mode = "memory",
                                  ![t].refusal = FALSE]
        PROVE  /\ r.at = "run" /\ r.mode = "memory" /\ r.memory = s.memory
               /\ r.migrated = s.migrated
    BY <1>0, <2>5 DEF Sessions
  <2>6. ASSUME tab' = [tab EXCEPT ![t].at = "floor", ![t].mode = "memory",
                                  ![t].refusal = FALSE]
        PROVE  /\ r.at = "floor" /\ r.mode = "memory" /\ r.memory = s.memory
               /\ r.migrated = s.migrated
    BY <1>0, <2>6 DEF Sessions
  <2>7. ASSUME NEW done,
               tab' = [tab EXCEPT ![t].at = IF done THEN "run" ELSE "floor",
                                  ![t].mode = "opfs", ![t].refusal = FALSE,
                                  ![t].migrated = done]
        PROVE  /\ r.at = IF done THEN "run" ELSE "floor"
               /\ r.mode = "opfs" /\ r.memory = s.memory /\ r.migrated = done
    BY <1>0, <2>7 DEF Sessions
  <2>8. disk' = [disk EXCEPT !.exists = TRUE] => disk'.exists
    BY <1>2
  <2> QED
    BY <1>10, <2>1, <2>2, <2>3, <2>4, <2>5, <2>6, <2>7, <2>8 DEF Open
<1>11. CASE ImportLegacyFloor(t)
  <2>0. s.at = "floor" /\ due' = due
    BY <1>11 DEF ImportLegacyFloor, At
  <2>1. CASE /\ s.mode = "opfs" /\ Goto(t, "copy")
             /\ disk' = [disk EXCEPT !.floor = highest({@} \cup standing)]
    <3>1. /\ disk'.floor = highest({disk.floor} \cup standing) /\ disk'.exists = disk.exists
      BY <1>2, <2>1
    <3>2. FloorReached'
      BY <2>0, <3>1, ImportReaches DEF FloorReached
    <3>3. disk.exists
      BY <1>1, <2>0, <2>1 DEF SessionReached
    <3> QED
      BY <1>4, <1>6, <2>1, <3>1, <3>2, <3>3 DEF SessionReached
  <2>2. CASE /\ s.mode = "memory" /\ UNCHANGED disk
             /\ tab' = [tab EXCEPT ![t].at = "run", ![t].memory = highest(standing)]
    <3>1. /\ r.at = "run" /\ r.mode = s.mode /\ r.memory = highest(standing)
          /\ r.migrated = s.migrated
      BY <1>0, <2>2 DEF Sessions
    <3>2. ~ disk.exists /\ disk.floor = -1
      BY <1>1, <2>0, <2>2 DEF SessionReached, ReachedOnDisk
    <3>3. /\ highest(standing) \in Floors
          /\ highest(standing) >= due \/ FloorReached
      BY ImportReaches
    <3>4. highest(standing) >= due'
      BY <1>2, <2>0, <3>2, <3>3 DEF FloorReached
    <3> QED
      BY <1>2, <1>4, <2>2, <3>1, <3>3, <3>4 DEF SessionReached
  <2>3. CASE /\ tab' = [tab EXCEPT ![t].at = "run", ![t].refusal = TRUE]
             /\ UNCHANGED disk
    <3>1. /\ r.at = "run" /\ r.mode = s.mode /\ r.memory = s.memory
          /\ r.migrated = s.migrated /\ r.refusal
      BY <1>0, <2>3 DEF Sessions
    <3>2. s.mode = "opfs" => disk'.exists
      BY <1>1, <2>0, <2>3 DEF SessionReached
    <3> QED
      BY <1>4, <3>1, <3>2 DEF SessionReached
  <2> QED
    BY <1>11, <2>1, <2>2, <2>3 DEF ImportLegacyFloor
<1>12. CASE MigrationFails(t)
  <2>1. /\ s.at \in {"copy", "remove", "mark"} /\ StoreKept
        /\ r.at = "run" /\ r.mode = s.mode /\ r.memory = s.memory
        /\ r.migrated = s.migrated
    BY <1>6, <1>12, StoreKeptBy DEF MigrationFails
  <2> QED
    BY <1>1, <1>3, <1>4, <2>1 DEF SessionReached, StoreKept
<1>13. CASE Copy(t)
  <2>1. /\ s.at = "copy" /\ r.at = "remove" /\ r.mode = s.mode /\ r.memory = s.memory
        /\ r.migrated = s.migrated
    BY <1>0, <1>13 DEF Copy, At, Sessions
  <2> QED
    BY <1>1, <1>3, <1>4, <2>1 DEF SessionReached
<1>14. CASE RemoveEntry(t)
  <2>1. /\ s.at = "remove" /\ r.at = "remove" /\ r.mode = s.mode /\ r.memory = s.memory
        /\ r.migrated = s.migrated
    BY <1>0, <1>14 DEF RemoveEntry, At, Sessions
  <2> QED
    BY <1>1, <1>3, <1>4, <2>1 DEF SessionReached
<1>15. CASE DeleteOwnKeys(t)
  <2>1. /\ s.at = "remove" /\ r.at = "mark" /\ r.mode = s.mode /\ r.memory = s.memory
        /\ r.migrated = s.migrated
    BY <1>6, <1>15 DEF DeleteOwnKeys, At
  <2> QED
    BY <1>1, <1>3, <1>4, <2>1 DEF SessionReached
<1>16. CASE MarkMigrationDone(t)
  <2>1. /\ s.at = "mark" /\ r.at = "run" /\ r.mode = s.mode /\ r.memory = s.memory
        /\ r.migrated
    BY <1>0, <1>16 DEF MarkMigrationDone, At, Sessions
  <2> QED
    BY <1>1, <1>3, <1>4, <2>1 DEF SessionReached
<1>17. CASE NextBatch(t)
  <2>1. CASE Goto(t, "closing")
    BY <1>5, <1>6, <2>1
  <2>2. CASE tab[t].queue # <<>>
    <3>1. /\ s.at = "run" /\ r.at = "run" /\ r.mode = s.mode /\ r.memory = s.memory
          /\ r.migrated = s.migrated /\ r.refusal = s.refusal
      BY <1>0, <1>17, <2>2 DEF NextBatch, At, Sessions
    <3> QED
      BY <1>1, <1>3, <1>4, <3>1 DEF SessionReached
  <2> QED
    BY <1>17, <2>1, <2>2 DEF NextBatch
(* An answer leaves the session running under the floor it has. *)
<1>18. ASSUME NEW op, NEW result, Answer(t, op, result, tab)
       PROVE  /\ r.at = "run" /\ r.mode = s.mode /\ r.memory = s.memory
              /\ r.migrated = s.migrated /\ r.refusal = s.refusal
  BY <1>0, <1>18 DEF Answer, Sessions
<1>19. ASSUME s.at \in {"run", "resetting"}, r.at = "run", r.mode = s.mode,
              r.memory = s.memory, r.migrated = s.migrated, r.refusal = s.refusal
       PROVE  SessionReached(s)'
  <2>1. s.at = "resetting" => due' = -1 /\ disk'.floor \in Int /\ disk'.floor >= -1
    <3>1. DatabaseTypeOK'
      BY TypeStep DEF DatabaseNext, SessionStep
    <3> QED
      BY <1>1, <1>2, <1>3, <3>1 DEF SessionReached, DatabaseTypeOK
  <2>2. s.at = "resetting" => FloorReached'
    BY <2>1 DEF FloorReached
  <2> QED
    BY <1>1, <1>3, <1>4, <1>19, <2>2 DEF SessionReached
<1>20. ASSUME NEW op \in s.batch, Refuse(t, op) \/ Read(t, op) PROVE SessionReached(s)'
  BY <1>18, <1>19, <1>20 DEF Refuse, Read, At
<1>21. ASSUME NEW op \in s.batch, Sync(t, op) PROVE SessionReached(s)'
  <2>1. s.at = "run" /\ ~ s.refusal /\ due' = due
    BY <1>21 DEF Sync, At
  <2>2. CASE s.mode # "memory"
    BY <1>18, <1>19, <1>21, <2>1, <2>2 DEF Sync
  <2>3. CASE s.mode = "memory"
    <3>1. PICK n \in 0 .. MaxSequence, result \in {"ok", "error"} :
             n >= s.memory /\ Answer(t, op, result, [tab EXCEPT ![t].memory = n])
      BY <1>21, <2>3 DEF Sync, sessionFloor
    <3>2. /\ r.at = "run" /\ r.mode = s.mode /\ r.memory = n
          /\ r.migrated = s.migrated
      BY <1>0, <3>1 DEF Answer, Sessions
    <3>3. s.memory # null /\ s.memory \in Int /\ s.memory >= due
      BY <1>0, <1>1, <1>2, <2>1, <2>3 DEF SessionReached, Sessions
    <3>4. n \in Floors /\ n >= due'
      BY <1>2, <2>1, <3>1, <3>3, ChunkDatabaseAssumption DEF Floors
    <3> QED
      BY <1>2, <1>4, <2>3, <3>2, <3>4 DEF SessionReached
  <2> QED
    BY <2>2, <2>3
<1>22. ASSUME NEW op \in s.batch, Reset(t, op) PROVE SessionReached(s)'
  <2>1. /\ r.at = "resetting" /\ r.mode = s.mode /\ r.next = 1
        /\ r.memory = IF s.memory = null THEN null ELSE -1
        /\ r.migrated = s.migrated /\ r.refusal = s.refusal
    BY <1>0, <1>22 DEF Reset, Sessions
  <2>2. /\ due' = -1 /\ s.at = "run"
        /\ s.mode = "opfs" => disk'.floor = -1
    BY <1>2, <1>22 DEF Reset, At
  <2>3. \A i \in Slots : ~ (i < 1)
    BY DEF Slots
  <2>4. /\ s.mode = "opfs" => disk'.exists
        /\ ~ s.refusal /\ s.mode = "memory" => s.memory # null
    BY <1>1, <1>3, <2>2 DEF SessionReached
  <2>5. -1 # null
    BY <1>2, ChunkDatabaseAssumption DEF Floors
  <2> QED
    BY <1>4, <2>1, <2>2, <2>3, <2>4, <2>5 DEF SessionReached
<1>23. CASE ResetRemoves(t)
  <2>1. s.at = "resetting" /\ UNCHANGED <<disk, due>>
    BY <1>23 DEF ResetRemoves, At
  <2>2. CASE /\ s.next \in Slots /\ legacy' = [legacy EXCEPT ![s.next] = null]
             /\ tab' = [tab EXCEPT ![t].next = @ + 1]
    <3>1. /\ r.at = "resetting" /\ r.mode = s.mode /\ r.next = s.next + 1
          /\ r.memory = s.memory /\ r.migrated = s.migrated /\ r.refusal = s.refusal
      BY <1>0, <2>1, <2>2 DEF Sessions
    <3>2. \A i \in Slots : i < s.next + 1 => i < s.next \/ i = s.next
      BY <2>2 DEF Slots
    <3>3. \A i \in Slots : i < r.next => legacy'[i] = null
      BY <1>1, <2>1, <2>2, <3>1, <3>2 DEF SessionReached, DatabaseTypeOK
    <3> QED
      BY <1>1, <1>3, <1>4, <2>1, <3>1, <3>3 DEF SessionReached
  <2>3. CASE \E op \in s.batch : \E result : Answer(t, op, result, tab)
    BY <1>18, <1>19, <2>1, <2>3
  <2> QED
    BY <1>23, <2>2, <2>3 DEF ResetRemoves
<1>24. CASE Crash(t)
  <2>1. r.at = "none" /\ r.memory = null /\ ~ r.migrated
    BY <1>0, <1>24 DEF Crash, Fresh
  <2> QED
    BY <2>1 DEF SessionReached
<1> QED
  BY <1>8, <1>9, <1>10, <1>11, <1>12, <1>13, <1>14, <1>15, <1>16, <1>17, <1>20, <1>21,
     <1>22, <1>23, <1>24
  DEF SessionStep, DrainStep

(* The removal of the 0.2.x stores loses no floor that is due. *)
LEMMA RemovalStep ==
    ASSUME SessionInvariant, NEW t \in Tabs, SessionStep(t)
    PROVE  RemovedWhenInForce'
<1> USE DEF SessionInvariant
<1>0. DatabaseTypeOK'
  BY TypeStep DEF DatabaseNext, SessionStep
<1>1. /\ due' \in Int /\ disk'.floor \in Int /\ disk'.floor >= -1 /\ due \in Int
      /\ highest(floorsIn(legacy))' \in Int /\ highest(floorsIn(legacy))' >= -1
  <2>1. floorsIn(legacy') \in SUBSET Floors
    BY <1>0, SlotsHoldFloors DEF DatabaseTypeOK
  <2>2. highest(floorsIn(legacy')) \in Floors /\ highest(floorsIn(legacy')) >= -1
    BY <2>1, HighestBounds
  <2> QED
    BY <1>0, <2>2, ChunkDatabaseAssumption DEF DatabaseTypeOK, Floors
<1>2. /\ due' = due \/ due' = -1
      /\ FloorReached => FloorReached'
      /\ legacy' # legacy => tab[t].at \in {"remove", "resetting"}
  BY StoreMoves
<1>3. CASE FloorReached
  BY <1>2, <1>3 DEF RemovedWhenInForce, FloorReached
<1>4. CASE due' = -1
  BY <1>1, <1>4 DEF RemovedWhenInForce
<1>5. CASE legacy' = legacy /\ due' = due /\ ~ FloorReached
  BY <1>5 DEF RemovedWhenInForce, FloorReached
<1>6. CASE tab[t].at \in {"remove", "resetting"}
  <2>1. FloorReached \/ due = -1
    BY <1>6 DEF ReachedOnDisk, ResetProgress, At
  <2> QED
    BY <1>2, <1>3, <1>4, <2>1
<1> QED
  BY <1>2, <1>3, <1>4, <1>5, <1>6

(* Every step keeps each session at what it is due, on disk and in memory. *)
LEMMA ReachedStep ==
    ASSUME SessionInvariant, NEW t \in Tabs, SessionStep(t)
    PROVE  (ReachedOnDisk /\ ReachedInMemory /\ ResetProgress)'
<1> USE DEF SessionInvariant
<1>1. \A u \in Tabs : SessionReached(tab[u])'
  BY OthersReached, OwnReached
<1>2. /\ FloorReached => FloorReached'
      /\ disk.exists => disk'.exists
      /\ disk'.floor # disk.floor =>
            tab[t].at \in {"floor", "copy", "run"} /\ tab[t].mode = "opfs"
      /\ disk'.migration = disk.migration \/ At(t, "copy") \/ At(t, "mark")
  BY StoreMoves
<1>3. disk'.migration # "none" => FloorReached'
  BY <1>2 DEF ReachedOnDisk, At
<1>4. ~ disk'.exists => disk'.floor = -1
  BY <1>2 DEF ReachedOnDisk
<1>5. (\A u \in Tabs : SessionReached(tab[u]))' =>
         (ReachedOnDisk /\ ReachedInMemory /\ ResetProgress)'
  BY <1>3, <1>4 DEF SessionReached, ReachedOnDisk, ReachedInMemory, ResetProgress, At
<1> QED
  BY <1>1, <1>5

-----------------------------------------------------------------------------
(* The initial states satisfy the invariant. *)
LEMMA SessionInit == DatabaseInit => SessionInvariant
<1> SUFFICES ASSUME DatabaseInit PROVE SessionInvariant
  OBVIOUS
<1>1. DatabaseTypeOK
  BY TypeInit
<1>2. \A t \in Tabs : tab[t] = Fresh
  BY DEF DatabaseInit
<1>3. \A t \in Tabs : held(t) = {}
  BY <1>2 DEF held, inQueue, Fresh
<1>4. LockHeldInside /\ BatchShape /\ IdsAreUnique
  BY <1>2, <1>3 DEF LockHeldInside, BatchShape, IdsAreUnique, Fresh, Inside, At
<1>5. disk.migration = "none" /\ disk.floor = -1
  BY DEF DatabaseInit
<1>6. ReachedOnDisk /\ ReachedInMemory /\ ResetProgress
  BY <1>2, <1>5 DEF ReachedOnDisk, ReachedInMemory, ResetProgress, Fresh, At
<1>7. RemovedWhenInForce
  <2>1. due = highest(floorsIn(legacy)) /\ due \in Int
    BY <1>1, ChunkDatabaseAssumption DEF DatabaseInit, DatabaseTypeOK, Floors
  <2> QED
    BY <2>1 DEF RemovedWhenInForce
<1> QED
  BY <1>1, <1>4, <1>6, <1>7 DEF SessionInvariant

(* Every step keeps the whole invariant. *)
LEMMA SessionInvariantStep ==
    ASSUME SessionInvariant, [DatabaseNext]_dbVars
    PROVE  SessionInvariant'
<1>1. DatabaseTypeOK'
  BY TypeStep DEF SessionInvariant
<1>2. ASSUME NEW t \in Tabs, SessionStep(t) PROVE SessionInvariant'
  BY <1>1, <1>2, LockStep, BatchStep, IdsStep, ReachedStep, RemovalStep
  DEF SessionInvariant
<1>3. CASE OpfsChanges \/ UNCHANGED dbVars
  <2>1. UNCHANGED <<tab, lock, disk, legacy, outcome, calls, due>>
    BY <1>3 DEF OpfsChanges, dbVars
  <2>2. \A t \in Tabs : held(t)' = held(t)
    BY <2>1 DEF held, inQueue
  <2>3. LockHeldInside' /\ BatchShape' /\ IdsAreUnique'
    BY <2>1, <2>2 DEF SessionInvariant, LockHeldInside, BatchShape, IdsAreUnique, At
  <2>4. ReachedOnDisk' /\ ReachedInMemory' /\ ResetProgress' /\ RemovedWhenInForce'
    BY <2>1 DEF SessionInvariant, ReachedOnDisk, ReachedInMemory, ResetProgress,
                RemovedWhenInForce, FloorReached, At
  <2> QED
    BY <1>1, <2>3, <2>4 DEF SessionInvariant
<1> QED
  BY <1>2, <1>3 DEF DatabaseNext, SessionStep

(* In every session that serves, the floors of the 0.2.x stores are in force;
   none is lost by their removal; and only the holder of the cache lock runs
   operations, an exclusive one alone. *)
THEOREM FloorsStayInForce == DatabaseSpec => []DatabaseInvariant
<1>1. SessionInvariant => DatabaseInvariant
  <2> SUFFICES ASSUME SessionInvariant PROVE DatabaseInvariant
    OBVIOUS
  <2> USE DEF SessionInvariant
  <2>1. ASSUME NEW t \in Tabs, At(t, "run"), ~ tab[t].refusal
        PROVE  sessionFloor(t) >= due
    <3>1. CASE tab[t].mode = "memory"
      BY <2>1, <3>1 DEF ReachedInMemory, sessionFloor, At
    <3>2. CASE tab[t].mode # "memory"
      <4>1. tab[t].mode = "opfs"
        BY <3>2 DEF DatabaseTypeOK
      <4> QED
        BY <2>1, <4>1 DEF ReachedOnDisk, FloorReached, sessionFloor
    <3> QED
      BY <3>1, <3>2
  <2>2. ASSUME NEW t \in Tabs, tab[t].batch # {}
        PROVE  /\ lock = t
               /\ Cardinality(tab[t].batch) > 1 => \A op \in tab[t].batch : shared(op)
    <3>1. tab[t].at \in Inside
      BY <2>2 DEF BatchShape, Inside
    <3>2. \A op : Cardinality({op}) = 1
      BY FS_Singleton
    <3>3. (\A op \in tab[t].batch : shared(op)) \/ \E op \in tab[t].batch : tab[t].batch = {op}
      BY DEF BatchShape
    <3>4. Cardinality(tab[t].batch) > 1 => \A op \in tab[t].batch : shared(op)
      BY <3>2, <3>3
    <3> QED
      BY <3>1, <3>4 DEF LockHeldInside
  <2> QED
    BY <2>1, <2>2 DEF DatabaseInvariant, FloorInForce, ExclusiveRunsAlone
<1> QED
  BY <1>1, SessionInit, SessionInvariantStep, PTL DEF DatabaseSpec

-----------------------------------------------------------------------------
(* A reset is told that it succeeded only by its own last step. *)
LEMMA ResetAnswered ==
    ASSUME SessionInvariant, [DatabaseNext]_dbVars,
           NEW t \in Tabs, NEW op \in tab[t].batch, op.kind = "reset",
           outcome[op.id] = "pending", outcome'[op.id] = "ok"
    PROVE  /\ \A s \in Slots : legacy'[s] = null
           /\ tab'[t].mode = "opfs" => disk'.floor = -1
<1> USE DEF SessionInvariant
<1>0. op.id \in Calls /\ op \in held(t)
  BY DEF DatabaseTypeOK, Ops, held
<1>1. \A ops, result : outcome' = settled(ops, result) =>
         result = "ok" /\ \E other \in ops : other.id = op.id
  BY <1>0 DEF settled
<1>2. ~ UNCHANGED outcome
  OBVIOUS
<1>3. PICK u \in Tabs : SessionStep(u)
  BY <1>2 DEF DatabaseNext, SessionStep, OpfsChanges, dbVars
<1>4. ASSUME NEW kind \in Kinds PROVE ~ Run(u, kind)
  BY <1>0 DEF Run, DatabaseTypeOK
<1>5. ~ Open(u) /\ ~ Close(u) /\ ~ Crash(u)
  BY <1>1, <1>2 DEF Open, Close, Crash, SessionFails
<1>6. ASSUME NEW other \in tab[u].batch, NEW result, outcome' = settled({other}, result)
      PROVE  u = t /\ other = op
  BY <1>0, <1>1, <1>6 DEF IdsAreUnique, held
<1>7. ASSUME NEW other \in tab[u].batch
      PROVE  ~ (Refuse(u, other) \/ Sync(u, other) \/ Read(u, other) \/ Reset(u, other))
  BY <1>2, <1>6, <1>7 DEF Refuse, Sync, Read, Reset, Answer
<1>8. ResetRemoves(u)
  BY <1>2, <1>3, <1>4, <1>5, <1>7
  DEF SessionStep, DrainStep, TakeLock, ImportLegacyFloor, MigrationFails, Copy,
      RemoveEntry, DeleteOwnKeys, MarkMigrationDone, NextBatch, DrainTest, DrainEnds
<1>9. PICK other \in tab[u].batch, result \in {"ok", "error"} :
         /\ Answer(u, other, result, tab)
         /\ result = "ok" => tab[u].next \notin Slots
  BY <1>2, <1>8 DEF ResetRemoves
<1>10. /\ u = t /\ result = "ok" /\ At(t, "resetting") /\ tab[t].next \notin Slots
       /\ UNCHANGED <<disk, legacy>>
  BY <1>1, <1>6, <1>8, <1>9 DEF Answer, ResetRemoves
<1>11. tab'[t].mode = tab[t].mode
  BY <1>9, <1>10 DEF Answer, DatabaseTypeOK
<1>12. \A s \in Slots : s < tab[t].next
  BY <1>10 DEF DatabaseTypeOK, Slots
<1> QED
  BY <1>10, <1>11, <1>12 DEF ResetProgress

(* A reset that reports success has removed every 0.2.x store and left no floor
   in the store of its session. *)
THEOREM ResetsAreTotal == DatabaseSpec => ResetIsTotal
<1>1. SessionInvariant /\ [DatabaseNext]_dbVars =>
        [\A t \in Tabs : \A op \in tab[t].batch :
            /\ op.kind = "reset"
            /\ outcome[op.id] = "pending" /\ outcome'[op.id] = "ok"
            => /\ \A s \in Slots : legacy'[s] = null
               /\ tab'[t].mode = "opfs" => disk'.floor = -1]_dbVars
  BY ResetAnswered
<1> QED
  BY <1>1, SessionInit, SessionInvariantStep, PTL DEF DatabaseSpec, ResetIsTotal
=============================================================================
