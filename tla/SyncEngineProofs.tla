-------------------------- MODULE SyncEngineProofs --------------------------
(***************************************************************************)
(* Proofs about the chunk store and the sync engine over it, for every set *)
(* of chunks, manifests and pointers, every legacy store, every catalogue  *)
(* of releases, trust roots, wanted paths and any number of faults.        *)
(*                                                                         *)
(* The store comes first: what every one of its steps keeps.  The engine's *)
(* steps are steps of the store, so all of that holds of it too.           *)
(***************************************************************************)
EXTENDS SyncEngine, TLAPS

-----------------------------------------------------------------------------
(* The chunk store.                                                        *)

(* pointerIdentity tells any two pointers apart, so samePointer is equality
   (src/engine/sqliteStore.ts, pointerIdentity). *)
LEMMA IdentityInjective ==
    ASSUME NEW p \in Pointers, NEW q \in Pointers,
           pointerIdentity(p) = pointerIdentity(q)
    PROVE  p = q
<1>1. \A f \in PointerFields : p[f] = q[f]
  BY DEF pointerIdentity, PointerFields
<1>2. /\ p = [f \in PointerFields |-> p[f]]
      /\ q = [f \in PointerFields |-> q[f]]
  BY PointersAssumption DEF parseStoredPointer
<1> QED
  BY <1>1, <1>2

(* What the gate installs is a well-formed row whose floor has not fallen. *)
LEMMA InstallRow ==
    ASSUME NEW r \in FloorRow, NEW p \in Pointers
    PROVE  /\ installPointer(r, p) \in FloorRow
           /\ installPointer(r, p).pointer = p
           /\ installPointer(r, p).floorIdentity = pointerIdentity(p)
           /\ installPointer(r, p).floorSequence >= r.floorSequence
           /\ installPointer(r, p).floorSequence >= p.sequence
           /\ installPointer(r, p).floorSequence \in {r.floorSequence, p.sequence}
BY PointersAssumption DEF FloorRow, installPointer, sequenceOf, parseStoredPointer

(* The highest candidate of a legacy scan is one of the candidates. *)
LEMMA HighestIsCandidate ==
    ASSUME NEW cs \in Seq(Pointers \cup {null})
    PROVE  selectHighestPointer(cs) \in Pointers \cup {null}
<1>1. CASE \E j \in DOMAIN cs : isHighest(cs, j)
  <2>1. (CHOOSE j \in DOMAIN cs : isHighest(cs, j)) \in DOMAIN cs
    BY <1>1
  <2> QED
    BY <1>1, <2>1 DEF selectHighestPointer
<1>2. CASE ~ \E j \in DOMAIN cs : isHighest(cs, j)
  BY <1>2 DEF selectHighestPointer
<1> QED
  BY <1>1, <1>2

(* The four things a legacy merge can do to the row: nothing, install a
   pointer the gate admits, forget the identity at the floor, or raise a
   floor that has none. *)
MergeShape(r, s) ==
    \/ s = r
    \/ \E p \in Pointers : admits(r, p) /\ s = installPointer(r, p)
    \/ s = forgetIdentity(r)
    \/ \E n \in Int : /\ n > r.floorSequence
                      /\ s = [pointer |-> null, floorSequence |-> n,
                              floorIdentity |-> null]

(* mergeLegacyFloor does one of the four things of MergeShape, whatever slots
   the 0.2.x store held. *)
LEMMA MergeLegacyShape ==
    ASSUME NEW r \in FloorRow, NEW cs \in Seq(Pointers \cup {null})
    PROVE  MergeShape(r, mergeLegacyFloor(r, cs))
<1> DEFINE legacy == selectHighestPointer(cs)
<1>1. legacy \in Pointers \cup {null}
  BY HighestIsCandidate
<1>2. highestSequence(cs) \in Int
  <2>1. CASE \E j \in DOMAIN cs : isHighest(cs, j)
    <3>1. LET j == CHOOSE i \in DOMAIN cs : isHighest(cs, i)
          IN  legacy = cs[j] /\ cs[j] # null
      BY <2>1 DEF selectHighestPointer, isHighest
    <3>2. legacy \in Pointers
      BY <1>1, <3>1
    <3> QED
      BY <2>1, <3>2, PointersAssumption
      DEF highestSequence, sequenceOf, parseStoredPointer
  <2> QED
    BY <2>1 DEF highestSequence
<1>3. CASE pointersDisagree(cs)
  BY <1>2, <1>3 DEF mergeLegacyFloor, conflictingLegacyFloor, MergeShape
<1>4. CASE ~ pointersDisagree(cs) /\ (legacy = null \/ admits(r, legacy))
  BY <1>1, <1>4 DEF mergeLegacyFloor, MergeShape
<1>5. CASE ~ pointersDisagree(cs) /\ legacy # null /\ ~ admits(r, legacy)
  BY <1>5 DEF mergeLegacyFloor, MergeShape
<1> QED
  BY <1>3, <1>4, <1>5

(* A merge keeps the row well formed and never lowers its floor. *)
LEMMA MergeRow ==
    ASSUME NEW r \in FloorRow, NEW s, MergeShape(r, s)
    PROVE  s \in FloorRow /\ s.floorSequence >= r.floorSequence
<1>1. CASE s = r
  BY <1>1 DEF FloorRow
<1>2. ASSUME NEW p \in Pointers, s = installPointer(r, p)
      PROVE  s \in FloorRow /\ s.floorSequence >= r.floorSequence
  BY <1>2, InstallRow
<1>3. CASE s = forgetIdentity(r)
  BY <1>3 DEF FloorRow, forgetIdentity
<1>4. ASSUME NEW n \in Int, n > r.floorSequence,
             s = [pointer |-> null, floorSequence |-> n, floorIdentity |-> null]
      PROVE  s \in FloorRow /\ s.floorSequence >= r.floorSequence
  BY <1>4 DEF FloorRow
<1> QED
  BY <1>1, <1>2, <1>3, <1>4 DEF MergeShape

-----------------------------------------------------------------------------
(* INSERT OR IGNORE keeps every good body good. *)
LEMMA InsertKeepsGood ==
    ASSUME NEW t \in [Chunks -> Body], NEW names
    PROVE  /\ insertRows(t, names) \in [Chunks -> Body]
           /\ \A c \in Chunks : t[c] = "good" => insertRows(t, names)[c] = "good"
BY DEF insertRows, Body

(* How a step may change the active_pointer row. *)
RowStep ==
    \/ row' = row
    \/ \E p \in Pointers : admits(row, p) /\ row' = installPointer(row, p)
    \/ row' = forgetIdentity(row)
    \/ \E n \in Int : /\ n > row.floorSequence
                      /\ row' = [pointer |-> null, floorSequence |-> n,
                                 floorIdentity |-> null]
    \/ \E p \in Pointers \cup {null} : row' = [row EXCEPT !.pointer = p]
    \/ row' = EmptyRow

(* Each of these changes leaves a well-formed row. *)
LEMMA RowStepTyped ==
    ASSUME row \in FloorRow, RowStep
    PROVE  row' \in FloorRow
<1>1. ASSUME NEW p \in Pointers, row' = installPointer(row, p)
      PROVE  row' \in FloorRow
  BY <1>1, InstallRow
<1>2. CASE row' = forgetIdentity(row)
  BY <1>2 DEF FloorRow, forgetIdentity
<1>3. ASSUME NEW p \in Pointers \cup {null}, row' = [row EXCEPT !.pointer = p]
      PROVE  row' \in FloorRow
  BY <1>3 DEF FloorRow
<1>4. CASE row' = EmptyRow
  BY <1>4 DEF FloorRow, EmptyRow
<1>5. ASSUME NEW n \in Int, n > row.floorSequence,
             row' = [pointer |-> null, floorSequence |-> n, floorIdentity |-> null]
      PROVE  row' \in FloorRow
  BY <1>5 DEF FloorRow
<1> QED
  BY <1>1, <1>2, <1>3, <1>4, <1>5 DEF RowStep

(* Every step of the store, split by what it does to the history: it keeps
   it, writes the row through the gate, damages a chunk, edits the pointer
   column, or resets everything. *)
LEMMA NextRowStep ==
    ASSUME TypeOK, [Next]_vars
    PROVE  RowStep
<1> USE DEF RowStep
<1>1. ASSUME NEW p \in Pointers, NEW chunks, Promote(p, chunks)
      PROVE  RowStep
  BY <1>1 DEF Promote, promoteAllowed
<1>2. ASSUME NEW p \in Pointers, ClearActiveIf(p)
      PROVE  RowStep
  BY <1>2 DEF ClearActiveIf
<1>3. ASSUME NEW cs \in LegacySlots, row' = mergeLegacyFloor(row, cs)
      PROVE  RowStep
  <2>1. cs \in Seq(Pointers \cup {null})
    BY ChunkStoreAssumption
  <2>2. MergeShape(row, row')
    BY <1>3, <2>1, MergeLegacyShape DEF TypeOK
  <2> QED
    BY <2>2 DEF MergeShape
<1>4. CASE Clear
  BY <1>4 DEF Clear
<1>5. ASSUME NEW p \in Pointers \cup {null}, EditPointer(p)
      PROVE  RowStep
  BY <1>5 DEF EditPointer
<1>6. ASSUME \/ \E c \in Chunks : PutChunk(c) \/ GetChunk(c) \/ DamageChunk(c)
             \/ \E m \in Manifests :
                   PutManifest(m) \/ GetManifest(m) \/ DamageManifest(m)
             \/ Flush \/ PruneInactive \/ MarkMigrationDone \/ Crash
             \/ UNCHANGED vars
      PROVE  row' = row
  BY <1>6 DEF PutChunk, GetChunk, DamageChunk, PutManifest, GetManifest,
              DamageManifest, Flush, PruneInactive, MarkMigrationDone, Crash,
              vars, storeVars
<1>7. ASSUME NEW chunks, NEW manifests, NEW cs \in LegacySlots,
             ImportLegacy(chunks, manifests, cs)
      PROVE  RowStep
  BY <1>3, <1>7 DEF ImportLegacy
<1>8. ASSUME NEW cs \in LegacySlots, RaiseLegacyFloor(cs)
      PROVE  RowStep
  BY <1>3, <1>8 DEF RaiseLegacyFloor
<1> QED
  BY <1>1, <1>2, <1>4, <1>5, <1>6, <1>7, <1>8 DEF Next

(* historyAfter keeps the history well typed. *)
LEMMA HistoryTyped ==
    ASSUME TypeOK, NEW r \in FloorRow, NEW proved \in SUBSET Chunks,
           historyAfter(r, proved)
    PROVE  accepted' \subseteq Pointers /\ needs' \subseteq Chunks
BY DEF TypeOK, historyAfter, FloorRow

(* Every operation of the store keeps its types. *)
LEMMA TypeStep ==
    ASSUME TypeOK, [Next]_vars
    PROVE  TypeOK'
<1> USE DEF TypeOK, Body
<1>0. row' \in FloorRow
  BY NextRowStep, RowStepTyped
<1>r. insertRows(chunk, pending) \in [Chunks -> Body]
  BY InsertKeepsGood
<1>1. ASSUME NEW c \in Chunks, PutChunk(c)
      PROVE  TypeOK'
  BY <1>0, <1>1, InsertKeepsGood DEF PutChunk, history
<1>2. ASSUME NEW c \in Chunks, GetChunk(c)
      PROVE  TypeOK'
  BY <1>0, <1>2, <1>r DEF GetChunk, history
<1>3. ASSUME NEW c \in Chunks, DamageChunk(c)
      PROVE  TypeOK'
  BY <1>0, <1>3 DEF DamageChunk
<1>4. ASSUME NEW m \in Manifests,
             PutManifest(m) \/ GetManifest(m) \/ DamageManifest(m)
      PROVE  TypeOK'
  BY <1>0, <1>4 DEF PutManifest, GetManifest, DamageManifest, history
<1>5. CASE Flush \/ Crash \/ MarkMigrationDone
  BY <1>0, <1>5, <1>r DEF Flush, Crash, MarkMigrationDone, history
<1>6. ASSUME NEW p \in Pointers, NEW chunks \in SUBSET ChunksOf[p.manifest_hash],
             Promote(p, chunks)
      PROVE  TypeOK'
  <2>1. {c \in chunks : chunk'[c] = "good"} \subseteq Chunks
    BY ChunkStoreAssumption, PointersAssumption DEF parseStoredPointer
  <2>2. accepted' \subseteq Pointers /\ needs' \subseteq Chunks
    BY <1>0, <1>6, <2>1, HistoryTyped DEF Promote
  <2> QED
    BY <1>0, <1>6, <1>r, <2>2 DEF Promote
<1>7. ASSUME NEW p \in Pointers, ClearActiveIf(p)
      PROVE  TypeOK'
  BY <1>0, <1>7, HistoryTyped DEF ClearActiveIf
<1>8. CASE PruneInactive
  BY <1>0, <1>8, <1>r DEF PruneInactive, history
<1>9. CASE Clear
  BY <1>0, <1>9 DEF Clear
<1>10. ASSUME NEW chunks, NEW manifests, NEW cs \in LegacySlots,
              ImportLegacy(chunks, manifests, cs)
       PROVE  TypeOK'
  <2>1. accepted' \subseteq Pointers /\ needs' \subseteq Chunks
    BY <1>0, <1>10, HistoryTyped DEF ImportLegacy
  <2> QED
    BY <1>0, <1>10, <2>1, InsertKeepsGood DEF ImportLegacy
<1>11. ASSUME NEW cs \in LegacySlots, RaiseLegacyFloor(cs)
       PROVE  TypeOK'
  BY <1>0, <1>11, HistoryTyped DEF RaiseLegacyFloor
<1>12. ASSUME NEW p \in Pointers \cup {null}, EditPointer(p)
       PROVE  TypeOK'
  BY <1>0, <1>12 DEF EditPointer
<1>13. CASE UNCHANGED vars
  BY <1>13 DEF vars, storeVars, history
<1> QED
  BY <1>1, <1>2, <1>3, <1>4, <1>5, <1>6, <1>7, <1>8, <1>9, <1>10, <1>11,
     <1>12, <1>13 DEF Next

-----------------------------------------------------------------------------
(* What a step may do to the floor and to the releases accepted under it:
   keep both, install what the gate admits, forget the identity, raise a
   floor without one, or reset. *)
FloorStep ==
    \/ /\ accepted' = accepted
       /\ row'.floorSequence = row.floorSequence
       /\ row'.floorIdentity = row.floorIdentity
    \/ \E p \in Pointers :
          /\ admits(row, p)
          /\ row' = installPointer(row, p)
          /\ accepted' = accepted \cup {p}
    \/ /\ accepted' = accepted
       /\ row'.floorSequence >= row.floorSequence
       /\ row'.floorIdentity = null
    \/ accepted' = {} /\ row' = EmptyRow

FloorInvariant ==
    /\ accepted \subseteq Pointers
    /\ row \in FloorRow
    /\ FloorBoundsAccepted
    /\ FloorIdentityAccepted
    /\ OneReleasePerSequence

(* A legacy merge keeps accepted releases at or below the floor, and the
   identity at the floor that of an accepted release. *)
LEMMA MergeFloorStep ==
    ASSUME FloorInvariant, MergeShape(row, row'),
           NEW proved, historyAfter(row', proved)
    PROVE  FloorStep
<1> DEFINE installed(r) == {p \in Pointers : /\ r.pointer = p
                                             /\ r.floorIdentity = pointerIdentity(p)}
<1>0. accepted' = accepted \cup installed(row')
  BY DEF historyAfter
<1>1. CASE row' = row
  <2>1. installed(row) \subseteq accepted
    <3>1. ASSUME NEW p \in installed(row)
          PROVE  p \in accepted
      <4>1. p \in Pointers /\ row.floorIdentity = pointerIdentity(p)
        OBVIOUS
      <4>2. PICK a \in accepted : row.floorIdentity = pointerIdentity(a)
        BY <4>1, PointersAssumption DEF FloorInvariant, FloorIdentityAccepted
      <4>3. a = p
        BY <4>1, <4>2, IdentityInjective DEF FloorInvariant
      <4> QED
        BY <4>2, <4>3
    <3> QED
      BY <3>1
  <2> QED
    BY <1>0, <1>1, <2>1 DEF FloorStep
<1>2. ASSUME NEW p \in Pointers, admits(row, p), row' = installPointer(row, p)
      PROVE  FloorStep
  <2>1. installed(row') = {p}
    BY <1>2, InstallRow DEF FloorInvariant
  <2> QED
    BY <1>0, <1>2, <2>1 DEF FloorStep
<1>3. CASE row' = forgetIdentity(row)
  <2>1. /\ row'.floorIdentity = null
        /\ row'.floorSequence = row.floorSequence
        /\ row.floorSequence \in Int
    BY <1>3 DEF forgetIdentity, FloorInvariant, FloorRow
  <2>2. installed(row') = {}
    BY <2>1, PointersAssumption
  <2> QED
    BY <1>0, <2>1, <2>2 DEF FloorStep
<1>4. ASSUME NEW n \in Int, n > row.floorSequence,
             row' = [pointer |-> null, floorSequence |-> n, floorIdentity |-> null]
      PROVE  FloorStep
  <2>1. installed(row') = {}
    BY <1>4, PointersAssumption
  <2> QED
    BY <1>0, <1>4, <2>1 DEF FloorStep, FloorInvariant, FloorRow
<1> QED
  BY <1>1, <1>2, <1>3, <1>4 DEF MergeShape

(* Every operation that can change the row keeps them too: promotion and
   import through the gate, the reset, the cleared or edited pointer column. *)
LEMMA NextFloorStep ==
    ASSUME TypeOK, FloorInvariant, [Next]_vars
    PROVE  FloorStep
<1>1. ASSUME NEW p \in Pointers, NEW chunks, Promote(p, chunks)
      PROVE  FloorStep
  BY <1>1, MergeFloorStep DEF Promote, promoteAllowed, MergeShape
<1>2. ASSUME NEW p \in Pointers, ClearActiveIf(p)
      PROVE  FloorStep
  BY <1>2, PointersAssumption DEF ClearActiveIf, historyAfter, FloorStep,
                                  TypeOK, FloorRow
<1>3. ASSUME NEW chunks, NEW manifests, NEW cs \in LegacySlots,
             ImportLegacy(chunks, manifests, cs) \/ RaiseLegacyFloor(cs)
      PROVE  FloorStep
  <2>1. MergeShape(row, row')
    BY <1>3, MergeLegacyShape, ChunkStoreAssumption
    DEF ImportLegacy, RaiseLegacyFloor, TypeOK
  <2> QED
    BY <1>3, <2>1, MergeFloorStep DEF ImportLegacy, RaiseLegacyFloor
<1>4. CASE Clear
  BY <1>4 DEF Clear, FloorStep
<1>5. ASSUME NEW p \in Pointers \cup {null}, EditPointer(p)
      PROVE  FloorStep
  BY <1>5 DEF EditPointer, FloorStep, TypeOK, FloorRow
<1>6. ASSUME \/ \E c \in Chunks : PutChunk(c) \/ GetChunk(c) \/ DamageChunk(c)
             \/ \E m \in Manifests :
                   PutManifest(m) \/ GetManifest(m) \/ DamageManifest(m)
             \/ Flush \/ PruneInactive \/ MarkMigrationDone \/ Crash
             \/ UNCHANGED vars
      PROVE  FloorStep
  BY <1>6 DEF FloorStep, PutChunk, GetChunk, DamageChunk, PutManifest,
              GetManifest, DamageManifest, Flush, PruneInactive,
              MarkMigrationDone, Crash, vars, storeVars, history
<1> QED
  BY <1>1, <1>2, <1>3, <1>4, <1>5, <1>6 DEF Next

(* What the gate admits is above every accepted release, or is the accepted
   release at the floor. *)
LEMMA AdmittedIsNewest ==
    ASSUME FloorInvariant, NEW p \in Pointers, admits(row, p), NEW a \in accepted
    PROVE  /\ a.sequence <= p.sequence
           /\ hasSequence(a) /\ a.sequence = p.sequence => a = p
<1>1. /\ a \in Pointers
      /\ a.sequence \in Int /\ a.sequence >= -1
      /\ p.sequence \in Int /\ p.sequence >= -1
      /\ row.floorSequence \in Int /\ row.floorSequence >= -1
  BY PointersAssumption DEF FloorInvariant, FloorRow, parseStoredPointer
<1>2. a.sequence <= row.floorSequence
  BY DEF FloorInvariant, FloorBoundsAccepted
<1>3. CASE row.floorSequence < 0
  BY <1>1, <1>2, <1>3 DEF hasSequence
<1>4. CASE row.floorSequence >= 0 /\ p.sequence > row.floorSequence
  BY <1>1, <1>2, <1>4
<1>5. CASE /\ row.floorSequence >= 0
           /\ p.sequence = row.floorSequence
           /\ row.floorIdentity = pointerIdentity(p)
  <2>1. ASSUME hasSequence(a), a.sequence = p.sequence
        PROVE  a = p
    <3>1. row.floorIdentity \in {null, pointerIdentity(a)}
      BY <1>5, <2>1 DEF FloorInvariant, FloorBoundsAccepted
    <3>2. pointerIdentity(a) = pointerIdentity(p)
      BY <1>5, <3>1, PointersAssumption
    <3> QED
      BY <1>1, <3>2, IdentityInjective
  <2> QED
    BY <1>1, <1>2, <1>5, <2>1
<1> QED
  BY <1>1, <1>3, <1>4, <1>5 DEF admits, sequenceOf

(* The floor half of the invariant is preserved by every step. *)
LEMMA FloorInvariantStep ==
    ASSUME FloorInvariant, FloorStep, row' \in FloorRow
    PROVE  FloorInvariant'
<1> USE DEF FloorInvariant
<1>0. \A a \in Pointers : a.sequence \in Int
  BY PointersAssumption DEF parseStoredPointer
<1>1. CASE /\ accepted' = accepted
           /\ row'.floorSequence = row.floorSequence
           /\ row'.floorIdentity = row.floorIdentity
  BY <1>1 DEF FloorBoundsAccepted, FloorIdentityAccepted, OneReleasePerSequence
<1>2. ASSUME NEW p \in Pointers, admits(row, p), row' = installPointer(row, p),
             accepted' = accepted \cup {p}
      PROVE  FloorInvariant'
  <2>1. /\ row'.floorIdentity = pointerIdentity(p)
        /\ row'.floorSequence >= row.floorSequence
        /\ row'.floorSequence >= p.sequence
        /\ row.floorSequence \in Int /\ row'.floorSequence \in Int
    BY <1>2, InstallRow DEF FloorRow
  <2>2. ASSUME NEW a \in accepted'
        PROVE  /\ a.sequence <= row'.floorSequence
               /\ hasSequence(a) /\ a.sequence = row'.floorSequence => a = p
    <3>1. CASE a \in accepted
      <4>1. /\ a.sequence <= p.sequence
            /\ hasSequence(a) /\ a.sequence = p.sequence => a = p
        BY <1>2, <3>1, AdmittedIsNewest
      <4> QED
        BY <1>0, <1>2, <2>1, <3>1, <4>1
    <3> QED
      BY <1>2, <2>1, <3>1
  <2>3. FloorBoundsAccepted' /\ FloorIdentityAccepted'
    BY <1>2, <2>1, <2>2 DEF FloorBoundsAccepted, FloorIdentityAccepted
  <2>4. OneReleasePerSequence'
    BY <1>2, AdmittedIsNewest DEF OneReleasePerSequence, hasSequence
  <2> QED
    BY <1>2, <2>3, <2>4
<1>3. CASE /\ accepted' = accepted
           /\ row'.floorSequence >= row.floorSequence
           /\ row'.floorIdentity = null
  <2>1. row.floorSequence \in Int /\ row'.floorSequence \in Int
    BY DEF FloorRow
  <2> QED
    BY <1>0, <1>3, <2>1
    DEF FloorBoundsAccepted, FloorIdentityAccepted, OneReleasePerSequence
<1>4. CASE accepted' = {} /\ row' = EmptyRow
  BY <1>4 DEF FloorBoundsAccepted, FloorIdentityAccepted,
              OneReleasePerSequence, EmptyRow
<1> QED
  BY <1>1, <1>2, <1>3, <1>4 DEF FloorStep

-----------------------------------------------------------------------------
(* historyAfter keeps what was proved for a pointer while the pointer stays. *)
LEMMA HistoryKeepsNeeds ==
    ASSUME TypeOK, NeedsOfActive, historyAfter(row', {}),
           \A c \in Chunks : chunk[c] = "good" => chunk'[c] = "good"
    PROVE  NeedsOfActive'
<1>1. CASE row'.pointer = row.pointer
  BY <1>1 DEF historyAfter, NeedsOfActive, TypeOK
<1>2. CASE row'.pointer # row.pointer
  BY <1>2 DEF historyAfter, NeedsOfActive
<1> QED
  BY <1>1, <1>2

(* The other half: no step but damage at rest takes away a chunk proved for
   the active pointer (flush, eviction, prune and crash are the cases). *)
LEMMA NeedsStep ==
    ASSUME TypeOK, NeedsOfActive, [Next]_vars
    PROVE  NeedsOfActive'
<1> USE DEF TypeOK
<1>r. \A c \in Chunks : chunk[c] = "good" => insertRows(chunk, pending)[c] = "good"
  BY InsertKeepsGood
<1>1. ASSUME NEW c \in Chunks, PutChunk(c)
      PROVE  NeedsOfActive'
  BY <1>1, InsertKeepsGood DEF PutChunk, NeedsOfActive, history
<1>2. ASSUME NEW c \in Chunks, GetChunk(c)
      PROVE  NeedsOfActive'
  <2>1. \A x \in Chunks : chunk[x] = "good" => chunk'[x] = "good"
    BY <1>2, <1>r, InsertKeepsGood DEF GetChunk
  <2> QED
    BY <1>2, <2>1 DEF GetChunk, NeedsOfActive, history
<1>3. ASSUME NEW c \in Chunks, DamageChunk(c)
      PROVE  NeedsOfActive'
  BY <1>3 DEF DamageChunk, NeedsOfActive
<1>4. CASE \/ \E m \in Manifests :
                PutManifest(m) \/ GetManifest(m) \/ DamageManifest(m)
           \/ Crash \/ MarkMigrationDone \/ UNCHANGED vars
  BY <1>4 DEF PutManifest, GetManifest, DamageManifest, Crash,
              MarkMigrationDone, NeedsOfActive, vars, storeVars, history
<1>5. CASE Flush
  BY <1>5, <1>r DEF Flush, NeedsOfActive, history
<1>6. ASSUME NEW p \in Pointers, NEW chunks \in SUBSET ChunksOf[p.manifest_hash],
             Promote(p, chunks)
      PROVE  NeedsOfActive'
  <2>1. row'.pointer = p /\ p # null
    BY <1>6, InstallRow, PointersAssumption DEF Promote
  <2>2. \A c \in Chunks : chunk[c] = "good" => chunk'[c] = "good"
    BY <1>6, <1>r DEF Promote
  <2> DEFINE proved == {c \in chunks : chunk'[c] = "good"}
  <2>3. historyAfter(row', proved)
    BY <1>6 DEF Promote
  <2>4. CASE row.pointer = p
    <3>1. needs' = needs \cup proved
      BY <2>1, <2>3, <2>4 DEF historyAfter
    <3> QED
      BY <2>1, <2>2, <2>4, <3>1 DEF NeedsOfActive
  <2>5. CASE row.pointer # p
    <3>1. needs' = proved
      BY <2>1, <2>3, <2>5 DEF historyAfter
    <3> QED
      BY <2>1, <3>1 DEF NeedsOfActive
  <2> QED
    BY <2>4, <2>5
<1>7. ASSUME NEW p \in Pointers, ClearActiveIf(p)
      PROVE  NeedsOfActive'
  BY <1>7, HistoryKeepsNeeds DEF ClearActiveIf
<1>8. CASE PruneInactive
  <2>1. ASSUME NEW c \in needs
        PROVE  chunk'[c] = "good"
    <3>1. /\ c \in Chunks /\ chunk[c] = "good"
          /\ row.pointer # null
          /\ c \in ChunksOf[row.pointer.manifest_hash]
      BY DEF NeedsOfActive
    <3> QED
      BY <1>8, <1>r, <3>1 DEF PruneInactive, readActive
  <2> QED
    BY <1>8, <2>1 DEF PruneInactive, NeedsOfActive, history
<1>9. CASE Clear
  BY <1>9 DEF Clear, NeedsOfActive
<1>10. ASSUME NEW chunks, NEW manifests, NEW cs \in LegacySlots,
              ImportLegacy(chunks, manifests, cs)
       PROVE  NeedsOfActive'
  BY <1>10, InsertKeepsGood, HistoryKeepsNeeds DEF ImportLegacy
<1>11. ASSUME NEW cs \in LegacySlots, RaiseLegacyFloor(cs)
       PROVE  NeedsOfActive'
  BY <1>11, HistoryKeepsNeeds DEF RaiseLegacyFloor
<1>12. ASSUME NEW p \in Pointers \cup {null}, EditPointer(p)
       PROVE  NeedsOfActive'
  BY <1>12 DEF EditPointer, NeedsOfActive
<1> QED
  BY <1>1, <1>2, <1>3, <1>4, <1>5, <1>6, <1>7, <1>8, <1>9, <1>10, <1>11,
     <1>12 DEF Next

-----------------------------------------------------------------------------
(* The inductive invariant holds of every state of the store. *)
LEMMA StoreInvariantStep ==
    ASSUME StoreInvariant, [Next]_vars
    PROVE  StoreInvariant'
<1>1. TypeOK'
  BY TypeStep DEF StoreInvariant
<1>2. FloorInvariant
  BY DEF StoreInvariant, FloorInvariant, TypeOK
<1>3. FloorInvariant'
  <2>1. FloorStep
    BY <1>2, NextFloorStep DEF StoreInvariant
  <2> QED
    BY <1>1, <1>2, <2>1, FloorInvariantStep DEF TypeOK
<1>4. NeedsOfActive'
  BY NeedsStep DEF StoreInvariant
<1> QED
  BY <1>1, <1>3, <1>4 DEF StoreInvariant, FloorInvariant

(* Type correctness and the inductive invariant: whatever order of ingests,
   promotions, imports, prunes, resets, crashes and damage at rest, accepted
   releases stay at or below the floor and are unique at their sequence, and
   what promote() proved for the active pointer stays readable. *)
THEOREM StoreIsInvariant == Spec => []StoreInvariant
<1>1. Init => StoreInvariant
  BY DEF Init, StoreInvariant, TypeOK, Body, FloorRow, EmptyRow,
         FloorBoundsAccepted, FloorIdentityAccepted, OneReleasePerSequence,
         NeedsOfActive
<1>2. StoreInvariant /\ [Next]_vars => StoreInvariant'
  BY StoreInvariantStep
<1> QED
  BY <1>1, <1>2, PTL DEF Spec

(* The state variables always have their types. *)
THEOREM TypeCorrect == Spec => []TypeOK
<1>1. StoreInvariant => TypeOK
  BY DEF StoreInvariant
<1> QED
  BY <1>1, StoreIsInvariant, PTL

(* The store never makes two releases active at one sequence. *)
THEOREM NoEquivocation == Spec => []OneReleasePerSequence
<1>1. StoreInvariant => OneReleasePerSequence
  BY DEF StoreInvariant
<1> QED
  BY <1>1, StoreIsInvariant, PTL

(* readActive never gives a reader a pointer older than, or a fork of, a
   release the store has accepted, even from a rewritten pointer column. *)
THEOREM ServedNeverRollsBack == Spec => []ServedIsNewest
<1>1. ASSUME StoreInvariant PROVE ServedIsNewest
  <2>1. FloorInvariant
    BY <1>1 DEF StoreInvariant, FloorInvariant, TypeOK
  <2> SUFFICES ASSUME readActive(row) # null, NEW a \in accepted
               PROVE  /\ a.sequence <= readActive(row).sequence
                      /\ hasSequence(a) /\ a.sequence = readActive(row).sequence
                            => a = readActive(row)
    BY DEF ServedIsNewest
  <2>2. /\ readActive(row) = row.pointer
        /\ row.pointer \in Pointers
        /\ admits(row, row.pointer)
    BY <2>1 DEF readActive, FloorInvariant, FloorRow
  <2> QED
    BY <2>1, <2>2, AdmittedIsNewest
<1> QED
  BY <1>1, StoreIsInvariant, PTL

(* Every chunk promote() proved for the active pointer stays readable. *)
THEOREM ActiveStaysComplete == Spec => []ActiveComplete
<1>1. StoreInvariant => ActiveComplete
  BY DEF StoreInvariant, ActiveComplete, NeedsOfActive
<1> QED
  BY <1>1, StoreIsInvariant, PTL

-----------------------------------------------------------------------------
(* Only the explicit reset lowers the floor. *)
LEMMA FloorStepHolds ==
    ASSUME TypeOK, [Next]_vars
    PROVE  \/ row'.floorSequence >= row.floorSequence
           \/ row' = EmptyRow /\ \A c \in Chunks : chunk'[c] = "none"
<1>1. CASE Clear
  BY <1>1 DEF Clear
<1>2. ASSUME NEW p \in Pointers, NEW chunks, Promote(p, chunks)
      PROVE  row'.floorSequence >= row.floorSequence
  BY <1>2, InstallRow DEF Promote, TypeOK
<1>3. ASSUME NEW chunks, NEW manifests, NEW cs \in LegacySlots,
             ImportLegacy(chunks, manifests, cs) \/ RaiseLegacyFloor(cs)
      PROVE  row'.floorSequence >= row.floorSequence
  BY <1>3, MergeLegacyShape, MergeRow, ChunkStoreAssumption
  DEF ImportLegacy, RaiseLegacyFloor, TypeOK
<1>4. ASSUME \/ \E p \in Pointers \cup {null} : EditPointer(p) \/ ClearActiveIf(p)
             \/ \E c \in Chunks : PutChunk(c) \/ GetChunk(c) \/ DamageChunk(c)
             \/ \E m \in Manifests :
                   PutManifest(m) \/ GetManifest(m) \/ DamageManifest(m)
             \/ Flush \/ PruneInactive \/ MarkMigrationDone \/ Crash
             \/ UNCHANGED vars
      PROVE  row'.floorSequence >= row.floorSequence
  <2>1. row.floorSequence \in Int
    BY DEF TypeOK, FloorRow
  <2>2. row'.floorSequence = row.floorSequence
    BY <1>4 DEF TypeOK, FloorRow, EditPointer, ClearActiveIf, PutChunk, GetChunk,
                DamageChunk, PutManifest, GetManifest, DamageManifest, Flush,
                PruneInactive, MarkMigrationDone, Crash, vars, storeVars
  <2> QED
    BY <2>1, <2>2
<1> QED
  BY <1>1, <1>2, <1>3, <1>4 DEF Next

(* "The floor can only go up", for every store and every legacy layout. *)
THEOREM FloorIsMonotone == Spec => FloorNeverFalls
<1>1. TypeOK /\ [Next]_vars =>
         [ \/ row'.floorSequence >= row.floorSequence
           \/ row' = EmptyRow /\ \A c \in Chunks : chunk'[c] = "none" ]_vars
  BY FloorStepHolds
<1> QED
  BY <1>1, TypeCorrect, PTL DEF Spec, FloorNeverFalls

(* What a reader is given is above the floor, or the release pinned at it. *)
LEMMA ServedAtFloor ==
    ASSUME NEW r \in FloorRow, readActive(r) # null
    PROVE  /\ readActive(r) \in Pointers
           /\ \/ readActive(r).sequence > r.floorSequence
              \/ /\ readActive(r).sequence = r.floorSequence
                 /\ r.floorSequence >= 0 =>
                       pointerIdentity(readActive(r)) = r.floorIdentity
<1>1. /\ readActive(r) = r.pointer
      /\ r.pointer \in Pointers
      /\ admits(r, r.pointer)
  BY DEF readActive, FloorRow
<1>2. /\ r.pointer.sequence \in Int /\ r.pointer.sequence >= -1
      /\ r.floorSequence \in Int /\ r.floorSequence >= -1
  BY <1>1, PointersAssumption DEF parseStoredPointer, FloorRow
<1> QED
  BY <1>1, <1>2 DEF admits, sequenceOf

(* A step of the row keeps the pin at an unchanged floor, or forgets it. *)
LEMMA PinHolds ==
    ASSUME row \in FloorRow, RowStep
    PROVE  Register!FloorHolds \/ row' = EmptyRow
<1> USE DEF Register!FloorHolds
<1>0. row.floorSequence \in Int
  BY DEF FloorRow
<1>1. CASE row' = row
  BY <1>0, <1>1
<1>2. ASSUME NEW p \in Pointers, admits(row, p), row' = installPointer(row, p)
      PROVE  Register!FloorHolds
  <2>1. /\ row'.floorIdentity = pointerIdentity(p)
        /\ row'.floorSequence = IF p.sequence > row.floorSequence
                                THEN p.sequence ELSE row.floorSequence
    BY <1>2 DEF installPointer, sequenceOf
  <2>2. p.sequence \in Int
    BY PointersAssumption DEF parseStoredPointer
  <2> QED
    BY <1>0, <1>2, <2>1, <2>2 DEF admits, sequenceOf
<1>3. CASE row' = forgetIdentity(row)
  BY <1>0, <1>3 DEF forgetIdentity, FloorRow
<1>4. ASSUME NEW n \in Int, n > row.floorSequence,
             row' = [pointer |-> null, floorSequence |-> n, floorIdentity |-> null]
      PROVE  Register!FloorHolds
  BY <1>4
<1>5. ASSUME NEW p \in Pointers \cup {null}, row' = [row EXCEPT !.pointer = p]
      PROVE  Register!FloorHolds
  BY <1>0, <1>5 DEF FloorRow
<1> QED
  BY <1>1, <1>2, <1>3, <1>4, <1>5 DEF RowStep

(* The chunk store implements the abstract register: its floor, the release
   pinned there and the pointer readActive gives move only as the register
   allows. *)
THEOREM ImplementsRegister == Spec => RegisterSpec
<1>1. Init => Register!Init
  BY DEF Init, Register!Init, EmptyRow, readActive
<1>2. ASSUME TypeOK, [Next]_vars PROVE [Register!Next]_(Register!vars)
  <2>1. RowStep /\ row \in FloorRow
    BY <1>2, NextRowStep DEF TypeOK
  <2>2. row' \in FloorRow
    BY <2>1, RowStepTyped
  <2>3. CASE row' = EmptyRow
    BY <2>3 DEF Register!Next, Register!Reset, EmptyRow, readActive
  <2>4. CASE Register!FloorHolds /\ readActive(row)' = null
    BY <2>4 DEF Register!Next, Register!Withdraw
  <2>5. CASE Register!FloorHolds /\ readActive(row)' # null
    <3>1. /\ readActive(row)' \in Pointers
          /\ \/ readActive(row)'.sequence > row'.floorSequence
             \/ /\ readActive(row)'.sequence = row'.floorSequence
                /\ row'.floorSequence >= 0 =>
                      pointerIdentity(readActive(row)') = row'.floorIdentity
      BY <2>2, <2>5, ServedAtFloor
    <3> QED
      BY <2>5, <3>1 DEF Register!Next, Register!Serve
  <2> QED
    BY <2>1, <2>3, <2>4, <2>5, PinHolds
<1> QED
  BY <1>1, <1>2, TypeCorrect, PTL DEF Spec, RegisterSpec, Register!Spec

-----------------------------------------------------------------------------
(* The sync engine.                                                        *)

Online == {"floor", "manifest", "fetch", "verify", "promote"}

(* Which locals of syncIndex are set at which stage. *)
StageLocals ==
    /\ job.pc \in Online \cup {"cacheVerify"} \/ Delivered
          => job.pointer \in Pointers
    /\ job.pc \in Online \cup {"trustRoot", "pointer"} => job.via = "network"
    /\ job.pc \in {"cache", "cacheVerify"} => job.via # "network"
    /\ job.pc = "promote" => job.error = "none"
    /\ job.started <= now

(* The row is as the operation found it until it promotes. *)
RowKept ==
    ~ At("idle") /\ ~ (Delivered /\ job.via = "network") => row = job.before

(* What is about to be delivered, from the cache or not, is active. *)
ServesActive ==
    At("cacheVerify") \/ Delivered => readActive(row) = job.pointer

(* A pointer past its checks keeps having passed them. *)
PolicyKept ==
    /\ job.pc \in Online =>
          /\ verifyWithKeyring(TrustRoots[job.trust], job.pointer)
          /\ assertExpectedIdentity(job.pointer, job.expected)
          /\ ~ isExpired(job.pointer, job.started)
    /\ (At("cacheVerify") \/ Delivered) /\ job.via # "read" =>
          /\ verifyWithKeyring(TrustRoots[job.trust], job.pointer)
          /\ assertExpectedIdentity(job.pointer, job.expected)
          /\ isExpired(job.pointer, job.started) => job.expired

(* What has been read back stays readable while the operation runs. *)
ReadBack ==
    /\ job.pc \in {"fetch", "verify", "promote", "cacheVerify"} \/ Delivered
          => manifest[job.pointer.manifest_hash] = "good"
    /\ job.pc \in {"verify", "cacheVerify"} /\ job.error = "none" =>
          \A c \in wantedChunks : c \notin job.chunks => chunk[c] = "good"
    /\ At("promote") \/ Delivered => \A c \in wantedChunks : chunk[c] = "good"

(* The last release synced online is whole unless changed at rest. *)
SyncedWhole ==
    synced.pointer # null /\ synced.intact =>
       /\ manifest[synced.pointer.manifest_hash] = "good"
       /\ \A c \in synced.chunks : chunk[c] = "good"

EngineInvariant ==
    /\ SyncTypeOK
    /\ StageLocals
    /\ RowKept
    /\ ServesActive
    /\ PolicyKept
    /\ ReadBack
    /\ SyncedWhole

-----------------------------------------------------------------------------
(* selectedFiles: the wanted files' chunks are among the manifest's. *)
LEMMA SelectedAreListed ==
    ASSUME NEW m \in Manifests, NEW paths
    PROVE  /\ selectedChunks(m, paths) \subseteq ChunksOf[m]
           /\ selectedChunks(m, paths) \subseteq Chunks
<1>1. selectedFiles(Content[m], paths) \subseteq selectedFiles(Content[m], null)
  BY DEF selectedFiles
<1>2. selectedChunks(m, paths) \subseteq selectedChunks(m, null)
  BY <1>1 DEF selectedChunks
<1>3. ChunksOf[m] = selectedChunks(m, null) /\ ChunksOf[m] \subseteq Chunks
  BY SyncAssumption, ChunkStoreAssumption
<1> QED
  BY <1>2, <1>3

(* A pointer the program handles names a manifest. *)
LEMMA PointerNamesManifest ==
    ASSUME NEW p \in Pointers
    PROVE  p.manifest_hash \in Manifests /\ p # null
BY PointersAssumption DEF parseStoredPointer

(* promote(): the pointer it installs is the one readActive gives. *)
LEMMA InstalledIsServed ==
    ASSUME NEW r \in FloorRow, NEW p \in Pointers, admits(r, p)
    PROVE  readActive(installPointer(r, p)) = p
<1>1. /\ p # null /\ p.sequence \in Int /\ p.sequence >= -1
      /\ r.floorSequence \in Int /\ r.floorSequence >= -1
  BY PointersAssumption DEF parseStoredPointer, FloorRow
<1> DEFINE q == installPointer(r, p)
<1>2. /\ q.pointer = p /\ q.floorIdentity = pointerIdentity(p)
      /\ q.floorSequence = IF p.sequence > r.floorSequence
                           THEN p.sequence ELSE r.floorSequence
  BY DEF installPointer, sequenceOf
<1>3. q.floorSequence >= 0 => p.sequence = q.floorSequence
  BY <1>1, <1>2 DEF admits, sequenceOf
<1>4. admits(q, p)
  BY <1>1, <1>2, <1>3 DEF admits, canPromotePointer, samePointer, sequenceOf
<1> QED
  BY <1>1, <1>2, <1>4 DEF readActive

(* What readActive gives is a pointer, or null. *)
LEMMA ActiveTyped ==
    ASSUME NEW r \in FloorRow
    PROVE  readActive(r) \in Pointers \cup {null}
BY DEF readActive, FloorRow

(* What was published, and what the environment may write, are pointers. *)
LEMMA PublishedTyped ==
    ASSUME latest \in DOMAIN Releases
    PROVE  published \cup Hostile \subseteq Pointers
<1>1. \A i \in DOMAIN Releases : Releases[i] \in Pointers
  BY SyncAssumption
<1>2. 1 .. latest \subseteq DOMAIN Releases
  BY SyncAssumption
<1> QED
  BY <1>1, <1>2, SyncAssumption DEF published

-----------------------------------------------------------------------------
(* Every step of the engine is a step of the store, or none. *)
LEMMA SyncStoreStep ==
    ASSUME SyncTypeOK, StageLocals, [SyncNext]_syncVars
    PROVE  [Next]_vars
<1> USE DEF StoreIdle, At
<1>1. CASE Request
  BY <1>1 DEF Request, StartSync
<1>2. ASSUME NEW path, StartReadFile(path) PROVE [Next]_vars
  BY <1>2 DEF StartReadFile
<1>3. CASE HandleClear
  BY <1>3 DEF HandleClear, Next
<1>4. CASE LoadTrustRoot \/ FetchPointer \/ CheckFloor \/ FetchEnds \/ VerifyEnds
  BY <1>4 DEF LoadTrustRoot, FetchPointer, CheckFloor, FetchEnds, VerifyEnds
<1>5. CASE FetchManifest
  <2>1. job.pointer.manifest_hash \in Manifests
    BY <1>5, PointerNamesManifest DEF FetchManifest, StageLocals, Online
  <2> QED
    BY <1>5, <2>1 DEF FetchManifest, Next
<1>6. ASSUME NEW c \in Chunks, FetchChunk(c) \/ FetchChunkFails(c) \/ ReadChunk(c)
      PROVE  [Next]_vars
  BY <1>6 DEF FetchChunk, FetchChunkFails, ReadChunk, Next
<1>7. CASE PromoteRelease
  <2>1. job.pointer \in Pointers
    BY <1>7 DEF PromoteRelease, StageLocals, Online
  <2>2. wantedChunks \in SUBSET ChunksOf[job.pointer.manifest_hash]
    BY <2>1, PointerNamesManifest, SelectedAreListed DEF wantedChunks
  <2> QED
    BY <1>7, <2>1, <2>2 DEF PromoteRelease, Next
<1>8. CASE SyncFromCache
  <2>1. CASE UNCHANGED vars
    BY <2>1
  <2>2. CASE readActive(row) # null /\ GetManifest(readActive(row).manifest_hash)
    <3>1. readActive(row).manifest_hash \in Manifests
      BY <2>2, ActiveTyped, PointerNamesManifest DEF SyncTypeOK, TypeOK
    <3> QED
      BY <2>2, <3>1 DEF Next
  <2> QED
    BY <1>8, <2>1, <2>2 DEF SyncFromCache
<1>9. CASE Settle
  BY <1>9 DEF Settle, Next
<1>10. CASE WorkerDies
  BY <1>10 DEF WorkerDies, Next
<1>11. ASSUME NEW candidates \in LegacySlots, OpenSession(candidates)
       PROVE  [Next]_vars
  BY <1>11 DEF OpenSession, Next
<1>12. CASE Damage
  <2>1. published \cup Hostile \cup {null} \subseteq Pointers \cup {null}
    BY PublishedTyped DEF SyncTypeOK
  <2> QED
    BY <1>12, <2>1 DEF Damage, Next
<1>13. CASE Publish \/ RotateTrustRoot \/ Tick \/ UNCHANGED syncVars
  BY <1>13 DEF Publish, RotateTrustRoot, Tick, syncVars
<1> QED
  BY <1>1, <1>2, <1>3, <1>4, <1>5, <1>6, <1>7, <1>8, <1>9, <1>10, <1>11,
     <1>12, <1>13 DEF SyncNext, JobStep

-----------------------------------------------------------------------------
(* Each field of a job may be given any value of its type. *)
LEMMA JobUpdates ==
    ASSUME NEW j \in Jobs
    PROVE  /\ \A pc \in Stages : [j EXCEPT !.pc = pc] \in Jobs
           /\ \A e \in Errors : [j EXCEPT !.error = e] \in Jobs
           /\ \A cs \in SUBSET Chunks : [j EXCEPT !.chunks = cs] \in Jobs
           /\ \A p \in Pointers \cup {null} : [j EXCEPT !.pointer = p] \in Jobs
           /\ \A p \in Pointers \cup {null} : [j EXCEPT !.active = p] \in Jobs
           /\ \A t \in DOMAIN TrustRoots : [j EXCEPT !.trust = t] \in Jobs
           /\ \A v \in {"network", "outage", "quota", "read"} :
                 [j EXCEPT !.via = v] \in Jobs
           /\ \A b \in BOOLEAN : [j EXCEPT !.expired = b] \in Jobs
           /\ \A w \in JobPaths : [j EXCEPT !.wanted = w] \in Jobs
           /\ \A x \in ExpectedIds \cup {"any"} : [j EXCEPT !.expected = x] \in Jobs
           /\ \A n \in 0 .. MaxClock : [j EXCEPT !.started = n] \in Jobs
           /\ \A r \in FloorRow : [j EXCEPT !.before = r] \in Jobs
BY DEF Jobs

(* The catch of syncIndex leaves a well-formed job. *)
LEMMA ThrowTyped ==
    ASSUME job \in Jobs, NEW e \in Errors, Throw(e) \/ Fail(e)
    PROVE  job' \in Jobs
<1>1. \A f \in Errors : [job EXCEPT !.pc = "settle", !.error = f] \in Jobs
  BY JobUpdates DEF Stages, Errors
<1>2. [job EXCEPT !.pc = "cache", !.via = "quota"] \in Jobs
  BY JobUpdates DEF Stages
<1>3. [job EXCEPT !.pc = "cache", !.via = "quota", !.error = "none"] \in Jobs
  BY <1>2, JobUpdates DEF Errors
<1> QED
  BY <1>1, <1>3 DEF Throw, Fail

(* The state between two operations is a job. *)
LEMMA IdleTyped == Idle \in Jobs
BY SyncAssumption DEF Idle, Jobs, Stages, Errors, FloorRow, EmptyRow, JobPaths

(* Every step leaves a well-formed job. *)
LEMMA JobTypeStep ==
    ASSUME SyncTypeOK, StageLocals, [SyncNext]_syncVars
    PROVE  job' \in Jobs
<1> USE DEF At
<1>0. /\ job \in Jobs /\ row \in FloorRow /\ now \in 0 .. MaxClock
      /\ root \in DOMAIN TrustRoots
      /\ job.pc \in Stages /\ job.error \in Errors /\ job.chunks \subseteq Chunks
      /\ job.via \in {"network", "outage", "quota", "read"}
  BY DEF SyncTypeOK, TypeOK, Jobs
<1>e. \A e \in Errors : firstError(e) \in Errors /\ cacheError(e) \in Errors
  BY <1>0 DEF Errors, firstError, cacheError
<1>1. CASE Request
  <2>1. PICK wanted \in WantedPaths, expected \in ExpectedIds :
             StartSync(wanted, expected)
    BY <1>1 DEF Request
  <2>2. [Idle EXCEPT !.pc = "trustRoot", !.wanted = wanted] \in Jobs
    BY IdleTyped, JobUpdates DEF Stages, JobPaths
  <2>3. [Idle EXCEPT !.pc = "trustRoot", !.wanted = wanted,
           !.expected = expected, !.started = now] \in Jobs
    BY <1>0, <2>2, JobUpdates
  <2> QED
    BY <1>0, <2>1, <2>3, JobUpdates DEF StartSync
<1>2. ASSUME NEW paths \in WantedPaths \ {null}, NEW path \in paths,
             StartReadFile(path)
      PROVE  job' \in Jobs
  <2>1. {path} \in JobPaths
    BY DEF JobPaths
  <2>2. [Idle EXCEPT !.pc = "cache", !.via = "read"] \in Jobs
    BY IdleTyped, JobUpdates DEF Stages
  <2>3. [Idle EXCEPT !.pc = "cache", !.via = "read", !.wanted = {path},
           !.started = now] \in Jobs
    BY <1>0, <2>1, <2>2, JobUpdates
  <2> QED
    BY <1>0, <1>2, <2>3, JobUpdates DEF StartReadFile
<1>3. CASE LoadTrustRoot
  <2>1. [job EXCEPT !.pc = "pointer", !.trust = root] \in Jobs
    BY <1>0, JobUpdates DEF Stages
  <2> QED
    BY <1>0, <1>3, <2>1, ThrowTyped DEF LoadTrustRoot, Errors
<1>4. CASE FetchPointer
  <2>1. \A p \in Pointers : [job EXCEPT !.pc = "floor", !.pointer = p] \in Jobs
    BY <1>0, JobUpdates DEF Stages
  <2>2. [job EXCEPT !.pc = "cache", !.via = "outage"] \in Jobs
    BY <1>0, JobUpdates DEF Stages
  <2>3. published \cup Hostile \subseteq Pointers
    BY PublishedTyped DEF SyncTypeOK
  <2>4. Fail("integrity") => job' \in Jobs
    BY <1>0, ThrowTyped DEF Errors
  <2> QED
    BY <1>4, <2>1, <2>2, <2>3, <2>4 DEF FetchPointer
<1>5. CASE CheckFloor
  <2>1. readActive(row) \in Pointers \cup {null}
    BY <1>0, ActiveTyped
  <2>2. [job EXCEPT !.pc = "manifest", !.active = readActive(row)] \in Jobs
    BY <1>0, <2>1, JobUpdates DEF Stages
  <2> QED
    BY <1>0, <1>5, <2>2, ThrowTyped DEF CheckFloor, Errors
<1>6. CASE FetchManifest
  <2>1. job.pointer \in Pointers
    BY <1>6 DEF FetchManifest, StageLocals, Online
  <2>2. missingChunks(wantedChunks) \subseteq Chunks
    BY <2>1, PointerNamesManifest, SelectedAreListed DEF missingChunks, wantedChunks
  <2>3. [job EXCEPT !.pc = "fetch", !.chunks = missingChunks(wantedChunks)] \in Jobs
    BY <1>0, <2>2, JobUpdates DEF Stages
  <2>4. \A e \in Errors : Throw(e) => job' \in Jobs
    BY <1>0, ThrowTyped
  <2> QED
    BY <1>6, <2>3, <2>4 DEF FetchManifest, Errors
<1>7. ASSUME NEW c \in Chunks, FetchChunk(c) \/ FetchChunkFails(c) \/ ReadChunk(c)
      PROVE  job' \in Jobs
  <2>1. [job EXCEPT !.chunks = job.chunks \ {c}] \in Jobs
    BY <1>0, JobUpdates
  <2>2. \A e \in Errors :
           [job EXCEPT !.chunks = job.chunks \ {c}, !.error = e] \in Jobs
    BY <2>1, JobUpdates
  <2>3. \A e \in {"quota", "storage", "network", "integrity", "notFound"} :
           e \in Errors /\ firstError(e) \in Errors
    BY <1>e DEF Errors
  <2>4. CASE FetchChunk(c)
    BY <2>1, <2>2, <2>3, <2>4 DEF FetchChunk
  <2>5. CASE FetchChunkFails(c)
    BY <2>2, <2>3, <2>5 DEF FetchChunkFails
  <2>6. CASE ReadChunk(c)
    <3>1. \E e \in Errors :
             job' = [job EXCEPT !.chunks = job.chunks \ {c}, !.error = e]
      BY <1>0, <2>3, <2>6 DEF ReadChunk
    <3> QED
      BY <2>2, <3>1
  <2> QED
    BY <1>7, <2>4, <2>5, <2>6
<1>8. CASE FetchEnds
  <2>1. CASE job.error # "none" /\ Throw(job.error)
    BY <1>0, <2>1, ThrowTyped
  <2>2. CASE job' = [job EXCEPT !.pc = "verify", !.chunks = wantedChunks]
    <3>1. job.pointer \in Pointers
      BY <1>8 DEF FetchEnds, StageLocals, Online
    <3>2. wantedChunks \subseteq Chunks
      BY <3>1, PointerNamesManifest, SelectedAreListed DEF wantedChunks
    <3> QED
      BY <1>0, <2>2, <3>2, JobUpdates DEF Stages
  <2> QED
    BY <1>8, <2>1, <2>2 DEF FetchEnds
<1>9. CASE VerifyEnds
  <2>1. \A e \in Errors : Throw(e) \/ Fail(e) => job' \in Jobs
    BY <1>0, ThrowTyped
  <2>2. \A pc \in Stages : [job EXCEPT !.pc = pc] \in Jobs
    BY <1>0, JobUpdates
  <2> QED
    BY <1>0, <1>e, <1>9, <2>1, <2>2 DEF VerifyEnds, Goto, Stages, Errors
<1>10. CASE PromoteRelease
  <2>1. \A e \in Errors : Throw(e) => job' \in Jobs
    BY <1>0, ThrowTyped
  <2>2. [job EXCEPT !.pc = "settle"] \in Jobs
    BY <1>0, JobUpdates DEF Stages
  <2> QED
    BY <1>10, <2>1, <2>2 DEF PromoteRelease, Goto, Errors
<1>11. CASE SyncFromCache
  <2> DEFINE active == readActive(row)
             m == active.manifest_hash
  <2>1. \A e \in Errors : Fail(e) => job' \in Jobs
    BY <1>0, ThrowTyped
  <2>2. CASE active = null
    <3>1. job.via \in {"outage", "quota", "read"}
      BY <1>0, <1>11 DEF SyncFromCache, StageLocals
    <3> QED
      BY <1>e, <1>11, <2>1, <2>2, <3>1 DEF SyncFromCache, Errors
  <2>3. CASE active # null
    <3>1. active \in Pointers /\ m \in Manifests
      BY <1>0, <2>3, ActiveTyped, PointerNamesManifest
    <3>2. manifest[m] \in {"none", "good", "bad"}
      BY <3>1 DEF SyncTypeOK, TypeOK, Body
    <3>3. /\ selectedChunks(m, job.wanted) \subseteq Chunks
          /\ isExpired(active, now) \in BOOLEAN
      BY <3>1, SelectedAreListed DEF isExpired
    <3>4. [job EXCEPT !.pc = "cacheVerify", !.pointer = active] \in Jobs
      BY <1>0, <3>1, JobUpdates DEF Stages
    <3>5. [job EXCEPT !.pc = "cacheVerify", !.pointer = active,
             !.chunks = selectedChunks(m, job.wanted)] \in Jobs
      BY <3>3, <3>4, JobUpdates
    <3>6. [job EXCEPT !.pc = "cacheVerify", !.pointer = active,
             !.chunks = selectedChunks(m, job.wanted),
             !.expired = isExpired(active, now)] \in Jobs
      BY <3>3, <3>5, JobUpdates
    <3> QED
      BY <1>e, <1>11, <2>1, <2>3, <3>2, <3>6 DEF SyncFromCache, Errors
  <2> QED
    BY <2>2, <2>3
<1>12. CASE Settle \/ WorkerDies
  BY <1>12, IdleTyped DEF Settle, WorkerDies
<1>13. CASE \/ HandleClear \/ Damage \/ Publish \/ RotateTrustRoot \/ Tick
            \/ \E candidates \in LegacySlots : OpenSession(candidates)
            \/ UNCHANGED syncVars
  BY <1>0, <1>13 DEF HandleClear, Damage, Publish, RotateTrustRoot, Tick,
                     OpenSession, syncVars
<1> QED
  BY <1>1, <1>2, <1>3, <1>4, <1>5, <1>6, <1>7, <1>8, <1>9, <1>10, <1>11,
     <1>12, <1>13 DEF SyncNext, JobStep

(* Every step keeps the types of the engine's variables. *)
LEMMA SyncTypeStep ==
    ASSUME SyncTypeOK, StageLocals, [SyncNext]_syncVars
    PROVE  SyncTypeOK'
<1>1. TypeOK'
  BY SyncStoreStep, TypeStep DEF SyncTypeOK
<1>2. job' \in Jobs
  BY JobTypeStep
<1>3. /\ latest' \in DOMAIN Releases /\ root' \in DOMAIN TrustRoots
      /\ now' \in 0 .. MaxClock /\ faults' \in 0 .. MaxFaults
  <2> USE DEF SyncTypeOK, Fault, NoFault, envVars
  <2>1. CASE Publish \/ RotateTrustRoot \/ Tick
    BY <2>1, SyncAssumption DEF Publish, RotateTrustRoot, Tick
  <2>2. CASE Fault \/ UNCHANGED envVars
    BY <2>2, SyncAssumption
  <2>3. ASSUME NEW c \in Chunks, FetchChunk(c) \/ FetchChunkFails(c) \/ ReadChunk(c)
        PROVE  Fault \/ UNCHANGED envVars
    BY <2>3 DEF FetchChunk, FetchChunkFails, ReadChunk
  <2>4. CASE LoadTrustRoot \/ FetchPointer \/ CheckFloor \/ FetchManifest
    <3> QED
      BY <2>2, <2>4 DEF LoadTrustRoot, FetchPointer, CheckFloor, FetchManifest
  <2>5. CASE FetchEnds \/ VerifyEnds \/ PromoteRelease \/ SyncFromCache \/ Settle
    BY <2>2, <2>5 DEF FetchEnds, VerifyEnds, PromoteRelease, SyncFromCache, Settle
  <2>6. CASE \/ Request \/ WorkerDies \/ Damage
             \/ \E path : StartReadFile(path)
             \/ \E candidates \in LegacySlots : OpenSession(candidates)
             \/ UNCHANGED syncVars
    BY <2>2, <2>6 DEF Request, StartSync, StartReadFile, WorkerDies,
                      Damage, OpenSession, syncVars
  <2>7. CASE HandleClear
    BY <2>7, SyncAssumption DEF HandleClear
  <2> QED
    BY <2>1, <2>2, <2>3, <2>4, <2>5, <2>6, <2>7 DEF SyncNext, JobStep
<1>4. synced' \in [pointer : Pointers \cup {null}, chunks : SUBSET Chunks,
                   intact : BOOLEAN]
  <2> USE DEF SyncTypeOK
  <2>1. CASE Settle
    <3>1. CASE UNCHANGED synced
      BY <3>1
    <3>2. CASE Delivered /\ synced' = [pointer |-> job.pointer,
                                       chunks |-> wantedChunks, intact |-> TRUE]
      <4>1. job.pointer \in Pointers
        BY <3>2 DEF StageLocals
      <4>2. wantedChunks \subseteq Chunks
        BY <4>1, PointerNamesManifest, SelectedAreListed DEF wantedChunks
      <4> QED
        BY <3>2, <4>1, <4>2
    <3> QED
      BY <2>1, <3>1, <3>2 DEF Settle, Delivered, At
  <2>2. CASE HandleClear
    BY <2>2 DEF HandleClear, NotSynced
  <2>3. CASE Damage
    BY <2>3 DEF Damage
  <2>4. CASE UNCHANGED synced
    BY <2>4
  <2> QED
    BY <2>1, <2>2, <2>3, <2>4
    DEF SyncNext, JobStep, Request, StartSync, StartReadFile, LoadTrustRoot,
        FetchPointer, CheckFloor, FetchManifest, FetchChunk, FetchChunkFails,
        ReadChunk, FetchEnds, VerifyEnds, PromoteRelease, SyncFromCache,
        WorkerDies, OpenSession, Publish, RotateTrustRoot, Tick, syncVars
<1>5. legacyStores' \in BOOLEAN
  <2>1. legacyStores' \in {legacyStores, FALSE}
    BY DEF SyncNext, JobStep, Request, StartSync, StartReadFile, HandleClear,
           LoadTrustRoot, FetchPointer, CheckFloor, FetchManifest, FetchChunk,
           FetchChunkFails, ReadChunk, FetchEnds, VerifyEnds, PromoteRelease,
           SyncFromCache, Settle, WorkerDies, OpenSession, Damage, Publish,
           RotateTrustRoot, Tick, Fault, NoFault, envVars, syncVars
  <2> QED
    BY <2>1 DEF SyncTypeOK
<1> QED
  BY <1>1, <1>2, <1>3, <1>4, <1>5 DEF SyncTypeOK

-----------------------------------------------------------------------------
(* The stage invariants, and the ways a step meets them.                   *)

StageInvariant ==
    /\ StageLocals
    /\ RowKept
    /\ ServesActive
    /\ PolicyKept
    /\ ReadBack

(* A failed step: to the cache after a quota error, or to an error. *)
Failed ==
    /\ job'.pc \in {"cache", "settle"}
    /\ job'.pc = "settle" => job'.error # "none"
    /\ job'.pc = "cache" => job'.via # "network"
    /\ job'.before = job.before
    /\ job'.started = job.started

(* Throw and Fail are failed steps. *)
LEMMA ThrowFails ==
    ASSUME job \in Jobs, NEW e, e # "none", Throw(e) \/ Fail(e)
    PROVE  Failed
BY DEF Throw, Fail, Failed, Jobs

(* A failed step that leaves the row alone keeps the stage invariants. *)
LEMMA FailedStep ==
    ASSUME StageInvariant, Failed, ~ At("idle"), ~ Delivered,
           row' = row, now' = now
    PROVE  StageInvariant'
BY DEF Failed, StageInvariant, StageLocals, RowKept, ServesActive, PolicyKept,
       ReadBack, Delivered, At, Online

(* So does a step after which no operation runs. *)
LEMMA IdleStep ==
    ASSUME job'.pc = "idle", job'.started <= now'
    PROVE  StageInvariant'
BY DEF StageInvariant, StageLocals, RowKept, ServesActive, PolicyKept, ReadBack,
       Delivered, At, Online

(* A deadline that has not passed now had not passed when the sync began. *)
LEMMA ExpiryMonotone ==
    ASSUME NEW p \in Pointers, NEW t \in Nat, NEW u \in Nat, t <= u,
           isExpired(p, t)
    PROVE  isExpired(p, u)
BY SyncAssumption DEF isExpired

(* Only a reset and damage at rest make a good body anything else. *)
GoodKept ==
    /\ \A m \in Manifests : manifest[m] = "good" => manifest'[m] = "good"
    /\ \A c \in Chunks : chunk[c] = "good" => chunk'[c] = "good"

(* The store operations a job runs keep good bodies good. *)
LEMMA StoreKeepsGood ==
    ASSUME TypeOK,
           \/ UNCHANGED vars \/ Flush \/ Crash
           \/ \E c \in Chunks : PutChunk(c) \/ GetChunk(c)
           \/ \E m \in Manifests : PutManifest(m) \/ GetManifest(m)
           \/ \E p, chunks : Promote(p, chunks)
           \/ \E candidates : RaiseLegacyFloor(candidates)
    PROVE  GoodKept
<1> USE DEF TypeOK, GoodKept
<1>1. \A names : \A c \in Chunks :
         chunk[c] = "good" => insertRows(chunk, names)[c] = "good"
  BY InsertKeepsGood
<1>2. CASE UNCHANGED vars \/ Crash \/ \E candidates : RaiseLegacyFloor(candidates)
  BY <1>2 DEF vars, storeVars, Crash, RaiseLegacyFloor
<1>3. CASE Flush \/ \E p, chunks : Promote(p, chunks)
  BY <1>1, <1>3 DEF Flush, Promote
<1>4. ASSUME NEW c \in Chunks, PutChunk(c) PROVE GoodKept
  BY <1>1, <1>4 DEF PutChunk
<1>5. ASSUME NEW c \in Chunks, GetChunk(c) PROVE GoodKept
  <2>1. insertRows(chunk, pending) \in [Chunks -> Body]
    BY InsertKeepsGood
  <2> QED
    BY <1>1, <1>5, <2>1 DEF GetChunk
<1>6. ASSUME NEW m \in Manifests, PutManifest(m) \/ GetManifest(m) PROVE GoodKept
  BY <1>6 DEF PutManifest, GetManifest
<1> QED
  BY <1>2, <1>3, <1>4, <1>5, <1>6

-----------------------------------------------------------------------------
(* Stages that leave the store alone: from the request to the rollback
   check. *)
LEMMA EarlyStages ==
    ASSUME SyncTypeOK, StageInvariant,
           \/ Request
           \/ \E paths \in WantedPaths \ {null} : \E path \in paths : StartReadFile(path)
           \/ LoadTrustRoot \/ FetchPointer \/ CheckFloor
    PROVE  StageInvariant'
<1> USE DEF At
<1>0. /\ job \in Jobs /\ Idle \in Jobs /\ now \in Nat /\ job.started \in Nat
  BY IdleTyped, SyncAssumption DEF SyncTypeOK, Jobs
<1>i. StageLocals /\ RowKept /\ ServesActive /\ PolicyKept /\ ReadBack
  BY DEF StageInvariant
<1>1. CASE \/ Request
           \/ \E paths \in WantedPaths \ {null} : \E path \in paths : StartReadFile(path)
  <2>1. /\ job'.pc \in {"trustRoot", "cache"}
        /\ job'.pc = "trustRoot" => job'.via = "network"
        /\ job'.pc = "cache" => job'.via = "read"
        /\ job'.started = now /\ job'.before = row /\ row' = row /\ now' = now
    <3>0. Idle.via = "network" /\ DOMAIN Idle =
             {"pc", "wanted", "expected", "trust", "pointer", "active", "chunks",
              "error", "via", "expired", "started", "before"}
      BY DEF Idle
    <3>1. ASSUME NEW wanted, NEW expected, StartSync(wanted, expected)
          PROVE  /\ job'.pc = "trustRoot" /\ job'.via = "network"
                 /\ job'.started = now /\ job'.before = row
                 /\ row' = row /\ now' = now
      BY <1>0, <3>0, <3>1 DEF StartSync, StoreIdle, vars, storeVars, NoFault,
                              envVars, Jobs
    <3>2. ASSUME NEW path, StartReadFile(path)
          PROVE  /\ job'.pc = "cache" /\ job'.via = "read"
                 /\ job'.started = now /\ job'.before = row
                 /\ row' = row /\ now' = now
      BY <1>0, <3>0, <3>2 DEF StartReadFile, StoreIdle, vars, storeVars, NoFault,
                              envVars, Jobs
    <3> QED
      BY <1>1, <3>1, <3>2 DEF Request
  <2> QED
    BY <1>0, <2>1 DEF StageInvariant, StageLocals, RowKept, ServesActive,
                      PolicyKept, ReadBack, Delivered, Online
<1>2. CASE LoadTrustRoot
  <2>0. row' = row /\ now' = now
    BY <1>2 DEF LoadTrustRoot, StoreIdle, vars, storeVars, Fault, NoFault, envVars
  <2>1. CASE Fail("network") \/ Fail("integrity")
    <3>1. Failed
      BY <1>0, <2>1, ThrowFails
    <3> QED
      BY <1>2, <2>0, <3>1, FailedStep DEF LoadTrustRoot, Delivered
  <2>2. CASE job' = [job EXCEPT !.pc = "pointer", !.trust = root]
    <3>1. /\ job'.pc = "pointer" /\ job'.via = job.via
          /\ job'.started = job.started /\ job'.before = job.before
      BY <1>0, <2>2 DEF Jobs
    <3> QED
      BY <1>i, <1>2, <2>0, <3>1
      DEF LoadTrustRoot, StageInvariant, StageLocals, RowKept, ServesActive,
          PolicyKept, ReadBack, Delivered, Online
  <2> QED
    BY <1>2, <2>1, <2>2 DEF LoadTrustRoot
<1>3. CASE FetchPointer
  <2>0. row' = row /\ now' = now
    BY <1>3 DEF FetchPointer, StoreIdle, vars, storeVars, Fault, NoFault, envVars
  <2>1. CASE Fail("integrity")
    <3>1. Failed
      BY <1>0, <2>1, ThrowFails
    <3> QED
      BY <1>3, <2>0, <3>1, FailedStep DEF FetchPointer, Delivered
  <2>2. CASE job' = [job EXCEPT !.pc = "cache", !.via = "outage"]
    <3>1. Failed
      BY <1>0, <2>2 DEF Failed, Jobs
    <3> QED
      BY <1>3, <2>0, <3>1, FailedStep DEF FetchPointer, Delivered
  <2>3. ASSUME NEW p \in published \cup Hostile,
               verifyWithKeyring(TrustRoots[job.trust], p), ~ isExpired(p, now),
               assertExpectedIdentity(p, job.expected),
               job' = [job EXCEPT !.pc = "floor", !.pointer = p]
        PROVE  StageInvariant'
    <3>1. p \in Pointers
      BY PublishedTyped DEF SyncTypeOK
    <3>2. /\ job'.pc = "floor" /\ job'.pointer = p /\ job'.via = job.via
          /\ job'.started = job.started /\ job'.before = job.before
          /\ job'.trust = job.trust /\ job'.expected = job.expected
      BY <1>0, <2>3 DEF Jobs
    <3>3. ~ isExpired(p, job.started)
      BY <1>0, <1>i, <2>3, <3>1, ExpiryMonotone DEF StageLocals
    <3> QED
      BY <1>i, <1>3, <2>0, <2>3, <3>1, <3>2, <3>3
      DEF FetchPointer, StageInvariant, StageLocals, RowKept, ServesActive,
          PolicyKept, ReadBack, Delivered, Online
  <2> QED
    BY <1>3, <2>1, <2>2, <2>3 DEF FetchPointer
<1>4. CASE CheckFloor
  <2>0. row' = row /\ now' = now
    BY <1>4 DEF CheckFloor, StoreIdle, vars, storeVars, Fault, NoFault, envVars
  <2>1. CASE Fail("integrity") \/ Fail("rollback") \/ Fail("storage")
    <3>1. Failed
      BY <1>0, <2>1, ThrowFails
    <3> QED
      BY <1>4, <2>0, <3>1, FailedStep DEF CheckFloor, Delivered
  <2>2. CASE job' = [job EXCEPT !.pc = "manifest", !.active = readActive(row)]
    <3>1. /\ job'.pc = "manifest" /\ job'.pointer = job.pointer
          /\ job'.via = job.via
          /\ job'.started = job.started /\ job'.before = job.before
          /\ job'.trust = job.trust /\ job'.expected = job.expected
      BY <1>0, <2>2 DEF Jobs
    <3> QED
      BY <1>i, <1>4, <2>0, <3>1
      DEF CheckFloor, StageInvariant, StageLocals, RowKept, ServesActive,
          PolicyKept, ReadBack, Delivered, Online
  <2> QED
    BY <1>4, <2>1, <2>2 DEF CheckFloor
<1> QED
  BY <1>1, <1>2, <1>3, <1>4

(* Stages that fetch: the manifest, the missing chunks. *)
LEMMA FetchStages ==
    ASSUME SyncTypeOK, StageInvariant,
           \/ FetchManifest \/ FetchEnds
           \/ \E c \in Chunks : FetchChunk(c) \/ FetchChunkFails(c)
    PROVE  StageInvariant'
<1> USE DEF At
<1>0. job \in Jobs /\ TypeOK
  BY DEF SyncTypeOK
<1>i. StageLocals /\ RowKept /\ ServesActive /\ PolicyKept /\ ReadBack
  BY DEF StageInvariant
<1>1. CASE FetchManifest
  <2> DEFINE m == job.pointer.manifest_hash
  <2>0. row' = row /\ now' = now
    BY <1>1 DEF FetchManifest, PutManifest, StoreIdle, vars, storeVars, Fault,
                NoFault, envVars
  <2>1. ASSUME NEW e \in {"network", "integrity", "quota", "storage"}, Throw(e)
        PROVE  StageInvariant'
    <3>1. Failed
      BY <1>0, <2>1, ThrowFails
    <3> QED
      BY <1>1, <2>0, <3>1, FailedStep DEF FetchManifest, Delivered
  <2>2. CASE /\ PutManifest(m)
             /\ job' = [job EXCEPT !.pc = "fetch",
                          !.chunks = missingChunks(wantedChunks)]
    <3>1. /\ job'.pc = "fetch" /\ job'.pointer = job.pointer /\ job'.via = job.via
          /\ job'.started = job.started /\ job'.before = job.before
          /\ job'.trust = job.trust /\ job'.expected = job.expected
      BY <1>0, <2>2 DEF Jobs
    <3>2. job.pointer \in Pointers
      BY <1>i, <1>1 DEF FetchManifest, StageLocals, Online
    <3>3. manifest'[m] = "good"
      BY <1>0, <2>2, <3>2, PointerNamesManifest DEF PutManifest, TypeOK
    <3> QED
      BY <1>i, <1>1, <2>0, <3>1, <3>2, <3>3
      DEF FetchManifest, StageInvariant, StageLocals, RowKept, ServesActive,
          PolicyKept, ReadBack, Delivered, Online
  <2> QED
    BY <1>1, <2>1, <2>2 DEF FetchManifest
<1>2. ASSUME NEW c \in Chunks, FetchChunk(c) \/ FetchChunkFails(c)
      PROVE  StageInvariant'
  <2>0. row' = row /\ now' = now /\ manifest' = manifest
    BY <1>2 DEF FetchChunk, FetchChunkFails, PutChunk, StoreIdle, vars, storeVars,
                Fault, NoFault, envVars
  <2>1. /\ job'.pc = "fetch" /\ job'.pointer = job.pointer /\ job'.via = job.via
        /\ job'.started = job.started /\ job'.before = job.before
        /\ job'.trust = job.trust /\ job'.expected = job.expected
    <3>1. CASE FetchChunk(c)
      BY <1>0, <3>1 DEF FetchChunk, Jobs
    <3>2. CASE FetchChunkFails(c)
      BY <1>0, <3>2 DEF FetchChunkFails, Jobs
    <3> QED
      BY <1>2, <3>1, <3>2
  <2> QED
    BY <1>i, <1>2, <2>0, <2>1
    DEF FetchChunk, FetchChunkFails, StageInvariant, StageLocals, RowKept,
        ServesActive, PolicyKept, ReadBack, Delivered, Online
<1>3. CASE FetchEnds
  <2>0. row' = row /\ now' = now /\ manifest' = manifest /\ chunk' = chunk
    BY <1>3 DEF FetchEnds, StoreIdle, vars, storeVars, NoFault, envVars
  <2>1. CASE job.error # "none" /\ Throw(job.error)
    <3>1. Failed
      BY <1>0, <2>1, ThrowFails
    <3> QED
      BY <1>3, <2>0, <3>1, FailedStep DEF FetchEnds, Delivered
  <2>2. CASE job' = [job EXCEPT !.pc = "verify", !.chunks = wantedChunks]
    <3>1. /\ job'.pc = "verify" /\ job'.pointer = job.pointer /\ job'.via = job.via
          /\ job'.started = job.started /\ job'.before = job.before
          /\ job'.trust = job.trust /\ job'.expected = job.expected
          /\ job'.wanted = job.wanted /\ job'.chunks = wantedChunks
      BY <1>0, <2>2 DEF Jobs
    <3>2. wantedChunks' = wantedChunks
      BY <3>1 DEF wantedChunks
    <3> QED
      BY <1>i, <1>3, <2>0, <3>1, <3>2
      DEF FetchEnds, StageInvariant, StageLocals, RowKept, ServesActive,
          PolicyKept, ReadBack, Delivered, Online
  <2> QED
    BY <1>3, <2>1, <2>2 DEF FetchEnds
<1> QED
  BY <1>1, <1>2, <1>3

(* getChunk during the read-back: a chunk it did not fail on is good. *)
LEMMA ReadStage ==
    ASSUME SyncTypeOK, StageInvariant, NEW c \in Chunks, ReadChunk(c)
    PROVE  StageInvariant'
<1> USE DEF At
<1>0. job \in Jobs /\ TypeOK
  BY DEF SyncTypeOK
<1>i. StageLocals /\ RowKept /\ ServesActive /\ PolicyKept /\ ReadBack
  BY DEF StageInvariant
<1>1. /\ row' = row /\ now' = now /\ manifest' = manifest
      /\ job.pc \in {"verify", "cacheVerify"}
  BY DEF ReadChunk, GetChunk, StoreIdle, vars, storeVars, Fault, NoFault, envVars
<1>2. GoodKept
  BY <1>0, StoreKeepsGood DEF ReadChunk, StoreIdle
<1>3. \E e : job' = [job EXCEPT !.chunks = job.chunks \ {c}, !.error = e]
  BY DEF ReadChunk
<1>4. /\ job'.pc = job.pc /\ job'.pointer = job.pointer /\ job'.via = job.via
      /\ job'.started = job.started /\ job'.before = job.before
      /\ job'.trust = job.trust /\ job'.expected = job.expected
      /\ job'.wanted = job.wanted /\ job'.chunks = job.chunks \ {c}
      /\ job'.expired = job.expired
  BY <1>0, <1>3 DEF Jobs
<1>5. job'.error = "none" => job.error = "none" /\ chunk'[c] = "good"
  BY <1>0 DEF ReadChunk, firstError, Jobs
<1>6. wantedChunks' = wantedChunks
  BY <1>4 DEF wantedChunks
<1>7. wantedChunks \subseteq Chunks
  <2>1. job.pointer \in Pointers
    BY <1>i, <1>1 DEF StageLocals, Online
  <2> QED
    BY <2>1, PointerNamesManifest, SelectedAreListed DEF wantedChunks
<1>8. ReadBack'
  <2>1. ASSUME job'.error = "none", NEW x \in wantedChunks, x \notin job'.chunks
        PROVE  chunk'[x] = "good"
    BY <1>i, <1>1, <1>2, <1>4, <1>5, <1>7, <2>1 DEF ReadBack, GoodKept
  <2> QED
    BY <1>i, <1>1, <1>4, <1>6, <2>1 DEF ReadBack, Delivered
<1>9. StageLocals' /\ RowKept' /\ ServesActive' /\ PolicyKept'
  BY <1>i, <1>1, <1>4
  DEF StageLocals, RowKept, ServesActive, PolicyKept, Delivered, Online
<1> QED
  BY <1>8, <1>9 DEF StageInvariant

(* The end of the read-back, online or from the cache. *)
LEMMA VerifyStage ==
    ASSUME SyncTypeOK, StageInvariant, VerifyEnds
    PROVE  StageInvariant'
<1> USE DEF At
<1>0. job \in Jobs
  BY DEF SyncTypeOK
<1>i. StageLocals /\ RowKept /\ ServesActive /\ PolicyKept /\ ReadBack
  BY DEF StageInvariant
<1>1. /\ row' = row /\ now' = now /\ manifest' = manifest /\ chunk' = chunk
      /\ job.pc \in {"verify", "cacheVerify"}
  BY DEF VerifyEnds, StoreIdle, vars, storeVars, NoFault, envVars
<1>2. ASSUME NEW e, e # "none", Throw(e) \/ Fail(e)
      PROVE  StageInvariant'
  <2>1. Failed
    BY <1>0, <1>2, ThrowFails
  <2> QED
    BY <1>1, <2>1, FailedStep DEF Delivered
<1>3. CASE /\ job.error = "none" /\ job.chunks = {}
           /\ \/ job.pc = "verify" /\ Goto("promote")
              \/ job.pc = "cacheVerify" /\ Goto("settle")
  <2>1. /\ job'.pointer = job.pointer /\ job'.via = job.via
        /\ job'.started = job.started /\ job'.before = job.before
        /\ job'.trust = job.trust /\ job'.expected = job.expected
        /\ job'.wanted = job.wanted /\ job'.error = "none"
        /\ job'.expired = job.expired
        /\ \/ job.pc = "verify" /\ job'.pc = "promote"
           \/ job.pc = "cacheVerify" /\ job'.pc = "settle"
    BY <1>0, <1>3 DEF Goto, Jobs
  <2>2. wantedChunks' = wantedChunks
    BY <2>1 DEF wantedChunks
  <2>3. ReadBack'
    BY <1>i, <1>1, <1>3, <2>1, <2>2 DEF ReadBack, Delivered
  <2>4. StageLocals' /\ RowKept' /\ ServesActive' /\ PolicyKept'
    BY <1>i, <1>1, <2>1
    DEF StageLocals, RowKept, ServesActive, PolicyKept, Delivered, Online
  <2> QED
    BY <2>3, <2>4 DEF StageInvariant
<1> QED
  BY <1>2, <1>3 DEF VerifyEnds, cacheError

(* promote(): the new row serves the pointer whose files were read back. *)
LEMMA PromoteStage ==
    ASSUME SyncTypeOK, StageInvariant, PromoteRelease
    PROVE  StageInvariant'
<1> USE DEF At
<1>0. job \in Jobs /\ TypeOK /\ row \in FloorRow
  BY DEF SyncTypeOK, TypeOK
<1>i. StageLocals /\ RowKept /\ ServesActive /\ PolicyKept /\ ReadBack
  BY DEF StageInvariant
<1>1. job.pc = "promote" /\ now' = now /\ job.pointer \in Pointers
  BY <1>i DEF PromoteRelease, Fault, NoFault, envVars, StageLocals, Online
<1>2. ASSUME NEW e, e # "none", Throw(e), StoreIdle
      PROVE  StageInvariant'
  <2>1. Failed
    BY <1>0, <1>2, ThrowFails
  <2> QED
    BY <1>1, <1>2, <2>1, FailedStep DEF Delivered, StoreIdle, vars, storeVars
<1>3. CASE Promote(job.pointer, wantedChunks) /\ Goto("settle")
  <2>1. /\ job'.pc = "settle" /\ job'.pointer = job.pointer /\ job'.via = "network"
        /\ job'.started = job.started /\ job'.error = "none"
        /\ job'.trust = job.trust /\ job'.expected = job.expected
        /\ job'.wanted = job.wanted
    BY <1>0, <1>i, <1>1, <1>3 DEF Goto, Jobs, StageLocals, Online
  <2>2. readActive(row') = job.pointer
    BY <1>0, <1>1, <1>3, InstalledIsServed DEF Promote, promoteAllowed
  <2>3. manifest' = manifest /\ GoodKept
    BY <1>0, <1>3, StoreKeepsGood DEF Promote
  <2>4. wantedChunks' = wantedChunks /\ wantedChunks \subseteq Chunks
    BY <1>1, <2>1, PointerNamesManifest, SelectedAreListed DEF wantedChunks
  <2>5. ReadBack'
    BY <1>i, <1>1, <2>1, <2>3, <2>4 DEF ReadBack, GoodKept, Delivered
  <2>6. StageLocals' /\ RowKept' /\ ServesActive' /\ PolicyKept'
    BY <1>i, <1>1, <2>1, <2>2
    DEF StageLocals, RowKept, ServesActive, PolicyKept, Delivered, Online
  <2> QED
    BY <2>5, <2>6 DEF StageInvariant
<1> QED
  BY <1>2, <1>3 DEF PromoteRelease

(* syncFromCache and readFile's lookup take what readActive gives. *)
LEMMA CacheStage ==
    ASSUME SyncTypeOK, StageInvariant, SyncFromCache
    PROVE  StageInvariant'
<1> USE DEF At
<1> DEFINE active == readActive(row)
           m == active.manifest_hash
<1>0. /\ job \in Jobs /\ TypeOK /\ row \in FloorRow
      /\ now \in Nat /\ job.started \in Nat
  BY SyncAssumption DEF SyncTypeOK, TypeOK, Jobs
<1>i. StageLocals /\ RowKept /\ ServesActive /\ PolicyKept /\ ReadBack
  BY DEF StageInvariant
<1>1. /\ row' = row /\ now' = now /\ chunk' = chunk
      /\ job.pc = "cache" /\ job.via # "network"
  BY <1>i DEF SyncFromCache, GetManifest, StoreIdle, vars, storeVars, Fault, NoFault,
              envVars, StageLocals
<1>2. ASSUME NEW e, e # "none", Fail(e)
      PROVE  StageInvariant'
  <2>1. Failed
    BY <1>0, <1>2, ThrowFails
  <2> QED
    BY <1>1, <2>1, FailedStep DEF Delivered
<1>3. CASE active = null
  <2>1. job.via \in {"outage", "quota", "read"}
    BY <1>0, <1>1 DEF Jobs
  <2> QED
    BY <1>2, <1>3, <2>1 DEF SyncFromCache, cacheError
<1>4. CASE active # null
  <2>1. active \in Pointers /\ m \in Manifests
    BY <1>0, <1>4, ActiveTyped, PointerNamesManifest
  <2>2. manifest[m] \in {"none", "good", "bad"}
    BY <1>0, <2>1 DEF TypeOK, Body
  <2>3. CASE /\ cacheTrusted(active) /\ GetManifest(m) /\ manifest[m] = "good"
             /\ job' = [job EXCEPT !.pc = "cacheVerify", !.pointer = active,
                          !.chunks = selectedChunks(m, job.wanted),
                          !.expired = isExpired(active, now)]
    <3>1. /\ job'.pc = "cacheVerify" /\ job'.pointer = active
          /\ job'.via = job.via /\ job'.started = job.started
          /\ job'.before = job.before /\ job'.trust = job.trust
          /\ job'.expected = job.expected /\ job'.wanted = job.wanted
          /\ job'.chunks = selectedChunks(m, job.wanted)
      BY <1>0, <2>3 DEF Jobs
    <3>2. job'.expired = isExpired(active, now)
      BY <1>0, <2>3 DEF Jobs
    <3>3. manifest'[m] = "good"
      BY <1>0, <2>1, <2>3 DEF GetManifest, TypeOK
    <3>4. wantedChunks' = job'.chunks
      BY <3>1 DEF wantedChunks
    <3>5. isExpired(active, job.started) => job'.expired
      BY <1>0, <1>i, <2>1, <3>2, ExpiryMonotone DEF StageLocals
    <3>6. PolicyKept'
      BY <2>3, <3>1, <3>5 DEF PolicyKept, cacheTrusted, Delivered, Online
    <3>7. ReadBack'
      BY <3>1, <3>3, <3>4 DEF ReadBack, Delivered
    <3>8. StageLocals' /\ RowKept' /\ ServesActive'
      BY <1>i, <1>1, <2>1, <3>1
      DEF StageLocals, RowKept, ServesActive, Delivered, Online
    <3> QED
      BY <3>6, <3>7, <3>8 DEF StageInvariant
  <2> QED
    BY <1>2, <1>4, <2>2, <2>3 DEF SyncFromCache, cacheError
<1> QED
  BY <1>3, <1>4

(* Every step keeps the stage invariants. *)
LEMMA StageStep ==
    ASSUME SyncTypeOK, StageInvariant, [SyncNext]_syncVars
    PROVE  StageInvariant'
<1>0. job.started <= now /\ now \in Nat /\ Idle.pc = "idle" /\ Idle.started = 0
  BY SyncAssumption DEF StageInvariant, StageLocals, SyncTypeOK, Idle
<1>1. CASE Settle \/ WorkerDies
  <2>1. job' = Idle /\ now' = now
    BY <1>1 DEF Settle, WorkerDies, Fault, NoFault, envVars
  <2> QED
    BY <1>0, <2>1, IdleStep
<1>2. CASE \/ HandleClear \/ Damage
           \/ \E candidates \in LegacySlots : OpenSession(candidates)
  <2>1. job' = job /\ now' = now /\ job.pc = "idle"
    BY <1>2 DEF HandleClear, Damage, OpenSession, Fault, NoFault, envVars, At
  <2> QED
    BY <1>0, <2>1, IdleStep
<1>3. CASE Publish \/ RotateTrustRoot \/ Tick \/ UNCHANGED syncVars
  <2>1. /\ job' = job /\ UNCHANGED vars /\ now' >= now /\ now' \in Int
        /\ job.started \in Int
    BY <1>0, <1>3 DEF Publish, RotateTrustRoot, Tick, syncVars, envVars,
                      SyncTypeOK, Jobs
  <2>2. row' = row /\ chunk' = chunk /\ manifest' = manifest
    BY <2>1 DEF vars, storeVars
  <2>3. wantedChunks' = wantedChunks
    BY <2>1 DEF wantedChunks
  <2> QED
    BY <1>0, <2>1, <2>2, <2>3
    DEF StageInvariant, StageLocals, RowKept, ServesActive, PolicyKept, ReadBack,
        Delivered, At
<1> QED
  BY <1>1, <1>2, <1>3, EarlyStages, FetchStages, ReadStage, VerifyStage,
     PromoteStage, CacheStage
  DEF SyncNext, JobStep

(* What was synced online stays whole unless a reset or damage takes it. *)
LEMMA SyncedStep ==
    ASSUME SyncTypeOK, StageInvariant, SyncedWhole, [SyncNext]_syncVars
    PROVE  SyncedWhole'
<1>0. /\ synced \in [pointer : Pointers \cup {null}, chunks : SUBSET Chunks,
                     intact : BOOLEAN]
      /\ TypeOK
  BY DEF SyncTypeOK
<1>1. ASSUME GoodKept, synced' = synced
      PROVE  SyncedWhole'
  BY <1>0, <1>1, PointerNamesManifest DEF SyncedWhole, GoodKept
<1>2. CASE HandleClear
  BY <1>2 DEF HandleClear, NotSynced, SyncedWhole
<1>3. CASE Settle
  <2>1. GoodKept
    BY <1>0, <1>3, StoreKeepsGood DEF Settle, StoreIdle
  <2>2. CASE Delivered /\ synced' = [pointer |-> job.pointer,
                                     chunks |-> wantedChunks, intact |-> TRUE]
    <3>1. /\ manifest[job.pointer.manifest_hash] = "good"
          /\ \A c \in wantedChunks : chunk[c] = "good"
          /\ job.pointer \in Pointers
      BY <2>2 DEF StageInvariant, ReadBack, StageLocals
    <3>2. wantedChunks \subseteq Chunks
      BY <3>1, PointerNamesManifest, SelectedAreListed DEF wantedChunks
    <3> QED
      BY <2>1, <2>2, <3>1, <3>2, PointerNamesManifest DEF SyncedWhole, GoodKept
  <2> QED
    BY <1>1, <1>3, <2>1, <2>2 DEF Settle, Delivered, At
<1>4. CASE Damage
  <2>1. ASSUME NEW c \in Chunks, DamageChunk(c),
               synced' = [synced EXCEPT !.intact = @ /\ c \notin synced.chunks]
        PROVE  SyncedWhole'
    BY <1>0, <2>1 DEF DamageChunk, SyncedWhole, TypeOK
  <2>2. ASSUME NEW m \in Manifests, DamageManifest(m),
               synced' = [synced EXCEPT !.intact =
                  @ /\ (synced.pointer # null => m # synced.pointer.manifest_hash)]
        PROVE  SyncedWhole'
    <3>1. /\ synced'.pointer = synced.pointer
          /\ synced'.chunks = synced.chunks
          /\ synced'.intact =
                (synced.intact /\ (synced.pointer # null =>
                                     m # synced.pointer.manifest_hash))
      BY <1>0, <2>2
    <3>2. /\ chunk' = chunk
          /\ \A k \in Manifests : k # m => manifest'[k] = manifest[k]
      BY <1>0, <2>2 DEF DamageManifest, TypeOK
    <3>3. ASSUME synced.intact, synced.pointer # null
          PROVE  synced.pointer.manifest_hash \in Manifests
      BY <1>0, <3>3, PointerNamesManifest
    <3> QED
      BY <3>1, <3>2, <3>3 DEF SyncedWhole
  <2>3. ASSUME NEW p, EditPointer(p), UNCHANGED synced
        PROVE  SyncedWhole'
    BY <2>3 DEF EditPointer, SyncedWhole
  <2> QED
    BY <1>4, <2>1, <2>2, <2>3 DEF Damage
<1>5. ASSUME FetchManifest \/ SyncFromCache
      PROVE  GoodKept /\ synced' = synced
  <2>1. CASE FetchManifest
    <3>1. job.pointer.manifest_hash \in Manifests
      BY <2>1, PointerNamesManifest
      DEF FetchManifest, StageInvariant, StageLocals, Online, At
    <3> QED
      BY <1>0, <2>1, <3>1, StoreKeepsGood DEF FetchManifest, StoreIdle
  <2>2. CASE SyncFromCache
    <3>1. readActive(row) # null => readActive(row).manifest_hash \in Manifests
      BY <1>0, ActiveTyped, PointerNamesManifest DEF TypeOK
    <3> QED
      BY <1>0, <2>2, <3>1, StoreKeepsGood DEF SyncFromCache, StoreIdle
  <2> QED
    BY <1>5, <2>1, <2>2
<1>6. ASSUME NEW c \in Chunks, FetchChunk(c) \/ FetchChunkFails(c) \/ ReadChunk(c)
      PROVE  GoodKept /\ synced' = synced
  BY <1>0, <1>6, StoreKeepsGood DEF FetchChunk, FetchChunkFails, ReadChunk, StoreIdle
<1>7. ASSUME \/ Request \/ PromoteRelease \/ WorkerDies
             \/ \E path : StartReadFile(path)
             \/ \E candidates \in LegacySlots : OpenSession(candidates)
             \/ LoadTrustRoot \/ FetchPointer \/ CheckFloor \/ FetchEnds \/ VerifyEnds
             \/ Publish \/ RotateTrustRoot \/ Tick \/ UNCHANGED syncVars
      PROVE  GoodKept /\ synced' = synced
  <2>1. \/ UNCHANGED vars \/ Crash
        \/ \E p, chunks : Promote(p, chunks)
        \/ \E candidates : RaiseLegacyFloor(candidates)
    BY <1>7 DEF Request, StartSync, StartReadFile, PromoteRelease, WorkerDies,
                OpenSession, LoadTrustRoot, FetchPointer, CheckFloor, FetchEnds,
                VerifyEnds, Publish, RotateTrustRoot, Tick, StoreIdle, syncVars
  <2>2. synced' = synced
    BY <1>7 DEF Request, StartSync, StartReadFile, PromoteRelease, WorkerDies,
                OpenSession, LoadTrustRoot, FetchPointer, CheckFloor, FetchEnds,
                VerifyEnds, Publish, RotateTrustRoot, Tick, syncVars
  <2> QED
    BY <1>0, <2>1, <2>2, StoreKeepsGood
<1> QED
  BY <1>1, <1>2, <1>3, <1>4, <1>5, <1>6, <1>7 DEF SyncNext, JobStep

-----------------------------------------------------------------------------
(* The inductive invariant of the engine: at every stage of every operation
   the locals of syncIndex, the row it found, the checks its pointer passed
   and the rows it read back are what the later stages rely on. *)
THEOREM EngineIsInvariant == SyncSpec => []EngineInvariant
<1>1. SyncInit => EngineInvariant
  <2> SUFFICES ASSUME SyncInit PROVE EngineInvariant
    OBVIOUS
  <2>1. SyncTypeOK
    <3>1. TypeOK
      BY DEF SyncInit, Init, TypeOK, Body, FloorRow, EmptyRow
    <3> QED
      BY <3>1, IdleTyped, SyncAssumption DEF SyncInit, SyncTypeOK, NotSynced
  <2>2. job.pc = "idle" /\ job.started = 0 /\ now = 0 /\ synced.pointer = null
    BY DEF SyncInit, Idle, NotSynced
  <2> QED
    BY <2>1, <2>2
    DEF EngineInvariant, StageLocals, RowKept, ServesActive, PolicyKept, ReadBack,
        SyncedWhole, Delivered, At, Online
<1>2. EngineInvariant /\ [SyncNext]_syncVars => EngineInvariant'
  BY SyncTypeStep, StageStep, SyncedStep DEF EngineInvariant, StageInvariant
<1> QED
  BY <1>1, <1>2, PTL DEF SyncSpec

(* The engine's variables always have their types. *)
THEOREM SyncTypeCorrect == SyncSpec => []SyncTypeOK
<1>1. EngineInvariant => SyncTypeOK
  BY DEF EngineInvariant
<1> QED
  BY <1>1, EngineIsInvariant, PTL

(* syncIndex, the handlers and their failures only ever take steps of the
   chunk store, so every theorem about the store holds under the engine. *)
THEOREM EngineUsesStore == SyncSpec => StoreSpec
<1>1. SyncInit => Init
  BY DEF SyncInit
<1>2. EngineInvariant /\ [SyncNext]_syncVars => [Next]_vars
  BY SyncStoreStep DEF EngineInvariant
<1> QED
  BY <1>1, <1>2, EngineIsInvariant, PTL DEF SyncSpec, StoreSpec, Spec

(* No result, online, offline, after a quota error or from readFile, names a
   release older than one the store accepted, nor a fork of it. *)
THEOREM ResultsNeverRollBack == SyncSpec => []ResultNeverRollsBack
<1>1. EngineInvariant /\ ServesActive /\ ServedIsNewest => ResultNeverRollsBack
  BY PointerNamesManifest
  DEF EngineInvariant, StageLocals, ServesActive, ServedIsNewest,
      ResultNeverRollsBack
<1>2. EngineInvariant => ServesActive
  BY DEF EngineInvariant
<1> QED
  BY <1>1, <1>2, EngineIsInvariant, EngineUsesStore, ServedNeverRollsBack, PTL
  DEF StoreSpec

(* Every result of a sync passed the signature, identity and expiry policy of
   the trust root which that sync loaded. *)
THEOREM ResultsUnderPolicy == SyncSpec => []ServedUnderPolicy
<1>1. EngineInvariant => ServedUnderPolicy
  BY DEF EngineInvariant, PolicyKept, ServedUnderPolicy, Delivered
<1> QED
  BY <1>1, EngineIsInvariant, PTL

(* Every result is active, and its manifest and wanted chunks verify. *)
THEOREM ResultsReadable == SyncSpec => []DeliveredReadable
<1>1. EngineInvariant => DeliveredReadable
  BY DEF EngineInvariant, ServesActive, ReadBack, DeliveredReadable
<1> QED
  BY <1>1, EngineIsInvariant, PTL

(* A failed operation leaves the active release and the floor untouched. *)
THEOREM FailuresKeepRelease == SyncSpec => []FailureKeepsRelease
<1>1. EngineInvariant => FailureKeepsRelease
  BY DEF EngineInvariant, RowKept, FailureKeepsRelease, Delivered, At
<1> QED
  BY <1>1, EngineIsInvariant, PTL

(* A release synced online stays servable until it is replaced, reset or
   changed at rest. *)
THEOREM SyncedStaysServable == SyncSpec => []ReleaseStaysServable
<1>1. EngineInvariant => ReleaseStaysServable
  BY DEF EngineInvariant, SyncedWhole, ReleaseStaysServable
<1> QED
  BY <1>1, EngineIsInvariant, PTL
=============================================================================
