----------------------------- MODULE FloorGate -----------------------------
(***************************************************************************)
(* Signed version pointers, the durable anti-rollback row and the gate     *)
(* that every path to the active pointer goes through                      *)
(* (src/engine/activePointer.ts and the module-level functions of          *)
(* src/engine/sqliteStore.ts).                                             *)
(*                                                                         *)
(* A pointer is a record.  An absent or null sequence is -1, the value     *)
(* sequenceOf gives it; bundle_id stands for the pair bundle_id/channel,   *)
(* which every function treats alike; a null optional field is `null'.     *)
(* Hashes are names: two contents have one hash only if they are equal.    *)
(***************************************************************************)
EXTENDS Integers, Sequences

CONSTANTS
    Pointers,   \* the pointers publishers have ever signed, and forged ones
    Manifests,  \* manifest hashes
    null        \* the absent pointer, identity or optional field

PointerFields ==
    {"manifest_hash", "version", "sequence", "bundle_id", "signature",
     "key_id", "expires_at"}

(* What parseStoredPointer demands of a durable pointer; anything else is
   read as null. *)
parseStoredPointer(value) ==
    /\ value = [f \in PointerFields |-> value[f]]
    /\ value.manifest_hash \in Manifests
    /\ value.sequence \in Int
    /\ value.sequence >= -1

-----------------------------------------------------------------------------
(* The compared fields, in a fixed order: one value per release. *)
pointerIdentity(p) ==
    << p.manifest_hash, p.version, p.sequence, p.signature, p.bundle_id,
       p.key_id, p.expires_at >>

(* `null' is not a pointer and not an identity. *)
ASSUME PointersAssumption ==
    /\ null \notin Pointers
    /\ \A p \in Pointers : parseStoredPointer(p) /\ pointerIdentity(p) # null

samePointer(left, right) ==
    left # null /\ pointerIdentity(left) = pointerIdentity(right)

sequenceOf(p) == p.sequence

hasSequence(p) == p.sequence >= 0

(* The 0.2.x promotion rule: advance the durable identity, never fork it. *)
canPromotePointer(current, incoming) ==
    current # null =>
       \/ ~ hasSequence(current)
       \/ incoming.sequence > current.sequence
       \/ samePointer(current, incoming)

-----------------------------------------------------------------------------
(* selectHighestPointer scans the candidates in order and throws when one  *)
(* disagrees with the highest seen so far.  A sequence-less candidate      *)
(* ranks below every sequenced one, which is what sequenceOf = -1 says.    *)

(* The scan throws at candidate j: it ties with the highest of the
   candidates before it, and is a different pointer. *)
pointersDisagreeAt(candidates, j) ==
    /\ candidates[j] # null
    /\ \E i \in 1 .. (j - 1) :
          /\ candidates[i] # null
          /\ sequenceOf(candidates[i]) = sequenceOf(candidates[j])
          /\ ~ samePointer(candidates[i], candidates[j])
    /\ \A k \in 1 .. (j - 1) :
          candidates[k] # null =>
             sequenceOf(candidates[k]) <= sequenceOf(candidates[j])

pointersDisagree(candidates) ==
    \E j \in DOMAIN candidates : pointersDisagreeAt(candidates, j)

(* j survives the whole scan as the highest candidate. *)
isHighest(candidates, j) ==
    /\ candidates[j] # null
    /\ \A k \in DOMAIN candidates :
          candidates[k] # null =>
             sequenceOf(candidates[k]) <= sequenceOf(candidates[j])

(* Only meaningful when the candidates do not disagree. *)
selectHighestPointer(candidates) ==
    IF \E j \in DOMAIN candidates : isHighest(candidates, j)
    THEN candidates[CHOOSE j \in DOMAIN candidates : isHighest(candidates, j)]
    ELSE null

-----------------------------------------------------------------------------
(* The durable row: the active pointer and its floor.  A missing row reads *)
(* as EmptyRow.                                                            *)

EmptyRow == [pointer |-> null, floorSequence |-> -1, floorIdentity |-> null]

FloorRow ==
    [pointer : Pointers \cup {null},
     floorSequence : {n \in Int : n >= -1},
     floorIdentity : {pointerIdentity(p) : p \in Pointers} \cup {null}]

(* THE floor gate: with a floor, a higher sequence or the exact release at
   the floor; without one, the 0.2.x rule. *)
admits(row, incoming) ==
    IF row.floorSequence < 0
    THEN canPromotePointer(row.pointer, incoming)
    ELSE \/ sequenceOf(incoming) > row.floorSequence
         \/ /\ sequenceOf(incoming) = row.floorSequence
            /\ row.floorIdentity = pointerIdentity(incoming)

(* Only after admits(): the pointer, and a floor that can only rise. *)
installPointer(row, p) ==
    [pointer |-> p,
     floorSequence |-> IF sequenceOf(p) > row.floorSequence
                       THEN sequenceOf(p) ELSE row.floorSequence,
     floorIdentity |-> pointerIdentity(p)]

forgetIdentity(row) == [row EXCEPT !.floorIdentity = null]

(* The highest sequence any legacy slot names, -1 when none does. *)
highestSequence(candidates) ==
    IF \E j \in DOMAIN candidates : isHighest(candidates, j)
    THEN sequenceOf(selectHighestPointer(candidates))
    ELSE -1

(* Legacy slots that disagree leave a floor without an identity, so only a
   strictly newer release is admitted. *)
conflictingLegacyFloor(row, candidates) ==
    LET sequence == highestSequence(candidates)
    IN  IF sequence > row.floorSequence
        THEN [pointer |-> null, floorSequence |-> sequence,
              floorIdentity |-> null]
        ELSE IF sequence = row.floorSequence
             THEN forgetIdentity(row)
             ELSE row

(* Raise, never lower, the floor with legacy pointers through the gate. *)
mergeLegacyFloor(row, candidates) ==
    LET legacy == selectHighestPointer(candidates)
    IN  IF pointersDisagree(candidates)
        THEN conflictingLegacyFloor(row, candidates)
        ELSE IF legacy = null
        THEN row
        ELSE IF admits(row, legacy)
        THEN IF ~ hasSequence(legacy) /\ row.pointer # null
             THEN row
             ELSE installPointer(row, legacy)
        ELSE IF sequenceOf(legacy) = row.floorSequence
        THEN forgetIdentity(row)
        ELSE row

(* Defect: the pointer column is trusted. *)
readActive_Ungated(row) == row.pointer

(* SqliteCacheStore.readActive: the pointer to serve, only if the gate
   admits it. *)
readActive(row) ==
    IF row.pointer # null /\ admits(row, row.pointer) THEN row.pointer ELSE null
=============================================================================
