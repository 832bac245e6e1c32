----------------------------- MODULE SqliteProofs -----------------------------
(***************************************************************************)
(* Proofs about what the project keeps in SQLite: the VFS under it         *)
(* (SahPool) and the tables of the vector index (SqliteVectorIndex).  The  *)
(* two share nothing, and nothing is assumed of one in the proofs about    *)
(* the other.                                                              *)
(***************************************************************************)
EXTENDS SahPool, SqliteVectorIndex, FiniteSetTheorems, FunctionTheorems,
        WellFoundedInduction, TLAPS

-----------------------------------------------------------------------------
(***************************************************************************)
(* SahPool, for any finite numbers of connections and temp files and any   *)
(* pool sizes.                                                             *)
(*                                                                         *)
(* Three arguments meet.  The slots: headers name each file once and the   *)
(* Worker's maps say the same (SlotsAreTrue, Headers), so that used and    *)
(* free slots add up to the pool and a pool as large as the set of paths   *)
(* has a slot for each.  The locks: the table's count and type describe    *)
(* the connections' locks, and a lock above SHARED is its holder's alone   *)
(* (LocksAreCompatible).  The data: what is not committed is in the file   *)
(* only while its journal is on disk, and while it is, whoever reads would *)
(* have to hold SHARED next to an EXCLUSIVE lock or to have passed a hot   *)
(* journal by (Pager).                                                     *)
(***************************************************************************)

\* What the headers say, with or without a Worker: no file twice, and nothing
\* of a slot that does not exist.
Headers ==
    /\ \A s \in Slots \ files : header[s] = "free"
    /\ \A s, t \in Slots : header[s] = header[t] /\ header[s] \in Paths => s = t
    /\ state # "closed" => \A s \in Slots : header[s] # "torn"

\* A pool without SQLite on it.
Quiet ==
    /\ state = "closed" => avail = {} /\ \A p \in Paths : sah[p] = null
    /\ state # "ready" =>
          /\ \A c \in Conns : pc[c] = "none" /\ held[c] = NONE
          /\ \A t \in Temps : temp[t] = null
          /\ lk = NoLock /\ thread = null

\* A temp file has a slot exactly as long as it is open.
TempsHaveSlots ==
    state # "closed" => \A t \in Temps : sah[t] # null <=> temp[t] # null

\* What is added up to, and what a pool that is ready has.
Capacity ==
    /\ state = "initial" => target \in {0, InitialCapacity}
    /\ state = "reserving" => target = Cardinality(Paths)
    /\ state = "ready" => Cardinality(files) >= Cardinality(Paths)

\* The lock that each stage of the pager's protocol holds, and what it may
\* find in the database file and its journal.
Stage(c) ==
    /\ pc[c] \in {"none", "idle"} => held[c] = NONE
    /\ pc[c] \in {"hot", "read"} => held[c] = SHARED
    /\ pc[c] = "write" => held[c] >= RESERVED
    /\ pc[c] \in {"flush", "commit"} => held[c] = EXCLUSIVE
    /\ pc[c] \in {"hot", "flush", "commit"} <=> thread = c
    /\ held[c] >= RESERVED \/ pc[c] = "hot" => sah[Journal] # null
    /\ pc[c] = "read" \/ held[c] \in {RESERVED, PENDING} => data = "clean"

JournalKept == data # "clean" => \E s \in files : header[s] = Journal

Pager == (\A c \in Conns : Stage(c)) /\ JournalKept

VfsInvariant ==
    /\ SahTypeOK /\ Headers /\ SlotsAreTrue /\ Quiet /\ TempsHaveSlots
    /\ Capacity /\ PoolDoesNotGrow
    /\ LocksAreCompatible /\ Pager

-----------------------------------------------------------------------------
(* Slots.                                                                  *)

(* Paths are neither slots nor marks of a header, and there are finitely many. *)
LEMMA PathFacts ==
    /\ IsFiniteSet(Paths) /\ Cardinality(Paths) \in Nat
    /\ Db \in Paths /\ Journal \in Paths /\ Db # Journal /\ Temps \subseteq Paths
    /\ Db \notin Temps /\ Journal \notin Temps
    /\ "free" \notin Paths /\ "torn" \notin Paths
    /\ null \notin Slots
    /\ Slots \subseteq Nat /\ IsFiniteSet(Slots) /\ Cardinality(Slots) = MaxSlots
    /\ IsFiniteSet(Temps) /\ Cardinality(Temps) \in Nat
    /\ Cardinality(Paths) = Cardinality({Db, Journal}) + Cardinality(Temps)
<1>1. /\ Db # Journal /\ Temps \subseteq Paths /\ Db \notin Temps /\ Journal \notin Temps
      /\ Db \in Paths /\ Journal \in Paths
      /\ "free" \notin Paths /\ "torn" \notin Paths /\ null \notin Slots
      /\ IsFiniteSet(Temps) /\ MaxSlots \in Nat
  BY SahPoolConstants DEF Paths, Db, Journal
<1>2. Slots \subseteq Nat /\ IsFiniteSet(Slots) /\ Cardinality(Slots) = MaxSlots
  BY <1>1, FS_Interval DEF Slots
<1>3. IsFiniteSet({Db, Journal}) /\ {Db, Journal} \cap Temps = {}
  <2>1. IsFiniteSet({} \cup {Db})
    BY FS_EmptySet, FS_AddElement
  <2>2. IsFiniteSet(({} \cup {Db}) \cup {Journal})
    BY <2>1, FS_AddElement
  <2>3. {Db, Journal} = ({} \cup {Db}) \cup {Journal}
    OBVIOUS
  <2> QED
    BY <1>1, <2>2, <2>3
<1>4. Cardinality({Db, Journal}) \in Nat /\ Cardinality(Temps) \in Nat
  BY <1>1, <1>3, FS_CardinalityType
<1>5. /\ IsFiniteSet(Paths)
      /\ Cardinality(Paths) = Cardinality({Db, Journal}) + Cardinality(Temps)
               - Cardinality({Db, Journal} \cap Temps)
  BY <1>1, <1>3, FS_Union DEF Paths
<1>6. Cardinality({Db, Journal} \cap Temps) = 0
  BY <1>3, FS_EmptySet
<1> QED
  BY <1>1, <1>2, <1>4, <1>5, <1>6, FS_CardinalityType

(* A non-empty set of naturals has a least element. *)
LEMMA LeastNatural ==
    ASSUME NEW S \in SUBSET Nat, S # {}
    PROVE  \E k \in S : \A m \in S : k <= m
<1> DEFINE R == OpToRel(<, Nat)
<1>1. IsWellFoundedOn(R, Nat)
  BY NatLessThanWellFounded
<1>2. PICK k \in S : \A m \in S : <<m, k>> \notin R
  <2> HIDE DEF R
  <2> QED
    BY <1>1, WFMin
<1>3. ASSUME NEW m \in S PROVE k <= m
  <2>1. ~(m < k)
    BY <1>2 DEF OpToRel
  <2> QED
    BY <2>1
<1> QED
  BY <1>3

(* nextAvailableSAH gives a slot that is free. *)
LEMMA NextIsAvailable ==
    ASSUME SahTypeOK, avail # {}
    PROVE  NextAvailable \in avail /\ NextAvailable \in Slots
<1>1. avail \in SUBSET Nat /\ avail \subseteq Slots
  BY PathFacts DEF SahTypeOK
<1>2. \E s \in avail : \A t \in avail : s <= t
  BY <1>1, LeastNatural
<1> QED
  BY <1>1, <1>2 DEF NextAvailable

\* The maps and the headers after a step that leaves the set of slots alone.
SlotsTyped ==
    /\ avail \subseteq files
    /\ header \in [Slots -> Paths \cup {"free", "torn"}]
    /\ sah \in [Paths -> Slots \cup {null}]

(* xOpen finds or makes the file and moves no other. *)
LEMMA XOpenKeeps ==
    ASSUME SahTypeOK, Headers, SlotsAreTrue, state # "closed",
           NEW p \in Paths, XOpen(p), state' = state, files' = files
    PROVE  /\ SlotsTyped' /\ Headers' /\ SlotsAreTrue'
           /\ sah'[p] # null /\ sah'[p] \in Slots
           /\ \A q \in Paths \ {p} : sah'[q] = sah[q]
           /\ \A s \in Slots : header[s] \in Paths => header'[s] = header[s]
<1>1. CASE sah[p] # null /\ UNCHANGED <<header, sah, avail>>
  BY <1>1 DEF SahTypeOK, SlotsTyped, Headers, SlotsAreTrue
<1>2. CASE ~(sah[p] # null /\ UNCHANGED <<header, sah, avail>>)
  <2> DEFINE n == NextAvailable
  <2>1. /\ sah[p] = null /\ avail # {}
        /\ header' = [header EXCEPT ![n] = p] /\ sah' = [sah EXCEPT ![p] = n]
        /\ avail' = avail \ {n}
    BY <1>2 DEF XOpen
  <2>2. n \in avail /\ n \in Slots
    BY <2>1, NextIsAvailable
  <2> HIDE DEF n
  <2>3. /\ n \in files /\ header[n] = "free" /\ n # null
        /\ header'[n] = p /\ sah'[p] = n
        /\ \A s \in Slots \ {n} : header'[s] = header[s]
        /\ \A q \in Paths \ {p} : sah'[q] = sah[q] /\ sah[q] # n
    BY <2>1, <2>2, PathFacts DEF SahTypeOK, SlotsAreTrue
  <2>4. SlotsTyped'
    BY <2>1, <2>2 DEF SahTypeOK, SlotsTyped
  <2>5. \A s \in Slots : header[s] # p
    BY <2>1, PathFacts DEF SlotsAreTrue, Headers, SahTypeOK
  <2>6. Headers'
    BY <2>2, <2>3, <2>5, PathFacts DEF Headers
  <2>7. SlotsAreTrue'
    <3>1. avail' = {s \in files' : header'[s] = "free"}
      BY <2>1, <2>2, <2>3, PathFacts DEF SlotsAreTrue, SahTypeOK
    <3>2. ASSUME NEW q \in Paths, NEW s \in files' PROVE header'[s] = q <=> sah'[q] = s
      BY <2>2, <2>3, <2>5 DEF SlotsAreTrue, SahTypeOK
    <3>3. \A q \in Paths : sah'[q] # null => sah'[q] \in files'
      BY <2>3 DEF SlotsAreTrue
    <3> QED
      BY <3>1, <3>2, <3>3 DEF SlotsAreTrue
  <2> QED
    BY <2>2, <2>3, <2>4, <2>6, <2>7, PathFacts
<1> QED
  BY <1>1, <1>2

(* deletePath frees the file's slot and no other. *)
LEMMA DeleteKeeps ==
    ASSUME SahTypeOK, Headers, SlotsAreTrue, state # "closed",
           NEW p \in Paths, sah[p] # null, DeletePath(p), state' = state, files' = files
    PROVE  /\ SlotsTyped' /\ Headers' /\ SlotsAreTrue'
           /\ sah'[p] = null
           /\ \A q \in Paths \ {p} : sah'[q] = sah[q]
           /\ \A s \in Slots : header[s] \in Paths \ {p} => header'[s] = header[s]
<1> DEFINE n == sah[p]
<1>1. /\ header' = [header EXCEPT ![n] = "free"] /\ sah' = [sah EXCEPT ![p] = null]
      /\ avail' = avail \cup {n}
  BY DEF DeletePath
<1>2. n \in Slots /\ n \in files /\ n # null
  BY DEF SahTypeOK, SlotsAreTrue
<1>3. header[n] = p
  BY <1>2 DEF SlotsAreTrue
<1> HIDE DEF n
<1>4. /\ header'[n] = "free" /\ \A s \in Slots \ {n} : header'[s] = header[s]
      /\ sah'[p] = null /\ \A q \in Paths \ {p} : sah'[q] = sah[q] /\ sah[q] # n
  BY <1>1, <1>2, <1>3 DEF SahTypeOK, SlotsAreTrue
<1>5. SlotsTyped'
  BY <1>1, <1>2 DEF SahTypeOK, SlotsTyped
<1>6. Headers'
  BY <1>2, <1>4, PathFacts DEF Headers
<1>7. SlotsAreTrue'
  <2>1. avail' = {s \in files' : header'[s] = "free"}
    BY <1>1, <1>2, <1>4, PathFacts DEF SlotsAreTrue, SahTypeOK
  <2>2. ASSUME NEW q \in Paths, NEW s \in files' PROVE header'[s] = q <=> sah'[q] = s
    <3>1. s \in Slots /\ s # null
      BY PathFacts DEF SahTypeOK
    <3>2. CASE s = n
      BY <1>2, <1>4, <3>2, PathFacts
    <3>3. CASE s # n
      <4>1. header[s] # p
        BY <1>2, <1>3, <3>1, <3>3 DEF Headers
      <4> QED
        BY <1>4, <3>1, <3>3, <4>1 DEF SlotsAreTrue
    <3> QED
      BY <3>2, <3>3
  <2>3. \A q \in Paths : sah'[q] # null => sah'[q] \in files'
    BY <1>4 DEF SlotsAreTrue
  <2> QED
    BY <2>1, <2>2, <2>3 DEF SlotsAreTrue
<1> QED
  BY <1>3, <1>4, <1>5, <1>6, <1>7

-----------------------------------------------------------------------------
(* Locks.                                                                  *)

Holders == {c \in Conns : held[c] >= SHARED}

LocksTyped ==
    /\ held \in [Conns -> NONE .. EXCLUSIVE]
    /\ lk \in [nShared : 0 .. Cardinality(Conns), lockType : NONE .. EXCLUSIVE]

(* The table's count and the locks themselves: a count of one is one holder,
   and a lock above SHARED is the table's type. *)
LEMMA HolderFacts ==
    ASSUME LocksTyped, LocksAreCompatible, NEW c \in Conns, held[c] >= SHARED
    PROVE  /\ IsFiniteSet(Holders) /\ Cardinality(Holders) = lk.nShared
           /\ c \in Holders /\ lk.nShared >= 1
           /\ IsFiniteSet(Holders \ {c}) /\ Cardinality(Holders \ {c}) = lk.nShared - 1
           /\ lk.nShared <= 1 => \A d \in Conns \ {c} : held[d] = NONE
           /\ lk.nShared > 1 => \E d \in Conns \ {c} : held[d] >= SHARED
           /\ held[c] >= RESERVED => lk.lockType = held[c]
<1> USE DEF NONE, SHARED, RESERVED, PENDING, EXCLUSIVE
<1>1. IsFiniteSet(Conns) /\ Holders \subseteq Conns /\ c \in Holders
  BY SahPoolConstants DEF Holders
<1>2. IsFiniteSet(Holders)
  BY <1>1, FS_Subset
<1>3. Cardinality(Holders) = lk.nShared /\ lk.nShared \in Nat
  BY <1>2, FS_CardinalityType DEF LocksAreCompatible, Holders
<1>4. IsFiniteSet(Holders \ {c}) /\ Cardinality(Holders \ {c}) = lk.nShared - 1
  BY <1>1, <1>2, <1>3, FS_RemoveElement
<1>5. Cardinality(Holders \ {c}) \in Nat
  BY <1>4, FS_CardinalityType
<1>6. lk.nShared >= 1
  BY <1>3, <1>4, <1>5
<1>7. lk.nShared <= 1 <=> Holders \ {c} = {}
  BY <1>3, <1>4, <1>5, <1>6, FS_EmptySet
<1>8. lk.nShared <= 1 => \A d \in Conns \ {c} : held[d] = NONE
  BY <1>7 DEF Holders, LocksTyped
<1>9. lk.nShared > 1 => \E d \in Conns \ {c} : held[d] >= SHARED
  BY <1>3, <1>7 DEF Holders
<1>10. held[c] >= RESERVED => lk.lockType = held[c]
  BY DEF LocksAreCompatible, LocksTyped
<1> QED
  BY <1>1, <1>2, <1>3, <1>4, <1>6, <1>8, <1>9, <1>10

(* lockFile, for SHARED. *)
LEMMA SharedKeeps ==
    ASSUME LocksTyped, LocksAreCompatible, NEW c \in Conns, held[c] = NONE,
           Granted(c, SHARED), lk' = LockTable(SHARED), held' = [held EXCEPT ![c] = SHARED]
    PROVE  LocksTyped' /\ LocksAreCompatible'
<1> USE DEF NONE, SHARED, RESERVED, PENDING, EXCLUSIVE
<1>1. /\ IsFiniteSet(Conns) /\ Holders \subseteq Conns /\ c \notin Holders
      /\ held'[c] = SHARED /\ \A d \in Conns \ {c} : held'[d] = held[d]
      /\ held' \in [Conns -> NONE .. EXCLUSIVE]
  BY SahPoolConstants DEF Holders, LocksTyped
<1>2. IsFiniteSet(Holders) /\ Cardinality(Holders) = lk.nShared /\ lk.nShared \in Nat
  BY <1>1, FS_Subset, FS_CardinalityType DEF LocksAreCompatible, Holders
<1>3. Holders' = Holders \cup {c}
  BY <1>1 DEF Holders
<1>4. IsFiniteSet(Holders') /\ Cardinality(Holders') = lk.nShared + 1
  BY <1>1, <1>2, <1>3, FS_AddElement
<1>5. Cardinality(Holders') <= Cardinality(Conns) /\ Cardinality(Conns) \in Nat
  BY <1>1, <1>3, FS_Subset, FS_CardinalityType
<1>6. /\ lk'.nShared = lk.nShared + 1
      /\ lk'.lockType = IF lk.lockType = NONE THEN SHARED ELSE lk.lockType
      /\ lk' = [nShared |-> lk'.nShared, lockType |-> lk'.lockType]
  BY DEF LockTable
<1>7. lk.lockType \in NONE .. EXCLUSIVE /\ lk.lockType < PENDING
  BY DEF Granted, Conflicts, LocksTyped
<1>8. LocksTyped'
  BY <1>1, <1>2, <1>4, <1>5, <1>6, <1>7 DEF LocksTyped
<1>9. \A d \in Conns : held[d] <= RESERVED /\ held[d] \in NONE .. EXCLUSIVE
  BY <1>7 DEF LocksAreCompatible, LocksTyped
<1>10. \A d, e \in Conns : d # e =>
          /\ held'[d] >= RESERVED => held'[e] <= SHARED
          /\ held'[d] = EXCLUSIVE => held'[e] = NONE
  BY <1>1, <1>9 DEF LocksAreCompatible
<1>11. \E d \in Conns : held'[d] = lk'.lockType
  BY <1>1, <1>6 DEF LocksAreCompatible
<1>12. ASSUME NEW d \in Conns PROVE held'[d] <= lk'.lockType
  <2>1. SHARED <= lk'.lockType /\ lk.lockType <= lk'.lockType /\ lk'.lockType \in Int
    BY <1>6, <1>7
  <2>2. held[d] \in Int /\ held[d] <= lk.lockType
    BY <1>9 DEF LocksAreCompatible
  <2>3. held[d] <= lk'.lockType
    BY <1>7, <2>1, <2>2
  <2> QED
    BY <1>1, <2>1, <2>3
<1> QED
  BY <1>4, <1>6, <1>8, <1>10, <1>11, <1>12 DEF LocksAreCompatible, Holders

(* lockFile above SHARED: the holder of the strongest lock makes it stronger. *)
LEMMA StrongerKeeps ==
    ASSUME LocksTyped, LocksAreCompatible, NEW c \in Conns, NEW want \in RESERVED .. EXCLUSIVE,
           held[c] >= SHARED, held[c] = lk.lockType, want = EXCLUSIVE => lk.nShared <= 1,
           lk' = [lk EXCEPT !.lockType = want], held' = [held EXCEPT ![c] = want]
    PROVE  LocksTyped' /\ LocksAreCompatible'
<1> USE DEF NONE, SHARED, RESERVED, PENDING, EXCLUSIVE
<1>1. /\ held'[c] = want /\ \A d \in Conns \ {c} : held'[d] = held[d]
      /\ held' \in [Conns -> NONE .. EXCLUSIVE]
      /\ lk'.nShared = lk.nShared /\ lk'.lockType = want
      /\ LocksTyped'
  BY DEF LocksTyped
<1>2. \A d \in Conns \ {c} : held[d] \in NONE .. EXCLUSIVE /\ held[d] <= SHARED
  BY DEF LocksAreCompatible, LocksTyped
<1>3. want = EXCLUSIVE => \A d \in Conns \ {c} : held[d] = NONE
  BY HolderFacts
<1>4. Holders' = Holders
  BY <1>1 DEF Holders
<1>5. lk'.nShared = Cardinality(Holders')
  BY <1>1, <1>4 DEF LocksAreCompatible, Holders
<1>6. \A d, e \in Conns : d # e =>
          /\ held'[d] >= RESERVED => held'[e] <= SHARED
          /\ held'[d] = EXCLUSIVE => held'[e] = NONE
  BY <1>1, <1>2, <1>3
<1>7. \A d \in Conns : held'[d] <= lk'.lockType
  BY <1>1, <1>2
<1> QED
  BY <1>1, <1>5, <1>6, <1>7 DEF LocksAreCompatible, Holders

(* unlockFile, down to NONE. *)
LEMMA UnlockKeeps ==
    ASSUME LocksTyped, LocksAreCompatible, NEW c \in Conns, Unlock(c, NONE)
    PROVE  /\ LocksTyped' /\ LocksAreCompatible'
           /\ held'[c] = NONE /\ \A d \in Conns \ {c} : held'[d] = held[d]
<1> USE DEF NONE, SHARED, RESERVED, PENDING, EXCLUSIVE
<1>1. CASE held[c] <= NONE
  BY <1>1 DEF Unlock, LocksTyped, LocksAreCompatible
<1>2. CASE ~(held[c] <= NONE)
  <2>1. /\ held[c] >= SHARED /\ lk' = UnlockTable(c, NONE)
        /\ held'[c] = NONE /\ \A d \in Conns \ {c} : held'[d] = held[d]
        /\ held' \in [Conns -> NONE .. EXCLUSIVE]
    BY <1>2 DEF Unlock, LocksTyped
  <2>2. /\ IsFiniteSet(Holders) /\ Cardinality(Holders) = lk.nShared
        /\ lk.nShared >= 1 /\ Cardinality(Holders \ {c}) = lk.nShared - 1
        /\ lk.nShared <= 1 => \A d \in Conns \ {c} : held[d] = NONE
        /\ lk.nShared > 1 => \E d \in Conns \ {c} : held[d] >= SHARED
        /\ held[c] >= RESERVED => lk.lockType = held[c]
        /\ lk.nShared \in 0 .. Cardinality(Conns)
    BY <2>1, HolderFacts DEF LocksTyped
  <2>3. Holders' = Holders \ {c}
    BY <2>1 DEF Holders
  <2>4. Cardinality(Conns) \in Nat
    BY SahPoolConstants, FS_CardinalityType
  <2>5. CASE lk.nShared = 1
    <3>1. lk' = NoLock
      BY <2>1, <2>5 DEF UnlockTable
    <3>2. \A d \in Conns : held'[d] = NONE
      BY <2>1, <2>2, <2>5
    <3>3. Cardinality(Holders') = 0
      BY <2>2, <2>3, <2>5
    <3> QED
      BY <2>1, <2>4, <3>1, <3>2, <3>3 DEF NoLock, LocksTyped, LocksAreCompatible, Holders
  <2>6. CASE lk.nShared # 1
    <3>1. /\ lk'.nShared = lk.nShared - 1
          /\ lk'.lockType = IF held[c] > SHARED THEN SHARED ELSE lk.lockType
          /\ lk' = [nShared |-> lk'.nShared, lockType |-> lk'.lockType]
      BY <2>1, <2>6 DEF UnlockTable
    <3>2. LocksTyped'
      BY <2>1, <2>2, <2>4, <2>6, <3>1 DEF LocksTyped
    <3>3. PICK d \in Conns \ {c} : held[d] >= SHARED
      BY <2>2, <2>6
    <3>4. \A e \in Conns : held[e] \in NONE .. EXCLUSIVE /\ held[e] <= lk.lockType
      BY DEF LocksTyped, LocksAreCompatible
    <3>5. held[c] > SHARED => \A e \in Conns \ {c} : held[e] <= SHARED
      BY <3>4 DEF LocksAreCompatible
    <3>6. \E e \in Conns : held'[e] = lk'.lockType
      <4>1. CASE held[c] > SHARED
        BY <2>1, <3>1, <3>3, <3>4, <3>5, <4>1
      <4>2. CASE ~(held[c] > SHARED)
        <5>1. held[c] = SHARED /\ lk'.lockType = lk.lockType
          BY <2>1, <3>1, <3>4, <4>2
        <5>2. PICK e \in Conns : held[e] = lk.lockType
          BY <2>1, <3>4 DEF LocksAreCompatible
        <5>3. CASE e # c
          BY <2>1, <5>1, <5>2, <5>3
        <5>4. CASE e = c
          BY <2>1, <3>3, <3>4, <5>1, <5>2, <5>4
        <5> QED
          BY <5>3, <5>4
      <4> QED
        BY <4>1, <4>2
    <3>7. ASSUME NEW e \in Conns PROVE held'[e] <= lk'.lockType
      <4>1. lk'.lockType \in NONE .. EXCLUSIVE
        BY <3>2 DEF LocksTyped
      <4>2. CASE e = c
        BY <2>1, <4>1, <4>2
      <4>3. CASE e # c
        BY <2>1, <3>1, <3>4, <3>5, <4>1, <4>3
      <4> QED
        BY <4>2, <4>3
    <3>8. lk'.nShared = Cardinality(Holders')
      BY <2>2, <2>3, <3>1
    <3>9. \A d_1, e \in Conns : d_1 # e =>
             /\ held'[d_1] >= RESERVED => held'[e] <= SHARED
             /\ held'[d_1] = EXCLUSIVE => held'[e] = NONE
      BY <2>1, <3>4 DEF LocksAreCompatible
    <3> QED
      BY <2>1, <3>2, <3>6, <3>7, <3>8, <3>9 DEF LocksAreCompatible, Holders
  <2> QED
    BY <2>1, <2>5, <2>6
<1> QED
  BY <1>1, <1>2

-----------------------------------------------------------------------------
(* Setting the pool up and taking it down.                                 *)

(* No connection on the pool: no lock, and every stage is at rest. *)
LEMMA NobodyThere ==
    ASSUME \A c \in Conns : pc'[c] = "none" /\ held'[c] = NONE,
           held' \in [Conns -> NONE .. EXCLUSIVE], lk' = NoLock, thread' = null
    PROVE  LocksTyped' /\ LocksAreCompatible' /\ \A c \in Conns : Stage(c)'
<1> USE DEF NONE, SHARED, RESERVED, PENDING, EXCLUSIVE
<1>1. Holders' = {} /\ Cardinality(Holders') = 0
  BY FS_EmptySet DEF Holders
<1>2. Cardinality(Conns) \in Nat
  BY SahPoolConstants, FS_CardinalityType
<1>3. LocksTyped' /\ LocksAreCompatible'
  BY <1>1, <1>2 DEF LocksTyped, LocksAreCompatible, Holders, NoLock
<1>4. \A c \in Conns : null # c
  BY SahPoolConstants
<1> QED
  BY <1>3, <1>4 DEF Stage

(* What releaseAccessHandles leaves, whatever became of one header. *)
LEMMA ReleasedKeeps ==
    ASSUME VfsInvariant, Released, files' = files,
           header' \in [Slots -> Paths \cup {"free", "torn"}],
           data' \in {"clean", "partial", "complete"},
           \A s \in Slots \ files : header'[s] = "free",
           \A s, t \in Slots : header'[s] = header'[t] /\ header'[s] \in Paths => s = t,
           JournalKept'
    PROVE  VfsInvariant'
<1>1. LocksTyped' /\ LocksAreCompatible' /\ \A c \in Conns : Stage(c)'
  BY NobodyThere DEF Released, NONE, EXCLUSIVE
<1>2. SahTypeOK'
  BY <1>1 DEF VfsInvariant, SahTypeOK, Released, LocksTyped
<1>3. Headers' /\ SlotsAreTrue' /\ TempsHaveSlots' /\ Capacity' /\ PoolDoesNotGrow'
  BY DEF VfsInvariant, Released, Headers, SlotsAreTrue, TempsHaveSlots, Capacity, PoolDoesNotGrow
<1>4. Quiet'
  BY DEF Released, Quiet
<1> QED
  BY <1>1, <1>2, <1>3, <1>4 DEF VfsInvariant, Pager

(* A death of the Worker: at most one header is torn, and not the one of a
   journal that is still needed. *)
LEMMA CrashKeeps == ASSUME VfsInvariant, Crash PROVE VfsInvariant'
<1>1. Released /\ files' = files
  BY DEF Crash
<1>2. CASE UNCHANGED <<header, data>>
  BY <1>1, <1>2, ReleasedKeeps DEF VfsInvariant, SahTypeOK, Headers, Pager, JournalKept
<1>3. CASE ~UNCHANGED <<header, data>>
  <2>1. PICK s \in Tearable :
           /\ header' = [header EXCEPT ![s] = "torn"]
           /\ data' = IF s = sah[Journal] THEN "clean" ELSE data
    BY <1>3 DEF Crash
  <2>2. state # "closed" /\ s \in files /\ s \in Slots
    <3>1. state # "closed" /\ files \subseteq Slots /\ avail \subseteq files
      BY DEF Crash, VfsInvariant, SahTypeOK
    <3>2. \A p \in Paths : sah[p] # null => sah[p] \in files
      BY <3>1 DEF VfsInvariant, SlotsAreTrue
    <3>3. \A t \in Temps : temp[t] # null => sah[t] # null
      BY <3>1 DEF VfsInvariant, TempsHaveSlots
    <3>4. \A c \in Conns : pc[c] = "commit" => sah[Journal] # null
      BY DEF VfsInvariant, Pager, Stage, RESERVED, EXCLUSIVE
    <3> QED
      BY <2>1, <3>1, <3>2, <3>3, <3>4, PathFacts DEF Tearable
  <2>3. /\ header'[s] = "torn" /\ \A t \in Slots \ {s} : header'[t] = header[t]
        /\ header' \in [Slots -> Paths \cup {"free", "torn"}]
    BY <2>1, <2>2 DEF VfsInvariant, SahTypeOK
  <2>4. data' \in {"clean", "partial", "complete"}
    BY <2>1 DEF VfsInvariant, SahTypeOK
  <2>5. JournalKept'
    <3>1. CASE s = sah[Journal]
      BY <2>1, <3>1 DEF JournalKept
    <3>2. CASE s # sah[Journal]
      <4>1. header[s] # Journal
        BY <2>2, <3>2, PathFacts DEF VfsInvariant, SlotsAreTrue
      <4>2. data' = data /\ files \subseteq Slots
        BY <2>1, <3>2 DEF VfsInvariant, SahTypeOK
      <4> QED
        BY <1>1, <2>3, <4>1, <4>2 DEF JournalKept, VfsInvariant, Pager
    <3> QED
      BY <3>1, <3>2
  <2>6. \A t \in Slots \ files : header'[t] = "free"
    BY <2>2, <2>3 DEF VfsInvariant, Headers
  <2>7. \A t, u \in Slots : header'[t] = header'[u] /\ header'[t] \in Paths => t = u
    BY <2>2, <2>3, PathFacts DEF VfsInvariant, Headers
  <2> QED
    BY <1>1, <2>3, <2>4, <2>5, <2>6, <2>7, ReleasedKeeps
<1> QED
  BY <1>2, <1>3

(* pauseVfs. *)
LEMMA PauseKeeps == ASSUME VfsInvariant, PauseVfs PROVE VfsInvariant'
<1>1. Released /\ files' = files /\ header' = header /\ data' = data
  BY DEF PauseVfs
<1> QED
  BY <1>1, ReleasedKeeps DEF VfsInvariant, SahTypeOK, Headers, Pager, JournalKept

(* acquireAccessHandles reads every file off the headers: each is found once. *)
LEMMA InstallKeeps == ASSUME VfsInvariant, Install PROVE VfsInvariant'
<1> USE DEF VfsInvariant
<1>1. /\ state = "closed" /\ state' = "initial"
      /\ header' = [s \in Slots |-> AssociatedPath(header[s])]
      /\ sah' = [p \in Paths |-> IF \E s \in files : header'[s] = p
                                 THEN CHOOSE s \in files : header'[s] = p ELSE null]
      /\ avail' = {s \in files : header'[s] = "free"}
      /\ target' = IF files = {} THEN InitialCapacity ELSE 0
      /\ UNCHANGED <<files, data, pc, held, lk, temp, thread>>
  BY DEF Install
<1>2. /\ \A s \in Slots : header'[s] \in Paths \cup {"free"}
      /\ \A s \in Slots, p \in Paths : header'[s] = p <=> header[s] = p /\ p \notin Temps
      /\ \A s \in Slots : header[s] = "free" => header'[s] = "free"
      /\ header' \in [Slots -> Paths \cup {"free", "torn"}]
  <2>1. \A s \in Slots : header'[s] = AssociatedPath(header[s])
    BY <1>1
  <2> QED
    BY <1>1, <2>1, PathFacts DEF SahTypeOK, AssociatedPath
<1>3. /\ \A c \in Conns : pc[c] = "none" /\ held[c] = NONE
      /\ \A t \in Temps : temp[t] = null
      /\ lk = NoLock /\ thread = null
  BY <1>1 DEF Quiet
<1>4. LocksTyped' /\ LocksAreCompatible' /\ \A c \in Conns : Stage(c)'
  BY <1>1, <1>3, NobodyThere DEF SahTypeOK
<1>5. ASSUME NEW p \in Paths
      PROVE  /\ sah'[p] \in Slots \cup {null}
             /\ sah'[p] # null => sah'[p] \in files
             /\ \A s \in files : header'[s] = p <=> sah'[p] = s
             /\ p \in Temps => sah'[p] = null
  <2>1. files \subseteq Slots
    BY DEF SahTypeOK
  <2>2. CASE \E s \in files : header'[s] = p
    <3>1. sah'[p] \in files /\ header'[sah'[p]] = p
      BY <1>1, <2>2
    <3>2. \A s \in files : header'[s] = p => s = sah'[p]
      BY <1>2, <2>1, <3>1 DEF Headers
    <3>3. p \notin Temps
      BY <1>2, <2>1, <3>1
    <3> QED
      BY <2>1, <3>1, <3>2, <3>3, PathFacts
  <2>3. CASE ~\E s \in files : header'[s] = p
    BY <1>1, <2>1, <2>3, PathFacts
  <2> QED
    BY <2>2, <2>3
<1>6. SahTypeOK'
  <2>1. sah' \in [Paths -> Slots \cup {null}]
    <3>1. sah' = [p \in Paths |-> sah'[p]]
      BY <1>1
    <3> QED
      BY <1>5, <3>1
  <2>2. target' \in Nat
    BY <1>1, SahPoolConstants
  <2> QED
    BY <1>1, <1>2, <1>4, <2>1, <2>2 DEF SahTypeOK, LocksTyped
<1>7. Headers'
  <2>1. \A s \in Slots \ files : header'[s] = "free"
    BY <1>2 DEF Headers
  <2>2. \A s, t \in Slots : header'[s] = header'[t] /\ header'[s] \in Paths => s = t
    BY <1>2 DEF Headers
  <2> QED
    BY <1>1, <1>2, <2>1, <2>2, PathFacts DEF Headers
<1>8. SlotsAreTrue' /\ TempsHaveSlots'
  BY <1>1, <1>3, <1>5, PathFacts DEF SlotsAreTrue, TempsHaveSlots
<1>9. Quiet' /\ Capacity' /\ PoolDoesNotGrow'
  BY <1>1, <1>3 DEF Quiet, Capacity, PoolDoesNotGrow
<1>10. JournalKept'
  BY <1>1, <1>2, PathFacts DEF JournalKept, Pager, SahTypeOK
<1> QED
  BY <1>4, <1>6, <1>7, <1>8, <1>9, <1>10 DEF Pager

(* A setup that fails has freed some slots and lost no file. *)
LEMMA InstallFailsKeeps == ASSUME VfsInvariant, InstallFails PROVE VfsInvariant'
<1> USE DEF VfsInvariant
<1>1. PICK acquired \in SUBSET files :
         header' = [s \in Slots |-> IF s \in acquired THEN AssociatedPath(header[s])
                                                      ELSE header[s]]
  BY DEF InstallFails
<1>2. /\ state = "closed"
      /\ UNCHANGED <<files, data, state, target, sah, avail, pc, held, lk, temp, thread>>
  BY DEF InstallFails
<1>3. /\ \A s \in Slots, p \in Paths : header'[s] = p => header[s] = p
      /\ \A s \in Slots : header[s] = Journal => header'[s] = Journal
      /\ \A s \in Slots : header[s] = "free" => header'[s] = "free"
      /\ header' \in [Slots -> Paths \cup {"free", "torn"}]
  <2>1. \A s \in Slots : header'[s] \in {AssociatedPath(header[s]), header[s]}
    BY <1>1
  <2> QED
    BY <1>1, <2>1, PathFacts DEF SahTypeOK, AssociatedPath
<1>4. SahTypeOK' /\ Headers'
  <2>1. SahTypeOK'
    BY <1>2, <1>3 DEF SahTypeOK
  <2>2. \A s \in Slots \ files : header'[s] = "free"
    BY <1>3 DEF Headers
  <2>3. \A s, t \in Slots : header'[s] = header'[t] /\ header'[s] \in Paths => s = t
    BY <1>3 DEF Headers
  <2> QED
    BY <1>2, <2>1, <2>2, <2>3 DEF Headers
<1>5. SlotsAreTrue' /\ TempsHaveSlots' /\ Quiet' /\ Capacity' /\ PoolDoesNotGrow'
  BY <1>2 DEF SlotsAreTrue, TempsHaveSlots, Quiet, Capacity, PoolDoesNotGrow
<1>6. LocksAreCompatible'
  BY <1>2 DEF LocksAreCompatible
<1>7. Pager'
  BY <1>2, <1>3 DEF Pager, Stage, JournalKept, SahTypeOK
<1> QED
  BY <1>4, <1>5, <1>6, <1>7

(* addCapacity adds a slot that nobody used, and stops at the target. *)
LEMMA AddSlotKeeps == ASSUME VfsInvariant, AddSlot PROVE VfsInvariant'
<1> USE DEF VfsInvariant
<1>1. PICK s \in Slots \ files :
         /\ files' = files \cup {s} /\ avail' = avail \cup {s}
         /\ header' = [header EXCEPT ![s] = "free"]
  BY DEF AddSlot
<1>2. /\ state \in {"initial", "reserving"} /\ Cardinality(files) < target
      /\ UNCHANGED <<data, state, target, sah, pc, held, lk, temp, thread>>
  BY DEF AddSlot
<1>3. header' = header /\ header[s] = "free"
  BY <1>1 DEF Headers, SahTypeOK
<1>4. /\ Cardinality(files') = Cardinality(files) + 1 /\ Cardinality(files) \in Nat
      /\ \A p \in Paths : sah[p] # s
  <2>1. IsFiniteSet(files)
    BY PathFacts, FS_Subset DEF SahTypeOK
  <2>2. s # null
    BY PathFacts
  <2> QED
    BY <1>1, <1>2, <2>1, <2>2, FS_AddElement, FS_CardinalityType DEF SlotsAreTrue
<1>5. SahTypeOK'
  BY <1>1, <1>2, <1>3 DEF SahTypeOK
<1>6. Headers' /\ SlotsAreTrue'
  BY <1>1, <1>2, <1>3, <1>4, PathFacts DEF Headers, SlotsAreTrue
<1>7. TempsHaveSlots' /\ Quiet'
  BY <1>2 DEF TempsHaveSlots, Quiet
<1>8. Capacity'
  BY <1>2 DEF Capacity
<1>9. PoolDoesNotGrow'
  <2>1. target \in {0, InitialCapacity} \/ target = Cardinality(Paths)
    BY <1>2 DEF Capacity
  <2>2. InitialCapacity \in Nat /\ Cardinality(Paths) \in Nat
    BY SahPoolConstants, PathFacts
  <2> QED
    BY <1>2, <1>4, <2>1, <2>2 DEF PoolDoesNotGrow
<1>10. LocksAreCompatible'
  BY <1>2 DEF LocksAreCompatible
<1>11. Pager'
  BY <1>1, <1>2, <1>3 DEF Pager, Stage, JournalKept
<1> QED
  BY <1>5, <1>6, <1>7, <1>8, <1>9, <1>10, <1>11

(* reserveSahPoolSlots asks for one slot per path: the temp files that earlier
   Workers left are no longer there to be counted. *)
LEMMA ReserveKeeps == ASSUME VfsInvariant, Reserve \/ Ready PROVE VfsInvariant'
<1> USE DEF VfsInvariant
<1>1. UNCHANGED <<files, header, data, sah, avail, pc, held, lk, temp, thread>>
  BY DEF Reserve, Ready
<1>2. LocksAreCompatible' /\ PoolDoesNotGrow'
  BY <1>1 DEF LocksAreCompatible, PoolDoesNotGrow
<1>3. Pager'
  BY <1>1 DEF Pager, Stage, JournalKept
<1>4. CASE Reserve
  <2>1. state = "initial" /\ state' = "reserving" /\ target' = SlotsNeeded
    BY <1>4 DEF Reserve
  <2>2. InUse \cup {Db, Journal} = {Db, Journal}
    BY <2>1, PathFacts DEF InUse, Paths, TempsHaveSlots, Quiet
  <2>3. target' = Cardinality(Paths) /\ target' \in Nat
    BY <2>1, <2>2, PathFacts DEF SlotsNeeded
  <2>4. SahTypeOK'
    BY <1>1, <2>1, <2>3 DEF SahTypeOK
  <2>5. Headers' /\ SlotsAreTrue' /\ TempsHaveSlots' /\ Quiet' /\ Capacity'
    BY <1>1, <2>1, <2>3 DEF Headers, SlotsAreTrue, TempsHaveSlots, Quiet, Capacity
  <2> QED
    BY <1>2, <1>3, <2>4, <2>5
<1>5. CASE Ready
  <2>1. /\ state = "reserving" /\ state' = "ready" /\ target' = 0
        /\ Cardinality(files) >= Cardinality(Paths)
    BY <1>5 DEF Ready, Capacity
  <2>2. SahTypeOK'
    BY <1>1, <2>1 DEF SahTypeOK
  <2>3. Headers' /\ SlotsAreTrue' /\ TempsHaveSlots' /\ Quiet' /\ Capacity'
    BY <1>1, <2>1 DEF Headers, SlotsAreTrue, TempsHaveSlots, Quiet, Capacity
  <2> QED
    BY <1>2, <1>3, <2>2, <2>3
<1> QED
  BY <1>4, <1>5

-----------------------------------------------------------------------------
(* The pager.                                                              *)

(* A step on a pool that is ready and stays so: what is left to show. *)
LEMMA ReadyKeeps ==
    ASSUME VfsInvariant, state = "ready", UNCHANGED <<files, state, target>>,
           data' \in {"clean", "partial", "complete"},
           pc' \in [Conns -> {"none", "idle", "hot", "read", "write", "flush", "commit"}],
           temp' \in [Temps -> Conns \cup {null}], thread' \in Conns \cup {null},
           SlotsTyped' /\ Headers' /\ SlotsAreTrue' /\ TempsHaveSlots',
           LocksTyped' /\ LocksAreCompatible', Pager'
    PROVE  VfsInvariant'
<1>1. SahTypeOK'
  BY DEF VfsInvariant, SahTypeOK, SlotsTyped, LocksTyped
<1>2. Quiet' /\ Capacity' /\ PoolDoesNotGrow'
  BY DEF VfsInvariant, Quiet, Capacity, PoolDoesNotGrow
<1> QED
  BY <1>1, <1>2 DEF VfsInvariant

(* What the invariant says of a ready pool and of one of its connections. *)
LEMMA ReadyFacts ==
    ASSUME VfsInvariant, NEW c \in Conns
    PROVE  /\ SahTypeOK /\ SlotsTyped /\ Headers /\ SlotsAreTrue /\ TempsHaveSlots
           /\ LocksTyped /\ LocksAreCompatible /\ Pager
           /\ held \in [Conns -> NONE .. EXCLUSIVE] /\ c # null
           /\ pc[c] # "none" \/ thread = c => state = "ready"
           /\ sah[Journal] = null /\ state = "ready" => data = "clean"
           /\ state = "ready" /\ sah[Journal] # null => \E s \in files : header[s] = Journal
<1> USE DEF VfsInvariant
<1>1. SlotsTyped /\ LocksTyped /\ held \in [Conns -> NONE .. EXCLUSIVE] /\ c # null
  BY SahPoolConstants DEF SahTypeOK, SlotsTyped, LocksTyped
<1>2. pc[c] # "none" \/ thread = c => state = "ready"
  BY <1>1 DEF Quiet
<1>3. sah[Journal] = null /\ state = "ready" => data = "clean"
  BY PathFacts DEF SlotsAreTrue, Pager, JournalKept, SahTypeOK
<1>4. state = "ready" /\ sah[Journal] # null => \E s \in files : header[s] = Journal
  BY PathFacts DEF SlotsAreTrue
<1> QED
  BY <1>1, <1>2, <1>3, <1>4

(* OpenDb, CloseDb and EndRead: a connection that comes, goes or rests. *)
LEMMA RestKeeps ==
    ASSUME VfsInvariant, NEW c \in Conns, OpenDb(c) \/ CloseDb(c) \/ EndRead(c)
    PROVE  VfsInvariant'
<1> USE DEF NONE, SHARED, RESERVED, PENDING, EXCLUSIVE
<1>1. /\ state = "ready" /\ thread = null /\ pc[c] \in {"none", "idle", "read"}
      /\ UNCHANGED <<files, state, target, data, temp, thread>>
      /\ Unlock(c, NONE)
      /\ \/ XOpen(Db)
         \/ UNCHANGED <<header, sah, avail>>
      /\ \E s \in {"none", "idle"} : Goto(c, s)
  <2>1. CASE OpenDb(c)
    <3>1. held[c] = NONE
      BY <2>1, ReadyFacts DEF OpenDb, Pager, Stage
    <3> QED
      BY <2>1, <3>1 DEF OpenDb, Unlock
  <2>2. CASE CloseDb(c) \/ EndRead(c)
    BY <2>2 DEF CloseDb, EndRead, Idle, pool
  <2> QED
    BY <2>1, <2>2
<1>2. /\ SahTypeOK /\ SlotsTyped /\ Headers /\ SlotsAreTrue /\ TempsHaveSlots
      /\ LocksTyped /\ LocksAreCompatible /\ Pager
  BY ReadyFacts
<1>3. /\ SlotsTyped' /\ Headers' /\ SlotsAreTrue'
      /\ \A q \in Paths \ {Db} : sah'[q] = sah[q]
      /\ \A s \in Slots : header[s] \in Paths => header'[s] = header[s]
  <2>1. CASE XOpen(Db)
    BY <1>1, <1>2, <2>1, PathFacts, XOpenKeeps
  <2>2. CASE UNCHANGED <<header, sah, avail>>
    BY <1>1, <1>2, <2>2 DEF SlotsTyped, Headers, SlotsAreTrue
  <2> QED
    BY <1>1, <2>1, <2>2
<1>4. LocksTyped' /\ LocksAreCompatible' /\ held'[c] = NONE
      /\ \A d \in Conns \ {c} : held'[d] = held[d]
  BY <1>1, <1>2, UnlockKeeps
<1>5. /\ pc' \in [Conns -> {"none", "idle", "hot", "read", "write", "flush", "commit"}]
      /\ pc'[c] \in {"none", "idle"} /\ \A d \in Conns \ {c} : pc'[d] = pc[d]
  BY <1>1, <1>2 DEF Goto, SahTypeOK
<1>6. TempsHaveSlots'
  BY <1>1, <1>2, <1>3, PathFacts DEF TempsHaveSlots
<1>7. Pager'
  <2>1. Stage(c)'
    BY <1>1, <1>4, <1>5, ReadyFacts DEF Stage
  <2>2. ASSUME NEW d \in Conns \ {c} PROVE Stage(d)'
    BY <1>1, <1>2, <1>3, <1>4, <1>5, PathFacts DEF Stage, Pager
  <2>3. JournalKept'
    BY <1>1, <1>2, <1>3, PathFacts DEF JournalKept, Pager, SahTypeOK
  <2> QED
    BY <2>1, <2>2, <2>3 DEF Pager
<1> QED
  BY <1>1, <1>2, <1>3, <1>4, <1>5, <1>6, <1>7, ReadyKeeps DEF SahTypeOK

(* The first read: what is not committed is there only with its journal, and
   then a lock that is not reserved sends the reader to roll it back. *)
LEMMA BeginReadKeeps ==
    ASSUME VfsInvariant, NEW c \in Conns, BeginRead(c) PROVE VfsInvariant'
<1> USE DEF NONE, SHARED, RESERVED, PENDING, EXCLUSIVE
<1>1. /\ state = "ready" /\ thread = null /\ pc[c] = "idle"
      /\ Granted(c, SHARED) /\ lk' = LockTable(SHARED) /\ held' = [held EXCEPT ![c] = SHARED]
      /\ UNCHANGED <<data, files, header, state, target, sah, avail, temp>>
  BY DEF BeginRead, Idle, pool
<1>2. /\ SahTypeOK /\ SlotsTyped /\ Headers /\ SlotsAreTrue /\ TempsHaveSlots
      /\ LocksTyped /\ LocksAreCompatible /\ Pager
      /\ held \in [Conns -> NONE .. EXCLUSIVE] /\ c # null
      /\ sah[Journal] = null => data = "clean"
  BY <1>1, ReadyFacts
<1>3. held[c] = NONE
  BY <1>1, <1>2 DEF Pager, Stage
<1>4. LocksTyped' /\ LocksAreCompatible'
  BY <1>1, <1>2, <1>3, SharedKeeps
<1>5. held'[c] = SHARED /\ \A d \in Conns \ {c} : held'[d] = held[d]
  BY <1>1, <1>2
<1>6. \/ /\ sah[Journal] # null /\ pc' = [pc EXCEPT ![c] = "hot"] /\ thread' = c
      \/ /\ sah[Journal] = null \/ HasReservedLock
         /\ pc' = [pc EXCEPT ![c] = "read"] /\ thread' = thread
  BY DEF BeginRead, Goto
<1>7. HasReservedLock => data = "clean"
  <2>1. ASSUME HasReservedLock PROVE \E d \in Conns : held[d] = RESERVED
    <3>1. lk.lockType = RESERVED
      BY <1>1, <1>2, <1>3, <2>1 DEF HasReservedLock, Granted, Conflicts, LocksTyped
    <3> QED
      BY <1>2, <3>1 DEF LocksAreCompatible
  <2> QED
    BY <1>2, <2>1 DEF Pager, Stage
<1>8. /\ SlotsTyped' /\ Headers' /\ SlotsAreTrue' /\ TempsHaveSlots'
      /\ pc' \in [Conns -> {"none", "idle", "hot", "read", "write", "flush", "commit"}]
      /\ thread' \in Conns \cup {null}
  BY <1>1, <1>2, <1>6 DEF SlotsTyped, Headers, SlotsAreTrue, TempsHaveSlots, SahTypeOK
<1>9. Pager'
  <2>1. Stage(c)'
    BY <1>1, <1>2, <1>5, <1>6, <1>7 DEF Stage, SahTypeOK
  <2>2. ASSUME NEW d \in Conns \ {c} PROVE Stage(d)'
    BY <1>1, <1>2, <1>5, <1>6, ReadyFacts DEF Stage, Pager, SahTypeOK
  <2>3. JournalKept'
    BY <1>1, <1>2 DEF JournalKept, Pager
  <2> QED
    BY <2>1, <2>2, <2>3 DEF Pager
<1> QED
  BY <1>1, <1>2, <1>4, <1>8, <1>9, ReadyKeeps DEF SahTypeOK

(* The first write, on data that is clean. *)
LEMMA BeginWriteKeeps ==
    ASSUME VfsInvariant, NEW c \in Conns, BeginWrite(c) PROVE VfsInvariant'
<1> USE DEF NONE, SHARED, RESERVED, PENDING, EXCLUSIVE
<1>1. /\ state = "ready" /\ thread = null /\ pc[c] = "read"
      /\ Granted(c, RESERVED) /\ lk' = LockTable(RESERVED)
      /\ held' = [held EXCEPT ![c] = RESERVED]
      /\ XOpen(Journal) /\ pc' = [pc EXCEPT ![c] = "write"]
      /\ UNCHANGED <<files, data, state, target, temp, thread>>
  BY DEF BeginWrite, Idle, Goto
<1>2. /\ SahTypeOK /\ SlotsTyped /\ Headers /\ SlotsAreTrue /\ TempsHaveSlots
      /\ LocksTyped /\ LocksAreCompatible /\ Pager
      /\ held \in [Conns -> NONE .. EXCLUSIVE] /\ c # null
  BY <1>1, ReadyFacts
<1>3. held[c] = SHARED /\ data = "clean"
  BY <1>1, <1>2 DEF Pager, Stage
<1>4. held[c] = lk.lockType /\ lk' = [lk EXCEPT !.lockType = RESERVED]
  BY <1>1, <1>3 DEF Granted, Conflicts, LockTable
<1>5. LocksTyped' /\ LocksAreCompatible'
  <2>1. /\ held[c] >= SHARED /\ RESERVED \in RESERVED .. EXCLUSIVE
        /\ RESERVED = EXCLUSIVE => lk.nShared <= 1
    BY <1>3
  <2> QED
    BY <1>1, <1>2, <1>4, <2>1, StrongerKeeps
<1>6. held'[c] = RESERVED /\ \A d \in Conns \ {c} : held'[d] = held[d]
  BY <1>1, <1>2
<1>7. /\ SlotsTyped' /\ Headers' /\ SlotsAreTrue' /\ sah'[Journal] # null
      /\ \A q \in Paths \ {Journal} : sah'[q] = sah[q]
  BY <1>1, <1>2, PathFacts, XOpenKeeps
<1>8. /\ pc' \in [Conns -> {"none", "idle", "hot", "read", "write", "flush", "commit"}]
      /\ pc'[c] = "write" /\ \A d \in Conns \ {c} : pc'[d] = pc[d]
  BY <1>1, <1>2 DEF SahTypeOK
<1>9. TempsHaveSlots'
  BY <1>1, <1>2, <1>7, PathFacts DEF TempsHaveSlots
<1>10. Pager'
  <2>1. Stage(c)'
    BY <1>1, <1>2, <1>3, <1>6, <1>7, <1>8 DEF Stage
  <2>2. ASSUME NEW d \in Conns \ {c} PROVE Stage(d)'
    BY <1>1, <1>2, <1>6, <1>7, <1>8 DEF Stage, Pager
  <2> QED
    BY <1>1, <1>3, <2>1, <2>2 DEF Pager, JournalKept
<1> QED
  BY <1>1, <1>2, <1>5, <1>7, <1>8, <1>9, <1>10, ReadyKeeps DEF SahTypeOK

(* Pages are written under an EXCLUSIVE lock, with the journal in place: no
   reader is left to see them. *)
LEMMA FlushKeeps ==
    ASSUME VfsInvariant, NEW c \in Conns, Flush(c) PROVE VfsInvariant'
<1> USE DEF NONE, SHARED, RESERVED, PENDING, EXCLUSIVE
<1>1. /\ state = "ready" /\ thread = null /\ pc[c] = "write"
      /\ UNCHANGED <<files, header, state, target, sah, avail, temp>>
  BY DEF Flush, Idle, pool
<1>2. /\ SahTypeOK /\ SlotsTyped /\ Headers /\ SlotsAreTrue /\ TempsHaveSlots
      /\ LocksTyped /\ LocksAreCompatible /\ Pager
      /\ held \in [Conns -> NONE .. EXCLUSIVE] /\ c # null
      /\ sah[Journal] # null => \E s \in files : header[s] = Journal
  BY <1>1, ReadyFacts
<1>3. held[c] >= RESERVED /\ sah[Journal] # null
  BY <1>1, <1>2 DEF Pager, Stage
<1>4. held[c] = lk.lockType
  <2>1. held[c] >= SHARED
    BY <1>2, <1>3
  <2> QED
    BY <1>2, <1>3, <2>1, HolderFacts
<1>5. PICK want \in {PENDING, EXCLUSIVE} :
         /\ lk' = [lk EXCEPT !.lockType = want] /\ held' = [held EXCEPT ![c] = want]
         /\ \/ /\ want = EXCLUSIVE /\ ~(lk.nShared > 1)
               /\ data' = "partial" /\ pc' = [pc EXCEPT ![c] = "flush"] /\ thread' = c
            \/ /\ want = PENDING /\ held[c] = RESERVED /\ UNCHANGED <<data, pc, thread>>
  <2>1. CASE Granted(c, EXCLUSIVE)
    BY <2>1 DEF Flush, Granted, LockTable, Goto
  <2>2. CASE ~Granted(c, EXCLUSIVE)
    BY <2>2 DEF Flush
  <2> QED
    BY <2>1, <2>2
<1>6. want \in RESERVED .. EXCLUSIVE /\ (want = EXCLUSIVE => lk.nShared <= 1)
  BY <1>2, <1>5 DEF LocksTyped
<1>7. LocksTyped' /\ LocksAreCompatible'
  <2>1. held[c] >= SHARED
    BY <1>2, <1>3
  <2> QED
    BY <1>2, <1>4, <1>5, <1>6, <2>1, StrongerKeeps
<1>8. held'[c] = want /\ \A d \in Conns \ {c} : held'[d] = held[d]
  BY <1>2, <1>5
<1>9. /\ SlotsTyped' /\ Headers' /\ SlotsAreTrue' /\ TempsHaveSlots'
      /\ pc' \in [Conns -> {"none", "idle", "hot", "read", "write", "flush", "commit"}]
      /\ thread' \in Conns \cup {null} /\ data' \in {"clean", "partial", "complete"}
  BY <1>1, <1>2, <1>5 DEF SlotsTyped, Headers, SlotsAreTrue, TempsHaveSlots, SahTypeOK
<1>10. Stage(c)'
  BY <1>1, <1>2, <1>3, <1>5, <1>8 DEF Stage, Pager, SahTypeOK
<1>11. ASSUME NEW d \in Conns \ {c} PROVE Stage(d)'
  <2>1. want = EXCLUSIVE => held'[d] = NONE
    BY <1>7, <1>8 DEF LocksAreCompatible
  <2>2. pc'[d] = pc[d] /\ (pc[d] = "read" => held[d] = SHARED) /\ Stage(d)
    BY <1>2, <1>5 DEF Pager, Stage, SahTypeOK
  <2> QED
    BY <1>1, <1>2, <1>5, <1>8, <2>1, <2>2 DEF Stage
<1>12. JournalKept'
  BY <1>1, <1>2, <1>3 DEF JournalKept
<1> QED
  BY <1>1, <1>2, <1>7, <1>9, <1>10, <1>11, <1>12, ReadyKeeps DEF SahTypeOK, Pager

(* The cache has been written; the lock stays EXCLUSIVE. *)
LEMMA WrittenKeeps ==
    ASSUME VfsInvariant, NEW c \in Conns, Spilled(c) \/ Written(c) PROVE VfsInvariant'
<1> USE DEF NONE, SHARED, RESERVED, PENDING, EXCLUSIVE
<1>1. /\ thread = c /\ pc[c] = "flush"
      /\ UNCHANGED <<held, lk, files, header, state, target, sah, avail, temp>>
      /\ \/ pc' = [pc EXCEPT ![c] = "write"] /\ thread' = null /\ data' = data
         \/ pc' = [pc EXCEPT ![c] = "commit"] /\ thread' = thread /\ data' = "complete"
  BY DEF Spilled, Written, Goto, pool
<1>2. /\ SahTypeOK /\ SlotsTyped /\ Headers /\ SlotsAreTrue /\ TempsHaveSlots
      /\ LocksTyped /\ LocksAreCompatible /\ Pager
      /\ held \in [Conns -> NONE .. EXCLUSIVE] /\ c # null /\ state = "ready"
      /\ sah[Journal] # null => \E s \in files : header[s] = Journal
  BY <1>1, ReadyFacts
<1>3. held[c] = EXCLUSIVE /\ sah[Journal] # null
  BY <1>1, <1>2 DEF Pager, Stage
<1>4. /\ SlotsTyped' /\ Headers' /\ SlotsAreTrue' /\ TempsHaveSlots'
      /\ pc' \in [Conns -> {"none", "idle", "hot", "read", "write", "flush", "commit"}]
      /\ thread' \in Conns \cup {null} /\ data' \in {"clean", "partial", "complete"}
  BY <1>1, <1>2 DEF SlotsTyped, Headers, SlotsAreTrue, TempsHaveSlots, SahTypeOK
<1>5. LocksTyped' /\ LocksAreCompatible'
  BY <1>1, <1>2 DEF LocksTyped, LocksAreCompatible
<1>6. Stage(c)'
  BY <1>1, <1>2, <1>3 DEF Stage, SahTypeOK
<1>7. ASSUME NEW d \in Conns \ {c} PROVE Stage(d)'
  <2>1. held[d] = NONE /\ pc'[d] = pc[d] /\ Stage(d) /\ d # null
    BY <1>1, <1>2, <1>3, ReadyFacts DEF LocksAreCompatible, Pager, SahTypeOK
  <2> QED
    BY <1>1, <1>2, <2>1 DEF Stage
<1>8. JournalKept'
  BY <1>1, <1>2, <1>3 DEF JournalKept
<1> QED
  BY <1>1, <1>2, <1>4, <1>5, <1>6, <1>7, <1>8, ReadyKeeps DEF SahTypeOK, Pager

(* EndWrite, RollBack, and RollBackHot when it can: the one connection that may
   write leaves clean data behind and deletes the journal. *)
LEMMA JournalEndsKeep ==
    ASSUME VfsInvariant, NEW c \in Conns, held[c] >= SHARED,
           held[c] = SHARED => pc'[c] = "read" /\ \A d \in Conns \ {c} : held[d] = NONE,
           sah[Journal] # null, state = "ready",
           NEW next \in {"idle", "read"}, Goto(c, next), DeletePath(Journal), data' = "clean",
           thread \in {c, null}, thread' = null, UNCHANGED <<files, state, target, temp>>,
           \/ next = "idle" /\ Unlock(c, NONE)
           \/ next = "read" /\ held[c] = SHARED /\ UNCHANGED <<held, lk>>
    PROVE  VfsInvariant'
<1> USE DEF NONE, SHARED, RESERVED, PENDING, EXCLUSIVE
<1>1. /\ SahTypeOK /\ SlotsTyped /\ Headers /\ SlotsAreTrue /\ TempsHaveSlots
      /\ LocksTyped /\ LocksAreCompatible /\ Pager
      /\ held \in [Conns -> NONE .. EXCLUSIVE] /\ c # null
  BY ReadyFacts
<1>2. /\ SlotsTyped' /\ Headers' /\ SlotsAreTrue'
      /\ \A q \in Paths \ {Journal} : sah'[q] = sah[q]
  BY <1>1, PathFacts, DeleteKeeps
<1>3. /\ LocksTyped' /\ LocksAreCompatible'
      /\ held'[c] = IF next = "idle" THEN NONE ELSE SHARED
      /\ \A d \in Conns \ {c} : held'[d] = held[d]
  <2>1. CASE next = "idle"
    BY <1>1, <2>1, UnlockKeeps
  <2>2. CASE next = "read"
    BY <1>1, <2>2 DEF LocksTyped, LocksAreCompatible
  <2> QED
    BY <2>1, <2>2
<1>4. /\ pc' \in [Conns -> {"none", "idle", "hot", "read", "write", "flush", "commit"}]
      /\ pc'[c] = next /\ \A d \in Conns \ {c} : pc'[d] = pc[d]
  BY <1>1 DEF SahTypeOK, Goto
<1>5. TempsHaveSlots'
  BY <1>1, <1>2, PathFacts DEF TempsHaveSlots
<1>6. Stage(c)'
  BY <1>1, <1>3, <1>4 DEF Stage
<1>7. ASSUME NEW d \in Conns \ {c} PROVE Stage(d)'
  <2>1. held[d] <= SHARED /\ held[d] \in NONE .. EXCLUSIVE
    BY <1>1 DEF LocksAreCompatible
  <2>2. Stage(d) /\ d # null /\ pc[d] \notin {"hot", "flush", "commit"}
    BY <1>1, ReadyFacts DEF Pager, Stage
  <2> QED
    BY <1>3, <1>4, <2>1, <2>2 DEF Stage
<1> QED
  BY <1>1, <1>2, <1>3, <1>4, <1>5, <1>6, <1>7, ReadyKeeps DEF Pager, JournalKept, SahTypeOK

(* The three of them, and a hot journal that another reader keeps in place. *)
LEMMA JournalKeeps ==
    ASSUME VfsInvariant, NEW c \in Conns, EndWrite(c) \/ RollBack(c) \/ RollBackHot(c)
    PROVE  VfsInvariant'
<1> USE DEF NONE, SHARED, RESERVED, PENDING, EXCLUSIVE
<1>1. /\ SahTypeOK /\ SlotsTyped /\ Headers /\ SlotsAreTrue /\ TempsHaveSlots
      /\ LocksTyped /\ LocksAreCompatible /\ Pager
      /\ held \in [Conns -> NONE .. EXCLUSIVE] /\ c # null
      /\ pc[c] # "none" \/ thread = c => state = "ready"
  BY ReadyFacts
<1>2. CASE EndWrite(c) \/ RollBack(c)
  <2>1. /\ pc[c] \in {"commit", "write"} /\ thread \in {c, null} /\ thread' = null
        /\ state = "ready" /\ data' = "clean" /\ DeletePath(Journal)
        /\ Unlock(c, NONE) /\ Goto(c, "idle") /\ UNCHANGED <<files, state, target, temp>>
    BY <1>1, <1>2 DEF EndWrite, RollBack, Idle
  <2>2. held[c] >= RESERVED /\ sah[Journal] # null
    BY <1>1, <2>1 DEF Pager, Stage
  <2>3. held[c] >= SHARED /\ held[c] # SHARED
    BY <1>1, <2>2
  <2> QED
    BY <2>1, <2>2, <2>3, JournalEndsKeep
<1>3. CASE RollBackHot(c)
  <2>1. /\ thread = c /\ pc[c] = "hot" /\ thread' = null /\ state = "ready"
        /\ UNCHANGED <<files, state, target, temp>>
    BY <1>1, <1>3 DEF RollBackHot
  <2>2. held[c] = SHARED /\ sah[Journal] # null
    BY <1>1, <2>1 DEF Pager, Stage
  <2>3. CASE Granted(c, EXCLUSIVE)
    <3>1. /\ data' = "clean" /\ DeletePath(Journal) /\ Goto(c, "read")
          /\ UNCHANGED <<held, lk>>
      BY <1>3, <2>3 DEF RollBackHot
    <3>2. lk.nShared <= 1
      BY <1>1, <2>3 DEF Granted, LocksTyped
    <3>3. \A d \in Conns \ {c} : held[d] = NONE
      <4>1. held[c] >= SHARED
        BY <2>2
      <4> QED
        BY <1>1, <3>2, <4>1, HolderFacts
    <3>4. pc'[c] = "read"
      BY <1>1, <3>1 DEF Goto, SahTypeOK
    <3> QED
      BY <2>1, <2>2, <3>1, <3>3, <3>4, JournalEndsKeep
  <2>4. CASE ~Granted(c, EXCLUSIVE)
    <3>1. /\ Unlock(c, NONE) /\ pc' = [pc EXCEPT ![c] = "idle"]
          /\ UNCHANGED <<data, header, sah, avail>>
      BY <1>3, <2>4 DEF RollBackHot, Goto
    <3>2. LocksTyped' /\ LocksAreCompatible' /\ held'[c] = NONE
          /\ \A d \in Conns \ {c} : held'[d] = held[d]
      BY <1>1, <3>1, UnlockKeeps
    <3>3. /\ SlotsTyped' /\ Headers' /\ SlotsAreTrue' /\ TempsHaveSlots'
          /\ pc' \in [Conns -> {"none", "idle", "hot", "read", "write", "flush", "commit"}]
      BY <1>1, <2>1, <3>1 DEF SlotsTyped, Headers, SlotsAreTrue, TempsHaveSlots, SahTypeOK
    <3>4. Stage(c)'
      BY <1>1, <2>1, <3>1, <3>2 DEF Stage, SahTypeOK
    <3>5. ASSUME NEW d \in Conns \ {c} PROVE Stage(d)'
      BY <1>1, <2>1, <3>1, <3>2, ReadyFacts DEF Stage, Pager, SahTypeOK
    <3>6. JournalKept'
      BY <1>1, <2>1, <3>1 DEF JournalKept, Pager
    <3> QED
      BY <1>1, <2>1, <3>1, <3>2, <3>3, <3>4, <3>5, <3>6, ReadyKeeps DEF SahTypeOK, Pager
  <2> QED
    BY <2>3, <2>4
<1> QED
  BY <1>2, <1>3

(* A temp file comes and goes with its slot, and nothing else moves. *)
LEMMA TempKeeps ==
    ASSUME VfsInvariant, NEW c \in Conns, NEW t \in Temps, OpenTemp(c, t) \/ CloseTemp(c, t)
    PROVE  VfsInvariant'
<1>1. /\ state = "ready"
      /\ UNCHANGED <<files, data, state, target, pc, held, lk, thread>>
      /\ \/ temp[t] = null /\ XOpen(t) /\ temp' = [temp EXCEPT ![t] = c]
         \/ temp[t] = c /\ DeletePath(t) /\ temp' = [temp EXCEPT ![t] = null]
  BY DEF OpenTemp, CloseTemp, Idle
<1>2. /\ SahTypeOK /\ SlotsTyped /\ Headers /\ SlotsAreTrue /\ TempsHaveSlots
      /\ LocksTyped /\ LocksAreCompatible /\ Pager /\ c # null
  BY ReadyFacts
<1>3. /\ t \in Paths /\ t # Journal /\ Journal \in Paths
      /\ (temp[t] # null => sah[t] # null)
  BY <1>1, <1>2, PathFacts DEF TempsHaveSlots
<1>4. /\ SlotsTyped' /\ Headers' /\ SlotsAreTrue'
      /\ sah'[t] # null <=> temp'[t] # null
      /\ \A q \in Paths \ {t} : sah'[q] = sah[q]
      /\ \A s \in Slots : header[s] = Journal => header'[s] = Journal
  <2>1. CASE temp[t] = null /\ XOpen(t) /\ temp' = [temp EXCEPT ![t] = c]
    BY <1>1, <1>2, <1>3, <2>1, XOpenKeeps DEF SahTypeOK
  <2>2. CASE temp[t] = c /\ DeletePath(t) /\ temp' = [temp EXCEPT ![t] = null]
    BY <1>1, <1>2, <1>3, <2>2, DeleteKeeps DEF SahTypeOK
  <2> QED
    BY <1>1, <2>1, <2>2
<1>5. temp' \in [Temps -> Conns \cup {null}] /\ \A u \in Temps \ {t} : temp'[u] = temp[u]
  BY <1>1, <1>2 DEF SahTypeOK
<1>6. TempsHaveSlots'
  BY <1>1, <1>2, <1>4, <1>5, PathFacts DEF TempsHaveSlots
<1>7. LocksTyped' /\ LocksAreCompatible'
  BY <1>1, <1>2 DEF LocksTyped, LocksAreCompatible
<1>8. Pager'
  <2>1. \A d \in Conns : Stage(d)'
    BY <1>1, <1>2, <1>3, <1>4 DEF Pager, Stage
  <2>2. JournalKept'
    BY <1>1, <1>2, <1>4 DEF Pager, JournalKept, SahTypeOK
  <2> QED
    BY <2>1, <2>2 DEF Pager
<1> QED
  BY <1>1, <1>2, <1>4, <1>5, <1>6, <1>7, <1>8, ReadyKeeps DEF SahTypeOK

-----------------------------------------------------------------------------
(* Every behaviour.                                                        *)

(* An empty pool of slots, with nobody in a transaction. *)
LEMMA VfsInit == SahInit => VfsInvariant
<1> SUFFICES ASSUME SahInit PROVE VfsInvariant
  OBVIOUS
<1> USE DEF SahInit, NONE, SHARED, RESERVED, PENDING, EXCLUSIVE
<1>1. Cardinality({}) = 0 /\ Cardinality(Conns) \in Nat /\ \A c \in Conns : c # null
  BY SahPoolConstants, FS_EmptySet, FS_CardinalityType
<1>2. SahTypeOK
  BY <1>1 DEF SahTypeOK, NoLock
<1>3. Headers /\ SlotsAreTrue /\ TempsHaveSlots /\ Quiet /\ Capacity
  BY PathFacts DEF Headers, SlotsAreTrue, TempsHaveSlots, Quiet, Capacity
<1>4. PoolDoesNotGrow
  BY <1>1, SahPoolConstants DEF PoolDoesNotGrow
<1>5. {c \in Conns : held[c] >= SHARED} = {}
  OBVIOUS
<1>6. LocksAreCompatible
  <2>1. lk.nShared = 0 /\ lk.lockType = NONE /\ \A c \in Conns : held[c] = NONE
    BY DEF NoLock
  <2> QED
    BY <1>1, <1>5, <2>1 DEF LocksAreCompatible
<1>7. Pager
  BY <1>1 DEF Pager, Stage, JournalKept
<1> QED
  BY <1>2, <1>3, <1>4, <1>6, <1>7 DEF VfsInvariant

(* Every step of a connection, and every crash. *)
LEMMA VfsStep == VfsInvariant /\ [SahNext]_vars => VfsInvariant'
<1> SUFFICES ASSUME VfsInvariant, [SahNext]_vars PROVE VfsInvariant'
  OBVIOUS
<1>1. CASE Setup \/ InstallFails \/ PauseVfs \/ Crash
  BY <1>1, InstallKeeps, AddSlotKeeps, ReserveKeeps, InstallFailsKeeps, PauseKeeps, CrashKeeps
     DEF Setup
<1>2. ASSUME NEW c \in Conns, OpenDb(c) \/ CloseDb(c) \/ EndRead(c) PROVE VfsInvariant'
  BY <1>2, RestKeeps
<1>3. ASSUME NEW c \in Conns, BeginRead(c) PROVE VfsInvariant'
  BY <1>3, BeginReadKeeps
<1>4. ASSUME NEW c \in Conns, BeginWrite(c) PROVE VfsInvariant'
  BY <1>4, BeginWriteKeeps
<1>5. ASSUME NEW c \in Conns, Flush(c) PROVE VfsInvariant'
  BY <1>5, FlushKeeps
<1>6. ASSUME NEW c \in Conns, Spilled(c) \/ Written(c) PROVE VfsInvariant'
  BY <1>6, WrittenKeeps
<1>7. ASSUME NEW c \in Conns, EndWrite(c) \/ RollBack(c) \/ RollBackHot(c) PROVE VfsInvariant'
  BY <1>7, JournalKeeps
<1>8. ASSUME NEW c \in Conns, NEW t \in Temps, OpenTemp(c, t) \/ CloseTemp(c, t)
      PROVE  VfsInvariant'
  BY <1>8, TempKeeps
<1>9. CASE UNCHANGED vars
  BY <1>9 DEF vars, VfsInvariant, SahTypeOK, Headers, SlotsAreTrue, Quiet, TempsHaveSlots,
              Capacity, PoolDoesNotGrow, LocksAreCompatible, Pager, Stage, JournalKept
<1> QED
  BY <1>1, <1>2, <1>3, <1>4, <1>5, <1>6, <1>7, <1>8, <1>9 DEF SahNext, Call

(* The invariant holds in every reachable state. *)
LEMMA VfsAlways == SahSpec => []VfsInvariant
  BY VfsInit, VfsStep, PTL DEF SahSpec

(* The slots that are not free store a file each, and a pool that is ready has
   a slot per path: those that are left suffice for the paths that have none. *)
LEMMA SlotsSuffice == VfsInvariant => SlotForEveryFile
<1> SUFFICES ASSUME VfsInvariant, state = "ready"
             PROVE  Cardinality(avail) >= Cardinality(Paths \ InUse)
  BY DEF SlotForEveryFile
<1> USE DEF VfsInvariant
<1> DEFINE Used == files \ avail
           Stored == [p \in InUse |-> sah[p]]
<1>1. /\ files \subseteq Slots /\ avail \subseteq files /\ InUse \subseteq Paths
      /\ header \in [Slots -> Paths \cup {"free", "torn"}]
  BY DEF SahTypeOK, InUse
<1>2. IsFiniteSet(files) /\ IsFiniteSet(avail) /\ IsFiniteSet(InUse)
  BY <1>1, PathFacts, FS_Subset
<1>3. /\ Cardinality(files) \in Nat /\ Cardinality(avail) \in Nat
      /\ Cardinality(InUse) \in Nat /\ Cardinality(Paths) \in Nat
  BY <1>2, PathFacts, FS_CardinalityType
<1>4. Stored \in Surjection(InUse, Used)
  <2>1. ASSUME NEW p \in InUse PROVE sah[p] \in Used
    <3>1. p \in Paths /\ sah[p] \in files /\ header[sah[p]] = p
      BY <1>1 DEF SlotsAreTrue, InUse
    <3> QED
      BY <3>1, PathFacts DEF SlotsAreTrue
  <2>2. ASSUME NEW s \in Used PROVE \E p \in InUse : sah[p] = s
    <3>1. s \in Slots /\ s \in files /\ header[s] \in Paths /\ s # null
      BY <1>1, PathFacts DEF SlotsAreTrue, Headers
    <3> QED
      BY <3>1 DEF SlotsAreTrue, InUse
  <2>3. Stored \in [InUse -> Used]
    BY <2>1
  <2> QED
    BY <2>2, <2>3 DEF Surjection
<1>5. Cardinality(Used) <= Cardinality(InUse)
  <2> HIDE DEF Used, Stored
  <2> QED
    BY <1>2, <1>4, FS_Surjection
<1>6. Cardinality(Used) = Cardinality(files) - Cardinality(avail)
  <2>1. files \cap avail = avail
    BY <1>1
  <2> QED
    BY <1>2, <2>1, FS_Difference
<1>7. Cardinality(Paths \ InUse) = Cardinality(Paths) - Cardinality(InUse)
  <2>1. Paths \cap InUse = InUse
    BY <1>1
  <2> QED
    BY <1>2, <2>1, PathFacts, FS_Difference
<1>8. Cardinality(files) >= Cardinality(Paths)
  BY DEF Capacity
<1> QED
  BY <1>3, <1>5, <1>6, <1>7, <1>8

(* Whatever a Worker does on the pool, and wherever it or an earlier one died:
   the maps agree with the headers on disk, there is a slot for every file that
   SQLite may still create, the pool stays within its bound, the locks are
   compatible and a half-written database has its journal. *)
THEOREM PoolIsSound == SahSpec => []SahInvariant
<1>1. VfsInvariant => SahInvariant
  BY SlotsSuffice DEF VfsInvariant, SahInvariant, JournalCoversWrites, Pager, JournalKept
<1> QED
  BY <1>1, VfsAlways, PTL

(* No connection reads what another one, or a Worker that died, has written
   and not committed. *)
THEOREM CommittedIsRead == SahSpec => []ReadsCommitted
<1>1. VfsInvariant => ReadsCommitted
  BY DEF VfsInvariant, Pager, Stage, ReadsCommitted
<1> QED
  BY <1>1, VfsAlways, PTL

(* No step, setup or death of the Worker takes the database file's slot. *)
THEOREM DatabaseIsKept == SahSpec => DatabaseFileSurvives
<1> DEFINE Prop == \A s \in Slots : header[s] = Db => header'[s] = Db
<1>1. VfsInvariant /\ [SahNext]_vars => [Prop]_vars
  <2> SUFFICES ASSUME VfsInvariant, [SahNext]_vars PROVE Prop \/ header' = header
    BY DEF vars
  <2> USE DEF VfsInvariant
  <2>1. CASE Setup \/ InstallFails \/ PauseVfs
    <3>1. \A h \in Paths \cup {"free", "torn"} : h = Db => AssociatedPath(h) = Db
      BY PathFacts DEF AssociatedPath
    <3> QED
      BY <2>1, <3>1, PathFacts DEF Setup, Install, AddSlot, Reserve, Ready, InstallFails, PauseVfs,
                                   SahTypeOK, Headers
  <2>2. CASE Crash
    <3>1. CASE header' = header
      BY <3>1
    <3>2. CASE header' # header
      <4>1. PICK s \in Tearable : header' = [header EXCEPT ![s] = "torn"]
        BY <2>2, <3>2 DEF Crash
      <4>2. header[s] # Db
        <5>1. state # "closed" /\ SlotsAreTrue /\ TempsHaveSlots /\ SahTypeOK
          BY <2>2 DEF Crash
        <5>2. CASE s \in avail
          BY <5>1, <5>2, PathFacts DEF SlotsAreTrue
        <5>3. ASSUME NEW p \in Paths \ {Db}, s = sah[p], sah[p] # null PROVE header[s] # Db
          BY <5>1, <5>3 DEF SlotsAreTrue
        <5>4. \A c \in Conns : pc[c] = "commit" => sah[Journal] # null
          BY DEF Pager, Stage, RESERVED, EXCLUSIVE
        <5> QED
          BY <4>1, <5>1, <5>2, <5>3, <5>4, PathFacts DEF Tearable, TempsHaveSlots
      <4> QED
        BY <4>1, <4>2 DEF SahTypeOK
    <3> QED
      BY <3>1, <3>2
  <2>3. ASSUME NEW p \in Paths, XOpen(p), state = "ready" PROVE Prop
    <3>1. CASE header' = header
      BY <3>1
    <3>2. CASE header' # header
      <4>1. avail # {} /\ header' = [header EXCEPT ![NextAvailable] = p]
        BY <2>3, <3>2 DEF XOpen
      <4>2. NextAvailable \in avail
        BY <4>1, NextIsAvailable
      <4> QED
        BY <2>3, <4>1, <4>2, PathFacts DEF SlotsAreTrue, SahTypeOK
    <3> QED
      BY <3>1, <3>2
  <2>4. ASSUME NEW p \in Paths \ {Db}, sah[p] # null, DeletePath(p), state = "ready" PROVE Prop
    <3>1. header' = [header EXCEPT ![sah[p]] = "free"] /\ header[sah[p]] = p
      BY <2>4 DEF DeletePath, SlotsAreTrue
    <3> QED
      BY <2>4, <3>1 DEF SahTypeOK
  <2>5. ASSUME NEW c \in Conns
        PROVE  /\ pc[c] # "none" \/ thread = c => state = "ready"
               /\ pc[c] \in {"hot", "write", "commit"} => sah[Journal] # null
    <3>1. pc[c] \in {"hot", "write", "commit"} => sah[Journal] # null
      BY DEF Pager, Stage, SahTypeOK, RESERVED, EXCLUSIVE
    <3> QED
      BY <3>1, ReadyFacts
  <2>6. ASSUME NEW c \in Conns,
               OpenDb(c) \/ BeginRead(c) \/ EndRead(c) \/ BeginWrite(c) \/ Flush(c) \/ CloseDb(c)
                 \/ Spilled(c) \/ Written(c)
        PROVE  Prop \/ header' = header
    BY <2>3, <2>6, PathFacts DEF OpenDb, BeginRead, EndRead, BeginWrite, Flush, CloseDb, Spilled,
                                 Written, Idle, pool
  <2>7. ASSUME NEW c \in Conns, EndWrite(c) \/ RollBack(c) \/ RollBackHot(c)
        PROVE  Prop \/ header' = header
    BY <2>4, <2>5, <2>7, PathFacts DEF EndWrite, RollBack, RollBackHot, Idle
  <2>8. ASSUME NEW c \in Conns, NEW t \in Temps, OpenTemp(c, t) \/ CloseTemp(c, t)
        PROVE  Prop \/ header' = header
    <3>1. t \in Paths \ {Db} /\ state = "ready" /\ (temp[t] = c => sah[t] # null)
      BY <2>8, ReadyFacts, PathFacts DEF OpenTemp, CloseTemp, Idle, TempsHaveSlots
    <3> QED
      BY <2>3, <2>4, <2>8, <3>1 DEF OpenTemp, CloseTemp
  <2> QED
    BY <2>1, <2>2, <2>6, <2>7, <2>8 DEF SahNext, Call, vars
<1> QED
  BY <1>1, VfsAlways, PTL DEF SahSpec, DatabaseFileSurvives

-----------------------------------------------------------------------------
(***************************************************************************)
(* SqliteVectorIndex, for any records, filters, lookups and bind limit.    *)
(*                                                                         *)
(* Three arguments meet.  Sorting: the ranks of a finite set under a       *)
(* strict order are 0 .. n - 1, each once, so that a sorted list holds the *)
(* set and a map that keeps the order maps one list to the other           *)
(* (SortedIsInOrder, SortedImage).  The tables: each statement keeps them  *)
(* in agreement with each other and with what was inserted, and a batch    *)
(* does because its first record that would not is none (BatchKeeps).      *)
(* The answers: a row's id is its record, so what a query selects, counts  *)
(* and sorts are the records the flat index would.                         *)
(***************************************************************************)

-----------------------------------------------------------------------------
(* Putting a set in order.                                                 *)

StrictOrder(S, R) ==
    /\ \A x \in S : <<x, x>> \notin R
    /\ \A x, y, z \in S : <<x, y>> \in R /\ <<y, z>> \in R => <<x, z>> \in R
    /\ \A x, y \in S : x = y \/ <<x, y>> \in R \/ <<y, x>> \in R

\* How many come before each.
Ranks(S, R) == [x \in S |-> Cardinality({y \in S : <<y, x>> \in R})]

(* The ranks of n elements are 0 .. n - 1, in the order of the relation. *)
LEMMA RanksInOrder ==
    ASSUME NEW S, NEW R, IsFiniteSet(S), StrictOrder(S, R)
    PROVE  /\ Cardinality(S) \in Nat
           /\ Ranks(S, R) \in [S -> 0 .. Cardinality(S) - 1]
           /\ \A x, y \in S : <<x, y>> \in R <=> Ranks(S, R)[x] < Ranks(S, R)[y]
           /\ \A x, y \in S : Ranks(S, R)[x] = Ranks(S, R)[y] => x = y
           /\ \A n \in 0 .. Cardinality(S) - 1 : \E x \in S : Ranks(S, R)[x] = n
<1> DEFINE Below(x) == {y \in S : <<y, x>> \in R}
           c == Cardinality(S)
           rank == Ranks(S, R)
<1>1. c \in Nat
  BY FS_CardinalityType
<1>2. ASSUME NEW x \in S
      PROVE  Cardinality(Below(x)) \in Nat /\ Cardinality(Below(x)) < c
  <2>1. IsFiniteSet(Below(x)) /\ Cardinality(Below(x)) <= c /\ (c = Cardinality(Below(x)) => S = Below(x))
    BY FS_Subset
  <2>2. x \notin Below(x)
    BY DEF StrictOrder
  <2>3. Cardinality(Below(x)) \in Nat
    BY <2>1, FS_CardinalityType
  <2> QED
    BY <1>1, <2>1, <2>2, <2>3
<1>3. ASSUME NEW x \in S, NEW y \in S, <<x, y>> \in R
      PROVE  Cardinality(Below(x)) < Cardinality(Below(y))
  <2>1. Below(x) \in SUBSET Below(y) /\ x \in Below(y) /\ x \notin Below(x)
    BY <1>3 DEF StrictOrder
  <2>2. IsFiniteSet(Below(y))
    BY FS_Subset
  <2>3. /\ Cardinality(Below(x)) <= Cardinality(Below(y))
        /\ Cardinality(Below(y)) = Cardinality(Below(x)) => Below(y) = Below(x)
    <3> HIDE DEF Below
    <3> QED
      BY <2>1, <2>2, FS_Subset
  <2> QED
    BY <1>2, <2>1, <2>3
<1>4. rank = [x \in S |-> Cardinality(Below(x))]
  BY DEF Ranks
<1>5. rank \in [S -> 0 .. c - 1]
  <2> HIDE DEF Below, c, rank
  <2> QED
    BY <1>1, <1>2, <1>4
<1>6. \A x, y \in S : <<x, y>> \in R => rank[x] < rank[y]
  <2> HIDE DEF Below, c, rank
  <2> QED
    BY <1>3, <1>4
<1>7. ASSUME NEW x \in S, NEW y \in S, rank[x] = rank[y] PROVE x = y
  <2> HIDE DEF rank, c
  <2>1. rank[x] \in Int /\ ~(rank[x] < rank[x])
    BY <1>1, <1>5
  <2>2. <<x, y>> \notin R /\ <<y, x>> \notin R
    BY <1>6, <1>7, <2>1
  <2> QED
    BY <2>2 DEF StrictOrder
<1>8. ASSUME NEW x \in S, NEW y \in S, rank[x] < rank[y] PROVE <<x, y>> \in R
  <2> HIDE DEF rank, c
  <2>1. rank[x] \in Int /\ rank[y] \in Int
    BY <1>1, <1>5
  <2>2. x # y /\ ~(rank[y] < rank[x])
    BY <1>8, <2>1
  <2>3. <<y, x>> \notin R
    BY <1>6, <2>2
  <2> QED
    BY <2>2, <2>3 DEF StrictOrder
<1>9. \A n \in 0 .. c - 1 : \E x \in S : rank[x] = n
  <2>1. rank \in Injection(S, 0 .. c - 1)
    <3> HIDE DEF rank
    <3> QED
      BY <1>5, <1>7 DEF Injection, IsInjective
  <2>2. IsFiniteSet(0 .. c - 1) /\ Cardinality(0 .. c - 1) = c
    <3> HIDE DEF c
    <3> QED
      BY <1>1, FS_Interval
  <2>3. rank \in Surjection(S, 0 .. c - 1)
    <3> HIDE DEF rank
    <3> QED
      BY <2>1, <2>2, FS_Injection
  <2> HIDE DEF rank
  <2> QED
    BY <2>3 DEF Surjection
<1> HIDE DEF rank
<1> QED
  BY <1>1, <1>5, <1>6, <1>7, <1>8, <1>9 DEF rank

(* Sorted lists every element once, in order. *)
LEMMA SortedIsInOrder ==
    ASSUME NEW S, NEW R, IsFiniteSet(S), StrictOrder(S, R)
    PROVE  /\ Cardinality(S) \in Nat
           /\ Sorted(S, R) \in [1 .. Cardinality(S) -> S]
           /\ \A x \in S : \E n \in 1 .. Cardinality(S) : Sorted(S, R)[n] = x
           /\ \A n \in 1 .. Cardinality(S) : Ranks(S, R)[Sorted(S, R)[n]] = n - 1
           /\ \A m, n \in 1 .. Cardinality(S) :
                 <<Sorted(S, R)[m], Sorted(S, R)[n]>> \in R <=> m < n
           /\ \A m, n \in 1 .. Cardinality(S) :
                 Sorted(S, R)[m] = Sorted(S, R)[n] => m = n
<1> DEFINE c == Cardinality(S)
           rank == Ranks(S, R)
           s == Sorted(S, R)
<1>1. /\ c \in Nat
      /\ rank \in [S -> 0 .. c - 1]
      /\ \A x, y \in S : <<x, y>> \in R <=> rank[x] < rank[y]
      /\ \A x, y \in S : rank[x] = rank[y] => x = y
      /\ \A n \in 0 .. c - 1 : \E x \in S : rank[x] = n
  BY RanksInOrder
<1> DEFINE Place(x) == Cardinality({y \in S : <<y, x>> \in R})
<1>2. /\ s = [n \in 1 .. c |-> CHOOSE x \in S : Place(x) = n - 1]
      /\ \A x \in S : rank[x] = Place(x)
  BY DEF Sorted, Ranks
<1> HIDE DEF c, rank, s, Place
<1>3. ASSUME NEW n \in 1 .. c PROVE s[n] \in S /\ rank[s[n]] = n - 1
  <2>1. n - 1 \in 0 .. c - 1
    BY <1>1
  <2>2. \E x \in S : Place(x) = n - 1
    BY <1>1, <1>2, <2>1
  <2> QED
    BY <1>2, <2>2
<1>4. s \in [1 .. c -> S]
  BY <1>2, <1>3
<1>5. ASSUME NEW x \in S PROVE \E n \in 1 .. c : s[n] = x
  <2>1. rank[x] \in 0 .. c - 1
    BY <1>1
  <2>2. rank[x] + 1 \in 1 .. c /\ (rank[x] + 1) - 1 = rank[x]
    BY <1>1, <2>1
  <2> QED
    BY <1>1, <1>3, <2>2
<1>6. \A m, n \in 1 .. c : <<s[m], s[n]>> \in R <=> m < n
  BY <1>1, <1>3
<1>7. \A m, n \in 1 .. c : s[m] = s[n] => m = n
  BY <1>1, <1>3
<1> QED
  BY <1>1, <1>3, <1>4, <1>5, <1>6, <1>7 DEF c, rank, s

(* A one-to-one map that keeps the order maps one list to the other. *)
LEMMA SortedImage ==
    ASSUME NEW S, NEW R, IsFiniteSet(S), StrictOrder(S, R),
           NEW T, NEW Q, NEW f \in [S -> T],
           \A x, y \in S : f[x] = f[y] => x = y,
           \A t \in T : \E x \in S : f[x] = t,
           \A x, y \in S : <<x, y>> \in R <=> <<f[x], f[y]>> \in Q
    PROVE  Sorted(T, Q) = [n \in DOMAIN Sorted(S, R) |-> f[Sorted(S, R)[n]]]
<1> DEFINE c == Cardinality(S)
<1>1. f \in Bijection(S, T)
  BY DEF Bijection, Injection, Surjection, IsInjective
<1>2. IsFiniteSet(T) /\ Cardinality(T) = c
  BY <1>1, FS_Bijection DEF ExistsBijection
<1>3. StrictOrder(T, Q)
  <2>1. ASSUME NEW x \in T PROVE <<x, x>> \notin Q
    BY DEF StrictOrder
  <2>2. ASSUME NEW x \in T, NEW y \in T, x # y PROVE <<x, y>> \in Q \/ <<y, x>> \in Q
    BY <2>2 DEF StrictOrder
  <2>3. ASSUME NEW x \in T, NEW y \in T, NEW z \in T, <<x, y>> \in Q, <<y, z>> \in Q
        PROVE  <<x, z>> \in Q
    <3>1. PICK u \in S, v \in S, w \in S : f[u] = x /\ f[v] = y /\ f[w] = z
      OBVIOUS
    <3>2. <<u, v>> \in R /\ <<v, w>> \in R
      BY <2>3, <3>1
    <3> QED
      BY <3>1, <3>2 DEF StrictOrder
  <2> QED
    BY <2>1, <2>2, <2>3 DEF StrictOrder
<1>4. ASSUME NEW x \in S PROVE Ranks(T, Q)[f[x]] = Ranks(S, R)[x]
  <2> DEFINE B == {y \in S : <<y, x>> \in R}
             C == {y \in T : <<y, f[x]>> \in Q}
             g == [y \in B |-> f[y]]
  <2>1. g \in Bijection(B, C)
    BY DEF Bijection, Injection, Surjection, IsInjective
  <2>2. IsFiniteSet(B)
    BY FS_Subset
  <2>3. Cardinality(C) = Cardinality(B)
    <3> HIDE DEF B, C, g
    <3> QED
      BY <2>1, <2>2, FS_Bijection DEF ExistsBijection
  <2>4. f[x] \in T
    OBVIOUS
  <2> QED
    BY <2>3, <2>4 DEF Ranks
<1> DEFINE s == Sorted(S, R)
           t == Sorted(T, Q)
<1>5. /\ c \in Nat /\ s \in [1 .. c -> S]
      /\ \A n \in 1 .. c : Ranks(S, R)[s[n]] = n - 1
  BY SortedIsInOrder
<1>6. /\ t \in [1 .. c -> T]
      /\ \A n \in 1 .. c : Ranks(T, Q)[t[n]] = n - 1
  <2>1. /\ t \in [1 .. Cardinality(T) -> T]
        /\ \A n \in 1 .. Cardinality(T) : Ranks(T, Q)[t[n]] = n - 1
    BY <1>2, <1>3, SortedIsInOrder
  <2> QED
    BY <1>2, <2>1
<1>7. \A x, y \in T : Ranks(T, Q)[x] = Ranks(T, Q)[y] => x = y
  BY <1>2, <1>3, RanksInOrder
<1> HIDE DEF c, s, t
<1>8. ASSUME NEW n \in 1 .. c PROVE t[n] = f[s[n]]
  <2>1. s[n] \in S /\ t[n] \in T /\ f[s[n]] \in T
    BY <1>5, <1>6
  <2> QED
    BY <1>4, <1>5, <1>6, <1>7, <2>1
<1>9. DOMAIN s = 1 .. c /\ t = [n \in 1 .. c |-> t[n]]
  BY <1>5, <1>6
<1> QED
  BY <1>8, <1>9 DEF s, t

(* Numbers in increasing order. *)
LEMMA IncreasingOrder ==
    ASSUME NEW S \in SUBSET Nat
    PROVE  StrictOrder(S, Increasing(S))
BY DEF StrictOrder, Increasing

(* A finite set of numbers has a greatest one, which Max chooses. *)
LEMMA MaxOfFinite ==
    ASSUME NEW S \in SUBSET Nat, IsFiniteSet(S), S # {}
    PROVE  Max(S) \in S /\ \A x \in S : x <= Max(S)
<1> DEFINE c == Cardinality(S)
           s == Sorted(S, Increasing(S))
<1>1. /\ c \in Nat /\ s \in [1 .. c -> S]
      /\ \A x \in S : \E n \in 1 .. c : s[n] = x
      /\ \A m, n \in 1 .. c : <<s[m], s[n]>> \in Increasing(S) <=> m < n
  BY IncreasingOrder, SortedIsInOrder
<1>2. \A m, n \in 1 .. c : m < n => s[m] < s[n]
  BY <1>1 DEF Increasing
<1>3. c \in 1 .. c
  <2>1. c # 0
    BY FS_EmptySet
  <2> HIDE DEF c
  <2> QED
    BY <1>1, <2>1
<1> HIDE DEF c, s
<1>4. s[c] \in S /\ \A x \in S : x <= s[c]
  <2>1. ASSUME NEW x \in S PROVE x <= s[c]
    <3>1. PICK n \in 1 .. c : s[n] = x
      BY <1>1
    <3>2. CASE n = c
      <4>1. x \in Nat
        OBVIOUS
      <4> QED
        BY <3>1, <3>2, <4>1
    <3>3. CASE n < c
      <4>1. s[n] < s[c]
        BY <1>2, <1>3, <3>3
      <4>2. x \in Nat /\ s[c] \in Nat
        BY <1>1, <1>3
      <4> QED
        BY <3>1, <4>1, <4>2
    <3> QED
      BY <1>1, <3>1, <3>2, <3>3
  <2> QED
    BY <1>1, <1>3, <2>1
<1>5. \E x \in S : \A y \in S : x >= y
  BY <1>4
<1> QED
  BY <1>5 DEF Max

-----------------------------------------------------------------------------
(* First occurrences.                                                      *)

IsSequence(s) == Len(s) \in Nat /\ DOMAIN s = 1 .. Len(s)

(* Unique keeps what a sequence holds, each value once. *)
LEMMA UniqueKeepsValues ==
    ASSUME NEW s, IsSequence(s)
    PROVE  /\ \E c \in Nat : DOMAIN Unique(s) = 1 .. c
           /\ \A n \in DOMAIN Unique(s) : \E m \in DOMAIN s : Unique(s)[n] = s[m]
           /\ \A m \in DOMAIN s : \E n \in DOMAIN Unique(s) : Unique(s)[n] = s[m]
           /\ \A m, n \in DOMAIN Unique(s) : Unique(s)[m] = Unique(s)[n] => m = n
<1> DEFINE first == {n \in DOMAIN s : \A m \in DOMAIN s : s[m] = s[n] => n <= m}
           c == Cardinality(first)
           kept == Sorted(first, Increasing(first))
           u == Unique(s)
<1>1. first \in SUBSET (1 .. Len(s)) /\ IsFiniteSet(first)
  <2>1. IsFiniteSet(1 .. Len(s))
    BY FS_Interval DEF IsSequence
  <2>2. first \in SUBSET (1 .. Len(s))
    BY DEF IsSequence
  <2> QED
    BY <2>1, <2>2, FS_Subset
<1>2. first \in SUBSET Nat
  BY <1>1 DEF IsSequence
<1>3. /\ c \in Nat /\ kept \in [1 .. c -> first]
      /\ \A x \in first : \E n \in 1 .. c : kept[n] = x
      /\ \A m, n \in 1 .. c : kept[m] = kept[n] => m = n
  <2> HIDE DEF first
  <2> QED
    BY <1>1, <1>2, IncreasingOrder, SortedIsInOrder
<1>4. u = [n \in DOMAIN kept |-> s[kept[n]]]
  BY DEF Unique
<1>5. \A m, n \in first : s[m] = s[n] => m = n
  BY <1>1 DEF IsSequence
<1>6. ASSUME NEW n \in DOMAIN s PROVE \E m \in first : s[m] = s[n]
  <2> DEFINE same == {m \in DOMAIN s : s[m] = s[n]}
  <2>1. same \in SUBSET Nat /\ same # {}
    BY DEF IsSequence
  <2>2. PICK m \in same : \A k \in same : m <= k
    <3> HIDE DEF same
    <3> QED
      BY <2>1, LeastNatural
  <2>3. m \in first
    BY <2>2 DEF IsSequence
  <2> QED
    BY <2>2, <2>3
<1>7. first \subseteq DOMAIN s
  OBVIOUS
<1> HIDE DEF first, c, kept, u
<1>8. u = [n \in 1 .. c |-> s[kept[n]]]
  BY <1>3, <1>4
<1>9. \A n \in 1 .. c : \E m \in DOMAIN s : u[n] = s[m]
  BY <1>3, <1>7, <1>8
<1>10. \A m \in DOMAIN s : \E n \in 1 .. c : u[n] = s[m]
  BY <1>3, <1>6, <1>8
<1>11. \A m, n \in 1 .. c : u[m] = u[n] => m = n
  BY <1>3, <1>5, <1>8
<1>12. DOMAIN u = 1 .. c
  BY <1>8
<1> QED
  BY <1>3, <1>9, <1>10, <1>11, <1>12 DEF u

-----------------------------------------------------------------------------
(* What statements do to the tables.                                       *)

(* A new row gets a rowid above all others. *)
LEMMA NextRowidIsLast ==
    ASSUME NEW d, RowsOK(d)
    PROVE  NextRowid(d) \in Nat \ {0} /\ \A r \in d.vec : r.rowid < NextRowid(d)
<1> DEFINE f == [r \in d.vec |-> r.rowid]
           T == {r.rowid : r \in d.vec}
           S == {0} \cup T
<1>1. T \in SUBSET Nat
  BY DEF RowsOK
<1>2. IsFiniteSet(T)
  <2>1. f \in Surjection(d.vec, T)
    BY DEF Surjection
  <2>2. IsFiniteSet(d.vec)
    BY DEF RowsOK
  <2> QED
    BY <2>1, <2>2, FS_Surjection
<1> HIDE DEF T
<1>3. IsFiniteSet(S)
  <2>1. IsFiniteSet(T \cup {0}) /\ S = T \cup {0}
    BY <1>2, FS_AddElement
  <2> QED
    BY <2>1
<1>4. S \in SUBSET Nat /\ S # {}
  BY <1>1
<1>5. Max(S) \in Nat /\ \A x \in S : x <= Max(S)
  <2> HIDE DEF S
  <2> QED
    BY <1>3, <1>4, MaxOfFinite
<1>6. NextRowid(d) = 1 + Max(S)
  BY DEF NextRowid, T
<1>7. ASSUME NEW r \in d.vec PROVE r.rowid < NextRowid(d)
  <2>1. r.rowid \in S /\ r.rowid \in Nat
    BY <1>1 DEF T
  <2> HIDE DEF S
  <2> QED
    BY <1>5, <1>6, <2>1
<1> HIDE DEF S
<1> QED
  BY <1>5, <1>6, <1>7

(* A metadata row, or a lookup row, names its record. *)
LEMMA RowsNameTheirRecord ==
    ASSUME NEW i, NEW m
    PROVE  (\A x \in MetaRows(i, m) : x.id = i) /\ (\A x \in LookupRows(i, m) : x.id = i)
BY DEF MetaRows, LookupRows

(* The record of a row. *)
LEMMA RecordOfRow ==
    ASSUME NEW d, RowsOK(d)
    PROVE  /\ RecordsOf(d) = [i \in {r.id : r \in d.vec} |-> RecordsOf(d)[i]]
           /\ \A r \in d.vec :
                 RecordsOf(d)[r.id] = [vector |-> r.embedding, metadata |-> r.metadata_json]
<1>1. ASSUME NEW r \in d.vec
      PROVE  (CHOOSE t \in d.vec : t.id = r.id) = r
  BY DEF RowsOK
<1> QED
  BY <1>1 DEF RecordsOf

(* A deletion removes records with all that the tables say of them. *)
LEMMA DeleteRowsKeeps ==
    ASSUME NEW d, NEW s, RowsOK(d), AgreeWith(d, s), NEW rows \in SUBSET d.vec
    PROVE  LET e == DeleteRows(d, rows)
               gone == {r.id : r \in rows} IN
           /\ RowsOK(e) /\ AgreeWith(e, Forget(s, gone))
           /\ e.dimension = d.dimension
           /\ e.vec = {r \in d.vec : r.id \notin gone}
           /\ RecordsOf(e) = [i \in DOMAIN RecordsOf(d) \ gone |-> RecordsOf(d)[i]]
<1> DEFINE e == DeleteRows(d, rows)
           gone == {r.id : r \in rows}
           f == Forget(s, gone)
<1>1. d = [dimension |-> d.dimension, vec |-> d.vec, meta |-> d.meta, lookup |-> d.lookup]
  BY DEF RowsOK
<1>2. /\ e.vec = d.vec \ rows /\ e.dimension = d.dimension
      /\ e.meta = {m \in d.meta : m.id \notin gone}
      /\ e.lookup = {l \in d.lookup : l.id \notin gone}
      /\ e = [dimension |-> e.dimension, vec |-> e.vec, meta |-> e.meta, lookup |-> e.lookup]
  <2>1. e = [d EXCEPT !.vec = d.vec \ rows, !.meta = {m \in d.meta : m.id \notin gone},
                      !.lookup = {l \in d.lookup : l.id \notin gone}]
    BY <1>1 DEF DeleteRows
  <2> DEFINE M == {m \in d.meta : m.id \notin gone}
             L == {l \in d.lookup : l.id \notin gone}
             V == d.vec \ rows
  <2>2. e = [d EXCEPT !.vec = V, !.meta = M, !.lookup = L]
    BY <2>1
  <2> HIDE DEF e, M, L, V
  <2>3. /\ e.vec = V /\ e.dimension = d.dimension /\ e.meta = M /\ e.lookup = L
        /\ e = [dimension |-> e.dimension, vec |-> e.vec, meta |-> e.meta, lookup |-> e.lookup]
    BY <1>1, <2>2
  <2> QED
    BY <2>3 DEF M, L, V
<1>3. e.vec = {r \in d.vec : r.id \notin gone}
  BY <1>2 DEF RowsOK
<1>4. RowsOK(e)
  <2>1. IsFiniteSet(e.vec)
    <3>1. IsFiniteSet(d.vec) /\ e.vec \in SUBSET d.vec
      BY <1>2 DEF RowsOK
    <3> HIDE DEF e
    <3> QED
      BY <3>1, FS_Subset
  <2> HIDE DEF e
  <2> QED
    BY <1>2, <2>1 DEF RowsOK
<1>5. DOMAIN f.keys = DOMAIN s.keys \ gone /\ \A i \in DOMAIN f.keys : f.keys[i] = s.keys[i]
  BY DEF Forget
<1>6. AgreeWith(e, f)
  <2>1. DOMAIN f.keys = {r.id : r \in e.vec}
    <3> HIDE DEF e, f, gone
    <3> QED
      BY <1>3, <1>5 DEF AgreeWith
  <2>2. e.meta = UNION {MetaRows(r.id, r.metadata_json) : r \in e.vec}
    <3>1. d.meta = UNION {MetaRows(r.id, r.metadata_json) : r \in d.vec}
      BY DEF AgreeWith
    <3> HIDE DEF e, f, gone
    <3> QED
      BY <1>2, <1>3, <3>1, RowsNameTheirRecord
  <2>3. e.lookup = UNION {LookupRows(i, f.keys[i]) : i \in DOMAIN f.keys}
    <3>1. d.lookup = UNION {LookupRows(i, s.keys[i]) : i \in DOMAIN s.keys}
      BY DEF AgreeWith
    <3> HIDE DEF e, f, gone
    <3> QED
      BY <1>2, <1>5, <3>1, RowsNameTheirRecord
  <2>4. \A r, t \in e.vec : <<r.id, t.id>> \in f.later <=> r.rowid < t.rowid
    <3>1. \A r, t \in e.vec : <<r.id, t.id>> \in f.later <=> <<r.id, t.id>> \in s.later
      <4> HIDE DEF e, gone
      <4> QED
        BY <1>3 DEF Forget
    <3> HIDE DEF e, f, gone
    <3> QED
      BY <1>3, <3>1 DEF AgreeWith
  <2> HIDE DEF e, f, gone
  <2> QED
    BY <2>1, <2>2, <2>3, <2>4 DEF AgreeWith
<1>7. RecordsOf(e) = [i \in DOMAIN RecordsOf(d) \ gone |-> RecordsOf(d)[i]]
  <2>1. DOMAIN RecordsOf(d) = {r.id : r \in d.vec} /\ DOMAIN RecordsOf(e) = {r.id : r \in e.vec}
    BY DEF RecordsOf
  <2>2. RecordsOf(e) = [i \in {r.id : r \in e.vec} |-> RecordsOf(e)[i]]
    BY <1>4, RecordOfRow
  <2>3. ASSUME NEW r \in e.vec PROVE RecordsOf(e)[r.id] = RecordsOf(d)[r.id]
    <3>1. RecordsOf(e)[r.id] = [vector |-> r.embedding, metadata |-> r.metadata_json]
      BY <1>4, RecordOfRow
    <3>2. r \in d.vec
      BY <1>3
    <3>3. RecordsOf(d)[r.id] = [vector |-> r.embedding, metadata |-> r.metadata_json]
      BY <3>2, RecordOfRow
    <3> QED
      BY <3>1, <3>3
  <2>4. {r.id : r \in e.vec} = {r.id : r \in d.vec} \ gone
    <3> HIDE DEF e, gone
    <3> QED
      BY <1>3
  <2> HIDE DEF e, gone
  <2> QED
    BY <2>1, <2>2, <2>3, <2>4
<1> HIDE DEF e, f, gone
<1> QED
  BY <1>2, <1>3, <1>4, <1>6, <1>7 DEF e, f, gone

(* An insertion adds a record, its scalars and its keys, and nothing else; it
   is the latest. *)
LEMMA ReplaceKeeps ==
    ASSUME NEW d, NEW s, RowsOK(d), AgreeWith(d, s), NEW r, NEW keys,
           r.id \in Ids, r.vector \in Vectors \cap Finite, Dim[r.vector] = d.dimension,
           IsMetadata(r.metadata)
    PROVE  /\ RowsOK(replaceRecord(d, r, keys))
           /\ AgreeWith(replaceRecord(d, r, keys), Remember(s, r.id, keys))
           /\ replaceRecord(d, r, keys).dimension = d.dimension
           /\ RecordsOf(replaceRecord(d, r, keys)) = Flat!With(RecordsOf(d), r)
<1> DEFINE old == WithId(d, {r.id})
           e == DeleteRows(d, old)
           f == Forget(s, {r.id})
           row == [rowid |-> NextRowid(e), id |-> r.id, embedding |-> r.vector,
                   metadata_json |-> r.metadata]
           n == replaceRecord(d, r, keys)
           h == Remember(s, r.id, keys)
<1>1. /\ RowsOK(e) /\ e.dimension = d.dimension
      /\ e.vec = {t \in d.vec : t.id # r.id}
      /\ RecordsOf(e) = [i \in DOMAIN RecordsOf(d) \ {r.id} |-> RecordsOf(d)[i]]
      /\ old = {} => AgreeWith(e, s)
      /\ old # {} => AgreeWith(e, f)
  <2> DEFINE gone == {t.id : t \in old}
  <2>1. /\ RowsOK(e) /\ AgreeWith(e, Forget(s, gone))
        /\ e.dimension = d.dimension
        /\ e.vec = {t \in d.vec : t.id \notin gone}
        /\ RecordsOf(e) = [i \in DOMAIN RecordsOf(d) \ gone |-> RecordsOf(d)[i]]
    BY DeleteRowsKeeps DEF WithId
  <2>2. CASE old = {}
    <3>1. gone = {} /\ \A t \in d.vec : t.id # r.id
      BY <2>2 DEF WithId
    <3>2. r.id \notin DOMAIN RecordsOf(d)
      BY <3>1 DEF RecordsOf
    <3>3. e = d
      BY <2>2 DEF DeleteRows, RowsOK
    <3> HIDE DEF e, gone
    <3> QED
      BY <2>1, <2>2, <3>1, <3>2, <3>3
  <2>3. CASE old # {}
    <3>1. gone = {r.id}
      BY <2>3 DEF WithId
    <3> HIDE DEF e, gone
    <3> QED
      BY <2>1, <2>3, <3>1
  <2> QED
    BY <2>2, <2>3
<1>2. AgreeWith(e, f)
  <2>1. CASE old = {}
    <3>1. \A t \in e.vec : t.id # r.id
      BY <1>1
    <3>2. AgreeWith(e, s)
      BY <1>1, <2>1
    <3>3. r.id \notin DOMAIN s.keys
      BY <3>1, <3>2 DEF AgreeWith
    <3>4. DOMAIN f.keys = DOMAIN s.keys /\ \A i \in DOMAIN s.keys : f.keys[i] = s.keys[i]
      BY <3>3 DEF Forget
    <3>5. \A t, u \in e.vec : <<t.id, u.id>> \in f.later <=> <<t.id, u.id>> \in s.later
      <4> HIDE DEF e
      <4> QED
        BY <3>1 DEF Forget
    <3> HIDE DEF e, f
    <3> QED
      BY <3>2, <3>4, <3>5 DEF AgreeWith
  <2> QED
    BY <1>1, <2>1
<1>3. NextRowid(e) \in Nat \ {0} /\ \A t \in e.vec : t.rowid < NextRowid(e)
  BY <1>1, NextRowidIsLast
<1>4. /\ n.vec = e.vec \cup {row} /\ n.dimension = e.dimension
      /\ n.meta = e.meta \cup MetaRows(r.id, r.metadata)
      /\ n.lookup = e.lookup \cup LookupRows(r.id, keys)
      /\ n = [dimension |-> n.dimension, vec |-> n.vec, meta |-> n.meta, lookup |-> n.lookup]
  <2>1. e = [dimension |-> e.dimension, vec |-> e.vec, meta |-> e.meta, lookup |-> e.lookup]
    BY <1>1 DEF RowsOK
  <2>2. n = [e EXCEPT !.vec = @ \cup {row}, !.meta = @ \cup MetaRows(r.id, r.metadata),
                      !.lookup = @ \cup LookupRows(r.id, keys)]
    BY DEF replaceRecord
  <2> HIDE DEF e, n, row
  <2> QED
    BY <2>1, <2>2
<1>5. /\ DOMAIN h.keys = DOMAIN f.keys \cup {r.id}
      /\ \A i \in DOMAIN f.keys : h.keys[i] = f.keys[i]
      /\ h.keys[r.id] = keys
      /\ h.later = f.later \cup {<<j, r.id>> : j \in DOMAIN f.keys}
  BY DEF Remember, Forget
<1>6. \A t \in e.vec : t.id # r.id
  BY <1>1
<1>7. /\ row.id = r.id /\ row.rowid = NextRowid(e) /\ row.embedding = r.vector
      /\ row.metadata_json = r.metadata
  OBVIOUS
<1> HIDE DEF e, f, n, h, row
<1>8. RowsOK(n)
  <2>1. IsFiniteSet(n.vec)
    <3>1. IsFiniteSet(e.vec)
      BY <1>1 DEF RowsOK
    <3> QED
      BY <1>4, <3>1, FS_AddElement
  <2>2. \A t \in n.vec : /\ t.id \in Ids /\ t.rowid \in Nat \ {0}
                         /\ t.embedding \in Vectors \cap Finite
                         /\ Dim[t.embedding] = n.dimension
                         /\ IsMetadata(t.metadata_json)
    BY <1>1, <1>3, <1>4, <1>7 DEF RowsOK
  <2>3. \A t, u \in n.vec : t.id = u.id \/ t.rowid = u.rowid => t = u
    <3>1. \A t \in e.vec : t.rowid # row.rowid
      BY <1>1, <1>3, <1>7 DEF RowsOK
    <3> QED
      BY <1>1, <1>4, <1>6, <1>7, <3>1 DEF RowsOK
  <2> QED
    BY <1>4, <2>1, <2>2, <2>3 DEF RowsOK
<1>9. AgreeWith(n, h)
  <2>1. DOMAIN h.keys = {t.id : t \in n.vec}
    BY <1>2, <1>4, <1>5, <1>7 DEF AgreeWith
  <2>2. n.meta = UNION {MetaRows(t.id, t.metadata_json) : t \in n.vec}
    <3>1. e.meta = UNION {MetaRows(t.id, t.metadata_json) : t \in e.vec}
      BY <1>2 DEF AgreeWith
    <3> QED
      BY <1>4, <1>7, <3>1
  <2>3. n.lookup = UNION {LookupRows(i, h.keys[i]) : i \in DOMAIN h.keys}
    <3>1. e.lookup = UNION {LookupRows(i, f.keys[i]) : i \in DOMAIN f.keys}
      BY <1>2 DEF AgreeWith
    <3> QED
      BY <1>4, <1>5, <3>1
  <2>4. \A t, u \in n.vec : <<t.id, u.id>> \in h.later <=> t.rowid < u.rowid
    <3>1. ASSUME NEW t \in e.vec, NEW u \in e.vec
          PROVE  <<t.id, u.id>> \in h.later <=> t.rowid < u.rowid
      BY <1>2, <1>5, <1>6 DEF AgreeWith
    <3>2. \A i : <<r.id, i>> \notin f.later /\ <<i, r.id>> \notin f.later
      BY DEF f, Forget
    <3>3. \A t \in e.vec : t.id \in DOMAIN f.keys /\ r.id \notin DOMAIN f.keys
      BY <1>2, <1>6 DEF AgreeWith
    <3>4. ASSUME NEW t \in e.vec
          PROVE  <<t.id, row.id>> \in h.later /\ t.rowid < row.rowid
      BY <1>3, <1>5, <1>7, <3>3
    <3>5. ASSUME NEW t \in e.vec
          PROVE  <<row.id, t.id>> \notin h.later /\ ~(row.rowid < t.rowid)
      <4>1. t.rowid < row.rowid /\ t.rowid \in Nat /\ row.rowid \in Nat
        BY <1>1, <1>3, <1>7 DEF RowsOK
      <4>2. <<r.id, t.id>> \notin f.later /\ t.id # r.id
        BY <1>6, <3>2
      <4>3. <<r.id, t.id>> \notin h.later
        BY <1>5, <4>2
      <4> QED
        BY <1>7, <4>1, <4>3
    <3>6. <<row.id, row.id>> \notin h.later /\ ~(row.rowid < row.rowid)
      <4>1. r.id \notin DOMAIN f.keys
        BY DEF f, Forget
      <4> QED
        BY <1>3, <1>5, <1>7, <3>2, <4>1
    <3> QED
      BY <1>4, <3>1, <3>4, <3>5, <3>6
  <2> QED
    BY <2>1, <2>2, <2>3, <2>4 DEF AgreeWith
<1>10. RecordsOf(n) = Flat!With(RecordsOf(d), r)
  <2> DEFINE w == Flat!With(RecordsOf(d), r)
             record == [vector |-> r.vector, metadata |-> r.metadata]
  <2>1. /\ DOMAIN w = DOMAIN RecordsOf(d) \cup {r.id}
        /\ w = [i \in DOMAIN w |-> w[i]]
        /\ w[r.id] = record
        /\ \A i \in DOMAIN RecordsOf(d) \ {r.id} : w[i] = RecordsOf(d)[i]
    BY DEF Flat!With
  <2>2. /\ DOMAIN RecordsOf(n) = {t.id : t \in n.vec}
        /\ DOMAIN RecordsOf(e) = {t.id : t \in e.vec}
    BY DEF RecordsOf
  <2>3. DOMAIN RecordsOf(e) = DOMAIN RecordsOf(d) \ {r.id}
    BY <1>1
  <2>4. DOMAIN RecordsOf(n) = DOMAIN w
    <3>1. {t.id : t \in n.vec} = {t.id : t \in e.vec} \cup {r.id}
      BY <1>4, <1>7
    <3> HIDE DEF w
    <3> QED
      BY <2>1, <2>2, <2>3, <3>1
  <2>5. RecordsOf(n)[r.id] = record
    <3>1. row \in n.vec
      BY <1>4
    <3>2. RecordsOf(n)[row.id] = [vector |-> row.embedding, metadata |-> row.metadata_json]
      BY <1>8, <3>1, RecordOfRow
    <3> QED
      BY <1>7, <3>2
  <2>6. ASSUME NEW i \in DOMAIN RecordsOf(d) \ {r.id} PROVE RecordsOf(n)[i] = RecordsOf(d)[i]
    <3>1. PICK t \in e.vec : t.id = i
      BY <2>2, <2>3
    <3>2. RecordsOf(n)[t.id] = RecordsOf(e)[t.id]
      <4>1. t \in n.vec
        BY <1>4
      <4>2. RecordsOf(n)[t.id] = [vector |-> t.embedding, metadata |-> t.metadata_json]
        BY <1>8, <4>1, RecordOfRow
      <4>3. RecordsOf(e)[t.id] = [vector |-> t.embedding, metadata |-> t.metadata_json]
        BY <1>1, RecordOfRow
      <4> QED
        BY <4>2, <4>3
    <3> QED
      BY <1>1, <3>1, <3>2
  <2>7. RecordsOf(n) = [i \in DOMAIN RecordsOf(n) |-> RecordsOf(n)[i]]
    BY <1>8, <2>2, RecordOfRow
  <2> HIDE DEF w, record
  <2> QED
    BY <2>1, <2>4, <2>5, <2>6, <2>7 DEF w
<1> QED
  BY <1>1, <1>4, <1>8, <1>9, <1>10 DEF n, h

-----------------------------------------------------------------------------
(* Batches: the recursive functions that run through them exist, and keep   *)
(* what each record keeps.                                                 *)

RunsTables(batch, withKeys, k, g) ==
    g = [n \in 0 .. k |-> IF n = 0 THEN db ELSE replaceRecord(g[n - 1], batch[n],
                                                         KeysOf(batch[n], withKeys))]

(* The tables after each record of a batch. *)
LEMMA ReplacedUnfolds ==
    ASSUME NEW batch, Len(batch) \in Nat, NEW withKeys
    PROVE  RunsTables(batch, withKeys, Len(batch), Replaced(batch, withKeys))
<1> DEFINE Bad == {k \in Nat : ~\E g : RunsTables(batch, withKeys, k, g)}
<1>1. ASSUME Bad # {} PROVE FALSE
  <2>1. PICK k \in Bad : \A m \in Bad : k <= m
    <3>1. Bad \in SUBSET Nat
      OBVIOUS
    <3> HIDE DEF Bad
    <3> QED
      BY <1>1, <3>1, LeastNatural
  <2>2. CASE k = 0
    <3>1. RunsTables(batch, withKeys, 0, [n \in 0 .. 0 |-> db])
      BY DEF RunsTables
    <3> QED
      BY <2>1, <2>2, <3>1
  <2>3. CASE k # 0
    <3>1. k \in Nat /\ k - 1 \in Nat /\ ~(k <= k - 1)
      BY <2>1, <2>3
    <3>2. PICK g : RunsTables(batch, withKeys, k - 1, g)
      <4>1. k - 1 \notin Bad
        BY <2>1, <3>1
      <4> QED
        BY <3>1, <4>1
    <3> DEFINE h == [n \in 0 .. k |-> IF n = 0 THEN db ELSE replaceRecord(g[n - 1], batch[n],
                                                         KeysOf(batch[n], withKeys))]
    <3>3. ASSUME NEW n \in 0 .. k - 1 PROVE h[n] = g[n]
      BY <3>1, <3>2 DEF RunsTables
    <3>4. ASSUME NEW n \in 0 .. k, n # 0 PROVE h[n - 1] = g[n - 1]
      <4>1. n - 1 \in 0 .. k - 1
        BY <3>1, <3>4
      <4> HIDE DEF h
      <4> QED
        BY <3>3, <4>1
    <3>5. h = [n \in 0 .. k |-> IF n = 0 THEN db ELSE replaceRecord(h[n - 1], batch[n],
                                                         KeysOf(batch[n], withKeys))]
      BY <3>4
    <3>6. RunsTables(batch, withKeys, k, h)
      <4> HIDE DEF h
      <4> QED
        BY <3>5 DEF RunsTables
    <3> QED
      BY <2>1, <3>6
  <2> QED
    BY <2>2, <2>3
<1> DEFINE G == CHOOSE g : RunsTables(batch, withKeys, Len(batch), g)
<1>2. RunsTables(batch, withKeys, Len(batch), G)
  BY <1>1
<1>3. Replaced(batch, withKeys) = G
  BY DEF Replaced, RunsTables
<1> QED
  BY <1>2, <1>3

RunsHistory(batch, withKeys, k, g) ==
    g = [n \in 0 .. k |-> IF n = 0 THEN keyed ELSE Remember(g[n - 1], batch[n].id,
                                                    KeysOf(batch[n], withKeys))]

(* The history after each record of a batch. *)
LEMMA RememberedUnfolds ==
    ASSUME NEW batch, Len(batch) \in Nat, NEW withKeys
    PROVE  RunsHistory(batch, withKeys, Len(batch), Remembered(batch, withKeys))
<1> DEFINE Bad == {k \in Nat : ~\E g : RunsHistory(batch, withKeys, k, g)}
<1>1. ASSUME Bad # {} PROVE FALSE
  <2>1. PICK k \in Bad : \A m \in Bad : k <= m
    <3>1. Bad \in SUBSET Nat
      OBVIOUS
    <3> HIDE DEF Bad
    <3> QED
      BY <1>1, <3>1, LeastNatural
  <2>2. CASE k = 0
    <3>1. RunsHistory(batch, withKeys, 0, [n \in 0 .. 0 |-> keyed])
      BY DEF RunsHistory
    <3> QED
      BY <2>1, <2>2, <3>1
  <2>3. CASE k # 0
    <3>1. k \in Nat /\ k - 1 \in Nat /\ ~(k <= k - 1)
      BY <2>1, <2>3
    <3>2. PICK g : RunsHistory(batch, withKeys, k - 1, g)
      <4>1. k - 1 \notin Bad
        BY <2>1, <3>1
      <4> QED
        BY <3>1, <4>1
    <3> DEFINE h == [n \in 0 .. k |-> IF n = 0 THEN keyed ELSE Remember(g[n - 1], batch[n].id,
                                                    KeysOf(batch[n], withKeys))]
    <3>3. ASSUME NEW n \in 0 .. k - 1 PROVE h[n] = g[n]
      BY <3>1, <3>2 DEF RunsHistory
    <3>4. ASSUME NEW n \in 0 .. k, n # 0 PROVE h[n - 1] = g[n - 1]
      <4>1. n - 1 \in 0 .. k - 1
        BY <3>1, <3>4
      <4> HIDE DEF h
      <4> QED
        BY <3>3, <4>1
    <3>5. h = [n \in 0 .. k |-> IF n = 0 THEN keyed ELSE Remember(h[n - 1], batch[n].id,
                                                    KeysOf(batch[n], withKeys))]
      BY <3>4
    <3>6. RunsHistory(batch, withKeys, k, h)
      <4> HIDE DEF h
      <4> QED
        BY <3>5 DEF RunsHistory
    <3> QED
      BY <2>1, <3>6
  <2> QED
    BY <2>2, <2>3
<1> DEFINE G == CHOOSE g : RunsHistory(batch, withKeys, Len(batch), g)
<1>2. RunsHistory(batch, withKeys, Len(batch), G)
  BY <1>1
<1>3. Remembered(batch, withKeys) = G
  BY DEF Remembered, RunsHistory
<1> QED
  BY <1>2, <1>3

RunsRecords(batch, k, g) ==
    g = [n \in 0 .. k |-> IF n = 0 THEN records ELSE Flat!With(g[n - 1], batch[n])]

(* The records of the flat index after each of a batch. *)
LEMMA PublishedUnfolds ==
    ASSUME NEW batch, Len(batch) \in Nat
    PROVE  RunsRecords(batch, Len(batch), Flat!Published(batch))
<1> DEFINE Bad == {k \in Nat : ~\E g : RunsRecords(batch, k, g)}
<1>1. ASSUME Bad # {} PROVE FALSE
  <2>1. PICK k \in Bad : \A m \in Bad : k <= m
    <3>1. Bad \in SUBSET Nat
      OBVIOUS
    <3> HIDE DEF Bad
    <3> QED
      BY <1>1, <3>1, LeastNatural
  <2>2. CASE k = 0
    <3>1. RunsRecords(batch, 0, [n \in 0 .. 0 |-> records])
      BY DEF RunsRecords
    <3> QED
      BY <2>1, <2>2, <3>1
  <2>3. CASE k # 0
    <3>1. k \in Nat /\ k - 1 \in Nat /\ ~(k <= k - 1)
      BY <2>1, <2>3
    <3>2. PICK g : RunsRecords(batch, k - 1, g)
      <4>1. k - 1 \notin Bad
        BY <2>1, <3>1
      <4> QED
        BY <3>1, <4>1
    <3> DEFINE h == [n \in 0 .. k |-> IF n = 0 THEN records ELSE Flat!With(g[n - 1], batch[n])]
    <3>3. ASSUME NEW n \in 0 .. k - 1 PROVE h[n] = g[n]
      BY <3>1, <3>2 DEF RunsRecords
    <3>4. ASSUME NEW n \in 0 .. k, n # 0 PROVE h[n - 1] = g[n - 1]
      <4>1. n - 1 \in 0 .. k - 1
        BY <3>1, <3>4
      <4> HIDE DEF h
      <4> QED
        BY <3>3, <4>1
    <3>5. h = [n \in 0 .. k |-> IF n = 0 THEN records ELSE Flat!With(h[n - 1], batch[n])]
      BY <3>4
    <3>6. RunsRecords(batch, k, h)
      <4> HIDE DEF h
      <4> QED
        BY <3>5 DEF RunsRecords
    <3> QED
      BY <2>1, <3>6
  <2> QED
    BY <2>2, <2>3
<1> DEFINE G == CHOOSE g : RunsRecords(batch, Len(batch), g)
<1>2. RunsRecords(batch, Len(batch), G)
  BY <1>1
<1>3. Flat!Published(batch) = G
  BY DEF Flat!Published, RunsRecords
<1> QED
  BY <1>2, <1>3

(* A batch leaves tables that agree, and that hold what the flat index would. *)
LEMMA BatchKeeps ==
    ASSUME NEW batch, IsSequence(batch), NEW withKeys,
           RowsOK(db), AgreeWith(db, keyed),
           keyed = [keys |-> keyed.keys, later |-> keyed.later],
           \A n \in DOMAIN batch :
              /\ batch[n].id \in Ids /\ batch[n].vector \in Vectors \cap Finite
              /\ Dim[batch[n].vector] = db.dimension /\ IsMetadata(batch[n].metadata)
    PROVE  LET d == Replaced(batch, withKeys)[Len(batch)]
               s == Remembered(batch, withKeys)[Len(batch)] IN
           /\ RowsOK(d) /\ AgreeWith(d, s) /\ d.dimension = db.dimension
           /\ s = [keys |-> s.keys, later |-> s.later]
           /\ RecordsOf(d) = Flat!Published(batch)[Len(batch)]
<1> DEFINE L == Len(batch)
           a == Replaced(batch, withKeys)
           h == Remembered(batch, withKeys)
           c == Flat!Published(batch)
           Keys(n) == KeysOf(batch[n], withKeys)
           Good(n) == /\ RowsOK(a[n]) /\ AgreeWith(a[n], h[n])
                      /\ a[n].dimension = db.dimension
                      /\ h[n] = [keys |-> h[n].keys, later |-> h[n].later]
                      /\ RecordsOf(a[n]) = c[n]
<1>1. L \in Nat /\ DOMAIN batch = 1 .. L
  BY DEF IsSequence
<1>2. /\ RunsTables(batch, withKeys, L, a) /\ RunsHistory(batch, withKeys, L, h)
      /\ RunsRecords(batch, L, c)
  BY <1>1, ReplacedUnfolds, RememberedUnfolds, PublishedUnfolds
<1> HIDE DEF L, a, h, c
<1>3. /\ a[0] = db /\ h[0] = keyed /\ c[0] = records
      /\ \A n \in 1 .. L : /\ a[n] = replaceRecord(a[n - 1], batch[n], Keys(n))
                           /\ h[n] = Remember(h[n - 1], batch[n].id, Keys(n))
                           /\ c[n] = Flat!With(c[n - 1], batch[n])
  <2>1. 0 \in 0 .. L /\ \A n \in 1 .. L : n \in 0 .. L /\ n # 0
    BY <1>1
  <2>2. a = [n \in 0 .. L |-> IF n = 0 THEN db ELSE replaceRecord(a[n - 1], batch[n], Keys(n))]
    BY <1>2 DEF RunsTables
  <2>3. h = [n \in 0 .. L |-> IF n = 0 THEN keyed ELSE Remember(h[n - 1], batch[n].id, Keys(n))]
    BY <1>2 DEF RunsHistory
  <2>4. c = [n \in 0 .. L |-> IF n = 0 THEN records ELSE Flat!With(c[n - 1], batch[n])]
    BY <1>2 DEF RunsRecords
  <2> HIDE DEF Keys
  <2>5. a[0] = db /\ \A n \in 1 .. L : a[n] = replaceRecord(a[n - 1], batch[n], Keys(n))
    BY <2>1, <2>2
  <2>6. h[0] = keyed /\ \A n \in 1 .. L : h[n] = Remember(h[n - 1], batch[n].id, Keys(n))
    BY <2>1, <2>3
  <2>7. c[0] = records /\ \A n \in 1 .. L : c[n] = Flat!With(c[n - 1], batch[n])
    BY <2>1, <2>4
  <2> QED
    BY <2>5, <2>6, <2>7
<1>4. Good(0)
  BY <1>3 DEF records
<1>5. ASSUME NEW n \in 1 .. L, Good(n - 1) PROVE Good(n)
  <2>1. /\ RowsOK(a[n]) /\ AgreeWith(a[n], h[n])
        /\ a[n].dimension = a[n - 1].dimension
        /\ RecordsOf(a[n]) = Flat!With(RecordsOf(a[n - 1]), batch[n])
    <3>1. /\ batch[n].id \in Ids /\ batch[n].vector \in Vectors \cap Finite
          /\ Dim[batch[n].vector] = a[n - 1].dimension /\ IsMetadata(batch[n].metadata)
      BY <1>1, <1>5
    <3> DEFINE d == a[n - 1]
               s == h[n - 1]
               r == batch[n]
               ks == Keys(n)
    <3>2. RowsOK(d) /\ AgreeWith(d, s)
      BY <1>5
    <3>3. a[n] = replaceRecord(d, r, ks) /\ h[n] = Remember(s, r.id, ks)
      BY <1>3
    <3> HIDE DEF d, s, r, ks
    <3>4. /\ RowsOK(replaceRecord(d, r, ks))
          /\ AgreeWith(replaceRecord(d, r, ks), Remember(s, r.id, ks))
          /\ replaceRecord(d, r, ks).dimension = d.dimension
          /\ RecordsOf(replaceRecord(d, r, ks)) = Flat!With(RecordsOf(d), r)
      BY <3>1, <3>2, ReplaceKeeps DEF d, r
    <3> QED
      BY <3>3, <3>4 DEF d, r
  <2>2. h[n] = [keys |-> h[n].keys, later |-> h[n].later]
    <3> DEFINE K == Remember(h[n - 1], batch[n].id, Keys(n))
    <3>1. K = [keys |-> K.keys, later |-> K.later]
      BY DEF Remember
    <3> HIDE DEF K, Keys
    <3> QED
      BY <1>3, <3>1 DEF K
  <2>3. c[n] = Flat!With(c[n - 1], batch[n])
    BY <1>3
  <2> QED
    BY <1>5, <2>1, <2>2, <2>3
<1> DEFINE Bad == {n \in 0 .. L : ~Good(n)}
<1>6. ASSUME Bad # {} PROVE FALSE
  <2>1. PICK n \in Bad : \A m \in Bad : n <= m
    <3>1. Bad \in SUBSET Nat
      BY <1>1
    <3> HIDE DEF Bad
    <3> QED
      BY <1>6, <3>1, LeastNatural
  <2>2. n \in 0 .. L /\ ~Good(n)
    BY <2>1
  <2>3. n # 0
    BY <1>4, <2>2
  <2>4. n \in 1 .. L /\ n - 1 \in 0 .. L /\ ~(n <= n - 1)
    BY <1>1, <2>2, <2>3
  <2> HIDE DEF Good
  <2>5. Good(n - 1)
    BY <2>1, <2>4
  <2> QED
    BY <1>5, <2>2, <2>4, <2>5
<1>7. L \in 0 .. L
  BY <1>1
<1>8. Good(L)
  <2> HIDE DEF Good
  <2> QED
    BY <1>6, <1>7
<1> QED
  BY <1>8 DEF L, a, h, c

-----------------------------------------------------------------------------
(* Lookups.                                                                *)

\* The parts of lookupIds.
Eligible(query, n) ==
    {m \in DOMAIN query : Cardinality({l \in db.lookup : l.key = query[m]}) <= n}
MatchedBy(query, n, r) ==
    {m \in Eligible(query, n) : [id |-> r.id, key |-> query[m]] \in db.lookup}
RankedBy(query, n) ==
    {p \in db.vec \X Eligible(query, n) :
        p[2] \in MatchedBy(query, n, p[1]) /\ \A m \in MatchedBy(query, n, p[1]) : p[2] <= m}
RankOrder(S) ==
    {p \in S \X S : \/ p[1][2] < p[2][2]
                    \/ p[1][2] = p[2][2] /\ p[1][1].rowid < p[2][1].rowid}

(* A lookup lists the rows that match, each with its first key, in order. *)
LEMMA LookupListsRows ==
    ASSUME NEW keys, IsSequence(keys), NEW n, RowsOK(db)
    PROVE  LET ranked == RankedBy(Unique(keys), n)
               rows == Sorted(ranked, RankOrder(ranked))
               c == Cardinality(ranked) IN
           /\ c \in Nat /\ rows \in [1 .. c -> ranked]
           /\ \A p \in ranked : \E j \in 1 .. c : rows[j] = p
           /\ \A i, j \in 1 .. c : <<rows[i], rows[j]>> \in RankOrder(ranked) <=> i < j
           /\ \A p, q \in ranked : p[1].id = q[1].id => p = q
           /\ lookupIds(keys, n) = [j \in 1 .. c |-> rows[j][1].id]
           /\ lookupIds(keys, n) \in Seq(Ids)
<1> DEFINE query == Unique(keys)
           ranked == RankedBy(query, n)
           rows == Sorted(ranked, RankOrder(ranked))
           c == Cardinality(ranked)
<1>1. DOMAIN query \in SUBSET Nat
  BY UniqueKeepsValues
<1>2. \A p \in ranked : /\ p[1] \in db.vec /\ p[2] \in Nat /\ p = <<p[1], p[2]>>
                        /\ p[1].id \in Ids /\ p[1].rowid \in Nat
  <2> HIDE DEF query
  <2> QED
    BY <1>1 DEF RankedBy, Eligible, RowsOK
<1>3. ASSUME NEW p \in ranked, NEW q \in ranked, p[1] = q[1] PROVE p = q
  <2>1. p[2] <= q[2] /\ q[2] <= p[2]
    <3> HIDE DEF query
    <3> QED
      BY <1>3 DEF RankedBy
  <2> HIDE DEF query, ranked
  <2> QED
    BY <1>2, <1>3, <2>1
<1> HIDE DEF query, ranked
<1>4. \A p, q \in ranked : p[1].id = q[1].id \/ p[1].rowid = q[1].rowid => p = q
  BY <1>2, <1>3 DEF RowsOK
<1>5. IsFiniteSet(ranked)
  <2> DEFINE f == [p \in ranked |-> p[1]]
  <2>1. f \in Injection(ranked, db.vec)
    BY <1>2, <1>3 DEF Injection, IsInjective
  <2>2. IsFiniteSet(db.vec)
    BY DEF RowsOK
  <2> HIDE DEF f
  <2> QED
    BY <2>1, <2>2, FS_Injection
<1>6. StrictOrder(ranked, RankOrder(ranked))
  <2>1. \A p \in ranked : <<p, p>> \notin RankOrder(ranked)
    BY <1>2 DEF RankOrder
  <2>2. \A p, q \in ranked : <<p, q>> \in RankOrder(ranked) <=>
              \/ p[2] < q[2]
              \/ p[2] = q[2] /\ p[1].rowid < q[1].rowid
    BY DEF RankOrder
  <2>3. ASSUME NEW p \in ranked, NEW q \in ranked, p # q
        PROVE  <<p, q>> \in RankOrder(ranked) \/ <<q, p>> \in RankOrder(ranked)
    <3>1. p[1].rowid # q[1].rowid
      BY <1>4, <2>3
    <3>2. p[2] \in Nat /\ q[2] \in Nat /\ p[1].rowid \in Nat /\ q[1].rowid \in Nat
      BY <1>2
    <3> QED
      BY <2>2, <3>1, <3>2
  <2>4. \A p, q, r \in ranked : <<p, q>> \in RankOrder(ranked) /\ <<q, r>> \in RankOrder(ranked)
                                   => <<p, r>> \in RankOrder(ranked)
    BY <1>2, <2>2
  <2> QED
    BY <2>1, <2>3, <2>4 DEF StrictOrder
<1>7. /\ c \in Nat /\ rows \in [1 .. c -> ranked]
      /\ \A p \in ranked : \E j \in 1 .. c : rows[j] = p
      /\ \A i, j \in 1 .. c : <<rows[i], rows[j]>> \in RankOrder(ranked) <=> i < j
  BY <1>5, <1>6, SortedIsInOrder
<1>8. lookupIds(keys, n) = [j \in DOMAIN rows |-> rows[j][1].id]
  BY DEF lookupIds, query, ranked, RankedBy, MatchedBy, Eligible, RankOrder
<1> HIDE DEF rows, c
<1>9. lookupIds(keys, n) = [j \in 1 .. c |-> rows[j][1].id]
  BY <1>7, <1>8
<1>10. lookupIds(keys, n) \in Seq(Ids)
  <2>1. \A j \in 1 .. c : rows[j][1].id \in Ids
    BY <1>2, <1>7
  <2> QED
    BY <1>7, <1>9, <2>1
<1> QED
  BY <1>4, <1>7, <1>9, <1>10 DEF query, ranked, rows, c

(* The rows of a lookup key are the records last inserted with it. *)
LEMMA LookupRowsAreKeys ==
    ASSUME RowsOK(db), AgreeWith(db, keyed), NEW k
    PROVE  /\ \A r \in db.vec : r.id \in DOMAIN keyed.keys
           /\ \A i \in DOMAIN keyed.keys :
                 [id |-> i, key |-> k] \in db.lookup <=> k \in keyed.keys[i]
           /\ Cardinality({l \in db.lookup : l.key = k}) =
                 Cardinality({i \in DOMAIN keyed.keys : k \in keyed.keys[i]})
<1> DEFINE holders == {i \in DOMAIN keyed.keys : k \in keyed.keys[i]}
           having == {l \in db.lookup : l.key = k}
           f == [i \in holders |-> [id |-> i, key |-> k]]
           g == [r \in db.vec |-> r.id]
<1>1. DOMAIN keyed.keys = {r.id : r \in db.vec}
  BY DEF AgreeWith
<1>2. db.lookup = UNION {LookupRows(i, keyed.keys[i]) : i \in DOMAIN keyed.keys}
  BY DEF AgreeWith
<1>3. \A l : l \in db.lookup <=> \E i \in DOMAIN keyed.keys : \E j \in keyed.keys[i] :
                                    l = [id |-> i, key |-> j]
  BY <1>2 DEF LookupRows
<1>4. \A i \in DOMAIN keyed.keys : [id |-> i, key |-> k] \in db.lookup <=> k \in keyed.keys[i]
  BY <1>3
<1>5. f \in Bijection(holders, having)
  <2>1. \A i \in holders : f[i] \in having
    BY <1>3
  <2>2. \A l \in having : \E i \in holders : f[i] = l
    BY <1>3
  <2>3. \A i, j \in holders : f[i] = f[j] => i = j
    OBVIOUS
  <2> QED
    BY <2>1, <2>2, <2>3 DEF Bijection, Injection, Surjection, IsInjective
<1>6. IsFiniteSet(holders)
  <2>1. g \in Surjection(db.vec, DOMAIN keyed.keys)
    BY <1>1 DEF Surjection
  <2>2. IsFiniteSet(DOMAIN keyed.keys)
    BY <2>1, FS_Surjection DEF RowsOK
  <2> QED
    BY <2>2, FS_Subset
<1>7. Cardinality(having) = Cardinality(holders)
  <2> HIDE DEF holders, having, f
  <2> QED
    BY <1>5, <1>6, FS_Bijection DEF ExistsBijection
<1> QED
  BY <1>1, <1>4, <1>7

(* Tables that agree rank lookups by the keys of the last insertion, and by
   when that was. *)
LEMMA AgreeingTablesRank ==
    ASSUME RowsOK(db), AgreeWith(db, keyed)
    PROVE  LookupIsRanked
<1> SUFFICES ASSUME NEW keys \in LookupQueries, NEW n \in Frequencies
             PROVE  LET query == Unique(keys)
                        rare == {m \in DOMAIN query :
                                   Cardinality({i \in DOMAIN keyed.keys :
                                                  query[m] \in keyed.keys[i]}) <= n}
                        matched(i) == {m \in rare : query[m] \in keyed.keys[i]}
                        ids == lookupIds(keys, n) IN
                    /\ ToSet(ids) = {i \in DOMAIN keyed.keys : matched(i) # {}}
                    /\ \A a, b \in DOMAIN ids : a < b =>
                          /\ ids[a] # ids[b]
                          /\ \E m \in matched(ids[a]) : \A l \in matched(ids[b]) :
                                m < l \/ (m = l /\ <<ids[a], ids[b]>> \in keyed.later)
  BY DEF LookupIsRanked
<1> DEFINE query == Unique(keys)
           rare == {m \in DOMAIN query :
                      Cardinality({i \in DOMAIN keyed.keys : query[m] \in keyed.keys[i]}) <= n}
           matched(i) == {m \in rare : query[m] \in keyed.keys[i]}
           ids == lookupIds(keys, n)
           ranked == RankedBy(query, n)
           rows == Sorted(ranked, RankOrder(ranked))
           c == Cardinality(ranked)
<1>1. IsSequence(keys)
  BY SqliteVectorAssumption DEF IsSequence
<1>2. DOMAIN query \in SUBSET Nat
  BY <1>1, UniqueKeepsValues
<1>3. Eligible(query, n) = rare
  <2> DEFINE Having(m) == Cardinality({l \in db.lookup : l.key = query[m]})
             OfKeys(m) == Cardinality({i \in DOMAIN keyed.keys : query[m] \in keyed.keys[i]})
  <2>1. ASSUME NEW m \in DOMAIN query PROVE Having(m) = OfKeys(m)
    <3> DEFINE k == query[m]
    <3>1. Cardinality({l \in db.lookup : l.key = k}) =
             Cardinality({i \in DOMAIN keyed.keys : k \in keyed.keys[i]})
      <4> HIDE DEF k
      <4> QED
        BY LookupRowsAreKeys
    <3> QED
      BY <3>1
  <2>2. /\ Eligible(query, n) = {m \in DOMAIN query : Having(m) <= n}
        /\ rare = {m \in DOMAIN query : OfKeys(m) <= n}
    BY DEF Eligible
  <2> HIDE DEF rare, query, Having, OfKeys
  <2> QED
    BY <2>1, <2>2
<1> HIDE DEF rare, query
<1>4. \A r \in db.vec : r.id \in DOMAIN keyed.keys /\ MatchedBy(query, n, r) = matched(r.id)
  BY <1>3, LookupRowsAreKeys DEF MatchedBy
<1>5. /\ c \in Nat /\ rows \in [1 .. c -> ranked]
      /\ \A p \in ranked : \E j \in 1 .. c : rows[j] = p
      /\ \A i, j \in 1 .. c : <<rows[i], rows[j]>> \in RankOrder(ranked) <=> i < j
      /\ \A p, q \in ranked : p[1].id = q[1].id => p = q
      /\ ids = [j \in 1 .. c |-> rows[j][1].id]
  BY <1>1, LookupListsRows DEF query
<1>6. rare \in SUBSET Nat
  BY <1>2 DEF rare
<1> HIDE DEF matched
<1>7. \A p : p \in ranked <=> /\ p \in db.vec \X rare
                              /\ p[2] \in matched(p[1].id)
                              /\ \A m \in matched(p[1].id) : p[2] <= m
  BY <1>3, <1>4 DEF RankedBy
<1>8. \A i : matched(i) \in SUBSET rare
  BY DEF matched
<1> HIDE DEF ranked, rows, c, ids
<1>9. ASSUME NEW j \in 1 .. c
      PROVE  /\ rows[j] \in ranked /\ ids[j] = rows[j][1].id
             /\ rows[j][1] \in db.vec /\ rows[j][2] \in Nat
             /\ rows[j][2] \in matched(ids[j])
             /\ \A m \in matched(ids[j]) : rows[j][2] <= m
             /\ ids[j] \in DOMAIN keyed.keys
  <2>1. rows[j] \in ranked /\ ids[j] = rows[j][1].id
    BY <1>5
  <2> QED
    BY <1>4, <1>6, <1>7, <2>1
<1>10. ASSUME NEW i \in DOMAIN keyed.keys, matched(i) # {} PROVE \E j \in 1 .. c : ids[j] = i
  <2>1. PICK r \in db.vec : r.id = i
    BY DEF AgreeWith
  <2>2. PICK m \in matched(i) : \A l \in matched(i) : m <= l
    BY <1>6, <1>8, <1>10, LeastNatural
  <2>3. <<r, m>> \in ranked
    BY <1>7, <1>8, <2>1, <2>2
  <2>4. PICK j \in 1 .. c : rows[j] = <<r, m>>
    BY <1>5, <2>3
  <2> QED
    BY <1>9, <2>1, <2>4
<1>11. DOMAIN ids = 1 .. c
  BY <1>5
<1>12. ToSet(ids) = {i \in DOMAIN keyed.keys : matched(i) # {}}
  BY <1>9, <1>10, <1>11 DEF ToSet
<1>13. ASSUME NEW a \in 1 .. c, NEW b \in 1 .. c, a < b
       PROVE  /\ ids[a] # ids[b]
              /\ \E m \in matched(ids[a]) : \A l \in matched(ids[b]) :
                    m < l \/ (m = l /\ <<ids[a], ids[b]>> \in keyed.later)
  <2>1. <<rows[a], rows[b]>> \in RankOrder(ranked) /\ <<rows[b], rows[a]>> \notin RankOrder(ranked)
    BY <1>5, <1>13
  <2>2. \/ rows[a][2] < rows[b][2]
        \/ rows[a][2] = rows[b][2] /\ rows[a][1].rowid < rows[b][1].rowid
    BY <2>1 DEF RankOrder
  <2>3. rows[a][1].rowid < rows[b][1].rowid => <<ids[a], ids[b]>> \in keyed.later
    BY <1>9 DEF AgreeWith
  <2>4. ids[a] # ids[b]
    BY <1>5, <1>9, <2>1
  <2>5. ASSUME NEW l \in matched(ids[b])
        PROVE  \/ rows[a][2] < l
               \/ rows[a][2] = l /\ <<ids[a], ids[b]>> \in keyed.later
    <3>1. l \in Nat /\ rows[b][2] <= l /\ rows[a][2] \in Nat /\ rows[b][2] \in Nat
      BY <1>6, <1>8, <1>9
    <3> QED
      BY <2>2, <2>3, <3>1
  <2>6. rows[a][2] \in matched(ids[a])
    BY <1>9
  <2> QED
    BY <2>4, <2>5, <2>6
<1> QED
  BY <1>11, <1>12, <1>13 DEF ids, matched, rare, query

-----------------------------------------------------------------------------
(* The invariant.                                                          *)

(* What a record of a batch is, when its vectors are valid. *)
LEMMA BatchIsChecked ==
    ASSUME NEW batch \in Batches, \A n \in DOMAIN batch : Valid(batch[n].vector)
    PROVE  /\ IsSequence(batch)
           /\ \A n \in DOMAIN batch :
                 /\ batch[n].id \in Ids /\ batch[n].vector \in Vectors \cap Finite
                 /\ Dim[batch[n].vector] = db.dimension /\ IsMetadata(batch[n].metadata)
BY SqliteVectorAssumption DEF IsSequence, Valid

(* An empty database. *)
LEMMA NothingAgrees ==
    /\ RowsOK(EmptyDb) /\ AgreeWith(EmptyDb, Nothing) /\ EmptyDb.dimension = 0
    /\ Nothing = [keys |-> Nothing.keys, later |-> Nothing.later]
    /\ RecordsOf(EmptyDb) = Flat!Empty
<1>1. RowsOK(EmptyDb)
  BY FS_EmptySet DEF RowsOK, EmptyDb
<1>2. AgreeWith(EmptyDb, Nothing)
  BY DEF AgreeWith, EmptyDb, Nothing
<1>3. RecordsOf(EmptyDb) = Flat!Empty
  BY DEF RecordsOf, EmptyDb, Flat!Empty
<1> QED
  BY <1>1, <1>2, <1>3 DEF EmptyDb, Nothing

\* The part of the invariant that a step rests on.
Tables ==
    /\ RowsOK(db) /\ AgreeWith(db, keyed)
    /\ db.dimension \in {0} \cup {Dim[v] : v \in Vectors}
    /\ keyed = [keys |-> keyed.keys, later |-> keyed.later]

Control == open \in BOOLEAN /\ faults \in 0 .. MaxFaults /\ found \in Seq(Ids)

(* A batch that is inserted, and a deletion, keep the tables. *)
LEMMA InsertKeepsTables ==
    ASSUME Tables, Control, NEW batch \in Batches, NEW withKeys, InsertWith(batch, withKeys)
    PROVE  Tables' /\ Control'
<1>1. CASE \A n \in DOMAIN batch : Valid(batch[n].vector)
  <2> DEFINE d == Replaced(batch, withKeys)[Len(batch)]
             s == Remembered(batch, withKeys)[Len(batch)]
  <2>1. db' = d /\ keyed' = s /\ found' = <<>> /\ UNCHANGED <<open, faults>>
    BY <1>1 DEF InsertWith, Answered
  <2>2. /\ RowsOK(d) /\ AgreeWith(d, s) /\ d.dimension = db.dimension
        /\ s = [keys |-> s.keys, later |-> s.later]
    BY <1>1, BatchIsChecked, BatchKeeps DEF Tables
  <2> HIDE DEF d, s
  <2>3. RowsOK(db') /\ AgreeWith(db', keyed')
    BY <2>1, <2>2
  <2>4. Tables'
    BY <2>1, <2>2, <2>3 DEF Tables
  <2>5. Control'
    BY <2>1 DEF Control
  <2> QED
    BY <2>4, <2>5
<1>2. CASE ~(\A n \in DOMAIN batch : Valid(batch[n].vector))
  <2>1. UNCHANGED <<db, keyed, open, faults>> /\ found' = <<>>
    BY <1>2 DEF InsertWith, Refused, Answered
  <2> QED
    BY <2>1 DEF Tables, Control
<1> QED
  BY <1>1, <1>2

LEMMA FailureIsCounted ==
    ASSUME Control, Failed
    PROVE  Control'
<1>1. faults + 1 \in 0 .. MaxFaults
  BY SqliteVectorAssumption DEF Failed, Control
<1> QED
  BY <1>1 DEF Failed, Control

LEMMA DeleteKeepsTables ==
    ASSUME Tables, Control, NEW rows \in SUBSET db.vec, DeleteSelected(rows)
    PROVE  Tables' /\ Control'
<1> DEFINE e == DeleteRows(db, rows)
           s == Forget(keyed, {r.id : r \in rows})
<1>1. db' = e /\ keyed' = s /\ open' = open
  BY DEF DeleteSelected, Answered, Failed
<1>0. faults' \in 0 .. MaxFaults /\ found' \in Seq(Ids)
  <2>1. CASE found' = <<>> /\ UNCHANGED faults
    <3>1. <<>> \in Seq(Ids)
      OBVIOUS
    <3> QED
      BY <2>1, <3>1 DEF Control
  <2>2. CASE Failed
    BY <2>2, FailureIsCounted DEF Control
  <2>3. (found' = <<>> /\ UNCHANGED faults) \/ Failed
    BY DEF DeleteSelected, Answered
  <2> QED
    BY <2>1, <2>2, <2>3
<1>2. RowsOK(e) /\ AgreeWith(e, s) /\ e.dimension = db.dimension
  BY DeleteRowsKeeps DEF Tables
<1>3. s = [keys |-> s.keys, later |-> s.later]
  BY DEF Forget
<1> HIDE DEF e, s
<1>4. RowsOK(db') /\ AgreeWith(db', keyed')
  BY <1>1, <1>2
<1>5. Tables'
  BY <1>1, <1>2, <1>3, <1>4 DEF Tables
<1>6. Control'
  BY <1>0, <1>1 DEF Control
<1> QED
  BY <1>5, <1>6

(* Opening sets the dimension of an empty database, or leaves it. *)
LEMMA OpeningKeepsTables ==
    ASSUME Tables, Control, NEW d \in {Dim[v] : v \in Vectors}, Initialize(d)
    PROVE  Tables' /\ Control' /\ RecordsOf(db') = RecordsOf(db)
<1>1. CASE db.dimension \in {0, d}
  <2>1. db' = [db EXCEPT !.dimension = d] /\ UNCHANGED <<found, faults, keyed>> /\ open' = TRUE
    BY <1>1 DEF Initialize
  <2>2. db = [dimension |-> db.dimension, vec |-> db.vec, meta |-> db.meta, lookup |-> db.lookup]
    BY DEF Tables, RowsOK
  <2>3. /\ db'.vec = db.vec /\ db'.meta = db.meta /\ db'.lookup = db.lookup /\ db'.dimension = d
        /\ db' = [dimension |-> db'.dimension, vec |-> db'.vec, meta |-> db'.meta,
                  lookup |-> db'.lookup]
    BY <2>1, <2>2
  <2>4. \A r \in db.vec : Dim[r.embedding] = d
    BY <1>1, SqliteVectorAssumption DEF Tables, RowsOK
  <2>5. RowsOK(db')
    BY <2>3, <2>4 DEF Tables, RowsOK
  <2>6. AgreeWith(db', keyed')
    BY <2>1, <2>3 DEF Tables, AgreeWith
  <2>7. Tables'
    BY <2>1, <2>3, <2>5, <2>6 DEF Tables
  <2>8. Control'
    BY <2>1 DEF Control
  <2>9. RecordsOf(db') = RecordsOf(db)
    BY <2>3 DEF RecordsOf
  <2> QED
    BY <2>7, <2>8, <2>9
<1>2. CASE db.dimension \notin {0, d}
  <2>1. UNCHANGED <<db, open, found, faults, keyed>>
    BY <1>2 DEF Initialize
  <2> QED
    BY <2>1 DEF Tables, Control
<1> QED
  BY <1>1, <1>2

(* Closing keeps a persistent database and drops another. *)
LEMMA DisposeKeepsTables ==
    ASSUME Tables, Control, Dispose
    PROVE  Tables' /\ Control'
<1>1. /\ db' = IF Persistent THEN db ELSE EmptyDb
      /\ keyed' = IF Persistent THEN keyed ELSE Nothing
      /\ open' = FALSE /\ UNCHANGED <<found, faults>>
  BY DEF Dispose
<1>2. RowsOK(db') /\ AgreeWith(db', keyed')
  BY <1>1, NothingAgrees DEF Tables
<1>3. Tables'
  BY <1>1, <1>2, NothingAgrees DEF Tables
<1>4. Control'
  BY <1>1 DEF Control
<1> QED
  BY <1>3, <1>4

LEMMA SqliteStep ==
    ASSUME Tables, Control, [SqliteNext]_sqliteVars
    PROVE  Tables' /\ Control'
<1>1. ASSUME UNCHANGED <<db, keyed>>, open' \in BOOLEAN, faults' \in 0 .. MaxFaults,
             found' \in Seq(Ids)
      PROVE  Tables' /\ Control'
  BY <1>1 DEF Tables, Control
<1>2. ASSUME UNCHANGED <<db, keyed, open, faults>>, found' = <<>>
      PROVE  Tables' /\ Control'
  BY <1>2 DEF Tables, Control
<1>3. ASSUME NEW d \in {Dim[v] : v \in Vectors}, Initialize(d) PROVE Tables' /\ Control'
  BY <1>3, OpeningKeepsTables
<1>4. ASSUME NEW b \in Batches, Insert(b) \/ InsertKeyed(b) PROVE Tables' /\ Control'
  BY <1>4, InsertKeepsTables DEF Insert, InsertKeyed
<1>5. ASSUME NEW i \in Ids, Read(i) PROVE Tables' /\ Control'
  BY <1>2, <1>5 DEF Read, Answered
<1>6. ASSUME NEW q \in Queries, NEW f \in Filters, NEW n \in Limits, Search(q, n, f)
      PROVE  Tables' /\ Control'
  BY <1>2, <1>6 DEF Search, Answered
<1>7. ASSUME NEW q \in Queries, NEW ids \in IdLists, SearchByIds(q, ids)
      PROVE  Tables' /\ Control'
  BY <1>2, <1>7 DEF SearchByIds, Answered
<1>8. ASSUME NEW ids \in DeleteLists, NEW f \in Filters, Delete(ids, f)
      PROVE  Tables' /\ Control'
  <2>1. CASE ToSet(ids) # {} /\ ~FitsBind(ids, f)
    BY <1>2, <1>8, <2>1 DEF Delete, Refused, Answered
  <2>2. CASE ~(ToSet(ids) # {} /\ ~FitsBind(ids, f))
    <3>1. DeleteSelected(WithId(db, ToSet(ids)) \cap SelectedBy(db, f))
      BY <1>8, <2>2 DEF Delete
    <3>2. WithId(db, ToSet(ids)) \cap SelectedBy(db, f) \in SUBSET db.vec
      BY DEF WithId
    <3> QED
      BY <3>1, <3>2, DeleteKeepsTables
  <2> QED
    BY <2>1, <2>2
<1>9. ASSUME NEW f \in Filters, DeleteWhere(f) PROVE Tables' /\ Control'
  <2>1. CASE DOMAIN f = {}
    BY <1>2, <1>9, <2>1 DEF DeleteWhere, Refused, Answered
  <2>2. CASE DOMAIN f # {}
    <3>1. DeleteSelected(SelectedBy(db, f)) /\ SelectedBy(db, f) \in SUBSET db.vec
      BY <1>9, <2>2 DEF DeleteWhere, SelectedBy
    <3> QED
      BY <3>1, DeleteKeepsTables
  <2> QED
    BY <2>1, <2>2
<1>10. ASSUME NEW f \in Filters, Stats(f) PROVE Tables' /\ Control'
  BY <1>2, <1>10 DEF Stats, Answered
<1>11. ASSUME NEW keys \in LookupQueries, NEW n \in Frequencies, LookupIds(keys, n)
       PROVE  Tables' /\ Control'
  <2>1. IsSequence(keys)
    BY SqliteVectorAssumption DEF IsSequence
  <2>2. lookupIds(keys, n) \in Seq(Ids)
    BY <2>1, LookupListsRows DEF Tables
  <2> QED
    BY <1>1, <1>11, <2>2 DEF LookupIds, Control
<1>12. ASSUME Clear PROVE Tables' /\ Control'
  BY <1>12, DeleteKeepsTables DEF Clear
<1>13. ASSUME Dispose PROVE Tables' /\ Control'
  BY <1>13, DisposeKeepsTables
<1>14. ASSUME UseDisposed PROVE Tables' /\ Control'
  BY <1>2, <1>14 DEF UseDisposed, Refused, Answered
<1>15. ASSUME Fails \/ \E b \in Batches : InsertFails(b) PROVE Tables' /\ Control'
  <2>1. UNCHANGED <<db, keyed>> /\ Failed
    BY <1>15 DEF Fails, InsertFails, RolledBack
  <2>2. Control'
    BY <2>1, FailureIsCounted
  <2>3. Tables'
    BY <2>1 DEF Tables
  <2> QED
    BY <2>2, <2>3
<1>16. ASSUME UNCHANGED sqliteVars PROVE Tables' /\ Control'
  BY <1>1, <1>16 DEF sqliteVars, Control
<1> QED
  BY <1>3, <1>4, <1>5, <1>6, <1>7, <1>8, <1>9, <1>10, <1>11, <1>12, <1>13, <1>14, <1>15,
     <1>16 DEF SqliteNext

LEMMA TablesInvariant == SqliteSpec => [](Tables /\ Control)
<1>1. SqliteInit => Tables /\ Control
  <2> SUFFICES ASSUME SqliteInit PROVE Tables /\ Control
    OBVIOUS
  <2>1. db = EmptyDb /\ keyed = Nothing /\ open = FALSE /\ faults = 0 /\ found = <<>>
    BY DEF SqliteInit
  <2>2. Tables
    BY <2>1, NothingAgrees DEF Tables
  <2>3. Control
    <3>1. 0 \in 0 .. MaxFaults
      BY SqliteVectorAssumption
    <3>2. <<>> \in Seq(Ids)
      OBVIOUS
    <3> QED
      BY <2>1, <3>1, <3>2 DEF Control
  <2> QED
    BY <2>2, <2>3
<1>2. Tables /\ Control /\ [SqliteNext]_sqliteVars => (Tables /\ Control)'
  BY SqliteStep
<1> QED
  BY <1>1, <1>2, PTL DEF SqliteSpec

(* The tables agree with each other and with the history of insertions, and
   lookups are ranked by it. *)
THEOREM SqliteInvariantHolds == SqliteSpec => []SqliteInvariant
<1>1. Tables /\ Control => SqliteInvariant
  <2>1. Tables /\ Control => SqliteTypeOK
    BY DEF Tables, Control, SqliteTypeOK
  <2>2. Tables => TablesAgree
    BY DEF Tables, TablesAgree
  <2>3. Tables => LookupIsRanked
    BY AgreeingTablesRank DEF Tables
  <2> QED
    BY <2>1, <2>2, <2>3 DEF SqliteInvariant
<1> QED
  BY <1>1, TablesInvariant, PTL

-----------------------------------------------------------------------------
(* The refinement.                                                         *)

(* The operators that both modules take from a third are the same. *)
LEMMA SharedOperators ==
    ASSUME NEW S, NEW R
    PROVE  /\ Flat!Cardinality(S) = Cardinality(S)
           /\ Flat!ToSet(S) = ToSet(S)
           /\ Flat!Sorted(S, R) = Sorted(S, R)
<1>1. Flat!Cardinality(S) = Cardinality(S)
  BY DEF Flat!Cardinality, Cardinality
<1>2. Flat!ToSet(S) = ToSet(S)
  BY DEF Flat!ToSet, ToSet
<1>3. Flat!Sorted(S, R) = Sorted(S, R)
  BY DEF Flat!Sorted, Sorted, Flat!Cardinality, Cardinality
<1> QED
  BY <1>1, <1>2, <1>3

(* The encoding of a scalar gives it back. *)
LEMMA EncodingIsOneToOne ==
    ASSUME NEW s, NEW t, IsScalar(s), IsScalar(t), encodeScalar(s) = encodeScalar(t)
    PROVE  s = t
<1>1. s = [kind |-> s.kind, value |-> s.value] /\ t = [kind |-> t.kind, value |-> t.value]
  BY DEF IsScalar
<1>2. s.kind = t.kind
  BY DEF encodeScalar
<1>3. s.kind = "string" => s.value = t.value
  BY <1>2 DEF encodeScalar
<1>4. s.kind \in {"number", "boolean"} => s.value = t.value
  BY <1>2 DEF encodeScalar
<1>5. s.kind = "null" => s.value = t.value
  BY <1>2 DEF IsScalar
<1>6. s.value = t.value
  BY <1>3, <1>4, <1>5 DEF IsScalar
<1> QED
  BY <1>1, <1>2, <1>6

(* The records of the tables. *)
LEMMA RecordsOfTables ==
    ASSUME Tables
    PROVE  /\ DOMAIN records = {r.id : r \in db.vec}
           /\ \A r \in db.vec :
                 records[r.id] = [vector |-> r.embedding, metadata |-> r.metadata_json]
BY RecordOfRow DEF Tables, records, RecordsOf

(* A filter selects by metadata rows what the flat index selects by metadata. *)
LEMMA SelectionIsScope ==
    ASSUME Tables, NEW f \in Filters
    PROVE  {r.id : r \in SelectedBy(db, f)} = Flat!InScope(f)
<1>1. IsMetadata(f)
  BY SqliteVectorAssumption
<1>2. db.meta = UNION {MetaRows(r.id, r.metadata_json) : r \in db.vec}
  BY DEF Tables, AgreeWith
<1>3. \A m : m \in db.meta <=> \E r \in db.vec : m \in MetaRows(r.id, r.metadata_json)
  BY <1>2
<1>4. ASSUME NEW r \in db.vec, NEW k \in DOMAIN f
      PROVE  (\E m \in db.meta : m.id = r.id /\ m.key = k /\ m.scalar = encodeScalar(f[k]))
                <=> k \in DOMAIN r.metadata_json /\ r.metadata_json[k] = f[k]
  <2> DEFINE row(x) == [id |-> r.id, key |-> k, scalar |-> x]
  <2>1. ASSUME NEW m \in db.meta, m.id = r.id, m.key = k, m.scalar = encodeScalar(f[k])
        PROVE  k \in DOMAIN r.metadata_json /\ r.metadata_json[k] = f[k]
    <3>1. PICK t \in db.vec : m \in MetaRows(t.id, t.metadata_json)
      BY <1>3
    <3>2. t = r
      BY <2>1, <3>1, RowsNameTheirRecord DEF Tables, RowsOK
    <3>3. k \in DOMAIN r.metadata_json /\ m.scalar = encodeScalar(r.metadata_json[k])
      BY <2>1, <3>1, <3>2 DEF MetaRows
    <3>4. IsScalar(r.metadata_json[k]) /\ IsScalar(f[k])
      BY <1>1, <3>3 DEF Tables, RowsOK, IsMetadata
    <3> QED
      BY <2>1, <3>3, <3>4, EncodingIsOneToOne
  <2>2. ASSUME k \in DOMAIN r.metadata_json, r.metadata_json[k] = f[k]
        PROVE  \E m \in db.meta : m.id = r.id /\ m.key = k /\ m.scalar = encodeScalar(f[k])
    <3> DEFINE m == [id |-> r.id, key |-> k, scalar |-> encodeScalar(r.metadata_json[k])]
    <3>1. m \in MetaRows(r.id, r.metadata_json)
      BY <2>2 DEF MetaRows
    <3>2. m \in db.meta
      BY <1>3, <3>1
    <3>3. m.id = r.id /\ m.key = k /\ m.scalar = encodeScalar(f[k])
      BY <2>2
    <3> QED
      BY <3>2, <3>3
  <2> QED
    BY <2>1, <2>2
<1>5. ASSUME NEW r \in db.vec
      PROVE  r \in SelectedBy(db, f) <=> Flat!matches(r.metadata_json, f)
  BY <1>4 DEF SelectedBy, Flat!matches
<1>6. ASSUME NEW r \in db.vec
      PROVE  r.id \in DOMAIN records /\ records[r.id].metadata = r.metadata_json
  <2>1. records[r.id] = [vector |-> r.embedding, metadata |-> r.metadata_json]
    BY RecordsOfTables
  <2>2. r.id \in DOMAIN records
    BY RecordsOfTables
  <2> QED
    BY <2>1, <2>2
<1>7. SelectedBy(db, f) \subseteq db.vec
  BY DEF SelectedBy
<1>8. Flat!InScope(f) = {i \in DOMAIN records : Flat!matches(records[i].metadata, f)}
  BY DEF Flat!InScope
<1>9. \A i \in DOMAIN records : \E r \in db.vec : r.id = i
  BY RecordsOfTables
<1> QED
  BY <1>5, <1>6, <1>7, <1>8, <1>9

(* As many rows as ids. *)
LEMMA RowsCountIds ==
    ASSUME Tables, NEW rows \in SUBSET db.vec
    PROVE  Cardinality({r.id : r \in rows}) = Cardinality(rows)
<1> DEFINE T == {r.id : r \in rows}
           f == [r \in rows |-> r.id]
<1>1. f \in Bijection(rows, T)
  BY DEF Tables, RowsOK, Bijection, Injection, Surjection, IsInjective
<1>2. IsFiniteSet(rows)
  BY FS_Subset DEF Tables, RowsOK
<1> HIDE DEF T, f
<1>3. Cardinality(T) = Cardinality(rows)
  BY <1>1, <1>2, FS_Bijection DEF ExistsBijection
<1> QED
  BY <1>3 DEF T

(* A row's hit is its record's. *)
LEMMA HitOfRow ==
    ASSUME Tables, NEW q, NEW r \in db.vec
    PROVE  Hit(q, r) = Flat!Hit(q, r.id)
<1>1. records[r.id] = [vector |-> r.embedding, metadata |-> r.metadata_json]
  BY RecordsOfTables
<1>2. records[r.id].vector = r.embedding /\ records[r.id].metadata = r.metadata_json
  BY <1>1
<1> QED
  BY <1>2 DEF Hit, Flat!Hit

(* Deleting rows is removing their records. *)
LEMMA DeletingRemoves ==
    ASSUME Tables, NEW rows \in SUBSET db.vec, DeleteSelected(rows)
    PROVE  Flat!RemoveRecords({r.id : r \in rows})
<1>1. /\ open /\ db' = DeleteRows(db, rows)
      /\ \/ answer' = <<"count", Cardinality(rows)>> /\ UNCHANGED <<open, faults>>
         \/ Failed
  BY DEF DeleteSelected, Answered
<1>2. /\ db'.dimension = db.dimension
      /\ RecordsOf(db') = [i \in DOMAIN RecordsOf(db) \ {r.id : r \in rows} |-> RecordsOf(db)[i]]
  BY <1>1, DeleteRowsKeeps DEF Tables
<1> DEFINE gone == {r.id : r \in rows}
<1>3. Flat!Cardinality(gone) = Cardinality(rows)
  BY RowsCountIds, SharedOperators
<1> HIDE DEF gone
<1>4. records' = Flat!Without(gone)
  BY <1>2 DEF records, Flat!Without, gone
<1>5. Flat!Answered(<<"count", Flat!Cardinality(gone)>>) \/ Flat!Failed
  BY <1>1, <1>2, <1>3 DEF Flat!Answered, Failed, Flat!Failed
<1>6. Flat!RemoveRecords(gone)
  BY <1>1, <1>4, <1>5 DEF Flat!RemoveRecords
<1> QED
  BY <1>6 DEF gone

-----------------------------------------------------------------------------
(* Search by ids.                                                          *)

Parts(ids) == chunks(Unique(ids), MaxBind - 1)
PartHits(q, ids) ==
    UNION {{[part |-> c, hit |-> Hit(q, r)] : r \in WithId(db, Parts(ids)[c])} :
               c \in DOMAIN Parts(ids)}
PartOrder(S) ==
    {p \in S \X S : \/ Closer(p[1].hit, p[2].hit)
                    \/ p[1].hit = p[2].hit /\ p[1].part < p[2].part}

(* The parts hold the ids, each in one of them. *)
LEMMA PartsPartition ==
    ASSUME NEW ids, IsSequence(ids)
    PROVE  /\ \A c \in DOMAIN Parts(ids) : Parts(ids)[c] \subseteq ToSet(ids)
           /\ \A i \in ToSet(ids) : \E c \in DOMAIN Parts(ids) : i \in Parts(ids)[c]
           /\ \A c, e \in DOMAIN Parts(ids) :
                 Parts(ids)[c] \cap Parts(ids)[e] # {} => c = e
           /\ \A c \in DOMAIN Parts(ids) : ~(c < c)
<1> DEFINE u == Unique(ids)
           part(n) == (n - 1) \div (MaxBind - 1)
           parts == Parts(ids)
<1>1. /\ \A n \in DOMAIN u : \E m \in DOMAIN ids : u[n] = ids[m]
      /\ \A m \in DOMAIN ids : \E n \in DOMAIN u : u[n] = ids[m]
      /\ \A m, n \in DOMAIN u : u[m] = u[n] => m = n
      /\ DOMAIN u \in SUBSET Nat
      /\ \A n \in DOMAIN u : n >= 1
  BY UniqueKeepsValues
<1>2. /\ DOMAIN parts = {part(n) : n \in DOMAIN u}
      /\ \A c \in DOMAIN parts : parts[c] = {u[n] : n \in {m \in DOMAIN u : part(m) = c}}
  BY DEF Parts, chunks
<1>3. \A n \in DOMAIN u : part(n) \in Nat
  <2> DEFINE size == MaxBind - 1
  <2>1. size \in Nat \ {0}
    BY SqliteVectorAssumption
  <2> HIDE DEF size, u
  <2>2. ASSUME NEW n \in DOMAIN u PROVE (n - 1) \div size \in Nat
    <3> DEFINE x == n - 1
    <3>1. x \in Nat
      BY <1>1
    <3> HIDE DEF x
    <3>2. x \div size \in Nat
      BY <2>1, <3>1
    <3> QED
      BY <3>2 DEF x
  <2> QED
    BY <2>2 DEF size
<1> HIDE DEF u, part, parts
<1>4. ToSet(ids) = {u[n] : n \in DOMAIN u}
  BY <1>1 DEF ToSet
<1>5. \A c \in DOMAIN parts : parts[c] \subseteq ToSet(ids)
  BY <1>2, <1>4
<1>6. \A i \in ToSet(ids) : \E c \in DOMAIN parts : i \in parts[c]
  BY <1>2, <1>4
<1>7. \A c, e \in DOMAIN parts : parts[c] \cap parts[e] # {} => c = e
  BY <1>1, <1>2
<1>8. \A c \in DOMAIN parts : ~(c < c)
  BY <1>2, <1>3
<1> QED
  BY <1>5, <1>6, <1>7, <1>8 DEF parts

(* The hits of the parts, sorted together, are those of the flat index. *)
LEMMA PartsAreSearched ==
    ASSUME Tables, NEW q \in Queries, Valid(q), NEW ids \in IdLists
    PROVE  LET hits == PartHits(q, ids)
               rows == Sorted(hits, PartOrder(hits)) IN
           [n \in DOMAIN rows |-> rows[n].hit] =
               Flat!Hits(q, ToSet(ids) \cap DOMAIN records)
<1> DEFINE S == PartHits(q, ids)
           R == PartOrder(S)
           T == {Flat!Hit(q, i) : i \in ToSet(ids) \cap DOMAIN records}
           Q == {p \in T \X T : Closer(p[1], p[2])}
           f == [h \in S |-> h.hit]
           parts == Parts(ids)
           rows == Sorted(S, R)
<1>1. IsSequence(ids)
  BY SqliteVectorAssumption DEF IsSequence
<1>2. /\ \A c \in DOMAIN parts : parts[c] \subseteq ToSet(ids)
      /\ \A i \in ToSet(ids) : \E c \in DOMAIN parts : i \in parts[c]
      /\ \A c, e \in DOMAIN parts : parts[c] \cap parts[e] # {} => c = e
      /\ \A c \in DOMAIN parts : ~(c < c)
  BY <1>1, PartsPartition
<1>3. DOMAIN records = {r.id : r \in db.vec}
  BY RecordsOfTables
<1>4. \A h : h \in S <=> \E c \in DOMAIN parts : \E r \in db.vec :
                            r.id \in parts[c] /\ h = [part |-> c, hit |-> Hit(q, r)]
  <2>1. \A c \in DOMAIN parts : WithId(db, parts[c]) = {r \in db.vec : r.id \in parts[c]}
    BY DEF WithId
  <2> QED
    BY <2>1 DEF PartHits
<1>5. ASSUME NEW r \in db.vec
      PROVE  /\ Hit(q, r) = Flat!Hit(q, r.id) /\ Hit(q, r).id = r.id
             /\ Hit(q, r).id \in Nat /\ Hit(q, r).distance \in Nat
  <2>1. Hit(q, r).id = r.id /\ Hit(q, r).distance = Distance[q][r.embedding]
    BY DEF Hit
  <2>2. r.id \in Nat /\ r.embedding \in Vectors \cap Finite /\ Dim[r.embedding] = db.dimension
    BY SqliteVectorAssumption DEF Tables, RowsOK
  <2>3. Distance[q][r.embedding] \in Nat
    BY <2>2, SqliteVectorAssumption DEF Valid
  <2> QED
    BY <2>1, <2>2, <2>3, HitOfRow
<1> HIDE DEF S, parts
<1>6. ASSUME NEW h \in S
      PROVE  \E c \in DOMAIN parts : \E r \in db.vec :
                r.id \in parts[c] /\ h.part = c /\ h.hit = Hit(q, r)
                /\ h = [part |-> h.part, hit |-> h.hit]
  BY <1>4
<1>7. \A h \in S : f[h] \in T /\ h.hit.id \in Nat /\ h.hit.distance \in Nat
  <2>1. ASSUME NEW h \in S PROVE f[h] \in T /\ h.hit.id \in Nat /\ h.hit.distance \in Nat
    <3>1. PICK c \in DOMAIN parts, r \in db.vec : r.id \in parts[c] /\ h.hit = Hit(q, r)
      BY <1>6
    <3>2. r.id \in ToSet(ids) \cap DOMAIN records
      BY <1>2, <1>3, <3>1
    <3> QED
      BY <1>5, <3>1, <3>2
  <2> QED
    BY <2>1
<1>8. ASSUME NEW g \in S, NEW h \in S, g.hit.id = h.hit.id PROVE g = h
  <2>1. PICK c \in DOMAIN parts, r \in db.vec :
           r.id \in parts[c] /\ g = [part |-> c, hit |-> Hit(q, r)]
    BY <1>4
  <2>2. PICK e \in DOMAIN parts, t \in db.vec :
           t.id \in parts[e] /\ h = [part |-> e, hit |-> Hit(q, t)]
    BY <1>4
  <2>3. r.id = t.id
    BY <1>5, <1>8, <2>1, <2>2
  <2>4. r = t
    BY <2>3 DEF Tables, RowsOK
  <2>5. c = e
    BY <1>2, <2>1, <2>2, <2>3
  <2> QED
    BY <2>1, <2>2, <2>4, <2>5
<1>9. \A t \in T : \E h \in S : f[h] = t
  <2>1. ASSUME NEW i \in ToSet(ids) \cap DOMAIN records
        PROVE  \E h \in S : h.hit = Flat!Hit(q, i)
    <3>1. PICK r \in db.vec : r.id = i
      BY <1>3
    <3>2. PICK c \in DOMAIN parts : i \in parts[c]
      BY <1>2
    <3>3. [part |-> c, hit |-> Hit(q, r)] \in S
      BY <1>4, <3>1, <3>2
    <3> QED
      BY <1>5, <3>1, <3>3
  <2> QED
    BY <2>1
<1>10. f \in [S -> T]
  BY <1>7
<1> HIDE DEF T
<1>11. IsFiniteSet(S)
  <2> DEFINE g == [h \in S |-> h.hit.id]
             V == DOMAIN records
  <2>1. IsFiniteSet(V)
    <3> DEFINE k == [r \in db.vec |-> r.id]
    <3>1. k \in Surjection(db.vec, V)
      BY <1>3 DEF Surjection
    <3> QED
      BY <3>1, FS_Surjection DEF Tables, RowsOK
  <2>2. \A h \in S : h.hit.id \in V
    BY <1>3, <1>5, <1>6
  <2>3. g \in Injection(S, V)
    <3> HIDE DEF V
    <3> QED
      BY <1>8, <2>2 DEF Injection, IsInjective
  <2> HIDE DEF g, V
  <2> QED
    BY <2>1, <2>3, FS_Injection
<1>12. ASSUME NEW g \in S, NEW h \in S
       PROVE  <<g, h>> \in R <=> Closer(g.hit, h.hit)
  <2>1. g.hit = h.hit => g = h
    BY <1>8
  <2>2. ~(g.part < g.part)
    BY <1>2, <1>6
  <2> QED
    BY <2>1, <2>2 DEF PartOrder
<1>13. StrictOrder(S, R)
  <2>1. \A g, h \in S : Closer(g.hit, h.hit) <=>
              \/ g.hit.distance < h.hit.distance
              \/ g.hit.distance = h.hit.distance /\ g.hit.id < h.hit.id
    BY DEF Closer
  <2> HIDE DEF R
  <2>2. \A h \in S : <<h, h>> \notin R
    BY <1>7, <1>12, <2>1
  <2>3. \A g, h, k \in S : <<g, h>> \in R /\ <<h, k>> \in R => <<g, k>> \in R
    BY <1>7, <1>12, <2>1
  <2>4. ASSUME NEW g \in S, NEW h \in S, g # h PROVE <<g, h>> \in R \/ <<h, g>> \in R
    <3>1. g.hit.id # h.hit.id
      BY <1>8, <2>4
    <3>2. /\ g.hit.id \in Nat /\ g.hit.distance \in Nat
          /\ h.hit.id \in Nat /\ h.hit.distance \in Nat
      BY <1>7
    <3> QED
      BY <1>12, <2>1, <3>1, <3>2
  <2> QED
    BY <2>2, <2>3, <2>4 DEF StrictOrder
<1>14. \A g, h \in S : f[g] = f[h] => g = h
  BY <1>8
<1>15. ASSUME NEW g \in S, NEW h \in S PROVE <<g, h>> \in R <=> <<f[g], f[h]>> \in Q
  <2>1. f[g] = g.hit /\ f[h] = h.hit /\ f[g] \in T /\ f[h] \in T
    BY <1>7
  <2> HIDE DEF R, f
  <2> QED
    BY <1>12, <2>1
<1> HIDE DEF R, Q, f
<1>16. Sorted(T, Q) = [n \in DOMAIN Sorted(S, R) |-> f[Sorted(S, R)[n]]]
  BY <1>9, <1>10, <1>11, <1>13, <1>14, <1>15, SortedImage
<1>17. \A n \in DOMAIN rows : f[rows[n]] = rows[n].hit
  <2>1. rows \in [1 .. Cardinality(S) -> S]
    BY <1>11, <1>13, SortedIsInOrder
  <2> HIDE DEF rows
  <2> QED
    BY <2>1 DEF f
<1>18. Flat!Hits(q, ToSet(ids) \cap DOMAIN records) = Sorted(T, Q)
  <2>1. Flat!Hits(q, ToSet(ids) \cap DOMAIN records) = Flat!Sorted(T, Q)
    BY DEF Flat!Hits, Flat!Nearest, Flat!Closer, Closer, T, Q
  <2> QED
    BY <2>1, SharedOperators
<1> HIDE DEF rows
<1>19. [n \in DOMAIN rows |-> rows[n].hit] = Sorted(T, Q)
  BY <1>16, <1>17 DEF rows
<1> QED
  BY <1>18, <1>19 DEF rows, R, S

-----------------------------------------------------------------------------
(* Every step is one of the flat index, or leaves it as it is.             *)

(* A call that changes no table, and what it answers. *)
LEMMA AnsweringChangesNothing ==
    ASSUME NEW a, Answered(a), UNCHANGED db
    PROVE  Flat!Answered(a) /\ UNCHANGED records
BY DEF Answered, Flat!Answered, records

LEMMA RefusingRefuses ==
    ASSUME Refused
    PROVE  Flat!Refused
BY DEF Refused, Answered, Flat!Refused, Flat!Answered, records

LEMMA OpeningOpens ==
    ASSUME Tables, Control, NEW d \in {Dim[v] : v \in Vectors}, Initialize(d)
    PROVE  Flat!OpenIndex(d)
<1>1. records' = records
  BY OpeningKeepsTables DEF records
<1>2. CASE db.dimension \in {0, d}
  <2>1. db'.dimension = d
    <3>1. db' = [db EXCEPT !.dimension = d] /\ "dimension" \in DOMAIN db
      BY <1>2 DEF Initialize, Tables, RowsOK
    <3> QED
      BY <3>1
  <2> QED
    BY <1>1, <1>2, <2>1 DEF Initialize, Flat!OpenIndex
<1>3. CASE db.dimension \notin {0, d}
  BY <1>1, <1>3 DEF Initialize, Flat!OpenIndex
<1> QED
  BY <1>2, <1>3

LEMMA DisposingDisposes ==
    ASSUME Dispose
    PROVE  Flat!Dispose
BY NothingAgrees DEF Dispose, Flat!Dispose, records

LEMMA InsertingInserts ==
    ASSUME Tables, Control, NEW batch \in Batches, NEW withKeys, InsertWith(batch, withKeys)
    PROVE  Flat!Insert(batch)
<1>1. \A v : Flat!Valid(v) <=> Valid(v)
  BY DEF Valid, Flat!Valid
<1>2. CASE \A n \in DOMAIN batch : Valid(batch[n].vector)
  <2> DEFINE d == Replaced(batch, withKeys)[Len(batch)]
  <2>1. open /\ db' = d /\ answer' = <<"done">> /\ UNCHANGED <<open, faults>>
    BY <1>2 DEF InsertWith, Answered
  <2>2. d.dimension = db.dimension /\ RecordsOf(d) = Flat!Published(batch)[Len(batch)]
    BY <1>2, BatchIsChecked, BatchKeeps DEF Tables
  <2> HIDE DEF d
  <2>3. records' = Flat!Published(batch)[Len(batch)]
    BY <2>1, <2>2 DEF records
  <2>4. Flat!Answered(<<"done">>)
    BY <2>1, <2>2 DEF Flat!Answered
  <2> QED
    BY <1>1, <1>2, <2>1, <2>3, <2>4 DEF Flat!Insert
<1>3. CASE ~(\A n \in DOMAIN batch : Valid(batch[n].vector))
  <2>1. open /\ Refused
    BY <1>3 DEF InsertWith
  <2> QED
    BY <1>1, <1>3, <2>1, RefusingRefuses DEF Flat!Insert
<1> QED
  BY <1>2, <1>3

LEMMA ReadingReads ==
    ASSUME Tables, NEW i \in Ids, Read(i)
    PROVE  Flat!Read(i)
<1> DEFINE rows == WithId(db, {i})
           row == CHOOSE r \in rows : TRUE
           mine == IF rows = {} THEN <<>>
                   ELSE <<[vector |-> row.embedding, metadata |-> row.metadata_json]>>
           its == IF i \in DOMAIN records THEN <<records[i]>> ELSE <<>>
<1>1. open /\ Answered(<<"record", mine>>) /\ UNCHANGED db
  BY DEF Read
<1>2. mine = its
  <2>1. CASE rows = {}
    <3>1. i \notin DOMAIN records
      BY <2>1, RecordsOfTables DEF WithId
    <3> QED
      BY <2>1, <3>1
  <2>2. CASE rows # {}
    <3>1. row \in rows
      BY <2>2
    <3> HIDE DEF row
    <3>2. row \in db.vec /\ row.id = i
      BY <3>1 DEF WithId
    <3>3. records[i] = [vector |-> row.embedding, metadata |-> row.metadata_json]
      BY <3>2, RecordsOfTables
    <3>4. i \in DOMAIN records
      BY <3>2, RecordsOfTables
    <3> QED
      BY <2>2, <3>3, <3>4
  <2> QED
    BY <2>1, <2>2
<1> HIDE DEF mine, its
<1>3. Flat!Answered(<<"record", its>>) /\ UNCHANGED records
  BY <1>1, <1>2, AnsweringChangesNothing
<1> QED
  BY <1>1, <1>3 DEF Flat!Read, its

LEMMA SearchingSearches ==
    ASSUME Tables, NEW q \in Queries, NEW f \in Filters, NEW n \in Limits, Search(q, n, f)
    PROVE  Flat!Search(q, n, f)
<1> DEFINE mine == {Hit(q, r) : r \in SelectedBy(db, f)}
           its == {Flat!Hit(q, i) : i \in Flat!InScope(f)}
           Order(S) == {p \in S \X S : Closer(p[1], p[2])}
           First(s) == SubSeq(s, 1, IF n < Len(s) THEN n ELSE Len(s))
<1>1. Flat!Valid(q) <=> Valid(q)
  BY DEF Valid, Flat!Valid
<1>2. mine = its
  <2>1. SelectedBy(db, f) \subseteq db.vec
    BY DEF SelectedBy
  <2>2. Flat!InScope(f) = {r.id : r \in SelectedBy(db, f)}
    BY SelectionIsScope
  <2>3. its = {Flat!Hit(q, r.id) : r \in SelectedBy(db, f)}
    BY <2>2
  <2> QED
    BY <2>1, <2>3, HitOfRow
<1>3. Flat!Hits(q, Flat!InScope(f)) = Sorted(its, Order(its))
  <2>1. Flat!Hits(q, Flat!InScope(f)) = Flat!Sorted(its, Order(its))
    BY DEF Flat!Hits, Flat!Nearest, Flat!Closer, Closer
  <2> HIDE DEF its, Order
  <2> QED
    BY <2>1, SharedOperators
<1>4. CASE Valid(q)
  <2>1. open /\ Answered(<<"hits", First(Sorted(mine, Order(mine)))>>) /\ UNCHANGED db
    BY <1>4 DEF Search
  <2> DEFINE hits == Flat!First(Flat!Hits(q, Flat!InScope(f)), n)
  <2>2. First(Sorted(mine, Order(mine))) = hits
    <3> HIDE DEF mine, its, Order
    <3> QED
      BY <1>2, <1>3 DEF Flat!First
  <2> HIDE DEF hits, mine, First, Order
  <2>3. Flat!Answered(<<"hits", hits>>) /\ UNCHANGED records
    BY <2>1, <2>2, AnsweringChangesNothing
  <2> QED
    BY <1>1, <1>4, <2>1, <2>3 DEF Flat!Search, hits
<1>5. CASE ~Valid(q)
  <2>1. open /\ Answered(<<"refused">>) /\ UNCHANGED db
    BY <1>5 DEF Search
  <2>2. Flat!Answered(<<"refused">>) /\ UNCHANGED records
    BY <2>1, AnsweringChangesNothing
  <2> QED
    BY <1>1, <1>5, <2>1, <2>2 DEF Flat!Search
<1> QED
  BY <1>4, <1>5

LEMMA SearchingByIdsDoes ==
    ASSUME Tables, NEW q \in Queries, NEW ids \in IdLists, SearchByIds(q, ids)
    PROVE  Flat!SearchByIds(q, ids)
<1> DEFINE parts == PartHits(q, ids)
           rows == Sorted(parts, PartOrder(parts))
           mine == [n \in DOMAIN rows |-> rows[n].hit]
           its == Flat!Hits(q, Flat!ToSet(ids) \cap DOMAIN records)
<1>1. Flat!Valid(q) <=> Valid(q)
  BY DEF Valid, Flat!Valid
<1>2. CASE Valid(q)
  <2>1. open /\ Answered(<<"hits", mine>>) /\ UNCHANGED db
    BY <1>2 DEF SearchByIds, Parts, PartHits, PartOrder
  <2>2. mine = its
    BY <1>2, PartsAreSearched, SharedOperators
  <2> HIDE DEF mine, its
  <2>3. Flat!Answered(<<"hits", its>>) /\ UNCHANGED records
    BY <2>1, <2>2, AnsweringChangesNothing
  <2> QED
    BY <1>1, <1>2, <2>1, <2>3 DEF Flat!SearchByIds, its
<1>3. CASE ~Valid(q)
  <2>1. open /\ Answered(<<"refused">>) /\ UNCHANGED db
    BY <1>3 DEF SearchByIds
  <2>2. Flat!Answered(<<"refused">>) /\ UNCHANGED records
    BY <2>1, AnsweringChangesNothing
  <2> QED
    BY <1>1, <1>3, <2>1, <2>2 DEF Flat!SearchByIds
<1> QED
  BY <1>2, <1>3

\* No list of ids to delete is too long for one statement.
DeletesFit == \A ids \in DeleteLists, f \in Filters : FitsBind(ids, f)

LEMMA DeletingDeletes ==
    ASSUME DeletesFit, Tables, NEW ids \in DeleteLists, NEW f \in Filters, Delete(ids, f)
    PROVE  Flat!Delete(ids, f)
<1> DEFINE rows == WithId(db, ToSet(ids)) \cap SelectedBy(db, f)
<1>1. DeleteSelected(rows) /\ rows \in SUBSET db.vec
  BY DEF Delete, DeletesFit, WithId
<1>2. {r.id : r \in rows} = ToSet(ids) \cap Flat!InScope(f)
  <2>1. Flat!InScope(f) = {r.id : r \in SelectedBy(db, f)}
    BY SelectionIsScope
  <2>2. \A r \in SelectedBy(db, f) : r \in rows <=> r.id \in ToSet(ids)
    BY DEF WithId, SelectedBy
  <2> QED
    BY <2>1, <2>2
<1>3. Flat!RemoveRecords({r.id : r \in rows})
  BY <1>1, DeletingRemoves
<1>4. Flat!RemoveRecords(Flat!ToSet(ids) \cap Flat!InScope(f))
  BY <1>2, <1>3, SharedOperators
<1> QED
  BY <1>4 DEF Flat!Delete

LEMMA DeletingWhereDoes ==
    ASSUME Tables, NEW f \in Filters, DeleteWhere(f)
    PROVE  Flat!DeleteWhere(f)
<1>1. CASE DOMAIN f = {}
  BY <1>1, RefusingRefuses DEF DeleteWhere, Flat!DeleteWhere
<1>2. CASE DOMAIN f # {}
  <2>1. open /\ DeleteSelected(SelectedBy(db, f)) /\ SelectedBy(db, f) \in SUBSET db.vec
    BY <1>2 DEF DeleteWhere, SelectedBy
  <2>2. Flat!RemoveRecords(Flat!InScope(f))
    BY <2>1, DeletingRemoves, SelectionIsScope
  <2> QED
    BY <1>2, <2>1, <2>2 DEF Flat!DeleteWhere
<1> QED
  BY <1>1, <1>2

LEMMA CountingCounts ==
    ASSUME Tables, NEW f \in Filters, Stats(f)
    PROVE  Flat!Stats(f)
<1>1. /\ open /\ UNCHANGED db
      /\ Answered(<<"count", Cardinality(SelectedBy(db, f))>>)
  BY DEF Stats
<1>2. SelectedBy(db, f) \in SUBSET db.vec
  BY DEF SelectedBy
<1>3. Flat!Cardinality(Flat!InScope(f)) = Cardinality(SelectedBy(db, f))
  BY <1>2, RowsCountIds, SelectionIsScope, SharedOperators
<1>4. Flat!Answered(<<"count", Flat!Cardinality(Flat!InScope(f))>>) /\ UNCHANGED records
  BY <1>1, <1>3, AnsweringChangesNothing
<1> QED
  BY <1>1, <1>4 DEF Flat!Stats

LEMMA ClearingClears ==
    ASSUME Tables, Clear
    PROVE  Flat!Clear
<1>1. Flat!RemoveRecords({r.id : r \in db.vec})
  BY DeletingRemoves DEF Clear
<1> QED
  BY <1>1, RecordsOfTables DEF Flat!Clear

LEMMA FailingFails ==
    ASSUME Fails \/ \E b \in Batches : InsertFails(b)
    PROVE  Flat!Fails
<1>1. open /\ Failed /\ UNCHANGED db
  BY DEF Fails, InsertFails, RolledBack
<1> QED
  BY <1>1 DEF Failed, Flat!Failed, Flat!Fails, records

LEMMA RefinementStep ==
    ASSUME DeletesFit, Tables, Control, [SqliteNext]_sqliteVars
    PROVE  [Flat!VectorNext]_Flat!indexVars
<1>1. ASSUME NEW d \in {Dim[v] : v \in Vectors}, Initialize(d) PROVE Flat!VectorNext
  BY <1>1, OpeningOpens DEF Flat!VectorNext
<1>2. ASSUME NEW b \in Batches, Insert(b) \/ InsertKeyed(b) PROVE Flat!VectorNext
  BY <1>2, InsertingInserts DEF Insert, InsertKeyed, Flat!VectorNext
<1>3. ASSUME NEW i \in Ids, Read(i) PROVE Flat!VectorNext
  BY <1>3, ReadingReads DEF Flat!VectorNext
<1>4. ASSUME NEW q \in Queries, NEW f \in Filters, NEW n \in Limits, Search(q, n, f)
      PROVE  Flat!VectorNext
  BY <1>4, SearchingSearches DEF Flat!VectorNext
<1>5. ASSUME NEW q \in Queries, NEW ids \in IdLists, SearchByIds(q, ids)
      PROVE  Flat!VectorNext
  BY <1>5, SearchingByIdsDoes DEF Flat!VectorNext
<1>6. ASSUME NEW ids \in DeleteLists, NEW f \in Filters, Delete(ids, f)
      PROVE  Flat!VectorNext
  BY <1>6, DeletingDeletes DEF Flat!VectorNext
<1>7. ASSUME NEW f \in Filters, DeleteWhere(f) \/ Stats(f) PROVE Flat!VectorNext
  BY <1>7, DeletingWhereDoes, CountingCounts DEF Flat!VectorNext
<1>8. ASSUME NEW keys \in LookupQueries, NEW n \in Frequencies, LookupIds(keys, n)
      PROVE  UNCHANGED Flat!indexVars
  BY <1>8 DEF LookupIds, Flat!indexVars, records
<1>9. ASSUME Clear \/ Dispose \/ UseDisposed \/ Fails \/ \E b \in Batches : InsertFails(b)
      PROVE  Flat!VectorNext
  BY <1>9, ClearingClears, DisposingDisposes, RefusingRefuses, FailingFails
  DEF UseDisposed, Flat!UseDisposed, Flat!VectorNext
<1>10. ASSUME UNCHANGED sqliteVars PROVE UNCHANGED Flat!indexVars
  BY <1>10 DEF sqliteVars, Flat!indexVars, records
<1> QED
  BY <1>1, <1>2, <1>3, <1>4, <1>5, <1>6, <1>7, <1>8, <1>9, <1>10 DEF SqliteNext

(* The database answers every call as the flat index does, provided no delete
   binds more values than a statement takes. *)
THEOREM SqliteRefinesFlat ==
    ASSUME DeletesFit
    PROVE  SqliteSpec => RefinesFlat
<1>1. SqliteInit => Flat!VectorInit
  BY NothingAgrees DEF SqliteInit, Flat!VectorInit, records
<1>2. Tables /\ Control /\ [SqliteNext]_sqliteVars => [Flat!VectorNext]_Flat!indexVars
  BY RefinementStep
<1> QED
  BY <1>1, <1>2, TablesInvariant, PTL DEF SqliteSpec, RefinesFlat, Flat!VectorSpec
=============================================================================
