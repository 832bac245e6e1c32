---------------------------- MODULE SqlPoolProofs ----------------------------
(***************************************************************************)
(* Proofs about SqlPool, for any number of contexts and pools and any      *)
(* bounds on jobs and faults.                                              *)
(*                                                                         *)
(* Each variable that contexts share is bound to the stage of the job that *)
(* put its value there.  The inductive invariant says so for one context   *)
(* at a time, and in both directions: what a stage must hold (HoldsLocks,  *)
(* HoldsHandles, AnnouncesItself) and at which stages something may be     *)
(* held at all (OwnsForAJob, OpensForAJob).  A step writes the job of its  *)
(* own context alone and, of the shared variables, only what that context  *)
(* holds or what nobody holds (Footprint): the other contexts keep their   *)
(* part for that reason alone, and only the context that steps needs one   *)
(* case per action.                                                        *)
(***************************************************************************)
EXTENDS SqlPool, TLAPS

Installed == {"opening", "pause"} \cup Connected

\* The stages of a migration that have the legacy pool's lock and handles.
LegacyLocked == Migrating \ {"legacyWait"}
LegacyInstalled == {"legacyImport", "legacyRelease", "legacyPause"}

\* The stages that only some kinds of job reach, and what kind has which pools.
JobFits(c) ==
    /\ stage[c] = "idle" => kind[c] = null /\ pool[c] = null
    /\ stage[c] # "idle" => kind[c] \in Kinds /\ pool[c] \in PoolsFor(kind[c])
    /\ stage[c] \in Installed \cup {"install", "acquire"} => kind[c] # "remove"
    /\ stage[c] \in Migrating => kind[c] \in {"open", "operation"}
    /\ stage[c] \in {"memory"} => kind[c] = "open"
    /\ stage[c] \in {"query"} => webLocks /\ kind[c] # "vector"
    /\ stage[c] \in {"mark"} => kind[c] = "operation"
    /\ stage[c] \in {"remove"} => kind[c] = "remove"

HoldsLocks(c) ==
    webLocks =>
        /\ stage[c] \in Leased => owner[pool[c]] = c
        /\ stage[c] \in LegacyLocked => owner[LegacyPool] = c

\* An operation past "mark" has announced itself, or gave up trying to.
AnnouncesItself(c) ==
    webLocks /\ kind[c] = "operation" /\ stage[c] \in Leased \ {"mark"} =>
        marker[pool[c]] = c \/ c \in unmarked

OwnsForAJob(c) ==
    \A p \in Pools :
        /\ owner[p] = c => \/ pool[c] = p /\ stage[c] \in Leased
                           \/ p = LegacyPool /\ stage[c] \in LegacyLocked
        /\ marker[p] = c => /\ kind[c] = "operation" /\ pool[c] = p
                            /\ stage[c] \in (Leased \ {"mark"}) \cup {"unmark"}

HoldsHandles(c) ==
    /\ stage[c] \in Installed => handles[pool[c]] = c /\ dir[pool[c]] # "absent"
    /\ stage[c] \in LegacyInstalled => handles[LegacyPool] = c /\ dir[LegacyPool] # "absent"

FindsItsPool(c) ==
    webLocks =>
        /\ kind[c] # "remove" /\ stage[c] \in UsesPool => dir[pool[c]] # "absent"
        /\ stage[c] \in UsesLegacy => dir[LegacyPool] # "absent"

OpensForAJob(c) ==
    \A p \in Pools : handles[p] = c =>
        \/ pool[c] = p /\ stage[c] \in Installed \cup {"memory"}
        \/ p = LegacyPool /\ stage[c] \in LegacyInstalled

\* What a migration may remove is what it imported, or an old build's write
\* after it let go of the handles.
HasImported(c) ==
    /\ stage[c] = "legacyRelease" =>
          dir[LegacyPool] # "shared" /\ dir[pool[c]] = dir[LegacyPool]
    /\ stage[c] = "legacyRemove" =>
          \/ c \in overtaken \/ ~HasDatabase(LegacyPool)
          \/ dir[LegacyPool] # "shared" /\ dir[pool[c]] = dir[LegacyPool]
    /\ stage[c] = "legacyRemoveRoot" => c \in overtaken \/ ~HasDatabase(LegacyPool)

ContextInvariant(c) ==
    /\ JobFits(c) /\ HoldsLocks(c) /\ AnnouncesItself(c) /\ OwnsForAJob(c)
    /\ HoldsHandles(c) /\ OpensForAJob(c) /\ FindsItsPool(c) /\ HasImported(c)

\* Without Web Locks nothing is ever held.
NoLocksWithoutWebLocks == ~webLocks => \A p \in Pools : owner[p] = null /\ marker[p] = null

OwnershipInvariant ==
    /\ SqlPoolTypeOK
    /\ NoLocksWithoutWebLocks
    /\ \A c \in Contexts : ContextInvariant(c)

-----------------------------------------------------------------------------

\* A step of the context c.
ContextStep(c) ==
    \/ \E k \in Kinds, p \in Pools : Request(c, k, p)
    \/ MigrateStarts(c) \/ Close(c) \/ CloseMemory(c) \/ Dies(c)
    \/ Step(c)

\* What is not c's stays as it is, except that what nobody holds may become c's.
Touches(c) ==
    /\ webLocks' = webLocks
    /\ ~webLocks => \A p \in Pools : /\ owner'[p] \in {owner[p], null}
                                     /\ marker'[p] \in {marker[p], null}
    /\ \A d \in Contexts \ {c} :
          /\ kind'[d] = kind[d] /\ pool'[d] = pool[d] /\ stage'[d] = stage[d]
          /\ d \in unmarked' <=> d \in unmarked
          /\ d \in overtaken => d \in overtaken'
    /\ \A p \in Pools :
          /\ \/ owner'[p] = owner[p]
             \/ owner[p] \in {c, null} /\ owner'[p] \in {c, null}
          /\ \/ marker'[p] = marker[p]
             \/ marker[p] \in {c, null} /\ marker'[p] \in {c, null}
          /\ \/ handles'[p] = handles[p]
             \/ handles[p] \in {c, null} /\ handles'[p] \in {c, null, Closing}
          /\ \/ dir'[p] = dir[p]
             \/ dir[p] = "absent" /\ dir'[p] = "empty"
             \/ handles[p] = null /\ dir'[p] \in {"absent", "empty"}
             \/ handles[p] = c /\ p \in SqlPools
             \/ /\ handles[p] = c /\ p = LegacyPool
                /\ \A d \in Contexts :
                      stage[d] \in {"legacyRemove", "legacyRemoveRoot"} => d \in overtaken'
          /\ webLocks /\ dir[p] # "absent" /\ dir'[p] = "absent" => owner[p] = c

(* What the types say of a value at a context or at a pool. *)
LEMMA Typed ==
    ASSUME SqlPoolTypeOK, NEW c \in Contexts, JobFits(c)
    PROVE  /\ stage[c] \in Stages
           /\ LegacyPool \in Pools
           /\ stage[c] # "idle" => pool[c] \in Pools
           /\ stage[c] \in Installed \cup {"install", "acquire"} =>
                 pool[c] \in Pools /\ pool[c] # LegacyPool
           /\ stage[c] \in Migrating => pool[c] \in SqlPools
PROOF
<1>1. stage[c] \in Stages /\ LegacyPool \in Pools
  BY DEF SqlPoolTypeOK, Pools
<1>2. stage[c] # "idle" => pool[c] \in Pools
  BY DEF JobFits, Kinds, PoolsFor, Pools
<1>3. stage[c] \in Migrating => pool[c] \in SqlPools
  BY DEF JobFits, PoolsFor, Migrating
<1>4. ASSUME stage[c] \in Installed \cup {"install", "acquire"} PROVE pool[c] # LegacyPool
  BY <1>4, SqlPoolConstants DEF JobFits, PoolsFor, Kinds, Installed, Connected, Migrating
<1>5. stage[c] \in Installed \cup {"install", "acquire"} => stage[c] # "idle"
  BY DEF Installed, Connected, Migrating
<1> QED
  BY <1>1, <1>2, <1>3, <1>4, <1>5

(* The Worker's end, and a refused open, give up what the context holds. *)
LEMMA EndTouches ==
    ASSUME SqlPoolTypeOK, NEW c \in Contexts, stage[c] # "idle" => pool[c] \in Pools,
           stage[c] # "idle", Ends(c) \/ Refused(c), UNCHANGED <<webLocks, dir, overtaken>>
    PROVE  Touches(c)
<1>1. CASE Ends(c)
  BY <1>1 DEF Touches, Ends, Goto, SqlPoolTypeOK
<1>2. CASE Refused(c)
  <2>1. CASE Ends(c)
    BY <2>1, <1>1
  <2>2. CASE ~Ends(c)
    BY <1>2, <2>2 DEF Touches, Refused, Goto, Free, SqlPoolTypeOK
  <2> QED
    BY <2>1, <2>2
<1> QED
  BY <1>1, <1>2

(* The footprint of a context's step. *)
LEMMA Footprint ==
    ASSUME SqlPoolTypeOK, NEW c \in Contexts, ContextInvariant(c), ContextStep(c)
    PROVE  Touches(c)
<1> USE DEF Goto, At
<1>1. /\ JobFits(c) /\ HoldsHandles(c)
      /\ stage[c] \in Stages /\ LegacyPool \in Pools
      /\ stage[c] # "idle" => pool[c] \in Pools
      /\ stage[c] \in Installed \cup {"install", "acquire"} => pool[c] \in Pools /\ pool[c] # LegacyPool
      /\ stage[c] \in Migrating => pool[c] \in SqlPools
  BY Typed DEF ContextInvariant
<1>2. ASSUME NEW k \in Kinds, NEW p \in Pools, Request(c, k, p) PROVE Touches(c)
  BY <1>2 DEF Request, Touches, SqlPoolTypeOK
<1>3. ASSUME MigrateStarts(c) \/ Close(c) \/ Opened(c) \/ LegacyCheck(c) PROVE Touches(c)
  <2>1. CASE MigrateStarts(c)
    BY <1>1, <2>1 DEF MigrateStarts, Touches, SqlPoolTypeOK
  <2>2. CASE Close(c)
    BY <1>1, <2>2 DEF Close, Touches, SqlPoolTypeOK
  <2>3. CASE Opened(c)
    BY <1>1, <2>3 DEF Opened, Touches, SqlPoolTypeOK
  <2>4. CASE LegacyCheck(c)
    BY <1>1, <2>4 DEF LegacyCheck, Touches, SqlPoolTypeOK
  <2> QED
    BY <1>3, <2>1, <2>2, <2>3, <2>4
<1>4. ASSUME CloseMemory(c) \/ Dies(c) \/ Unmark(c) \/ InstallGivesUp(c) \/ InstallFails(c)
      PROVE Touches(c)
  BY <1>1, <1>4, EndTouches DEF CloseMemory, Dies, Unmark, InstallGivesUp, InstallFails
<1>5. ASSUME WaitTimesOut(c) \/ Query(c) \/ OpenFails(c) PROVE Touches(c)
  <2>1. CASE (Ends(c) \/ Refused(c)) /\ UNCHANGED <<webLocks, dir, overtaken>> /\ stage[c] # "idle"
    BY <2>1, <1>1, EndTouches
  <2>2. CASE ~((Ends(c) \/ Refused(c)) /\ UNCHANGED <<webLocks, dir, overtaken>> /\ stage[c] # "idle")
    BY <1>5, <2>2 DEF WaitTimesOut, Query, OpenFails, Touches, SqlPoolTypeOK
  <2> QED
    BY <2>1, <2>2
<1>6. ASSUME Granted(c) \/ LegacyLock(c) PROVE Touches(c)
  <2>1. CASE Granted(c)
    BY <1>1, <2>1 DEF Granted, Grantable, Take, Touches, SqlPoolTypeOK
  <2>2. CASE LegacyLock(c)
    BY <1>1, <2>2 DEF LegacyLock, Grantable, Take, Touches, SqlPoolTypeOK
  <2> QED
    BY <1>6, <2>1, <2>2
<1>7. ASSUME MarkOperation(c) PROVE Touches(c)
  BY <1>1, <1>7 DEF MarkOperation, Grantable, Take, Touches, SqlPoolTypeOK
<1>8. ASSUME Unlock(c) \/ LegacyUnlock(c) PROVE Touches(c)
  <2>1. CASE Unlock(c)
    BY <1>1, <2>1 DEF Unlock, Free, Touches, SqlPoolTypeOK
  <2>2. CASE LegacyUnlock(c)
    BY <1>1, <2>2 DEF LegacyUnlock, Free, Touches, SqlPoolTypeOK
  <2> QED
    BY <1>8, <2>1, <2>2
<1>9. ASSUME Install(c) \/ Acquire(c) \/ LegacyInstall(c) \/ LegacyAcquire(c) PROVE Touches(c)
  <2>1. CASE Install(c)
    BY <1>1, <2>1 DEF Install, Created, Touches, SqlPoolTypeOK
  <2>2. CASE LegacyInstall(c)
    BY <1>1, <2>2 DEF LegacyInstall, Created, Touches, SqlPoolTypeOK
  <2>3. CASE Acquire(c)
    BY <1>1, <2>3 DEF Acquire, Touches, SqlPoolTypeOK
  <2>4. CASE LegacyAcquire(c)
    BY <1>1, <2>4 DEF LegacyAcquire, Touches, SqlPoolTypeOK
  <2> QED
    BY <1>9, <2>1, <2>2, <2>3, <2>4
<1>10. ASSUME Pause(c) \/ LegacyPause(c) \/ LegacyRelease(c) PROVE Touches(c)
  <2>1. /\ stage[c] = "pause" => handles[pool[c]] = c
        /\ stage[c] \in {"legacyPause", "legacyRelease"} => handles[LegacyPool] = c
    BY <1>1 DEF HoldsHandles, Installed, LegacyInstalled
  <2> QED
    BY <1>1, <1>10, <2>1 DEF Pause, LegacyPause, LegacyRelease, Touches, SqlPoolTypeOK
<1>11. ASSUME RemoveUnderLease(c) \/ LegacyRemove(c) \/ LegacyRemoveRoot(c) PROVE Touches(c)
  <2>1. /\ webLocks /\ stage[c] = "remove" => owner[pool[c]] = c
        /\ webLocks /\ stage[c] = "legacyRemoveRoot" => owner[LegacyPool] = c
    BY DEF ContextInvariant, HoldsLocks, Leased, LegacyLocked, Migrating
  <2>2. CASE RemoveUnderLease(c)
    BY <1>1, <2>1, <2>2 DEF RemoveUnderLease, Touches, SqlPoolTypeOK
  <2>3. CASE LegacyRemove(c)
    BY <1>1, <2>3 DEF LegacyRemove, Touches, SqlPoolTypeOK
  <2>4. CASE LegacyRemoveRoot(c)
    BY <1>1, <2>1, <2>4 DEF LegacyRemoveRoot, Touches, SqlPoolTypeOK
  <2> QED
    BY <1>11, <2>2, <2>3, <2>4
<1>12. ASSUME LegacyImport(c) PROVE Touches(c)
  <2>1. handles[pool[c]] = c /\ pool[c] \in SqlPools
    BY <1>1, <1>12 DEF LegacyImport, HoldsHandles, Installed, Connected, Migrating
  <2> QED
    BY <1>1, <1>12, <2>1, SqlPoolConstants DEF LegacyImport, HasDatabase, Copied, Touches, SqlPoolTypeOK
<1> QED
  BY <1>2, <1>3, <1>4, <1>5, <1>6, <1>7, <1>8, <1>9, <1>10, <1>11, <1>12 DEF ContextStep, Step

(* Whatever a holder does within its footprint, the contexts besides it keep
   what their jobs need: nobody takes a lock, handles or a directory in use. *)
LEMMA OthersKeep ==
    ASSUME OwnershipInvariant, NEW x \in Contexts \cup {Closing, OldBuild}, Touches(x),
           NEW d \in Contexts, d # x
    PROVE  ContextInvariant(d)'
<1>1. /\ ContextInvariant(d)
      /\ stage[d] \in Stages /\ LegacyPool \in Pools
      /\ stage[d] # "idle" => pool[d] \in Pools
      /\ stage[d] \in Installed \cup {"install", "acquire"} => pool[d] \in Pools /\ pool[d] # LegacyPool
      /\ stage[d] \in Migrating => pool[d] \in SqlPools
  BY Typed DEF OwnershipInvariant, ContextInvariant
<1>2. /\ kind'[d] = kind[d] /\ pool'[d] = pool[d] /\ stage'[d] = stage[d]
      /\ webLocks' = webLocks
      /\ d \in unmarked' <=> d \in unmarked
  BY DEF Touches
<1>3. d \notin {null, Closing, OldBuild, x}
  BY SqlPoolConstants
<1>4. \A p \in Pools :
         /\ owner[p] = d <=> owner'[p] = d
         /\ marker[p] = d <=> marker'[p] = d
         /\ handles[p] = d <=> handles'[p] = d
         /\ handles[p] = d /\ dir[p] # "absent" => dir'[p] = dir[p]
         /\ webLocks /\ owner[p] = d /\ dir[p] # "absent" => dir'[p] # "absent"
  BY <1>3 DEF Touches
<1>5. /\ HasDatabase(LegacyPool)' => \/ dir'[LegacyPool] = dir[LegacyPool]
                                     \/ stage[d] \in {"legacyRemove", "legacyRemoveRoot"} =>
                                           d \in overtaken'
      /\ d \in overtaken => d \in overtaken'
  BY <1>1, SqlPoolConstants DEF Touches, HasDatabase
<1>6. JobFits(d)'
  BY <1>1, <1>2 DEF ContextInvariant, JobFits
<1>7. stage[d] \in Leased => stage[d] # "idle"
  BY DEF Leased, Connected, Migrating
<1>8. HoldsLocks(d)'
  BY <1>1, <1>2, <1>4, <1>7 DEF ContextInvariant, HoldsLocks
<1>9. AnnouncesItself(d)'
  BY <1>1, <1>2, <1>4, <1>7 DEF ContextInvariant, AnnouncesItself
<1>10. OwnsForAJob(d)'
  BY <1>1, <1>2, <1>4 DEF ContextInvariant, OwnsForAJob
<1>11. HoldsHandles(d)'
  BY <1>1, <1>2, <1>4 DEF ContextInvariant, HoldsHandles
<1>12. OpensForAJob(d)'
  BY <1>1, <1>2, <1>4 DEF ContextInvariant, OpensForAJob
<1>13. HasImported(d)'
  <2>1. ASSUME stage[d] \in {"legacyRelease", "legacyRemove"} PROVE dir'[pool[d]] = dir[pool[d]]
    BY <1>1, <1>4, <2>1 DEF ContextInvariant, HoldsHandles, Installed, Connected, Migrating
  <2>2. ASSUME stage[d] = "legacyRelease" PROVE dir'[LegacyPool] = dir[LegacyPool]
    BY <1>1, <1>4, <2>2 DEF ContextInvariant, HoldsHandles, LegacyInstalled
  <2>3. HasImported(d)
    BY <1>1 DEF ContextInvariant
  <2>4. CASE dir'[LegacyPool] = dir[LegacyPool]
    BY <1>2, <1>5, <2>1, <2>3, <2>4 DEF HasImported, HasDatabase
  <2>5. CASE dir'[LegacyPool] # dir[LegacyPool]
    BY <1>2, <1>5, <2>2, <2>5 DEF HasImported
  <2> QED
    BY <2>4, <2>5
<1>14. FindsItsPool(d)'
  <2>1. UsesPool \subseteq Leased
    BY DEF UsesPool, Leased, Connected
  <2>2. UsesLegacy \subseteq LegacyLocked
    BY DEF UsesLegacy, LegacyLocked, Migrating
  <2> QED
    BY <1>1, <1>2, <1>4, <1>7, <2>1, <2>2 DEF ContextInvariant, FindsItsPool, HoldsLocks
<1> QED
  BY <1>6, <1>8, <1>9, <1>10, <1>11, <1>12, <1>13, <1>14 DEF ContextInvariant

(* A Worker that ends holds nothing. *)
LEMMA EndHoldsNothing ==
    ASSUME OwnershipInvariant, NEW c \in Contexts, Ends(c)
    PROVE  ContextInvariant(c)'
<1>1. stage'[c] = "idle" /\ kind'[c] = null /\ pool'[c] = null
  BY DEF OwnershipInvariant, SqlPoolTypeOK, Ends, Goto
<1>2. \A p \in Pools : owner'[p] # c /\ marker'[p] # c /\ handles'[p] # c
  BY SqlPoolConstants DEF OwnershipInvariant, SqlPoolTypeOK, Ends
<1>3. "idle" \notin Leased \cup Installed \cup Migrating \cup LegacyLocked
                      \cup LegacyInstalled \cup {"install", "acquire"}
                      \cup UsesPool \cup UsesLegacy
  BY DEF Leased, Installed, Connected, Migrating, LegacyLocked, LegacyInstalled,
         UsesPool, UsesLegacy
<1>4. JobFits(c)'
  BY <1>1, <1>3 DEF JobFits
<1>5. HoldsLocks(c)' /\ AnnouncesItself(c)'
  BY <1>1, <1>3 DEF HoldsLocks, AnnouncesItself
<1>6. OwnsForAJob(c)' /\ OpensForAJob(c)'
  BY <1>2 DEF OwnsForAJob, OpensForAJob
<1>7. HoldsHandles(c)' /\ FindsItsPool(c)' /\ HasImported(c)'
  BY <1>1, <1>3 DEF HoldsHandles, FindsItsPool, HasImported
<1> QED
  BY <1>4, <1>5, <1>6, <1>7 DEF ContextInvariant

(* A refused open keeps no lock; the handles it may keep are its own. *)
LEMMA RefusedHoldsNoLock ==
    ASSUME OwnershipInvariant, NEW c \in Contexts, Refused(c),
           UNCHANGED <<webLocks, dir, overtaken>>,
           stage[c] \in {"wait", "waitAgain", "query", "install", "acquire", "opening"}
    PROVE  ContextInvariant(c)'
<1>1. CASE Ends(c)
  BY <1>1, EndHoldsNothing
<1>2. CASE ~Ends(c)
  <2>1. /\ kind[c] = "open" /\ stage' = [stage EXCEPT ![c] = "memory"]
        /\ owner' = Free(owner, pool[c], c)
        /\ UNCHANGED <<marker, handles, kind, pool, unmarked>>
    BY <1>2 DEF Refused, Goto
  <2>2. /\ ContextInvariant(c) /\ stage'[c] = "memory"
        /\ pool[c] \in SqlPools /\ pool[c] \in Pools /\ pool[c] # LegacyPool
    BY <2>1, SqlPoolConstants
       DEF OwnershipInvariant, SqlPoolTypeOK, ContextInvariant, JobFits, PoolsFor, Pools
  <2>3. "memory" \notin Leased \cup Installed \cup Migrating \cup LegacyLocked
                          \cup LegacyInstalled \cup {"install", "acquire"}
                          \cup UsesPool \cup UsesLegacy
    BY DEF Leased, Installed, Connected, Migrating, LegacyLocked, LegacyInstalled,
         UsesPool, UsesLegacy
  <2>4. stage[c] \notin LegacyInstalled \cup LegacyLocked
    BY DEF LegacyInstalled, LegacyLocked, Migrating
  <2>5. JobFits(c)'
    BY <2>1, <2>2, <2>3 DEF ContextInvariant, JobFits, PoolsFor, Kinds
  <2>6. HoldsLocks(c)' /\ AnnouncesItself(c)'
    BY <2>2, <2>3 DEF HoldsLocks, AnnouncesItself
  <2>7. OwnsForAJob(c)'
    <3>1. \A p \in Pools : owner'[p] # c /\ marker'[p] # c
      BY <2>1, <2>2, <2>4, SqlPoolConstants
         DEF ContextInvariant, OwnsForAJob, Free, OwnershipInvariant, SqlPoolTypeOK
    <3> QED
      BY <3>1 DEF OwnsForAJob
  <2>8. OpensForAJob(c)'
    BY <2>1, <2>2, <2>4 DEF ContextInvariant, OpensForAJob
  <2>9. HoldsHandles(c)' /\ FindsItsPool(c)' /\ HasImported(c)'
    BY <2>2, <2>3 DEF HoldsHandles, FindsItsPool, HasImported
  <2> QED
    BY <2>5, <2>6, <2>7, <2>8, <2>9 DEF ContextInvariant
<1> QED
  BY <1>1, <1>2

(* Every step of a job keeps what its context holds in line with its stage. *)
LEMMA OwnStep ==
    ASSUME OwnershipInvariant, NEW c \in Contexts, ContextStep(c)
    PROVE  ContextInvariant(c)'
<1> USE SqlPoolConstants DEF Goto, At, Leased, Installed, Connected, Migrating,
                             LegacyLocked, LegacyInstalled, UsesPool, UsesLegacy
<1>1. /\ SqlPoolTypeOK /\ NoLocksWithoutWebLocks
      /\ JobFits(c) /\ HoldsLocks(c) /\ AnnouncesItself(c) /\ OwnsForAJob(c)
      /\ HoldsHandles(c) /\ OpensForAJob(c) /\ FindsItsPool(c) /\ HasImported(c)
      /\ stage[c] \in Stages /\ LegacyPool \in Pools
      /\ stage[c] # "idle" => pool[c] \in Pools
      /\ stage[c] \in Installed \cup {"install", "acquire"} => pool[c] \in Pools /\ pool[c] # LegacyPool
      /\ stage[c] \in Migrating => pool[c] \in SqlPools
  BY Typed DEF OwnershipInvariant, ContextInvariant
<1>2. ASSUME NEW k \in Kinds, NEW p \in Pools, Request(c, k, p) PROVE ContextInvariant(c)'
  <2>1. JobFits(c)'
    BY <1>1, <1>2 DEF Request, JobFits, SqlPoolTypeOK
  <2>2. HoldsLocks(c)' /\ AnnouncesItself(c)' /\ OwnsForAJob(c)'
    BY <1>1, <1>2 DEF Request, HoldsLocks, AnnouncesItself, OwnsForAJob, SqlPoolTypeOK
  <2>3. HoldsHandles(c)' /\ OpensForAJob(c)' /\ HasImported(c)'
    BY <1>1, <1>2 DEF Request, HoldsHandles, OpensForAJob, HasImported, SqlPoolTypeOK
  <2>4. FindsItsPool(c)'
    BY <1>1, <1>2 DEF Request, FindsItsPool, SqlPoolTypeOK
  <2> QED
    BY <2>1, <2>2, <2>3, <2>4 DEF ContextInvariant
<1>3. ASSUME CloseMemory(c) \/ Dies(c) \/ Unmark(c) PROVE ContextInvariant(c)'
  BY <1>3, EndHoldsNothing DEF CloseMemory, Dies, Unmark
<1>4. ASSUME InstallGivesUp(c) \/ InstallFails(c) PROVE ContextInvariant(c)'
  BY <1>4, RefusedHoldsNoLock DEF InstallGivesUp, InstallFails
<1>5. ASSUME WaitTimesOut(c) \/ Query(c) \/ OpenFails(c) PROVE ContextInvariant(c)'
  <2>1. CASE Refused(c)
    BY <1>5, <2>1, RefusedHoldsNoLock DEF WaitTimesOut, Query, OpenFails
  <2>2. CASE ~Refused(c)
    <3>1. /\ \/ stage[c] = "wait" /\ kind[c] # "vector" /\ stage'[c] = "query" /\ webLocks
             \/ stage[c] = "query" /\ stage'[c] = "waitAgain"
             \/ stage[c] = "opening" /\ stage'[c] = "pause"
          /\ UNCHANGED <<webLocks, owner, marker, handles, dir, kind, pool, unmarked>>
      BY <1>1, <1>5, <2>2 DEF WaitTimesOut, Query, OpenFails, SqlPoolTypeOK
    <3>2. JobFits(c)'
      BY <1>1, <3>1 DEF JobFits
    <3>3. HoldsLocks(c)' /\ AnnouncesItself(c)' /\ OwnsForAJob(c)'
      BY <1>1, <3>1 DEF HoldsLocks, AnnouncesItself, OwnsForAJob
    <3>4. HoldsHandles(c)' /\ OpensForAJob(c)' /\ FindsItsPool(c)' /\ HasImported(c)'
      BY <1>1, <3>1 DEF HoldsHandles, OpensForAJob, FindsItsPool, HasImported
    <3> QED
      BY <3>2, <3>3, <3>4 DEF ContextInvariant
  <2> QED
    BY <2>1, <2>2
<1>6. ASSUME Granted(c) PROVE ContextInvariant(c)'
  <2>1. JobFits(c)'
    BY <1>1, <1>6 DEF Granted, JobFits, SqlPoolTypeOK
  <2>2. HoldsLocks(c)' /\ AnnouncesItself(c)' /\ OwnsForAJob(c)'
    BY <1>1, <1>6 DEF Granted, HoldsLocks, AnnouncesItself, OwnsForAJob, Grantable, Take, SqlPoolTypeOK
  <2>3. HoldsHandles(c)' /\ OpensForAJob(c)' /\ HasImported(c)'
    BY <1>1, <1>6 DEF Granted, HoldsHandles, OpensForAJob, HasImported, Grantable, Take, SqlPoolTypeOK
  <2>4. FindsItsPool(c)'
    BY <1>1, <1>6 DEF Granted, FindsItsPool, Grantable, Take, SqlPoolTypeOK
  <2> QED
    BY <2>1, <2>2, <2>3, <2>4 DEF ContextInvariant
<1>7. ASSUME MarkOperation(c) PROVE ContextInvariant(c)'
  <2>1. /\ stage[c] = "mark" /\ stage'[c] = "install" /\ kind[c] = "operation"
        /\ UNCHANGED <<webLocks, owner, handles, dir, kind, pool>>
        /\ unmarked \subseteq unmarked'
        /\ \A p \in Pools : marker'[p] = c => marker[p] = c \/ p = pool[c]
        /\ webLocks => marker'[pool[c]] = c \/ c \in unmarked'
    BY <1>1, <1>7 DEF MarkOperation, Grantable, Take, JobFits, SqlPoolTypeOK
  <2>2. JobFits(c)'
    BY <1>1, <2>1 DEF JobFits
  <2>3. HoldsLocks(c)' /\ AnnouncesItself(c)'
    BY <1>1, <2>1 DEF HoldsLocks, AnnouncesItself
  <2>4. OwnsForAJob(c)'
    BY <1>1, <2>1 DEF OwnsForAJob
  <2>5. HoldsHandles(c)' /\ OpensForAJob(c)' /\ HasImported(c)'
    BY <1>1, <2>1 DEF HoldsHandles, OpensForAJob, HasImported
  <2>6. FindsItsPool(c)'
    BY <1>1, <2>1 DEF FindsItsPool
  <2> QED
    BY <2>2, <2>3, <2>4, <2>5, <2>6 DEF ContextInvariant
<1>8. ASSUME Install(c) PROVE ContextInvariant(c)'
  <2>1. JobFits(c)'
    BY <1>1, <1>8 DEF Install, JobFits, SqlPoolTypeOK
  <2>2. HoldsLocks(c)' /\ AnnouncesItself(c)' /\ OwnsForAJob(c)'
    BY <1>1, <1>8 DEF Install, HoldsLocks, AnnouncesItself, OwnsForAJob, Created, SqlPoolTypeOK
  <2>3. HoldsHandles(c)' /\ OpensForAJob(c)' /\ HasImported(c)'
    BY <1>1, <1>8 DEF Install, HoldsHandles, OpensForAJob, HasImported, Created, SqlPoolTypeOK
  <2>4. FindsItsPool(c)'
    BY <1>1, <1>8 DEF Install, FindsItsPool, Created, SqlPoolTypeOK
  <2> QED
    BY <2>1, <2>2, <2>3, <2>4 DEF ContextInvariant
<1>9. ASSUME Opened(c) PROVE ContextInvariant(c)'
  <2>1. JobFits(c)'
    BY <1>1, <1>9 DEF Opened, JobFits, SqlPoolTypeOK
  <2>2. HoldsLocks(c)' /\ AnnouncesItself(c)' /\ OwnsForAJob(c)'
    BY <1>1, <1>9 DEF Opened, HoldsLocks, AnnouncesItself, OwnsForAJob, SqlPoolTypeOK
  <2>3. HoldsHandles(c)' /\ OpensForAJob(c)' /\ HasImported(c)'
    BY <1>1, <1>9 DEF Opened, HoldsHandles, OpensForAJob, HasImported, SqlPoolTypeOK
  <2>4. FindsItsPool(c)'
    BY <1>1, <1>9 DEF Opened, FindsItsPool, SqlPoolTypeOK
  <2> QED
    BY <2>1, <2>2, <2>3, <2>4 DEF ContextInvariant
<1>10. ASSUME Close(c) PROVE ContextInvariant(c)'
  <2>1. JobFits(c)'
    BY <1>1, <1>10 DEF Close, JobFits, SqlPoolTypeOK
  <2>2. HoldsLocks(c)' /\ AnnouncesItself(c)' /\ OwnsForAJob(c)'
    BY <1>1, <1>10 DEF Close, HoldsLocks, AnnouncesItself, OwnsForAJob, SqlPoolTypeOK
  <2>3. HoldsHandles(c)' /\ OpensForAJob(c)' /\ HasImported(c)'
    BY <1>1, <1>10 DEF Close, HoldsHandles, OpensForAJob, HasImported, SqlPoolTypeOK
  <2>4. FindsItsPool(c)'
    BY <1>1, <1>10 DEF Close, FindsItsPool, SqlPoolTypeOK
  <2> QED
    BY <2>1, <2>2, <2>3, <2>4 DEF ContextInvariant
<1>11. ASSUME Pause(c) PROVE ContextInvariant(c)'
  <2>1. JobFits(c)'
    BY <1>1, <1>11 DEF Pause, JobFits, SqlPoolTypeOK
  <2>2. HoldsLocks(c)' /\ AnnouncesItself(c)' /\ OwnsForAJob(c)'
    BY <1>1, <1>11 DEF Pause, HoldsLocks, AnnouncesItself, OwnsForAJob, SqlPoolTypeOK
  <2>3. HoldsHandles(c)' /\ OpensForAJob(c)' /\ HasImported(c)'
    BY <1>1, <1>11 DEF Pause, HoldsHandles, OpensForAJob, HasImported, SqlPoolTypeOK
  <2>4. FindsItsPool(c)'
    BY <1>1, <1>11 DEF Pause, FindsItsPool, SqlPoolTypeOK
  <2> QED
    BY <2>1, <2>2, <2>3, <2>4 DEF ContextInvariant
<1>12. ASSUME Unlock(c) PROVE ContextInvariant(c)'
  <2>1. JobFits(c)'
    BY <1>1, <1>12 DEF Unlock, JobFits, SqlPoolTypeOK
  <2>2. HoldsLocks(c)' /\ AnnouncesItself(c)' /\ OwnsForAJob(c)'
    BY <1>1, <1>12 DEF Unlock, HoldsLocks, AnnouncesItself, OwnsForAJob, Free, SqlPoolTypeOK
  <2>3. HoldsHandles(c)' /\ OpensForAJob(c)' /\ HasImported(c)'
    BY <1>1, <1>12 DEF Unlock, HoldsHandles, OpensForAJob, HasImported, Free, SqlPoolTypeOK
  <2>4. FindsItsPool(c)'
    BY <1>1, <1>12 DEF Unlock, FindsItsPool, Free, SqlPoolTypeOK
  <2> QED
    BY <2>1, <2>2, <2>3, <2>4 DEF ContextInvariant
<1>13. ASSUME RemoveUnderLease(c) PROVE ContextInvariant(c)'
  <2>1. JobFits(c)'
    BY <1>1, <1>13 DEF RemoveUnderLease, JobFits, SqlPoolTypeOK
  <2>2. HoldsLocks(c)' /\ AnnouncesItself(c)' /\ OwnsForAJob(c)'
    BY <1>1, <1>13 DEF RemoveUnderLease, HoldsLocks, AnnouncesItself, OwnsForAJob, SqlPoolTypeOK
  <2>3. HoldsHandles(c)' /\ OpensForAJob(c)' /\ HasImported(c)'
    BY <1>1, <1>13 DEF RemoveUnderLease, HoldsHandles, OpensForAJob, HasImported, SqlPoolTypeOK
  <2>4. FindsItsPool(c)'
    BY <1>1, <1>13 DEF RemoveUnderLease, FindsItsPool, JobFits, SqlPoolTypeOK
  <2> QED
    BY <2>1, <2>2, <2>3, <2>4 DEF ContextInvariant
<1>14. ASSUME MigrateStarts(c) PROVE ContextInvariant(c)'
  <2>1. JobFits(c)'
    BY <1>1, <1>14 DEF MigrateStarts, JobFits, SqlPoolTypeOK
  <2>2. HoldsLocks(c)' /\ AnnouncesItself(c)' /\ OwnsForAJob(c)'
    BY <1>1, <1>14 DEF MigrateStarts, HoldsLocks, AnnouncesItself, OwnsForAJob, SqlPoolTypeOK
  <2>3. HoldsHandles(c)' /\ OpensForAJob(c)' /\ HasImported(c)'
    BY <1>1, <1>14 DEF MigrateStarts, HoldsHandles, OpensForAJob, HasImported, SqlPoolTypeOK
  <2>4. FindsItsPool(c)'
    BY <1>1, <1>14 DEF MigrateStarts, FindsItsPool, SqlPoolTypeOK
  <2> QED
    BY <2>1, <2>2, <2>3, <2>4 DEF ContextInvariant
<1>15. ASSUME LegacyLock(c) PROVE ContextInvariant(c)'
  <2>1. JobFits(c)'
    BY <1>1, <1>15 DEF LegacyLock, JobFits, SqlPoolTypeOK
  <2>2. HoldsLocks(c)' /\ AnnouncesItself(c)' /\ OwnsForAJob(c)'
    BY <1>1, <1>15 DEF LegacyLock, HoldsLocks, AnnouncesItself, OwnsForAJob, Grantable, Take, SqlPoolTypeOK
  <2>3. HoldsHandles(c)' /\ OpensForAJob(c)' /\ HasImported(c)'
    BY <1>1, <1>15 DEF LegacyLock, HoldsHandles, OpensForAJob, HasImported, Grantable, Take, SqlPoolTypeOK
  <2>4. FindsItsPool(c)'
    BY <1>1, <1>15 DEF LegacyLock, FindsItsPool, Grantable, Take, SqlPoolTypeOK
  <2> QED
    BY <2>1, <2>2, <2>3, <2>4 DEF ContextInvariant
<1>16. ASSUME LegacyCheck(c) PROVE ContextInvariant(c)'
  <2>1. JobFits(c)'
    BY <1>1, <1>16 DEF LegacyCheck, JobFits, SqlPoolTypeOK
  <2>2. HoldsLocks(c)' /\ AnnouncesItself(c)' /\ OwnsForAJob(c)'
    BY <1>1, <1>16 DEF LegacyCheck, HoldsLocks, AnnouncesItself, OwnsForAJob, SqlPoolTypeOK
  <2>3. HoldsHandles(c)' /\ OpensForAJob(c)' /\ HasImported(c)'
    BY <1>1, <1>16 DEF LegacyCheck, HoldsHandles, OpensForAJob, HasImported, SqlPoolTypeOK
  <2>4. FindsItsPool(c)'
    BY <1>1, <1>16 DEF LegacyCheck, FindsItsPool, SqlPoolTypeOK
  <2> QED
    BY <2>1, <2>2, <2>3, <2>4 DEF ContextInvariant
<1>17. ASSUME LegacyInstall(c) PROVE ContextInvariant(c)'
  <2>1. JobFits(c)'
    BY <1>1, <1>17 DEF LegacyInstall, JobFits, SqlPoolTypeOK
  <2>2. HoldsLocks(c)' /\ AnnouncesItself(c)' /\ OwnsForAJob(c)'
    BY <1>1, <1>17 DEF LegacyInstall, HoldsLocks, AnnouncesItself, OwnsForAJob, Created, SqlPoolTypeOK
  <2>3. HoldsHandles(c)' /\ OpensForAJob(c)' /\ HasImported(c)'
    BY <1>1, <1>17 DEF LegacyInstall, HoldsHandles, OpensForAJob, HasImported, Created, SqlPoolTypeOK
  <2>4. FindsItsPool(c)'
    BY <1>1, <1>17 DEF LegacyInstall, FindsItsPool, Created, SqlPoolTypeOK
  <2> QED
    BY <2>1, <2>2, <2>3, <2>4 DEF ContextInvariant
<1>18. ASSUME LegacyImport(c) PROVE ContextInvariant(c)'
  <2>1. JobFits(c)'
    BY <1>1, <1>18 DEF LegacyImport, JobFits, SqlPoolTypeOK
  <2>2. HoldsLocks(c)' /\ AnnouncesItself(c)' /\ OwnsForAJob(c)'
    BY <1>1, <1>18 DEF LegacyImport, HoldsLocks, AnnouncesItself, OwnsForAJob, HasDatabase, SqlPoolTypeOK
  <2>3. HoldsHandles(c)' /\ OpensForAJob(c)' /\ HasImported(c)'
    BY <1>1, <1>18 DEF LegacyImport, Copied, HoldsHandles, OpensForAJob, HasImported, HasDatabase, SqlPoolTypeOK
  <2>4. FindsItsPool(c)'
    BY <1>1, <1>18 DEF LegacyImport, Copied, FindsItsPool, HasDatabase, SqlPoolTypeOK
  <2> QED
    BY <2>1, <2>2, <2>3, <2>4 DEF ContextInvariant
<1>19. ASSUME LegacyRelease(c) PROVE ContextInvariant(c)'
  <2>1. JobFits(c)'
    BY <1>1, <1>19 DEF LegacyRelease, JobFits, SqlPoolTypeOK
  <2>2. HoldsLocks(c)' /\ AnnouncesItself(c)' /\ OwnsForAJob(c)'
    BY <1>1, <1>19 DEF LegacyRelease, HoldsLocks, AnnouncesItself, OwnsForAJob, SqlPoolTypeOK
  <2>3. HoldsHandles(c)' /\ OpensForAJob(c)' /\ HasImported(c)'
    BY <1>1, <1>19 DEF LegacyRelease, HoldsHandles, OpensForAJob, HasImported, SqlPoolTypeOK
  <2>4. FindsItsPool(c)'
    BY <1>1, <1>19 DEF LegacyRelease, FindsItsPool, SqlPoolTypeOK
  <2> QED
    BY <2>1, <2>2, <2>3, <2>4 DEF ContextInvariant
<1>20. ASSUME LegacyRemove(c) PROVE ContextInvariant(c)'
  <2>1. JobFits(c)'
    BY <1>1, <1>20 DEF LegacyRemove, JobFits, SqlPoolTypeOK
  <2>2. HoldsLocks(c)' /\ AnnouncesItself(c)' /\ OwnsForAJob(c)'
    BY <1>1, <1>20 DEF LegacyRemove, HoldsLocks, AnnouncesItself, OwnsForAJob, HasDatabase, SqlPoolTypeOK
  <2>3. HoldsHandles(c)' /\ OpensForAJob(c)' /\ HasImported(c)'
    BY <1>1, <1>20 DEF LegacyRemove, HoldsHandles, OpensForAJob, HasImported, HasDatabase, SqlPoolTypeOK
  <2>4. FindsItsPool(c)'
    BY <1>1, <1>20 DEF LegacyRemove, FindsItsPool, HasDatabase, SqlPoolTypeOK
  <2> QED
    BY <2>1, <2>2, <2>3, <2>4 DEF ContextInvariant
<1>21. ASSUME LegacyRemoveRoot(c) PROVE ContextInvariant(c)'
  <2>1. JobFits(c)'
    BY <1>1, <1>21 DEF LegacyRemoveRoot, JobFits, SqlPoolTypeOK
  <2>2. HoldsLocks(c)' /\ AnnouncesItself(c)' /\ OwnsForAJob(c)'
    BY <1>1, <1>21 DEF LegacyRemoveRoot, HoldsLocks, AnnouncesItself, OwnsForAJob, HasDatabase, SqlPoolTypeOK
  <2>3. HoldsHandles(c)' /\ OpensForAJob(c)' /\ HasImported(c)'
    BY <1>1, <1>21 DEF LegacyRemoveRoot, HoldsHandles, OpensForAJob, HasImported, HasDatabase, SqlPoolTypeOK
  <2>4. FindsItsPool(c)'
    BY <1>1, <1>21 DEF LegacyRemoveRoot, FindsItsPool, HasDatabase, SqlPoolTypeOK
  <2> QED
    BY <2>1, <2>2, <2>3, <2>4 DEF ContextInvariant
<1>22. ASSUME LegacyPause(c) PROVE ContextInvariant(c)'
  <2>1. JobFits(c)'
    BY <1>1, <1>22 DEF LegacyPause, JobFits, SqlPoolTypeOK
  <2>2. HoldsLocks(c)' /\ AnnouncesItself(c)' /\ OwnsForAJob(c)'
    BY <1>1, <1>22 DEF LegacyPause, HoldsLocks, AnnouncesItself, OwnsForAJob, SqlPoolTypeOK
  <2>3. HoldsHandles(c)' /\ OpensForAJob(c)' /\ HasImported(c)'
    BY <1>1, <1>22 DEF LegacyPause, HoldsHandles, OpensForAJob, HasImported, SqlPoolTypeOK
  <2>4. FindsItsPool(c)'
    BY <1>1, <1>22 DEF LegacyPause, FindsItsPool, SqlPoolTypeOK
  <2> QED
    BY <2>1, <2>2, <2>3, <2>4 DEF ContextInvariant
<1>23. ASSUME LegacyUnlock(c) PROVE ContextInvariant(c)'
  <2>1. JobFits(c)'
    BY <1>1, <1>23 DEF LegacyUnlock, JobFits, SqlPoolTypeOK
  <2>2. HoldsLocks(c)' /\ AnnouncesItself(c)' /\ OwnsForAJob(c)'
    BY <1>1, <1>23 DEF LegacyUnlock, HoldsLocks, AnnouncesItself, OwnsForAJob, Free, SqlPoolTypeOK
  <2>3. HoldsHandles(c)' /\ OpensForAJob(c)' /\ HasImported(c)'
    BY <1>1, <1>23 DEF LegacyUnlock, HoldsHandles, OpensForAJob, HasImported, Free, SqlPoolTypeOK
  <2>4. FindsItsPool(c)'
    BY <1>1, <1>23 DEF LegacyUnlock, FindsItsPool, Free, SqlPoolTypeOK
  <2> QED
    BY <2>1, <2>2, <2>3, <2>4 DEF ContextInvariant
<1>24. ASSUME Acquire(c) PROVE ContextInvariant(c)'
  <2>1. JobFits(c)'
    BY <1>1, <1>24 DEF Acquire, JobFits, SqlPoolTypeOK
  <2>2. HoldsLocks(c)' /\ AnnouncesItself(c)' /\ OwnsForAJob(c)'
    BY <1>1, <1>24 DEF Acquire, HoldsLocks, AnnouncesItself, OwnsForAJob, SqlPoolTypeOK
  <2>3. HoldsHandles(c)' /\ OpensForAJob(c)' /\ HasImported(c)'
    BY <1>1, <1>24 DEF Acquire, HoldsHandles, OpensForAJob, HasImported, SqlPoolTypeOK
  <2>4. FindsItsPool(c)'
    BY <1>1, <1>24 DEF Acquire, FindsItsPool, SqlPoolTypeOK
  <2> QED
    BY <2>1, <2>2, <2>3, <2>4 DEF ContextInvariant
<1>25. ASSUME LegacyAcquire(c) PROVE ContextInvariant(c)'
  <2>1. JobFits(c)'
    BY <1>1, <1>25 DEF LegacyAcquire, JobFits, SqlPoolTypeOK
  <2>2. HoldsLocks(c)' /\ AnnouncesItself(c)' /\ OwnsForAJob(c)'
    BY <1>1, <1>25 DEF LegacyAcquire, HoldsLocks, AnnouncesItself, OwnsForAJob, SqlPoolTypeOK
  <2>3. HoldsHandles(c)' /\ OpensForAJob(c)' /\ HasImported(c)'
    BY <1>1, <1>25 DEF LegacyAcquire, HoldsHandles, OpensForAJob, HasImported, SqlPoolTypeOK
  <2>4. FindsItsPool(c)'
    BY <1>1, <1>25 DEF LegacyAcquire, FindsItsPool, SqlPoolTypeOK
  <2> QED
    BY <2>1, <2>2, <2>3, <2>4 DEF ContextInvariant
<1> QED
  BY <1>2, <1>3, <1>4, <1>5, <1>6, <1>7, <1>8, <1>9, <1>10, <1>11, <1>12,
     <1>13, <1>14, <1>15, <1>16, <1>17, <1>18, <1>19, <1>20, <1>21, <1>22, <1>23, <1>24, <1>25
     DEF ContextStep, Step

(* What the Worker's end and a refusal leave has its types. *)
LEMMA EndTyped ==
    ASSUME SqlPoolTypeOK, NEW c \in Contexts, Ends(c) \/ Refused(c)
    PROVE  /\ owner' \in [Pools -> Contexts \cup {null}]
           /\ marker' \in [Pools -> Contexts \cup {null}]
           /\ handles' \in [Pools -> Contexts \cup {null, Closing, OldBuild}]
           /\ kind' \in [Contexts -> Kinds \cup {null}]
           /\ pool' \in [Contexts -> Pools \cup {null}]
           /\ stage' \in [Contexts -> Stages]
           /\ unmarked' \subseteq Contexts
<1>1. {"idle", "memory"} \subseteq Stages
  BY DEF Stages
<1>2. CASE Ends(c)
  BY <1>1, <1>2 DEF Ends, Goto, SqlPoolTypeOK
<1>3. CASE ~Ends(c)
  BY <1>1, <1>3 DEF Refused, Free, Goto, SqlPoolTypeOK
<1> QED
  BY <1>2, <1>3

(* The values that variables get have their types. *)
LEMMA StepTyped ==
    ASSUME OwnershipInvariant, NEW c \in Contexts, ContextStep(c)
    PROVE  /\ owner' \in [Pools -> Contexts \cup {null}]
           /\ marker' \in [Pools -> Contexts \cup {null}]
           /\ handles' \in [Pools -> Contexts \cup {null, Closing, OldBuild}]
           /\ dir' \in [Pools -> Contents]
           /\ kind' \in [Contexts -> Kinds \cup {null}]
           /\ pool' \in [Contexts -> Pools \cup {null}]
           /\ stage' \in [Contexts -> Stages]
           /\ unmarked' \subseteq Contexts /\ overtaken' \subseteq Contexts
<1> DEFINE AllTyped ==
       /\ owner' \in [Pools -> Contexts \cup {null}]
       /\ marker' \in [Pools -> Contexts \cup {null}]
       /\ handles' \in [Pools -> Contexts \cup {null, Closing, OldBuild}]
       /\ dir' \in [Pools -> Contents]
       /\ kind' \in [Contexts -> Kinds \cup {null}]
       /\ pool' \in [Contexts -> Pools \cup {null}]
       /\ stage' \in [Contexts -> Stages]
       /\ unmarked' \subseteq Contexts /\ overtaken' \subseteq Contexts
<1>1. /\ SqlPoolTypeOK /\ JobFits(c)
      /\ stage[c] # "idle" => pool[c] \in Pools
  BY Typed DEF OwnershipInvariant, ContextInvariant
<1> USE <1>1 DEF Goto, At, SqlPoolTypeOK, Contents, Stages, Connected, Migrating, Waiting
<1>2. ASSUME \E k \in Kinds, p \in Pools : Request(c, k, p) PROVE AllTyped
  BY <1>2 DEF Request
<1>3. ASSUME CloseMemory(c) \/ Dies(c) \/ Unmark(c) \/ InstallGivesUp(c) \/ InstallFails(c)
      PROVE  AllTyped
  BY <1>3, EndTyped DEF CloseMemory, Dies, Unmark, InstallGivesUp, InstallFails
<1>4. ASSUME WaitTimesOut(c) \/ Query(c) \/ OpenFails(c) PROVE AllTyped
  <2>1. CASE Refused(c)
    BY <1>4, <2>1, EndTyped DEF WaitTimesOut, Query, OpenFails
  <2>2. CASE ~Refused(c)
    BY <1>4, <2>2 DEF WaitTimesOut, Query, OpenFails
  <2> QED
    BY <2>1, <2>2
<1>5. ASSUME Granted(c) \/ LegacyLock(c) PROVE AllTyped
  <2>1. CASE Granted(c)
    BY <2>1 DEF Granted, Take
  <2>2. CASE LegacyLock(c)
    BY <2>2 DEF LegacyLock, Take
  <2> QED
    BY <1>5, <2>1, <2>2
<1>6. ASSUME MarkOperation(c) PROVE AllTyped
  BY <1>6 DEF MarkOperation, Take
<1>7. ASSUME Unlock(c) \/ LegacyUnlock(c) PROVE AllTyped
  <2>1. CASE Unlock(c)
    BY <2>1 DEF Unlock, Free
  <2>2. CASE LegacyUnlock(c)
    BY <2>2 DEF LegacyUnlock, Free
  <2> QED
    BY <1>7, <2>1, <2>2
<1>8. ASSUME Install(c) \/ Acquire(c) \/ LegacyInstall(c) \/ LegacyAcquire(c) PROVE AllTyped
  <2>1. CASE Install(c)
    BY <2>1 DEF Install, Created
  <2>2. CASE LegacyInstall(c)
    BY <2>2 DEF LegacyInstall, Created
  <2>3. CASE Acquire(c)
    BY <2>3 DEF Acquire
  <2>4. CASE LegacyAcquire(c)
    BY <2>4 DEF LegacyAcquire
  <2> QED
    BY <1>8, <2>1, <2>2, <2>3, <2>4
<1>9. ASSUME Opened(c) \/ Close(c) \/ MigrateStarts(c) \/ LegacyCheck(c) PROVE AllTyped
  <2>1. CASE Opened(c)
    BY <2>1 DEF Opened
  <2>2. CASE Close(c)
    BY <2>2 DEF Close
  <2>3. CASE MigrateStarts(c)
    BY <2>3 DEF MigrateStarts
  <2>4. CASE LegacyCheck(c)
    BY <2>4 DEF LegacyCheck
  <2> QED
    BY <1>9, <2>1, <2>2, <2>3, <2>4
<1>10. ASSUME Pause(c) \/ LegacyPause(c) \/ LegacyRelease(c) PROVE AllTyped
  <2>1. CASE Pause(c)
    BY <2>1 DEF Pause
  <2>2. CASE LegacyPause(c)
    BY <2>2 DEF LegacyPause
  <2>3. CASE LegacyRelease(c)
    BY <2>3 DEF LegacyRelease
  <2> QED
    BY <1>10, <2>1, <2>2, <2>3
<1>11. ASSUME RemoveUnderLease(c) \/ LegacyRemove(c) \/ LegacyRemoveRoot(c) \/ LegacyImport(c) PROVE AllTyped
  <2>1. CASE RemoveUnderLease(c)
    BY <2>1 DEF RemoveUnderLease
  <2>2. CASE LegacyRemove(c)
    BY <2>2 DEF LegacyRemove
  <2>3. CASE LegacyRemoveRoot(c)
    BY <2>3 DEF LegacyRemoveRoot
  <2>4. CASE LegacyImport(c)
    BY <2>4 DEF LegacyImport, Copied, Pools
  <2> QED
    BY <1>11, <2>1, <2>2, <2>3, <2>4
<1> QED
  BY <1>2, <1>3, <1>4, <1>5, <1>6, <1>7, <1>8, <1>9, <1>10, <1>11
     DEF ContextStep, Step

(* A context's step keeps the invariant. *)
LEMMA ContextStepKeeps ==
    ASSUME OwnershipInvariant, NEW c \in Contexts, ContextStep(c),
           requests' \in 0 .. MaxRequests, faults' \in 0 .. MaxFaults
    PROVE  OwnershipInvariant'
<1>1. Touches(c) /\ SqlPoolTypeOK
  BY Footprint DEF OwnershipInvariant
<1>2. \A d \in Contexts : ContextInvariant(d)'
  BY <1>1, OthersKeep, OwnStep
<1>3. \A d \in Contexts : stage'[d] # "idle" <=> kind'[d] # null /\ pool'[d] # null
  BY <1>2, SqlPoolConstants DEF ContextInvariant, JobFits, PoolsFor, Kinds, Pools
<1>4. SqlPoolTypeOK'
  BY <1>1, <1>3, StepTyped DEF SqlPoolTypeOK, Touches
<1>5. NoLocksWithoutWebLocks'
  BY <1>1 DEF OwnershipInvariant, NoLocksWithoutWebLocks, Touches
<1> QED
  BY <1>2, <1>4, <1>5 DEF OwnershipInvariant

(* The initial states satisfy the invariant. *)
LEMMA OwnershipInit == SqlPoolInit => OwnershipInvariant
<1> SUFFICES ASSUME SqlPoolInit PROVE OwnershipInvariant
  OBVIOUS
<1> USE SqlPoolConstants DEF SqlPoolInit
<1>1. SqlPoolTypeOK
  BY DEF SqlPoolTypeOK, Stages, Contents
<1>2. NoLocksWithoutWebLocks
  BY DEF NoLocksWithoutWebLocks
<1>3. ASSUME NEW c \in Contexts PROVE ContextInvariant(c)
  <2>1. /\ stage[c] = "idle" /\ kind[c] = null /\ pool[c] = null
        /\ \A p \in Pools : owner[p] # c /\ marker[p] # c /\ handles[p] # c
    OBVIOUS
  <2>2. JobFits(c) /\ HoldsLocks(c) /\ AnnouncesItself(c)
    BY <2>1 DEF JobFits, HoldsLocks, AnnouncesItself, Leased, LegacyLocked, Installed,
                Connected, Migrating
  <2>3. OwnsForAJob(c) /\ OpensForAJob(c)
    BY <2>1 DEF OwnsForAJob, OpensForAJob
  <2>4. HoldsHandles(c) /\ FindsItsPool(c) /\ HasImported(c)
    BY <2>1 DEF HoldsHandles, FindsItsPool, HasImported, Installed, Connected, Migrating,
                LegacyInstalled, UsesPool, UsesLegacy
  <2> QED
    BY <2>2, <2>3, <2>4 DEF ContextInvariant
<1> QED
  BY <1>1, <1>2, <1>3 DEF OwnershipInvariant

(* Every step keeps the invariant: of a context, of the browser that closes a
   dead Worker's handles, and of a tab of the old build. *)
LEMMA OwnershipStep == OwnershipInvariant /\ [SqlPoolNext]_vars => OwnershipInvariant'
<1> SUFFICES ASSUME OwnershipInvariant, [SqlPoolNext]_vars PROVE OwnershipInvariant'
  OBVIOUS
<1>1. ASSUME NEW c \in Contexts, ContextStep(c) PROVE OwnershipInvariant'
  <2>1. requests' \in 0 .. MaxRequests /\ faults' \in 0 .. MaxFaults
    <3>1. /\ requests \in 0 .. MaxRequests /\ faults \in 0 .. MaxFaults
          /\ MaxRequests \in Nat /\ MaxFaults \in Nat
      BY SqlPoolConstants DEF OwnershipInvariant, SqlPoolTypeOK
    <3>2. requests' = requests \/ (requests < MaxRequests /\ requests' = requests + 1)
      BY <1>1 DEF ContextStep, Step, Request, MigrateStarts, Close, CloseMemory, Dies, Granted,
         WaitTimesOut, Query, MarkOperation, Install, Acquire, InstallGivesUp, InstallFails, Opened,
         OpenFails, Pause, Unlock, Unmark, RemoveUnderLease, LegacyLock, LegacyCheck,
         LegacyInstall, LegacyAcquire, LegacyImport, LegacyRelease, LegacyRemove, LegacyRemoveRoot,
         LegacyPause, LegacyUnlock
    <3>3. faults' = faults \/ (faults < MaxFaults /\ faults' = faults + 1)
      BY <1>1 DEF ContextStep, Step, Request, MigrateStarts, Close, CloseMemory, Dies, Granted,
         WaitTimesOut, Query, MarkOperation, Install, Acquire, InstallGivesUp, InstallFails, Opened,
         OpenFails, Pause, Unlock, Unmark, RemoveUnderLease, LegacyLock, LegacyCheck,
         LegacyInstall, LegacyAcquire, LegacyImport, LegacyRelease, LegacyRemove, LegacyRemoveRoot,
         LegacyPause, LegacyUnlock, Fault
    <3> QED
      BY <3>1, <3>2, <3>3
  <2> QED
    BY <1>1, <2>1, ContextStepKeeps
<1>2. ASSUME (\E p \in Pools : HandlesClose(p)) \/ OldBuildOpens \/ OldBuildWrites \/ OldBuildCloses
      PROVE  OwnershipInvariant'
  <2>1. SqlPoolTypeOK /\ LegacyPool \in Pools
    BY DEF OwnershipInvariant, Pools
  <2>2. SqlPoolTypeOK'
    <3>1. handles' \in [Pools -> Contexts \cup {null, Closing, OldBuild}]
      BY <1>2, <2>1 DEF HandlesClose, OldBuildOpens, OldBuildWrites, OldBuildCloses, SqlPoolTypeOK
    <3>2. dir' \in [Pools -> Contents]
      BY <1>2, <2>1 DEF HandlesClose, OldBuildOpens, OldBuildWrites, OldBuildCloses, Created, Contents,
                        SqlPoolTypeOK
    <3>3. faults' \in 0 .. MaxFaults
      BY <1>2, <2>1, SqlPoolConstants
         DEF HandlesClose, OldBuildOpens, OldBuildWrites, OldBuildCloses, Fault, SqlPoolTypeOK
    <3>4. /\ UNCHANGED <<webLocks, owner, marker, kind, pool, stage, unmarked, requests>>
          /\ overtaken' \subseteq Contexts
      BY <1>2, <2>1 DEF HandlesClose, OldBuildOpens, OldBuildWrites, OldBuildCloses, SqlPoolTypeOK
    <3> QED
      BY <2>1, <3>1, <3>2, <3>3, <3>4 DEF SqlPoolTypeOK
  <2>3. \E x \in {Closing, OldBuild} : Touches(x)
    <3>1. ASSUME NEW p \in Pools, HandlesClose(p) PROVE Touches(Closing)
      BY <2>1, <3>1 DEF HandlesClose, Touches, SqlPoolTypeOK
    <3>2. ASSUME OldBuildOpens PROVE Touches(OldBuild)
      BY <2>1, <3>2 DEF OldBuildOpens, Created, Touches, SqlPoolTypeOK
    <3>3. ASSUME OldBuildWrites PROVE Touches(OldBuild)
      BY <2>1, <3>3 DEF OldBuildWrites, Touches, SqlPoolTypeOK
    <3>4. ASSUME OldBuildCloses PROVE Touches(OldBuild)
      BY <2>1, <3>4 DEF OldBuildCloses, Touches, SqlPoolTypeOK
    <3> QED
      BY <1>2, <3>1, <3>2, <3>3, <3>4
  <2>4. \A d \in Contexts : ContextInvariant(d)'
    BY <2>3, OthersKeep, SqlPoolConstants
  <2>5. NoLocksWithoutWebLocks'
    BY <2>3 DEF OwnershipInvariant, NoLocksWithoutWebLocks, Touches
  <2> QED
    BY <2>2, <2>4, <2>5 DEF OwnershipInvariant
<1>3. CASE UNCHANGED vars
  BY <1>3 DEF vars, OwnershipInvariant, SqlPoolTypeOK, NoLocksWithoutWebLocks,
     ContextInvariant, JobFits, HoldsLocks, AnnouncesItself, OwnsForAJob, HoldsHandles,
     OpensForAJob, FindsItsPool, HasImported, HasDatabase
<1> QED
  BY <1>1, <1>2, <1>3 DEF SqlPoolNext, ContextStep

(* The invariant holds for ever. *)
LEMMA OwnershipAlways == SqlPoolSpec => []OwnershipInvariant
BY OwnershipInit, OwnershipStep, PTL DEF SqlPoolSpec

(* No failed open, refused job, finished migration or dead Worker leaves a
   pool locked, and a live context that has a pool's handles open holds the
   pool's owner lock (the release paths of openSqlStorage, ownPool,
   removeOpfsPool and withLock). *)
THEOREM OwnershipIsSound == SqlPoolSpec => []SqlPoolInvariant
<1>1. OwnershipInvariant => SqlPoolInvariant
  <2> SUFFICES ASSUME OwnershipInvariant PROVE SqlPoolInvariant
    OBVIOUS
  <2>1. NoOrphanedLease
    BY DEF OwnershipInvariant, ContextInvariant, OwnsForAJob, NoOrphanedLease, LegacyLocked
  <2>2. HandlesUnderLease
    <3> SUFFICES ASSUME webLocks, NEW p \in Pools, NEW c \in Contexts, handles[p] = c,
                        stage[c] # "memory"
                 PROVE  owner[p] = c
      BY DEF HandlesUnderLease
    <3>1. HoldsLocks(c) /\ OpensForAJob(c)
      BY DEF OwnershipInvariant, ContextInvariant
    <3>2. Installed \subseteq Leased /\ LegacyInstalled \subseteq LegacyLocked
      BY DEF Installed, Leased, LegacyInstalled, LegacyLocked, Connected, Migrating
    <3> QED
      BY <3>1, <3>2 DEF HoldsLocks, OpensForAJob
  <2> QED
    BY <2>1, <2>2 DEF OwnershipInvariant, SqlPoolInvariant
<1> QED
  BY <1>1, OwnershipAlways, PTL

(* With Web Locks nobody removes a pool's directory under the job that owns the
   pool, neither before its handles are open nor after they are closed,
   whatever died or timed out in between (removeOpfsPool, removeLegacy). *)
THEOREM OwnedPoolsStay == SqlPoolSpec => []OwnedPoolStays
<1>1. OwnershipInvariant => OwnedPoolStays
  BY DEF OwnershipInvariant, ContextInvariant, FindsItsPool, OwnedPoolStays
<1> QED
  BY <1>1, OwnershipAlways, PTL

(* A job that looks at the lock manager is never refused because of an
   operation by name that has both locks (acquireOwnerLease, markOperation). *)
THEOREM OperationsAreWaitedFor == SqlPoolSpec => RefusedForAConnection
<1> DEFINE Justified ==
       \A c \in Contexts :
          stage[c] = "query" /\ kind[c] \in {"open", "operation"}
             /\ stage'[c] \in {"idle", "memory"} /\ faults' = faults =>
          LET o == owner[pool[c]] IN
          /\ o # null
          /\ kind[o] = "operation" => o \in unmarked \/ stage[o] = "mark"
<1>1. OwnershipInvariant /\ [SqlPoolNext]_vars => [Justified]_vars
  <2> SUFFICES ASSUME OwnershipInvariant, SqlPoolNext, NEW c \in Contexts,
                      stage[c] = "query", kind[c] \in {"open", "operation"},
                      stage'[c] \in {"idle", "memory"}, faults' = faults
               PROVE  /\ owner[pool[c]] # null
                      /\ kind[owner[pool[c]]] = "operation" =>
                            \/ owner[pool[c]] \in unmarked
                            \/ stage[owner[pool[c]]] = "mark"
    BY DEF vars
  <2>1. SqlPoolTypeOK /\ NoLocksWithoutWebLocks /\ JobFits(c)
    BY DEF OwnershipInvariant, ContextInvariant
  <2>2. pool[c] \in SqlPools /\ pool[c] \in Pools /\ pool[c] # LegacyPool
    BY <2>1, SqlPoolConstants DEF JobFits, PoolsFor, Pools
  <2>3. ContextStep(c)
    <3>1. ASSUME NEW d \in Contexts, ContextStep(d) PROVE d = c
      BY <3>1, Footprint DEF OwnershipInvariant, Touches
    <3>2. ~ \E p \in Pools : HandlesClose(p)
      BY DEF HandlesClose
    <3>3. ~OldBuildOpens /\ ~OldBuildWrites /\ ~OldBuildCloses
      BY DEF OldBuildOpens, OldBuildWrites, OldBuildCloses
    <3> QED
      BY <3>1, <3>2, <3>3 DEF SqlPoolNext, ContextStep
  <2>4. Query(c)
    <3>1. faults \in Int /\ ~Dies(c)
      BY <2>1 DEF SqlPoolTypeOK, Dies, Fault
    <3> QED
      BY <2>3, <3>1 DEF ContextStep, Step, Request, MigrateStarts, Close, CloseMemory,
         Granted, WaitTimesOut, MarkOperation, Install, Acquire, InstallGivesUp, InstallFails, Opened,
         OpenFails, Pause, Unlock, Unmark, RemoveUnderLease, LegacyLock, LegacyCheck,
         LegacyInstall, LegacyAcquire, LegacyImport, LegacyRelease, LegacyRemove, LegacyRemoveRoot,
         LegacyPause, LegacyUnlock, At
  <2>5. ~WorthWaiting(pool[c])
    BY <2>1, <2>4 DEF Query, Goto, SqlPoolTypeOK
  <2>6. marker[pool[c]] = null /\ owner[pool[c]] # null /\ owner[pool[c]] \in Contexts
    BY <2>1, <2>2, <2>5 DEF WorthWaiting, SqlPoolTypeOK
  <2>7. ASSUME NEW o \in Contexts, o = owner[pool[c]], kind[o] = "operation",
               o \notin unmarked, stage[o] # "mark"
        PROVE  FALSE
    <3>1. ContextInvariant(o) /\ webLocks
      BY <2>1, <2>2, <2>6 DEF OwnershipInvariant, NoLocksWithoutWebLocks
    <3>2. pool[o] = pool[c] /\ stage[o] \in Leased
      BY <2>2, <2>7, <3>1 DEF ContextInvariant, OwnsForAJob
    <3>3. marker[pool[c]] = o
      BY <2>7, <3>1, <3>2 DEF ContextInvariant, AnnouncesItself
    <3> QED
      BY <2>6, <3>3, SqlPoolConstants
  <2> QED
    BY <2>6, <2>7
<1>2. SqlPoolSpec => [][Justified]_vars
  BY <1>1, OwnershipAlways, PTL DEF SqlPoolSpec
<1> QED
  BY <1>2 DEF RefusedForAConnection

(* A legacy database leaves its pool only by a removal of that pool that was
   asked for, or after a migration committed a copy of exactly what it removes,
   unless an old build wrote between removeVfs's two steps (migrateFrom,
   removeLegacy). *)
THEOREM MigrationsKeepTheData == SqlPoolSpec => MigrationKeepsTheData
<1> DEFINE Kept ==
       HasDatabase(LegacyPool) /\ ~HasDatabase(LegacyPool)' =>
          \/ \E c \in Contexts :
                pool[c] = LegacyPool /\ stage[c] = "remove" /\ stage'[c] = "unlock"
          \/ \E c \in Contexts :
                /\ stage[c] \in {"legacyRemove", "legacyRemoveRoot"}
                /\ \/ c \in overtaken
                   \/ dir[LegacyPool] # "shared" /\ dir[pool[c]] = dir[LegacyPool]
<1>1. OwnershipInvariant /\ [SqlPoolNext]_vars => [Kept]_vars
  <2> SUFFICES ASSUME OwnershipInvariant, SqlPoolNext, HasDatabase(LegacyPool),
                      ~HasDatabase(LegacyPool)'
               PROVE  Kept
    BY DEF vars
  <2>1. SqlPoolTypeOK /\ LegacyPool \in Pools
    BY DEF OwnershipInvariant, Pools
  <2>2. dir' # dir /\ dir'[LegacyPool] # dir[LegacyPool]
    BY DEF HasDatabase
  <2>3. \A p : Created(p)[LegacyPool] = dir[LegacyPool]
    BY <2>1 DEF Created, HasDatabase, SqlPoolTypeOK
  <2>4. ASSUME NEW c \in Contexts, ContextStep(c) PROVE Kept
    <3>1. \/ RemoveUnderLease(c) \/ LegacyRemove(c) \/ LegacyRemoveRoot(c) \/ LegacyImport(c)
      BY <2>2, <2>3, <2>4 DEF ContextStep, Step, Request, MigrateStarts, Close, CloseMemory,
         Dies, Granted, WaitTimesOut, Query, MarkOperation, Install, Acquire, InstallGivesUp,
         InstallFails, Opened, OpenFails, Pause, Unlock, Unmark, LegacyLock, LegacyCheck,
         LegacyInstall, LegacyAcquire, LegacyRelease, LegacyPause, LegacyUnlock
    <3>2. JobFits(c) /\ HasImported(c) /\ (stage[c] \in Migrating => pool[c] \in SqlPools)
      BY Typed DEF OwnershipInvariant, ContextInvariant
    <3>3. CASE RemoveUnderLease(c)
      BY <2>1, <2>2, <3>2, <3>3 DEF RemoveUnderLease, JobFits, At, Goto, SqlPoolTypeOK
    <3>4. CASE LegacyRemove(c)
      BY <3>2, <3>4 DEF LegacyRemove, HasImported, At
    <3>5. CASE LegacyRemoveRoot(c)
      BY <3>2, <3>5 DEF LegacyRemoveRoot, HasImported, At
    <3>6. ~LegacyImport(c)
      BY <2>1, <2>2, <3>2, SqlPoolConstants DEF LegacyImport, Pools, At, Migrating, SqlPoolTypeOK
    <3> QED
      BY <3>1, <3>3, <3>4, <3>5, <3>6
  <2>5. /\ ~(\E p \in Pools : HandlesClose(p))
        /\ ~OldBuildOpens /\ ~OldBuildWrites /\ ~OldBuildCloses
    BY <2>1, <2>2, <2>3
       DEF HandlesClose, OldBuildOpens, OldBuildWrites, OldBuildCloses, HasDatabase, SqlPoolTypeOK
  <2> QED
    BY <2>4, <2>5 DEF SqlPoolNext, ContextStep
<1>2. SqlPoolSpec => [][Kept]_vars
  BY <1>1, OwnershipAlways, PTL DEF SqlPoolSpec
<1> QED
  BY <1>2 DEF MigrationKeepsTheData
=============================================================================
