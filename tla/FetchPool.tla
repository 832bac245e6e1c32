------------------------------ MODULE FetchPool ------------------------------
(***************************************************************************)
(* fetchMissing (src/engine/sync.ts): concurrent workers download the      *)
(* missing chunks under one aggregate byte budget.  A worker reserves      *)
(* budget before its request and returns what it did not use; with the     *)
(* budget gone it waits for a release.  The first failure stops the pool.  *)
(*                                                                         *)
(* A step is what runs between two awaits, so a worker that finishes a     *)
(* chunk releases its reservation and takes the next chunk in one step,    *)
(* before any waiter it woke.                                              *)
(***************************************************************************)
EXTENDS Integers, Sequences, FiniteSetsExt

CONSTANTS
    Workers,        \* the pool's workers, MAX_CONCURRENT_CHUNK_FETCHES
    Sizes,          \* Seq(Nat): wire bytes of each missing chunk
    MaxChunkBytes,  \* MAX_COMPRESSED_CHUNK_BYTES, the most one may reserve
    MaxTotalBytes,  \* maxTotalBytes, the aggregate cap
    Attempts,       \* CHUNK_FETCH_ATTEMPTS
    MaxFaults       \* bound on network and storage failures

ASSUME FetchPoolAssumption ==
    /\ IsFiniteSet(Workers) /\ Workers # {}
    /\ Sizes \in Seq(Nat \ {0})
    /\ MaxChunkBytes \in Nat \ {0}
    /\ MaxTotalBytes \in Nat \ {0}
    /\ Attempts \in Nat \ {0}
    /\ MaxFaults \in Nat

VARIABLES
    pool,       \* the shared variables of fetchMissing and its workers' state
    stored,     \* history: chunks put into the store, with multiplicity
    faults

poolVars == <<pool, stored, faults>>

Refs == DOMAIN Sizes

(* A worker is at one of its awaits: its fetch, its put, the wait for budget,
   its own wake-up, or the return of reserve() with nothing. *)
WorkerStates == {"fetching", "putting", "waiting", "woken", "refused", "done"}

Failures == {"none", "cap", "network", "storage", "integrity"}

PoolTypeOK ==
    /\ pool \in [next      : 1 .. (Len(Sizes) + 1),
                 total     : 0 .. MaxTotalBytes,
                 remaining : 0 .. MaxTotalBytes,
                 inFlight  : 0 .. Cardinality(Workers),
                 failure   : Failures,
                 pc        : [Workers -> WorkerStates \cup {"start"}],
                 ref       : [Workers -> Refs \cup {0}],
                 attempt   : [Workers -> 0 .. (Attempts - 1)],
                 reserved  : [Workers -> 0 .. MaxChunkBytes]]
    /\ stored \in [Refs -> 0 .. 2]
    /\ faults \in 0 .. MaxFaults

PoolInit ==
    /\ pool = [next |-> 1, total |-> 0, remaining |-> MaxTotalBytes,
               inFlight |-> 0, failure |-> "none",
               pc |-> [w \in Workers |-> "start"],
               ref |-> [w \in Workers |-> 0],
               attempt |-> [w \in Workers |-> 0],
               reserved |-> [w \in Workers |-> 0]]
    /\ stored = [r \in Refs |-> 0]
    /\ faults = 0

-----------------------------------------------------------------------------
(* The synchronous pieces, as functions of the pool's state.               *)

(* reserve(), from its loop's test on. *)
reserve(s, w) ==
    LET reservation == Min({MaxChunkBytes, s.remaining})
    IN  IF s.remaining = 0 /\ s.inFlight > 0 /\ s.failure = "none"
        THEN [s EXCEPT !.pc[w] = "waiting"]
        ELSE IF s.remaining = 0
        THEN [s EXCEPT !.pc[w] = "refused"]
        ELSE [s EXCEPT !.pc[w] = "fetching", !.attempt[w] = 0,
                       !.reserved[w] = reservation,
                       !.remaining = @ - reservation,
                       !.inFlight = @ + 1]

(* The head of worker()'s loop; the locals of a worker that is done are gone. *)
take(s, w) ==
    IF s.failure # "none" \/ s.next \notin Refs
    THEN [s EXCEPT !.pc[w] = "done", !.ref[w] = 0, !.attempt[w] = 0]
    ELSE reserve([s EXCEPT !.ref[w] = s.next, !.next = @ + 1], w)

(* Defect: the whole reservation returns. *)
release_Refunds(s, w, consumed) ==
    [s EXCEPT !.remaining = @ + s.reserved[w],
              !.inFlight = @ - 1,
              !.reserved[w] = 0,
              !.pc = [v \in Workers |-> IF s.pc[v] = "waiting" THEN "woken"
                                        ELSE s.pc[v]]]

(* release(): the unused budget returns and every waiter is woken. *)
release(s, w, consumed) ==
    [s EXCEPT !.remaining = @ + s.reserved[w] - consumed,
              !.inFlight = @ - 1,
              !.reserved[w] = 0,
              !.pc = [v \in Workers |-> IF s.pc[v] = "waiting" THEN "woken"
                                        ELSE s.pc[v]]]

(* failure ??= error *)
failWith(s, error) ==
    [s EXCEPT !.failure = IF @ = "none" THEN error ELSE @]

Fault == faults < MaxFaults /\ faults' = faults + 1

-----------------------------------------------------------------------------
(* Promise.all starts as many workers as there are chunks, at most. *)
Start(w) ==
    /\ pool.pc[w] = "start"
    /\ pool' = take(pool, w)
    /\ UNCHANGED <<stored, faults>>

Woken(w) ==
    /\ pool.pc[w] = "woken"
    /\ pool' = reserve(pool, w)
    /\ UNCHANGED <<stored, faults>>

(* reserve() gave 0: this assignment replaces an earlier failure. *)
Refused(w) ==
    /\ pool.pc[w] = "refused"
    /\ pool' = [pool EXCEPT !.failure = "cap", !.pc[w] = "done"]
    /\ UNCHANGED <<stored, faults>>

(* The response arrived within the reservation.  After another worker's
   failure it is dropped, and its bytes are not counted. *)
Fetched(w) ==
    LET size == Sizes[pool.ref[w]]
    IN  /\ pool.pc[w] = "fetching"
        /\ size <= pool.reserved[w]
        /\ pool' = IF pool.failure # "none"
                   THEN [release(pool, w, 0) EXCEPT !.pc[w] = "done"]
                   ELSE [pool EXCEPT !.total = @ + size, !.pc[w] = "putting"]
        /\ UNCHANGED <<stored, faults>>

(* The response is larger than the reservation it was given. *)
TooLarge(w) ==
    /\ pool.pc[w] = "fetching"
    /\ Sizes[pool.ref[w]] > pool.reserved[w]
    /\ pool' = take(release(failWith(pool, "cap"), w, 0), w)
    /\ UNCHANGED <<stored, faults>>

(* fetchChunkWithRetry: a NetworkError is retried, the last one thrown; any
   other error, that of a body that breaks off included, is thrown at once. *)
FetchError(w) ==
    /\ pool.pc[w] = "fetching"
    /\ Fault
    /\ \/ /\ pool.attempt[w] + 1 < Attempts
          /\ pool' = [pool EXCEPT !.attempt[w] = @ + 1]
       \/ /\ pool.attempt[w] + 1 = Attempts
          /\ pool' = take(release(failWith(pool, "network"), w, 0), w)
       \/ pool' = take(release(failWith(pool, "integrity"), w, 0), w)
    /\ UNCHANGED stored

Put(w) ==
    LET consumed == Sizes[pool.ref[w]]
    IN  /\ pool.pc[w] = "putting"
        /\ \/ /\ stored' = [stored EXCEPT ![pool.ref[w]] = @ + 1]
              /\ pool' = take(release(pool, w, consumed), w)
              /\ UNCHANGED faults
           \/ /\ Fault
              /\ pool' = take(release(failWith(pool, "storage"), w, consumed), w)
              /\ UNCHANGED stored

WorkerStep(w) ==
    \/ Start(w) \/ Woken(w) \/ Refused(w) \/ Fetched(w) \/ TooLarge(w)
    \/ FetchError(w) \/ Put(w)

(* Promise.all resolved. *)
Finished == \A w \in Workers : pool.pc[w] = "done"

PoolNext == \E w \in Workers : WorkerStep(w)

PoolSpec == PoolInit /\ [][PoolNext]_poolVars

-----------------------------------------------------------------------------
(* Properties.                                                             *)

holding == {w \in Workers : pool.pc[w] \in {"fetching", "putting"}}
putting == {w \in Workers : pool.pc[w] = "putting"}

(* Budget is neither lost nor invented, whatever fails: what remains, what is
   reserved, and what finished chunks used, add up to the cap.  (A chunk being
   put is counted in `total' and still in its reservation.) *)
BudgetConserved ==
    /\ pool.inFlight = Cardinality(holding)
    /\ pool.remaining
         + SumFunctionOnSet(pool.reserved, holding)
         + pool.total - SumFunctionOnSet([w \in putting |-> Sizes[pool.ref[w]]], putting)
         = MaxTotalBytes

(* The ceilings handed to overlapping requests and the bytes accepted so far
   never exceed the cap together: no set of concurrent responses can. *)
CapHolds ==
    pool.total
      + SumFunctionOnSet(pool.reserved, holding \ putting)
      <= MaxTotalBytes

(* A worker that waits for budget can be woken: somebody holds a reservation,
   and will release it. *)
NoLostWakeup ==
    (\E w \in Workers : pool.pc[w] = "waiting") => holding # {}

(* A pool that ends without a failure has put every chunk, exactly once. *)
SuccessIsComplete ==
    Finished /\ pool.failure = "none" => \A r \in Refs : stored[r] = 1

(* What the shared counters of fetchMissing mean, between any two awaits of
   its workers, whatever fails. *)
PoolInvariant ==
    /\ PoolTypeOK
    /\ BudgetConserved
    /\ CapHolds
    /\ NoLostWakeup
    /\ SuccessIsComplete
=============================================================================
