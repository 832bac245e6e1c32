---------------------------- MODULE EngineClient ----------------------------
(***************************************************************************)
(* EngineClient (src/engine/client.ts) on the main thread, the Worker it   *)
(* talks to, and the two message channels between them.                    *)
(*                                                                         *)
(* Every request has a deadline that only its own progress events re-arm.  *)
(* The Worker runs its requests as ChunkDatabase does: reads together,     *)
(* anything else alone.  It may also hang, or throw; and a deadline and    *)
(* the answer it waits for may both be due, in either order.               *)
(***************************************************************************)
EXTENDS Integers, Sequences, FiniteSetsExt

CONSTANTS
    MaxRequests,    \* bound on requests
    MaxProgress,    \* bound on the progress events of a request
    Timeout,        \* idleTimeoutMs, in ticks
    MaxFaults,      \* bound on throws of the Worker and of postMessage
    null

ASSUME EngineClientAssumption ==
    /\ MaxRequests \in Nat /\ MaxProgress \in Nat /\ MaxFaults \in Nat
    /\ Timeout \in Nat \ {0}
    /\ null \notin Nat

VARIABLES
    timer,      \* #pending: each request's remaining ticks, null if not pending
    crash,      \* #crash: a WorkerCrashError is latched
    disposed,   \* #disposed
    released,   \* #released, as the number of calls of terminate()
    nextId,     \* #nextId
    kind,       \* the kind of each request
    outcome,    \* what its caller was told
    toWorker, toClient,     \* messages under way
    worker,     \* the Worker: requests queued, requests running
    faults

(* History. *)
VARIABLES
    progress    \* progress events of each request

clientVars == <<timer, crash, disposed, released, nextId, kind, outcome>>
engineVars == <<clientVars, toWorker, toClient, worker, faults, progress>>

Ids   == 1 .. MaxRequests
Kinds == {"sync", "readFile", "clear"}

Messages == [id : Ids \cup {null}, kind : {"progress", "reply", "error"}]

EngineTypeOK ==
    /\ timer \in [Ids -> 0 .. Timeout \cup {null}]
    /\ crash \in BOOLEAN /\ disposed \in BOOLEAN /\ released \in 0 .. 1
    /\ nextId \in 0 .. MaxRequests
    /\ kind \in [Ids -> Kinds \cup {null}]
    /\ outcome \in [Ids -> {"none", "pending", "answered", "timeout", "crashed"}]
    /\ toWorker \in Seq(Ids) /\ toClient \in Seq(Messages)
    /\ worker \in [queue : Seq(Ids), running : SUBSET Ids]
    /\ faults \in 0 .. MaxFaults
    /\ progress \in [Ids -> 0 .. MaxProgress]

EngineInit ==
    /\ timer = [i \in Ids |-> null]
    /\ crash = FALSE /\ disposed = FALSE /\ released = 0 /\ nextId = 0
    /\ kind = [i \in Ids |-> null]
    /\ outcome = [i \in Ids |-> "none"]
    /\ toWorker = <<>> /\ toClient = <<>>
    /\ worker = [queue |-> <<>>, running |-> {}]
    /\ faults = 0
    /\ progress = [i \in Ids |-> 0]

pending == {i \in Ids : timer[i] # null}

Fault == faults < MaxFaults /\ faults' = faults + 1

-----------------------------------------------------------------------------
(* #releaseWorker: terminate() is called unless it was before. *)
ReleaseWorker ==
    \/ released > 0 /\ UNCHANGED released
    \/ released = 0 /\ released' = released + 1

(* Defect: the requests that wait are left to their own deadlines. *)
OnCrash_KeepsPending(told) ==
    /\ crash' = TRUE
    /\ timer' = timer
    /\ outcome' = [i \in Ids |-> IF i \in DOMAIN told THEN told[i] ELSE outcome[i]]
    /\ ReleaseWorker
    /\ toWorker' = <<>>

(* #onCrash: latch, reject everything pending, terminate the Worker once.
   `told' is what one caller was told before it. *)
OnCrash(told) ==
    /\ crash' = TRUE
    /\ timer' = [i \in Ids |-> null]
    /\ outcome' = [i \in Ids |-> IF i \in DOMAIN told THEN told[i]
                                 ELSE IF i \in pending THEN "crashed"
                                 ELSE outcome[i]]
    /\ ReleaseWorker
    /\ toWorker' = <<>>

(* #send: refused once a crash is latched; a postMessage that throws is a
   crash, and this request is among those rejected. *)
Send(k) ==
    LET id == nextId + 1
    IN  /\ id \in Ids
        /\ nextId' = id
        /\ kind' = [kind EXCEPT ![id] = k]
        /\ \/ /\ crash
              /\ outcome' = [outcome EXCEPT ![id] = "crashed"]
              /\ UNCHANGED <<timer, crash, released, toWorker, faults>>
           \/ /\ ~ crash
              /\ timer' = [timer EXCEPT ![id] = Timeout]
              /\ outcome' = [outcome EXCEPT ![id] = "pending"]
              /\ toWorker' = Append(toWorker, id)
              /\ UNCHANGED <<crash, released, faults>>
           \/ /\ ~ crash
              /\ OnCrash([i \in {id} |-> "crashed"])
              /\ Fault
        /\ UNCHANGED <<disposed, toClient, worker, progress>>

(* The callback of #deadline. *)
Expire(id) ==
    /\ timer[id] = 0
    /\ OnCrash([i \in {id} |-> "timeout"])
    /\ UNCHANGED <<disposed, nextId, kind, toClient, worker, faults, progress>>

(* dispose; a second call returns at once. *)
Dispose ==
    /\ ~ disposed
    /\ disposed' = TRUE
    /\ OnCrash([i \in {} |-> "crashed"])
    /\ UNCHANGED <<nextId, kind, toClient, worker, faults, progress>>

(* Defect: the old deadline is cleared and no new one is set. *)
Rearm_Forgets(id) == timer' = [timer EXCEPT ![id] = -1]

(* A progress event re-arms its request's deadline. *)
Rearm(id) == timer' = [timer EXCEPT ![id] = Timeout]

(* Defect: an answer is believed whether or not its request is pending. *)
OnMessage_Late(m) ==
    /\ IF m.kind = "progress"
       THEN UNCHANGED <<timer, outcome>>
       ELSE /\ timer' = [timer EXCEPT ![m.id] = null]
            /\ outcome' = [outcome EXCEPT ![m.id] = "answered"]
    /\ UNCHANGED <<crash, released, toWorker>>

(* #onMessage: nothing is done for a request that is not pending. *)
OnMessage(m) ==
    /\ IF m.id \notin pending
       THEN UNCHANGED <<timer, outcome>>
       ELSE IF m.kind = "progress"
       THEN Rearm(m.id) /\ UNCHANGED outcome
       ELSE /\ timer' = [timer EXCEPT ![m.id] = null]
            /\ outcome' = [outcome EXCEPT ![m.id] = "answered"]
    /\ UNCHANGED <<crash, released, toWorker>>

(* The main thread takes the next message or error event of the Worker. *)
Deliver ==
    /\ toClient # <<>>
    /\ toClient' = Tail(toClient)
    /\ LET m == Head(toClient)
       IN  IF m.kind = "error" THEN OnCrash([i \in {} |-> "crashed"])
           ELSE OnMessage(m)
    /\ UNCHANGED <<disposed, nextId, kind, worker, faults, progress>>

-----------------------------------------------------------------------------
(* The Worker, until it is terminated. *)
ClientUnchanged == UNCHANGED clientVars

Receive ==
    /\ released = 0
    /\ toWorker # <<>>
    /\ toWorker' = Tail(toWorker)
    /\ worker' = [worker EXCEPT !.queue = Append(@, Head(toWorker))]
    /\ ClientUnchanged
    /\ UNCHANGED <<toClient, faults, progress>>

shared(id) == kind[id] = "readFile"

(* #nextBatch: the next exclusive request alone, or all leading reads. *)
StartBatch ==
    LET queue == worker.queue
        n == IF ~ shared(queue[1]) THEN 1
             ELSE Max({j \in DOMAIN queue : \A i \in 1 .. j : shared(queue[i])})
    IN  /\ released = 0
        /\ queue # <<>> /\ worker.running = {}
        /\ worker' = [queue |-> SubSeq(queue, n + 1, Len(queue)),
                      running |-> {queue[i] : i \in 1 .. n}]
        /\ ClientUnchanged
        /\ UNCHANGED <<toWorker, toClient, faults, progress>>

Post(m) == toClient' = Append(toClient, m)

ReportProgress(id) ==
    /\ released = 0
    /\ id \in worker.running /\ kind[id] = "sync"
    /\ progress[id] < MaxProgress
    /\ progress' = [progress EXCEPT ![id] = @ + 1]
    /\ Post([id |-> id, kind |-> "progress"])
    /\ ClientUnchanged
    /\ UNCHANGED <<toWorker, worker, faults>>

(* Success or classifyEngineError: either way a reply. *)
Reply(id) ==
    /\ released = 0
    /\ id \in worker.running
    /\ worker' = [worker EXCEPT !.running = @ \ {id}]
    /\ Post([id |-> id, kind |-> "reply"])
    /\ ClientUnchanged
    /\ UNCHANGED <<toWorker, faults, progress>>

(* An uncaught throw or a reply that does not deserialize: an event, after
   which the Worker may well go on. *)
Throw ==
    /\ released = 0
    /\ Post([id |-> null, kind |-> "error"])
    /\ Fault
    /\ ClientUnchanged
    /\ UNCHANGED <<toWorker, worker, progress>>

Tick ==
    /\ timer' = [i \in Ids |-> IF timer[i] \in 1 .. Timeout THEN timer[i] - 1
                               ELSE timer[i]]
    /\ timer' # timer
    /\ UNCHANGED <<crash, disposed, released, nextId, kind, outcome, toWorker,
                   toClient, worker, faults, progress>>

EngineNext ==
    \/ \E k \in Kinds : Send(k)
    \/ \E id \in Ids : Expire(id) \/ ReportProgress(id) \/ Reply(id)
    \/ Dispose \/ Deliver \/ Receive \/ StartBatch \/ Throw \/ Tick

EngineSpec == EngineInit /\ [][EngineNext]_engineVars

(* Time passes, and the main thread runs its timers and its message events.
   Nothing is assumed of the Worker. *)
FairEngineSpec ==
    /\ EngineSpec
    /\ WF_engineVars(Tick)
    /\ WF_engineVars(Deliver)
    /\ \A id \in Ids : WF_engineVars(Expire(id))

-----------------------------------------------------------------------------
(* Properties.                                                             *)

(* No failure path leaves a caller waiting on a Worker that is gone, or leaves
   a Worker running (with the pool's handles and locks) that nobody listens
   to. *)
CrashReleasesAll ==
    crash => pending = {} /\ released = 1 /\ \A i \in Ids : outcome[i] # "pending"

(* A client that has crashed holds nothing any more, and released its Worker
   exactly once, whichever of timeout, error event and dispose came first. *)
EngineInvariant ==
    /\ EngineTypeOK
    /\ CrashReleasesAll

(* What a caller was told is never changed by a late answer, a late progress
   event, a second failure or dispose. *)
OutcomeIsFinal ==
    [][ \A i \in Ids :
          outcome[i] \notin {"none", "pending"} => outcome'[i] = outcome[i]
      ]_engineVars

(* Every call is settled, whatever the Worker does: hangs before or after any
   number of progress events, throws, or answers late. *)
RequestsSettle ==
    \A i \in Ids : outcome[i] = "pending" ~> outcome[i] # "pending"
=============================================================================
