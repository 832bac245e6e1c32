------------------------- MODULE EngineClientProofs -------------------------
(***************************************************************************)
(* Proofs about EngineClient, for any number of requests, progress events  *)
(* and faults and any deadline.                                            *)
(***************************************************************************)
EXTENDS EngineClient, SequenceTheorems, WellFoundedInduction, TLAPS

(* A request waits exactly while its deadline is set. *)
WaitsWhileArmed ==
    \A i \in Ids : timer[i] # null <=> outcome[i] = "pending"

(* Nobody has been told anything of a request not yet made. *)
UnsentUntold ==
    \A i \in Ids : i > nextId => outcome[i] = "none"

(* What the engine client's steps keep. *)
ClientInvariant ==
    /\ EngineTypeOK
    /\ WaitsWhileArmed
    /\ UnsentUntold
    /\ crash => pending = {} /\ released = 1

-----------------------------------------------------------------------------
(* A non-empty set of naturals has a least element. *)
LEMMA LeastNatural ==
    ASSUME NEW S \in SUBSET Nat, S # {}
    PROVE  \E k \in S : \A m \in S : k <= m
<1> DEFINE R == OpToRel(<, Nat)
<1>1. IsWellFoundedOn(R, Nat)
  BY NatLessThanWellFounded
<1>2. PICK k \in S : \A m \in S : <<m, k>> \notin R
  <2> HIDE DEF R
  <2> QED
    BY <1>1, WFMin
<1>3. ASSUME NEW m \in S PROVE k <= m
  <2>1. ~ (m < k)
    BY <1>2 DEF OpToRel
  <2> QED
    BY <2>1
<1> QED
  BY <1>3

(* A non-empty set of numbers up to n has its maximum among them. *)
LEMMA MaxOfBounded ==
    ASSUME NEW n \in Nat, NEW S \in SUBSET (1 .. n), S # {}
    PROVE  Max(S) \in S
<1> DEFINE below == {k \in Nat : \E j \in S : k = n - j}
<1>1. below \in SUBSET Nat /\ below # {}
  <2>1. PICK j \in S : TRUE
    OBVIOUS
  <2>2. n - j \in Nat
    BY <2>1
  <2> QED
    BY <2>1, <2>2
<1>2. PICK k \in below : \A m \in below : k <= m
  BY <1>1, LeastNatural
<1>3. PICK j \in S : k = n - j
  BY <1>2
<1>4. ASSUME NEW i \in S PROVE j >= i
  <2>1. n - i \in below /\ i \in Nat /\ j \in Nat
    OBVIOUS
  <2>2. k <= n - i
    BY <2>1, <1>2
  <2> QED
    BY <2>1, <2>2, <1>3
<1>5. \E x \in S : \A y \in S : x >= y
  BY <1>4
<1> QED
  BY <1>5 DEF Max

(* #nextBatch: the batch is a prefix of the queue. *)
LEMMA BatchIsPrefix ==
    ASSUME NEW q \in Seq(Ids), q # <<>>,
           NEW n, n = IF ~ shared(q[1]) THEN 1
                      ELSE Max({j \in DOMAIN q : \A i \in 1 .. j : shared(q[i])})
    PROVE  n \in 1 .. Len(q)
<1>1. Len(q) \in Nat \ {0} /\ DOMAIN q = 1 .. Len(q)
  BY EmptySeq, LenProperties
<1> DEFINE S == {j \in DOMAIN q : \A i \in 1 .. j : shared(q[i])}
<1>2. CASE shared(q[1])
  <2>1. 1 \in S
    <3>1. \A i \in 1 .. 1 : i = 1
      OBVIOUS
    <3> QED
      BY <1>1, <1>2, <3>1
  <2>2. S \in SUBSET (1 .. Len(q))
    BY <1>1
  <2>3. Max(S) \in S
    <3> HIDE DEF S
    <3> QED
      BY <1>1, <2>1, <2>2, MaxOfBounded
  <2> QED
    BY <1>1, <1>2, <2>3
<1> QED
  BY <1>1, <1>2

(* #onCrash: nothing stays pending, and the types are kept. *)
LEMMA CrashSettles ==
    ASSUME ClientInvariant, NEW told, OnCrash(told),
           DOMAIN told \subseteq Ids,
           \A i \in DOMAIN told : told[i] \in {"timeout", "crashed"}
    PROVE  /\ timer' \in [Ids -> 0 .. Timeout \cup {null}]
           /\ outcome' \in [Ids -> {"none", "pending", "answered", "timeout", "crashed"}]
           /\ toWorker' \in Seq(Ids)
           /\ crash' = TRUE /\ released' = 1
           /\ pending' = {}
           /\ \A i \in Ids : /\ outcome'[i] # "pending"
                             /\ i \notin DOMAIN told /\ i \notin pending =>
                                   outcome'[i] = outcome[i]
<1> USE DEF ClientInvariant, EngineTypeOK, OnCrash, pending
<1>1. timer' \in [Ids -> 0 .. Timeout \cup {null}] /\ pending' = {}
  OBVIOUS
<1>2. ASSUME NEW i \in Ids
      PROVE  /\ outcome'[i] \in {"none", "answered", "timeout", "crashed"}
             /\ i \notin DOMAIN told /\ i \notin pending => outcome'[i] = outcome[i]
  BY DEF WaitsWhileArmed
<1>3. toWorker' \in Seq(Ids)
  BY EmptySeq
<1>4. released' = 1
  BY DEF ReleaseWorker
<1> QED
  BY <1>1, <1>2, <1>3, <1>4

(* A crash keeps the invariant, whatever else of the client it leaves alone. *)
LEMMA CrashKeeps ==
    ASSUME ClientInvariant, NEW told, OnCrash(told),
           DOMAIN told \subseteq pending,
           \A i \in DOMAIN told : told[i] \in {"timeout", "crashed"},
           disposed' \in BOOLEAN, toClient' \in Seq(Messages),
           UNCHANGED <<nextId, kind, worker, faults, progress>>
    PROVE  ClientInvariant'
<1>0. DOMAIN told \subseteq Ids
  BY DEF pending
<1>1. /\ timer' \in [Ids -> 0 .. Timeout \cup {null}]
      /\ outcome' \in [Ids -> {"none", "pending", "answered", "timeout", "crashed"}]
      /\ toWorker' \in Seq(Ids)
      /\ crash' = TRUE /\ released' = 1 /\ pending' = {}
      /\ \A i \in Ids : /\ outcome'[i] # "pending"
                        /\ i \notin DOMAIN told /\ i \notin pending =>
                              outcome'[i] = outcome[i]
  BY <1>0, CrashSettles
<1>2. EngineTypeOK'
  BY <1>1 DEF ClientInvariant, EngineTypeOK
<1>3. WaitsWhileArmed'
  BY <1>1 DEF WaitsWhileArmed, pending
<1>4. UnsentUntold'
  BY <1>1 DEF ClientInvariant, UnsentUntold, WaitsWhileArmed, pending
<1> QED
  BY <1>1, <1>2, <1>3, <1>4 DEF ClientInvariant

-----------------------------------------------------------------------------
(* The initial states satisfy the invariant. *)
LEMMA ClientInit == EngineInit => ClientInvariant
<1> SUFFICES ASSUME EngineInit PROVE ClientInvariant
  OBVIOUS
<1> USE DEF EngineInit
<1>1. <<>> \in Seq(Ids) /\ <<>> \in Seq(Messages)
  BY EmptySeq
<1>2. EngineTypeOK
  <2>1. worker \in [queue : Seq(Ids), running : SUBSET Ids]
    BY <1>1
  <2>2. /\ timer \in [Ids -> 0 .. Timeout \cup {null}]
        /\ kind \in [Ids -> Kinds \cup {null}]
        /\ outcome \in [Ids -> {"none", "pending", "answered", "timeout", "crashed"}]
    OBVIOUS
  <2>3. progress \in [Ids -> 0 .. MaxProgress]
    BY EngineClientAssumption
  <2>4. toWorker \in Seq(Ids) /\ toClient \in Seq(Messages)
    BY <1>1
  <2>5. released \in 0 .. 1 /\ nextId \in 0 .. MaxRequests /\ faults \in 0 .. MaxFaults
    BY EngineClientAssumption
  <2>6. crash \in BOOLEAN /\ disposed \in BOOLEAN
    BY Zenon
  <2> HIDE DEF EngineInit
  <2> QED
    BY <2>1, <2>2, <2>3, <2>4, <2>5, <2>6 DEF EngineTypeOK
<1>3. WaitsWhileArmed /\ UnsentUntold
  BY DEF WaitsWhileArmed, UnsentUntold
<1> QED
  BY <1>2, <1>3 DEF ClientInvariant

(* Every step of the main thread, the Worker and the clock keeps it. *)
LEMMA ClientStep ==
    ASSUME ClientInvariant, [EngineNext]_engineVars
    PROVE  ClientInvariant'
<1> USE DEF ClientInvariant
<1>0. Timeout \in Nat \ {0} /\ MaxRequests \in Nat /\ null \notin Nat
      /\ MaxFaults \in Nat /\ MaxProgress \in Nat
  BY EngineClientAssumption
<1>1. ASSUME NEW k \in Kinds, Send(k) PROVE ClientInvariant'
  <2> DEFINE id == nextId + 1
  <2>0. id \in Ids /\ id \in Nat /\ nextId' = id /\ outcome[id] = "none"
        /\ kind' = [kind EXCEPT ![id] = k]
        /\ UNCHANGED <<disposed, toClient, worker, progress>>
    BY <1>1 DEF Send, UnsentUntold, EngineTypeOK, Ids
  <2>1. CASE crash /\ outcome' = [outcome EXCEPT ![id] = "crashed"]
             /\ UNCHANGED <<timer, crash, released, toWorker, faults>>
    <3>1. EngineTypeOK'
      BY <1>0, <2>0, <2>1 DEF EngineTypeOK, Ids
    <3>2. WaitsWhileArmed' /\ UnsentUntold'
      BY <2>0, <2>1 DEF EngineTypeOK, WaitsWhileArmed, UnsentUntold, Ids
    <3> QED
      BY <2>1, <3>1, <3>2 DEF pending
  <2>2. CASE ~ crash /\ timer' = [timer EXCEPT ![id] = Timeout]
             /\ outcome' = [outcome EXCEPT ![id] = "pending"]
             /\ toWorker' = Append(toWorker, id)
             /\ UNCHANGED <<crash, released, faults>>
    <3>1. toWorker' \in Seq(Ids)
      BY <2>0, <2>2, AppendProperties DEF EngineTypeOK
    <3>2. EngineTypeOK'
      BY <1>0, <2>0, <2>2, <3>1 DEF EngineTypeOK, Ids
    <3>3. WaitsWhileArmed' /\ UnsentUntold'
      BY <1>0, <2>0, <2>2 DEF EngineTypeOK, WaitsWhileArmed, UnsentUntold, Ids
    <3> QED
      BY <2>2, <3>2, <3>3
  <2>3. CASE ~ crash /\ OnCrash([i \in {id} |-> "crashed"]) /\ Fault
    <3> DEFINE told == [i \in {id} |-> "crashed"]
    <3>0. /\ DOMAIN told = {id} /\ DOMAIN told \subseteq Ids
          /\ \A i \in DOMAIN told : told[i] \in {"timeout", "crashed"}
      BY <2>0
    <3>1. /\ timer' \in [Ids -> 0 .. Timeout \cup {null}]
          /\ outcome' \in [Ids -> {"none", "pending", "answered", "timeout", "crashed"}]
          /\ toWorker' \in Seq(Ids)
          /\ crash' = TRUE /\ released' = 1 /\ pending' = {}
          /\ \A i \in Ids : /\ outcome'[i] # "pending"
                            /\ i \notin DOMAIN told /\ i \notin pending =>
                                  outcome'[i] = outcome[i]
      BY <2>3, <3>0, CrashSettles
    <3>2. EngineTypeOK'
      BY <1>0, <2>0, <2>3, <3>1 DEF EngineTypeOK, Ids, Fault
    <3>3. WaitsWhileArmed'
      BY <3>1 DEF WaitsWhileArmed, pending
    <3>4. UnsentUntold'
      BY <2>0, <3>0, <3>1 DEF UnsentUntold, WaitsWhileArmed, pending, EngineTypeOK, Ids
    <3> QED
      BY <3>1, <3>2, <3>3, <3>4
  <2> QED
    BY <1>1, <2>1, <2>2, <2>3 DEF Send
<1>2. ASSUME NEW id \in Ids, Expire(id) PROVE ClientInvariant'
  <2> DEFINE told == [i \in {id} |-> "timeout"]
  <2>1. /\ OnCrash(told) /\ id \in pending
        /\ UNCHANGED <<disposed, nextId, kind, toClient, worker, faults, progress>>
    BY <1>0, <1>2 DEF Expire, pending
  <2>2. /\ DOMAIN told \subseteq pending
        /\ \A i \in DOMAIN told : told[i] \in {"timeout", "crashed"}
    BY <2>1
  <2> HIDE DEF told
  <2> QED
    BY <2>1, <2>2, CrashKeeps DEF EngineTypeOK
<1>3. CASE Dispose
  <2> DEFINE told == [i \in {} |-> "crashed"]
  <2>0. /\ DOMAIN told = {} /\ DOMAIN told \subseteq pending
        /\ \A i \in DOMAIN told : told[i] \in {"timeout", "crashed"}
    OBVIOUS
  <2>1. /\ OnCrash(told) /\ disposed' \in BOOLEAN
        /\ UNCHANGED <<nextId, kind, toClient, worker, faults, progress>>
    BY <1>3 DEF Dispose
  <2> QED
    BY <2>0, <2>1, CrashKeeps DEF EngineTypeOK
<1>4. CASE Deliver
  <2> DEFINE m == Head(toClient)
             told == [i \in {} |-> "crashed"]
  <2>1. /\ m \in Messages /\ toClient' \in Seq(Messages)
        /\ UNCHANGED <<disposed, nextId, kind, worker, faults, progress>>
    BY <1>4, HeadTailProperties DEF Deliver, EngineTypeOK
  <2>2. CASE OnCrash(told)
    <3>1. /\ DOMAIN told = {} /\ DOMAIN told \subseteq pending
          /\ \A i \in DOMAIN told : told[i] \in {"timeout", "crashed"}
      OBVIOUS
    <3> QED
      BY <2>1, <2>2, <3>1, CrashKeeps DEF EngineTypeOK
  <2>3. CASE OnMessage(m)
    <3>1. UNCHANGED <<crash, released, toWorker>>
      BY <2>3 DEF OnMessage
    <3>2. CASE UNCHANGED <<timer, outcome>>
      BY <2>1, <3>1, <3>2
      DEF EngineTypeOK, WaitsWhileArmed, UnsentUntold, pending
    <3>3. CASE /\ m.id \in pending /\ ~ crash
               /\ timer' = [timer EXCEPT ![m.id] = Timeout]
               /\ UNCHANGED outcome
      <4>1. EngineTypeOK'
        BY <1>0, <2>1, <3>1, <3>3 DEF EngineTypeOK, pending
      <4>2. WaitsWhileArmed' /\ UnsentUntold'
        BY <1>0, <2>1, <3>3
        DEF EngineTypeOK, WaitsWhileArmed, UnsentUntold, pending
      <4> QED
        BY <3>1, <3>3, <4>1, <4>2
    <3>4. CASE /\ m.id \in pending /\ ~ crash
               /\ timer' = [timer EXCEPT ![m.id] = null]
               /\ outcome' = [outcome EXCEPT ![m.id] = "answered"]
      <4>1. EngineTypeOK'
        BY <1>0, <2>1, <3>1, <3>4 DEF EngineTypeOK, pending
      <4>2. WaitsWhileArmed' /\ UnsentUntold'
        BY <2>1, <3>4
        DEF EngineTypeOK, WaitsWhileArmed, UnsentUntold, pending
      <4> QED
        BY <3>1, <3>4, <4>1, <4>2
    <3> QED
      BY <2>3, <3>2, <3>3, <3>4 DEF OnMessage, Rearm
  <2> QED
    BY <1>4, <2>2, <2>3 DEF Deliver
<1>5. CASE Receive
  <2>1. /\ Head(toWorker) \in Ids /\ toWorker' \in Seq(Ids)
        /\ worker' = [worker EXCEPT !.queue = Append(@, Head(toWorker))]
        /\ UNCHANGED <<clientVars, toClient, faults, progress>>
    BY <1>5, HeadTailProperties DEF Receive, EngineTypeOK, ClientUnchanged
  <2>2. Append(worker.queue, Head(toWorker)) \in Seq(Ids)
    BY <2>1, AppendProperties DEF EngineTypeOK
  <2>3. EngineTypeOK'
    BY <2>1, <2>2 DEF EngineTypeOK, clientVars
  <2> QED
    BY <2>1, <2>3 DEF clientVars, WaitsWhileArmed, UnsentUntold, pending
<1>6. CASE StartBatch
  <2> DEFINE q == worker.queue
             n == IF ~ shared(q[1]) THEN 1
                  ELSE Max({j \in DOMAIN q : \A i \in 1 .. j : shared(q[i])})
  <2>1. /\ q \in Seq(Ids) /\ q # <<>>
        /\ worker' = [queue |-> SubSeq(q, n + 1, Len(q)),
                      running |-> {q[i] : i \in 1 .. n}]
        /\ UNCHANGED <<clientVars, toWorker, toClient, faults, progress>>
    BY <1>6 DEF StartBatch, EngineTypeOK, ClientUnchanged
  <2>2. n \in 1 .. Len(q)
    BY <2>1, BatchIsPrefix
  <2>3. worker' \in [queue : Seq(Ids), running : SUBSET Ids]
    <3> HIDE DEF n
    <3>1. Len(q) \in Nat /\ \A i \in 1 .. Len(q) : q[i] \in Ids
      BY <2>1, LenProperties, ElementOfSeq
    <3>2. SubSeq(q, n + 1, Len(q)) \in Seq(Ids)
      BY <2>2, <3>1, SubSeqProperties
    <3>3. {q[i] : i \in 1 .. n} \in SUBSET Ids
      BY <2>2, <3>1
    <3> QED
      BY <2>1, <3>2, <3>3
  <2>4. EngineTypeOK'
    BY <2>1, <2>3 DEF EngineTypeOK, clientVars
  <2> QED
    BY <2>1, <2>4 DEF clientVars, WaitsWhileArmed, UnsentUntold, pending
<1>7. ASSUME NEW id \in Ids, ReportProgress(id) PROVE ClientInvariant'
  <2>1. toClient' \in Seq(Messages)
    <3>1. [id |-> id, kind |-> "progress"] \in Messages
      BY DEF Messages
    <3> QED
      BY <1>7, <3>1, AppendProperties DEF ReportProgress, Post, EngineTypeOK
  <2>2. EngineTypeOK'
    BY <1>0, <1>7, <2>1
    DEF ReportProgress, EngineTypeOK, ClientUnchanged, clientVars
  <2> QED
    BY <1>7, <2>2 DEF ReportProgress, ClientUnchanged, clientVars,
                      WaitsWhileArmed, UnsentUntold, pending
<1>8. ASSUME NEW id \in Ids, Reply(id) PROVE ClientInvariant'
  <2>1. toClient' \in Seq(Messages)
    <3>1. [id |-> id, kind |-> "reply"] \in Messages
      BY DEF Messages
    <3> QED
      BY <1>8, <3>1, AppendProperties DEF Reply, Post, EngineTypeOK
  <2>2. EngineTypeOK'
    BY <1>8, <2>1 DEF Reply, EngineTypeOK, ClientUnchanged, clientVars
  <2> QED
    BY <1>8, <2>2 DEF Reply, ClientUnchanged, clientVars,
                      WaitsWhileArmed, UnsentUntold, pending
<1>9. CASE Throw
  <2>1. toClient' \in Seq(Messages)
    <3>1. [id |-> null, kind |-> "error"] \in Messages
      BY DEF Messages
    <3> QED
      BY <1>9, <3>1, AppendProperties DEF Throw, Post, EngineTypeOK
  <2>2. EngineTypeOK'
    BY <1>0, <1>9, <2>1
    DEF Throw, Fault, EngineTypeOK, ClientUnchanged, clientVars
  <2> QED
    BY <1>9, <2>2 DEF Throw, ClientUnchanged, clientVars,
                      WaitsWhileArmed, UnsentUntold, pending
<1>10. CASE Tick
  <2>1. \A i \in Ids : /\ timer'[i] \in 0 .. Timeout \cup {null}
                       /\ timer'[i] # null <=> timer[i] # null
    BY <1>0, <1>10 DEF Tick, EngineTypeOK
  <2>2. EngineTypeOK'
    BY <1>10, <2>1 DEF Tick, EngineTypeOK
  <2> QED
    BY <1>10, <2>1, <2>2 DEF Tick, WaitsWhileArmed, UnsentUntold, pending
<1>11. CASE UNCHANGED engineVars
  BY <1>11 DEF engineVars, clientVars, EngineTypeOK, WaitsWhileArmed,
               UnsentUntold, pending
<1> QED
  BY <1>1, <1>2, <1>3, <1>4, <1>5, <1>6, <1>7, <1>8, <1>9, <1>10, <1>11
  DEF EngineNext

(* A crashed client holds nothing any more and has released its Worker once,
   whichever of timeout, error event and dispose came first. *)
THEOREM CrashedHoldsNothing == EngineSpec => []EngineInvariant
<1>1. ClientInvariant => EngineInvariant
  BY DEF ClientInvariant, EngineInvariant, CrashReleasesAll, WaitsWhileArmed, pending
<1> QED
  BY <1>1, ClientInit, ClientStep, PTL DEF EngineSpec

(* Only a request not yet settled is told anything. *)
LEMMA SettledStays ==
    ASSUME ClientInvariant, [EngineNext]_engineVars, NEW i \in Ids,
           outcome[i] \notin {"none", "pending"}
    PROVE  outcome'[i] = outcome[i]
<1> USE DEF ClientInvariant
<1>0. i <= nextId /\ i \notin pending /\ timer[i] = null /\ nextId \in Nat /\ null \notin Nat
  BY EngineClientAssumption
  DEF EngineTypeOK, UnsentUntold, WaitsWhileArmed, pending, Ids
<1>1. ASSUME NEW told, OnCrash(told), i \notin DOMAIN told
      PROVE  outcome'[i] = outcome[i]
  BY <1>0, <1>1 DEF OnCrash
<1>2. ASSUME NEW k \in Kinds, Send(k) PROVE outcome'[i] = outcome[i]
  <2>1. i # nextId + 1
    BY <1>0 DEF Ids
  <2>2. DOMAIN [j \in {nextId + 1} |-> "crashed"] = {nextId + 1}
    OBVIOUS
  <2> QED
    BY <1>1, <1>2, <2>1, <2>2 DEF Send, EngineTypeOK
<1>3. ASSUME NEW id \in Ids, Expire(id) PROVE outcome'[i] = outcome[i]
  <2>1. id # i
    BY <1>0, <1>3 DEF Expire
  <2> QED
    BY <1>1, <1>3, <2>1 DEF Expire
<1>4. CASE Dispose
  BY <1>1, <1>4 DEF Dispose
<1>5. CASE Deliver
  <2>1. ASSUME NEW m, OnMessage(m) PROVE outcome'[i] = outcome[i]
    BY <1>0, <2>1 DEF OnMessage, EngineTypeOK
  <2> QED
    BY <1>1, <1>5, <2>1 DEF Deliver
<1>6. CASE UNCHANGED outcome
  BY <1>6
<1> QED
  BY <1>2, <1>3, <1>4, <1>5, <1>6
  DEF EngineNext, engineVars, clientVars, ClientUnchanged, ReportProgress, Reply,
      Receive, StartBatch, Throw, Tick

(* What a caller was told is never changed by a late answer, a late progress
   event, a second failure or dispose. *)
THEOREM OutcomesAreFinal == EngineSpec => OutcomeIsFinal
<1>1. ClientInvariant /\ [EngineNext]_engineVars =>
        [\A i \in Ids : outcome[i] \notin {"none", "pending"} =>
                           outcome'[i] = outcome[i]]_engineVars
  BY SettledStays
<1> QED
  BY <1>1, ClientInit, ClientStep, PTL DEF EngineSpec, OutcomeIsFinal
=============================================================================
