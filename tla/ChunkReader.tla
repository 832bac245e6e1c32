---------------------------- MODULE ChunkReader ----------------------------
(***************************************************************************)
(* verifyReassembly (src/engine/sync.ts): every file is read back from the *)
(* store, several at a time (mapBounded over the files), and the chunks of *)
(* a file several at a time (mapBounded again); all of them share one      *)
(* chunkReader, which bounds the reads of the whole pass and joins reads   *)
(* of the same chunk.                                                      *)
(*                                                                         *)
(* A step is what runs between two awaits.  Continuations that are due     *)
(* together run in any order here; the code runs them in one.              *)
(***************************************************************************)
EXTENDS Naturals, Sequences, FiniteSets

CONSTANTS
    Files,      \* Seq(Seq(hash)): the chunks of each selected file
    MaxReads    \* MAX_CONCURRENT_CHUNK_READS

ASSUME ChunkReaderAssumption ==
    /\ MaxReads \in Nat \ {0}
    /\ Len(Files) \in Nat /\ DOMAIN Files = 1 .. Len(Files)
    /\ \A f \in DOMAIN Files :
          Len(Files[f]) \in Nat /\ DOMAIN Files[f] = 1 .. Len(Files[f])

Hashes == UNION {{Files[f][i] : i \in DOMAIN Files[f]} : f \in DOMAIN Files}

(* The workers of a mapBounded over n items. *)
workers(n) == 1 .. (IF n < MaxReads THEN n ELSE MaxReads)

VARIABLES
    reader,     \* chunkReader: active reads, failure, waiting queue, and its
                \* run() for each chunk in `inFlight'
    outer,      \* mapBounded over the files: next item, failed, its workers
    inner       \* mapBounded over the chunks of each file

readerVars == <<reader, outer, inner>>

(* Of run(ref): not in flight, queued, about to look again, in getChunk, or
   settled with the callers still to be told. *)
RunStates == {"none", "waiting", "woken", "reading", "read", "rejected"}

(* A worker of mapBounded is not started, awaits an item, is resumed from that
   with or without an error, or is done. *)
WorkerAt(items) ==
    [at : {"start", "ok", "error", "done"}, item : {0}] \cup [at : {"await"}, item : items]

Idle(n) == [w \in workers(n) |-> [at |-> "start", item |-> 0]]
Await(item) == [at |-> "await", item |-> item]
Resumed(good) == [at |-> IF good THEN "ok" ELSE "error", item |-> 0]
Done == [at |-> "done", item |-> 0]

ReaderInit ==
    /\ reader = [active |-> 0, failure |-> FALSE, waiting |-> <<>>,
                 run |-> [h \in Hashes |-> "none"]]
    /\ outer = [next |-> 1, failed |-> FALSE,
                worker |-> Idle(Len(Files))]
    /\ inner = [f \in DOMAIN Files |->
                  [next |-> 1, failed |-> FALSE, open |-> FALSE,
                   worker |-> Idle(Len(Files[f]))]]

-----------------------------------------------------------------------------
(* chunkReader *)

(* waiting.shift()?.() *)
wakeNext(r) ==
    IF r.waiting = <<>> THEN r
    ELSE [r EXCEPT !.run[Head(r.waiting)] = "woken", !.waiting = Tail(@)]

(* run(), from the test of its loop on. *)
run(r, h) ==
    IF r.active >= MaxReads
    THEN [r EXCEPT !.waiting = Append(@, h), !.run[h] = "waiting"]
    ELSE IF r.failure
    THEN [wakeNext(r) EXCEPT !.run[h] = "rejected"]
    ELSE [r EXCEPT !.active = @ + 1, !.run[h] = "reading"]

(* read(ref): join the read in flight, or start one. *)
read(r, h) == IF r.run[h] = "none" THEN run(r, h) ELSE r

LookAgain(h) ==
    /\ reader.run[h] = "woken"
    /\ reader' = run(reader, h)
    /\ UNCHANGED <<outer, inner>>

(* Defect: only a read that succeeds passes its turn on. *)
GetChunkEnds_KeepsTurn(h) ==
    /\ reader.run[h] = "reading"
    /\ \/ reader' = wakeNext([reader EXCEPT !.active = @ - 1, !.run[h] = "read"])
       \/ reader' = [reader EXCEPT !.active = @ - 1, !.failure = TRUE,
                                   !.run[h] = "rejected"]
    /\ UNCHANGED <<outer, inner>>

(* getChunk returns, or throws: the row is missing, damaged or unreadable. *)
GetChunkEnds(h) ==
    /\ reader.run[h] = "reading"
    /\ \E good \in BOOLEAN :
          reader' = wakeNext([reader EXCEPT
                      !.active = @ - 1,
                      !.failure = @ \/ ~ good,
                      !.run[h] = IF good THEN "read" ELSE "rejected"])
    /\ UNCHANGED <<outer, inner>>

Awaits(f, w, h) ==
    inner[f].worker[w].at = "await" /\ Files[f][inner[f].worker[w].item] = h

(* The chunk leaves `inFlight', and everyone who awaits it is resumed. *)
Settle(h) ==
    /\ reader.run[h] \in {"read", "rejected"}
    /\ reader' = [reader EXCEPT !.run[h] = "none"]
    /\ inner' = [f \in DOMAIN Files |-> [inner[f] EXCEPT !.worker =
                   [w \in DOMAIN @ |-> IF Awaits(f, w, h)
                                       THEN Resumed(reader.run[h] = "read")
                                       ELSE @[w]]]]
    /\ UNCHANGED outer

-----------------------------------------------------------------------------
(* mapBounded over the chunks of an open file, in reassemble. *)
NextChunk(f, w) ==
    LET m == inner[f]
        failed == m.failed \/ m.worker[w].at = "error"
    IN  /\ m.open /\ m.worker[w].at \in {"start", "ok", "error"}
        /\ IF ~ failed /\ m.next \in DOMAIN Files[f]
           THEN /\ inner' = [inner EXCEPT ![f].next = @ + 1,
                                         ![f].worker[w] = Await(m.next)]
                /\ reader' = read(reader, Files[f][m.next])
           ELSE /\ inner' = [inner EXCEPT ![f].failed = failed, ![f].worker[w] = Done]
                /\ UNCHANGED reader
        /\ UNCHANGED outer

(* Defect: the file is settled with its first failure. *)
FileEnds_AtFirstError(f) ==
    /\ inner[f].open
    /\ \/ inner[f].failed
       \/ \A w \in DOMAIN inner[f].worker : inner[f].worker[w] = Done
    /\ outer' = [outer EXCEPT !.worker =
                   [v \in DOMAIN @ |-> IF @[v] = Await(f) THEN Resumed(~ inner[f].failed)
                                       ELSE @[v]]]
    /\ inner' = [inner EXCEPT ![f].open = FALSE]
    /\ UNCHANGED reader

(* All workers of the file are done: reassemble throws the failure, or the
   joined chunks do or do not hash to the file's name. *)
FileEnds(f) ==
    /\ inner[f].open
    /\ \A w \in DOMAIN inner[f].worker : inner[f].worker[w] = Done
    /\ \E good \in BOOLEAN :
          /\ inner[f].failed => ~ good
          /\ outer' = [outer EXCEPT !.worker =
                         [v \in DOMAIN @ |-> IF @[v] = Await(f) THEN Resumed(good)
                                             ELSE @[v]]]
    /\ inner' = [inner EXCEPT ![f].open = FALSE]
    /\ UNCHANGED reader

(* mapBounded over the files, in verifyReassembly. *)
NextFile(v) ==
    LET failed == outer.failed \/ outer.worker[v].at = "error"
    IN  /\ outer.worker[v].at \in {"start", "ok", "error"}
        /\ IF ~ failed /\ outer.next \in DOMAIN Files
           THEN /\ outer' = [outer EXCEPT !.next = @ + 1, !.worker[v] = Await(outer.next)]
                /\ inner' = [inner EXCEPT ![outer.next].open = TRUE]
           ELSE /\ outer' = [outer EXCEPT !.failed = failed, !.worker[v] = Done]
                /\ UNCHANGED inner
        /\ UNCHANGED reader

ReaderNext ==
    \/ \E h \in Hashes : LookAgain(h) \/ GetChunkEnds(h) \/ Settle(h)
    \/ \E f \in DOMAIN Files :
          FileEnds(f) \/ \E w \in DOMAIN inner[f].worker : NextChunk(f, w)
    \/ \E v \in DOMAIN outer.worker : NextFile(v)

-----------------------------------------------------------------------------
(* Properties.                                                             *)

(* verifyReassembly has settled. *)
PassEnded == \A v \in DOMAIN outer.worker : outer.worker[v] = Done

reading == {h \in Hashes : reader.run[h] = "reading"}

ReaderTypeOK ==
    /\ reader.active \in 0 .. MaxReads /\ reader.failure \in BOOLEAN
    /\ reader.waiting \in Seq(Hashes)
    /\ reader.run \in [Hashes -> RunStates]
    /\ outer.next \in 1 .. (Len(Files) + 1) /\ outer.failed \in BOOLEAN
    /\ outer.worker \in [workers(Len(Files)) -> WorkerAt(DOMAIN Files)]
    /\ \A f \in DOMAIN Files :
          /\ inner[f].next \in 1 .. (Len(Files[f]) + 1)
          /\ inner[f].failed \in BOOLEAN /\ inner[f].open \in BOOLEAN
          /\ inner[f].worker \in [workers(Len(Files[f])) -> WorkerAt(DOMAIN Files[f])]

(* The reads of all files together keep to the limit, and a read that waits for
   its turn will be woken, failure or not. *)
ReadsBounded ==
    /\ reader.active = Cardinality(reading)
    /\ reader.waiting # <<>> => reading # {} \/ \E h \in Hashes : reader.run[h] = "woken"

(* No read outlives its callers: when a file or the pass is settled, with or
   without an error, nobody in it is left waiting, so no store access runs on
   after the cache lock is released. *)
NoReadOutlives ==
    /\ \A h \in Hashes : reader.run[h] # "none" =>
          \E f \in DOMAIN Files : /\ inner[f].open
                                  /\ \E w \in DOMAIN inner[f].worker : Awaits(f, w, h)
    /\ PassEnded => \A f \in DOMAIN Files : ~ inner[f].open

(* A pass that succeeds has read every chunk of every file, whichever reads it
   shared with other files; one that any read failed in does not succeed. *)
PassIsTrue ==
    PassEnded /\ ~ outer.failed =>
       /\ ~ reader.failure
       /\ \A f \in DOMAIN Files : inner[f].next = Len(Files[f]) + 1 /\ ~ inner[f].failed

(* The read-back of a sync, at every await. *)
ReaderInvariant ==
    /\ ReaderTypeOK
    /\ ReadsBounded
    /\ NoReadOutlives
    /\ PassIsTrue
=============================================================================
