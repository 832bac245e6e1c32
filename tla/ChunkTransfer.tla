--------------------------- MODULE ChunkTransfer ---------------------------
(***************************************************************************)
(* How syncIndex (src/engine/sync.ts) moves a release: the manifest comes  *)
(* in one request (FetchBytes), the missing chunks are downloaded          *)
(* (FetchPool), and when all of them are in the store every selected file  *)
(* is read back (ChunkReader).  A failure of one part skips the others.    *)
(***************************************************************************)
EXTENDS FetchBytes, FetchPool, ChunkReader

transferVars == <<requestVars, poolVars, readerVars>>

TransferInit == RequestInit /\ PoolInit /\ ReaderInit

(* await fetchManifest(...) has returned, and what it used is gone. *)
Returned == [at |-> "returned", timer |-> null, total |-> 0, outcome |-> "bytes"]

Request == RequestNext /\ UNCHANGED <<poolVars, readerVars>>

(* fetchManifest checks and stores what it got; SyncEngine has the checks, and
   the end of a sync that fails one. *)
ManifestReturns ==
    /\ request.at = "over" /\ request.outcome = "bytes"
    /\ request' = Returned
    /\ wire' = [sent |-> 0, silence |-> 0, open |-> FALSE]
    /\ UNCHANGED <<poolVars, readerVars>>

(* await fetchMissing(...) has returned. *)
Downloaded == Finished /\ pool.failure = "none"

Download == request = Returned /\ PoolNext /\ UNCHANGED <<requestVars, readerVars>>
ReadBack == Downloaded /\ ReaderNext /\ UNCHANGED <<requestVars, poolVars>>

TransferNext == Request \/ ManifestReturns \/ Download \/ ReadBack

TransferSpec == TransferInit /\ [][TransferNext]_transferVars

(* Time passes for a request, and every put and read settles: the store is
   local.  Continuations that are due run. *)
FairTransferSpec ==
    /\ TransferSpec
    /\ WF_transferVars(Request)
    /\ WF_transferVars(ManifestReturns)
    /\ \A w \in Workers :
          WF_transferVars(request = Returned /\ WorkerStep(w)
                          /\ UNCHANGED <<requestVars, readerVars>>)
    /\ WF_transferVars(ReadBack)

-----------------------------------------------------------------------------
(* A sync's transfer always ends, refused or read back: no request outlasts a
   silent or an endless server, no worker waits for ever for budget, and no read
   for its turn (fetchBytes, fetchMissing, chunkReader). *)
TransferEnds ==
    <>(\/ request.outcome \in Outcomes \ {"bytes"}
       \/ Finished /\ (Downloaded => PassEnded))
=============================================================================
