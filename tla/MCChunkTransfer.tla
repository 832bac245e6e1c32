-------------------------- MODULE MCChunkTransfer --------------------------
(***************************************************************************)
(* Three workers over five chunks that just fit the budget, so that some   *)
(* orders exhaust it; then three files, which share chunks, are read back. *)
(***************************************************************************)
EXTENDS ChunkTransfer, TLC

CONSTANTS w1, w2, w3

MCWorkers == {w1, w2, w3}
Fitting == <<1, 1, 2, 1, 2>>

(* The second file repeats chunks of the first, the last one is its own. *)
MCFiles == <<<<"a", "b", "a", "c">>, <<"b", "c">>, <<"d">>>>
=============================================================================
