-------------------------- MODULE MCChunkDatabase --------------------------
(***************************************************************************)
(* Two Workers over two 0.2.x stores.                                      *)
(***************************************************************************)
EXTENDS ChunkDatabase, TLC

CONSTANTS t1, t2

MCTabs == {t1, t2}

(* The OPFS store has a slot torn by a crash of 0.2.x, and an older release than
   the IndexedDB store. *)
TornTwin == <<null, 0, torn, 1>>

MCLegacyStates == {TornTwin}
=============================================================================
