---------------------------- MODULE MCChunkStore ----------------------------
(***************************************************************************)
(* A small chunk store: two manifests that share a chunk, a sequence-less  *)
(* 0.1.x pointer, two releases that fork at sequence 0 and a newer one.    *)
(***************************************************************************)
EXTENDS ChunkStore, TLC

CONSTANTS c1, c2, m1, m2

MCChunks == {c1, c2}
MCManifests == {m1, m2}
MCLegacyChunks == {c1}
MCLegacyManifests == {m1}
MCChunksOf == (m1 :> {c1}) @@ (m2 :> {c1, c2})

Release(m, v, seq, sig) ==
    [manifest_hash |-> m, version |-> v, sequence |-> seq,
     bundle_id |-> null, signature |-> sig, key_id |-> null,
     expires_at |-> null]

legacy  == Release(m1, 0, -1, 1)
first   == Release(m1, 1, 0, 1)
fork    == Release(m2, 1, 0, 1)
newer   == Release(m2, 2, 1, 1)

MCPointers == {legacy, first, fork, newer}

(* Slot orders that agree, that disagree at the top, that disagree only below
   the top, and that hold nothing but a sequence-less pointer. *)
MCLegacySlots ==
    { <<null>>, <<legacy, first>>, <<first, fork>>, <<newer, first, fork>>,
      <<first, fork, newer>>, <<legacy>> }
=============================================================================
