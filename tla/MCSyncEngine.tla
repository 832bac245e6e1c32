---------------------------- MODULE MCSyncEngine ----------------------------
(***************************************************************************)
(* Two releases that share a chunk, signed by key A and then key B; a      *)
(* keyring that rotates from A to B and revokes A; a fork of the second    *)
(* release without an identity, a newer pointer whose manifest carries     *)
(* another version, and a sequence-less 0.1.x pointer in a 0.2.x store.    *)
(***************************************************************************)
EXTENDS SyncEngine, TLC

CONSTANTS c1, c2, m1, m2, A, B

MCChunks == {c1, c2}
MCManifests == {m1, m2}

Entry(p, hashes, sound) ==
    [path |-> p, size |-> Len(hashes), sound |-> sound,
     chunks |-> [i \in DOMAIN hashes |-> [hash |-> hashes[i], size |-> 1]]]

fileA == <<"data", "a">>
fileB == <<"b">>

MCContent ==
    (m1 :> [schema_version |-> 2, version |-> <<1>>, bundle_id |-> "app",
            files |-> <<Entry(fileA, <<c1>>, TRUE)>>]) @@
    (m2 :> [schema_version |-> 2, version |-> <<1, 1>>, bundle_id |-> "app",
            files |-> <<Entry(fileA, <<c1>>, TRUE), Entry(fileB, <<c2>>, TRUE)>>])

MCChunksOf == (m1 :> {c1}) @@ (m2 :> {c1, c2})

MCCaps == [files |-> 2, fileBytes |-> 2, chunkBytes |-> 1, refs |-> 3,
           distinct |-> 2, totalBytes |-> 3]

Release(m, v, seq, key, deadline) ==
    [manifest_hash |-> m, version |-> v, sequence |-> seq,
     bundle_id |-> "app", signature |-> key, key_id |-> key,
     expires_at |-> deadline]

first  == Release(m1, <<1>>, 0, A, 1)
second == Release(m2, <<1, 1>>, 1, B, null)
fork   == [Release(m1, <<1>>, 1, A, null) EXCEPT !.key_id = null, !.bundle_id = null]
mislabelled == Release(m1, <<2>>, 2, A, null)
legacy == [Release(m1, <<1>>, -1, A, null) EXCEPT !.key_id = null, !.bundle_id = null]

MCReleases == <<first, second>>
MCHostile == {fork, mislabelled}
MCPointers == {first, second, fork, mislabelled, legacy}
MCTrustRoots == << [keys |-> {A}, revoked |-> {}],
                   [keys |-> {A, B}, revoked |-> {}],
                   [keys |-> {A, B}, revoked |-> {A}] >>
MCLegacySlots == { <<legacy>> }

Everything == {null}
wantB == [directory |-> FALSE, path |-> fileB]
wantData == [directory |-> TRUE, path |-> <<"data">>]
MCWanted == {null, {wantData}, {wantB}}
=============================================================================
