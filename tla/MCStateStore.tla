---------------------------- MODULE MCStateStore ----------------------------
(***************************************************************************)
(* Two tabs over one key.  The imported files: one of an epoch far ahead   *)
(* of this store's, one at the largest safe integer, and one with a row    *)
(* newer than its database, which stageImport refuses.                     *)
(***************************************************************************)
EXTENDS StateStore, TLC

CONSTANTS t1, t2, k1, v1, v2

Put(v) == [put |-> TRUE, key |-> k1, value |-> v]
Del    == [put |-> FALSE, key |-> k1, value |-> v1]

BatchSet == {<<Put(v1), Del>>, <<Put(v2)>>}

File(version, epoch, revision) ==
    [schema |-> version, epoch |-> epoch,
     rows |-> [k \in {k1} |-> [value |-> v2, revision |-> revision]]]

FileSet == {File(2, 4, 4), File(1, MaxSafe, 0), File(1, 0, 1)}
=============================================================================
