------------------------------ MODULE MCSahPool ------------------------------
(* Three connections of one Worker on a pool of a few slots. *)
EXTENDS SahPool, TLC
CONSTANTS k1, k2, k3, t1, t2
==============================================================================
