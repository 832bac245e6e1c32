------------------------------ MODULE MCSqlPool ------------------------------
(* Workers that contend for a named database, a vector index and a legacy pool. *)
EXTENDS SqlPool, TLC
CONSTANTS c1, c2, sql, vec
==============================================================================
