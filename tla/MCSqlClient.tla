---------------------------- MODULE MCSqlClient ----------------------------
(***************************************************************************)
(* Three calls, plain or transactions; the bounds are given in the .cfg.   *)
(***************************************************************************)
EXTENDS SqlClient, TLC
=============================================================================
