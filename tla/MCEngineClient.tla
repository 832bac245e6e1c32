--------------------------- MODULE MCEngineClient ---------------------------
(***************************************************************************)
(* Three requests of any kinds; the bounds are given in the .cfg files.    *)
(***************************************************************************)
EXTENDS EngineClient, TLC
=============================================================================
