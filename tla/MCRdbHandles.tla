---------------------------- MODULE MCRdbHandles ----------------------------
(* An instance of RdbHandles. *)
EXTENDS RdbHandles, TLC
=============================================================================
