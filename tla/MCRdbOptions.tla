---------------------------- MODULE MCRdbOptions ----------------------------
(* An instance of RdbOptions. *)
EXTENDS RdbOptions, TLC

TableSymmetry == Permutations(Tables)
=============================================================================
