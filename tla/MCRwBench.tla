----------------------------- MODULE MCRwBench ------------------------------
(* An instance of RwBench. *)
EXTENDS RwBench, TLC

KeySymmetry == Permutations(Keys)
=============================================================================
