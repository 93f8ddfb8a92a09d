----------------------------- MODULE MCPopulate -----------------------------
(* Small instances of Populate. *)
EXTENDS Populate, TLC

AllKinds == {"badger", "rocksdb", "tokudb"}

=============================================================================
