---------------------------- MODULE MCRocksStore ----------------------------
(* Small instances of RocksStore. *)
EXTENDS RocksStore, TLC

OneKey == {1}
TwoKeys == {1, 2}

\* No action and no property tells one directory from another.
DirSymmetry == Permutations(Dirs)
=============================================================================
