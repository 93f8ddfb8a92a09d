---------------------------- MODULE MCReadBench -----------------------------
(* Small instances of ReadBench. *)
EXTENDS ReadBench, TLC

Rounds == <<1, 3>>
OneRound == <<2>>
TwoNumbers == {0, 1}
TwoSizes == {0, 2}
OneSize == {2}
AllKinds == {"badger", "rocksdb", "bolt"}
RocksOnly == {"rocksdb"}

=============================================================================
