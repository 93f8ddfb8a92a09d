------------------------------- MODULE RwBench ------------------------------
(***************************************************************************)
(* rw-bench/bench.go: the same random entries are written to rocksdb in    *)
(* one batch and to badger in one transaction, and each engine is scanned  *)
(* to count its unique keys. The batch copies a key when it is put; the    *)
(* transaction keeps the entry's own buffer until Commit. Both directories *)
(* may hold what an earlier run, ended or killed, left there.              *)
(***************************************************************************)
EXTENDS Integers, Sequences, FiniteSets, SequencesExt

CONSTANTS
    Keys,   \* what fmt.Sprintf makes of rand.Intn(*numKeys * mil * 10)
    N       \* len(entries)

ASSUME NAssumption == N \in Nat \ {0}

VARIABLES
    pc,       \* the step main is at, of which engine; <<"exited">>, <<"fatal">>
    disk,     \* per engine: the keys in its directory
    entries,  \* the key buffer of each entry
    rb,       \* the keys put into the batch
    txn,      \* the entries set in the transaction
    rest,     \* keys the iterator has not passed
    count,
    printed   \* per engine: "Num unique keys", or -1

vars == <<pc, disk, entries, rb, txn, rest, count, printed>>

Engines == {"badger", "rocks"}
Ended == pc \in {<<"exited">>, <<"fatal">>}

Init ==
    /\ pc = <<"remove", "badger">>
    /\ disk \in [Engines -> SUBSET Keys]
    /\ entries = <<>> /\ rb = <<>> /\ txn = <<>>
    /\ rest = {}
    /\ count = 0
    /\ printed = [e \in Engines |-> -1]

Step(from, to) == pc = from /\ pc' = to

\* y.Check(os.RemoveAll(...))
RemoveAll(e) ==
    /\ Step(<<"remove", e>>, <<"open", e>>)
    /\ disk' = [disk EXCEPT ![e] = {}]
    /\ UNCHANGED <<entries, rb, txn, rest, count, printed>>

\* badger.Open, store.NewStore
Open(e) ==
    /\ Step(<<"open", e>>, IF e = "badger" THEN <<"remove", "rocks">> ELSE <<"create">>)
    /\ UNCHANGED <<disk, entries, rb, txn, rest, count, printed>>

SameBuffer(k) == [i \in 1 .. Len(entries) + 1 |-> k]

\* fillEntry writes the key into the buffer of its own entry.
Filled(k) == Append(entries, k)

\* One iteration of createEntries: fillEntry(e), rb.Put(e.Key, e.Value).
CreateEntry ==
    /\ Step(<<"create">>, IF Len(entries) + 1 = N THEN <<"set">> ELSE <<"create">>)
    /\ \E k \in Keys : entries' = Filled(k) /\ rb' = Append(rb, k)
    /\ UNCHANGED <<disk, txn, rest, count, printed>>

FromZero == Len(txn)

\* for _, e := range entries
NextEntry == Len(txn) + 1

\* One iteration of y.Check(txn.Set(e.Key, e.Value)).
SetEntry ==
    /\ Step(<<"set">>, IF Len(txn) + 1 = N THEN <<"write">> ELSE <<"set">>)
    /\ txn' = Append(txn, NextEntry)
    /\ UNCHANGED <<disk, entries, rb, rest, count, printed>>

\* y.Check(rocks.WriteBatch(rb)); rocks.NewIterator, SeekToFirst
WriteBatch ==
    /\ Step(<<"write">>, <<"scan", "rocks">>)
    /\ disk' = [disk EXCEPT !["rocks"] = @ \union ToSet(rb)]
    /\ rest' = disk'["rocks"]
    /\ UNCHANGED <<entries, rb, txn, count, printed>>

Visit(e) ==
    /\ pc = <<"scan", e>> /\ pc' = pc
    /\ rest # {}
    /\ rest' \in {rest \ {k} : k \in rest}
    /\ count' = count + 1
    /\ UNCHANGED <<disk, entries, rb, txn, printed>>

Report(e) == printed' = [printed EXCEPT ![e] = count]

\* The count is printed, the batch destroyed and the store closed (its
\* iterator is not).
FinishRocks ==
    /\ Step(<<"scan", "rocks">>, <<"commit">>)
    /\ rest = {}
    /\ Report("rocks")
    /\ rb' = <<>>
    /\ UNCHANGED <<disk, entries, txn, rest, count>>

\* y.Check(txn.Commit()); a new transaction and its iterator, Rewind
Commit ==
    /\ Step(<<"commit">>, <<"scan", "badger">>)
    /\ disk' = [disk EXCEPT !["badger"] = @ \union {entries[i] : i \in ToSet(txn)}]
    /\ rest' = disk'["badger"]
    /\ count' = 0
    /\ UNCHANGED <<entries, rb, txn, printed>>

FinishBadger ==
    /\ Step(<<"scan", "badger">>, <<"exited">>)
    /\ rest = {}
    /\ Report("badger")
    /\ UNCHANGED <<disk, entries, rb, txn, rest, count>>

\* Each call under y.Check may fail.
Fails ==
    /\ pc[1] \in {"remove", "open", "set", "write", "commit"}
    /\ pc' = <<"fatal">>
    /\ UNCHANGED <<disk, entries, rb, txn, rest, count, printed>>

Next ==
    \/ \E e \in Engines : RemoveAll(e) \/ Open(e) \/ Visit(e)
    \/ CreateEntry \/ SetEntry \/ WriteBatch \/ FinishRocks \/ Commit \/ FinishBadger
    \/ Fails
    \/ Ended /\ UNCHANGED vars

Spec == Init /\ [][Next]_vars

-----------------------------------------------------------------------------
(* Properties *)

TypeOK ==
    /\ disk \in [Engines -> SUBSET Keys]
    /\ entries \in Seq(Keys) /\ rb \in Seq(Keys)
    /\ txn \in Seq(1 .. N)
    /\ rest \subseteq Keys /\ count \in Nat
    /\ printed \in [Engines -> Nat \union {-1}]

\* The two engines print the same number of unique keys, and it is the number
\* of different keys that were drawn: the buffers the transaction shares with
\* main still hold them at Commit, and nothing is added from the scan of the
\* other engine or from what an earlier run left.
BothCountTheDrawnKeys ==
    \A e \in Engines : printed[e] # -1 => printed[e] = Cardinality(ToSet(entries))
=============================================================================
