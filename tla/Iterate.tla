------------------------------- MODULE Iterate ------------------------------
(***************************************************************************)
(* Loading and scanning one directory: some runs of populate, each with a  *)
(* value size of its own, and then one of the five iteration benchmarks of *)
(* bench_test.go with a size from its command line. A benchmark scans the  *)
(* store from the first key, b.N times over, and stops each scan at a      *)
(* limit. What happens inside a run of populate is the subject of Populate.*)
(***************************************************************************)
EXTENDS Integers, FiniteSets, FiniteSetsExt

CONSTANTS
    Numbers,    \* the numbers in keys
    Sizes,      \* the values of valsz
    Limit,      \* 2*Mi
    VCap,       \* Mi, the capacity of the value buffer at first
    MaxLoads,   \* bound: runs of populate
    BN          \* bound: scans of a benchmark

ASSUME DataAssumption ==
    Numbers \subseteq Nat /\ IsFiniteSet(Numbers) /\ Sizes \subseteq Nat
ASSUME LimitAssumption == Limit \in Nat \ {0}
ASSUME BoundsAssumption == VCap \in Nat /\ MaxLoads \in Nat /\ BN \in Nat

VARIABLES
    bench,   \* the benchmark
    store,   \* the keys in the directory of its engine
    loads,   \* runs of populate so far
    loaded,  \* ghost: the valsz of the last run of populate that wrote
    valsz,   \* *flagValueSize of the benchmark
    pc,      \* "load", "run", "scan", "logged"; "asserted", "fatal", "exited"
    j, count,
    rest,    \* keys the iterator has not passed
    v        \* the buffer for values: its capacity and length

vars == <<bench, store, loads, loaded, valsz, pc, j, count, rest, v>>

Keys == [vsz : Sizes, k : Numbers]
Benches == {"rocks", "bolt", "lmdb", "badgerOnlyKeys", "badgerWithValues"}

Badger == bench \in {"badgerOnlyKeys", "badgerWithValues"}
CopiesValues == bench # "badgerOnlyKeys"

AssertsBadger == bench = "badgerWithValues"

\* y.AssertTruef(len(v1) == *flagValueSize, ...)
Asserts == bench \in {"bolt", "lmdb", "badgerWithValues"}

\* Keys are "vsz=%05d-k=%010d", so they sort by size first.
Before(a, b) == a.vsz < b.vsz \/ (a.vsz = b.vsz /\ a.k < b.k)
FirstOf(keys) == CHOOSE a \in keys : \A b \in keys : a = b \/ Before(a, b)

Init ==
    /\ bench \in Benches
    /\ store = {}
    /\ loads = 0 /\ loaded = 0
    /\ valsz = 0
    /\ pc = "load"
    /\ j = 0 /\ count = 0
    /\ rest = {}
    /\ v = [cap |-> VCap, len |-> VCap]

-----------------------------------------------------------------------------
UncheckedRemoval == {{}, store}

\* What os.RemoveAll leaves: with badger populate ends if it fails.
Kept == IF Badger THEN {{}} ELSE {{}, store}

\* populate writes keys of one size, up to its end or until it is stopped; a
\* removal that fails ends it (badger) or leaves the old keys in place.
Populate(s) ==
    /\ pc = "load"
    /\ loads < MaxLoads
    /\ loads' = loads + 1
    /\ \/ /\ \E new \in SUBSET [vsz : {s}, k : Numbers], old \in Kept : store' = old \union new
          /\ loaded' = s
       \/ Badger /\ UNCHANGED <<store, loaded>>
    /\ UNCHANGED <<bench, valsz, pc, j, count, rest, v>>

\* getRocks, getBoltDB, getLmdb, getBadger
Open(s) ==
    /\ pc = "load"
    /\ valsz' = s
    /\ pc' \in {"run", "fatal"}
    /\ UNCHANGED <<bench, store, loads, loaded, j, count, rest, v>>

\* The next j: a new iterator (cursor, transaction), at the first key.
Rewind ==
    /\ pc \in {"run", "logged"}
    /\ j < BN
    /\ pc' = "scan"
    /\ count' = 0
    /\ rest' = store
    /\ UNCHANGED <<bench, store, loads, loaded, valsz, j, v>>

NeverGrows(dst, n) == [dst EXCEPT !.len = n]

safecopy(dst, n) == [cap |-> IF dst.cap < n THEN n ELSE dst.cap, len |-> n]

BreaksLate(n) == n > Limit

\* if count >= 2*Mi
Breaks(n) == n >= Limit

\* The body of the loop on the next key, and itr.Next.
Visit ==
    /\ pc = "scan"
    /\ rest # {}
    /\ LET key == FirstOf(rest)
       IN  IF Asserts /\ key.vsz # valsz
           THEN pc' = "asserted" /\ UNCHANGED <<j, count, rest, v>>
           ELSE /\ v' = IF CopiesValues THEN safecopy(v, key.vsz) ELSE v
                /\ count' = count + 1
                /\ rest' = rest \ {key}
                /\ IF Breaks(count') THEN pc' = "logged" /\ j' = j + 1 ELSE UNCHANGED <<pc, j>>
    /\ UNCHANGED <<bench, store, loads, loaded, valsz>>

\* The iterator is no longer valid.
EndOfStore ==
    /\ pc = "scan"
    /\ rest = {}
    /\ pc' = "logged"
    /\ j' = j + 1
    /\ UNCHANGED <<bench, store, loads, loaded, valsz, count, rest, v>>

\* An error of the engine: y.Check.
Fails ==
    /\ pc = "scan"
    /\ bench \in {"bolt", "lmdb", "badgerWithValues"}
    /\ pc' = "fatal"
    /\ UNCHANGED <<bench, store, loads, loaded, valsz, j, count, rest, v>>

Exit ==
    /\ pc = "logged"
    /\ pc' = "exited"
    /\ UNCHANGED <<bench, store, loads, loaded, valsz, j, count, rest, v>>

Next ==
    \/ \E s \in Sizes : Populate(s) \/ Open(s)
    \/ Rewind \/ Visit \/ EndOfStore \/ Fails \/ Exit
    \/ pc \in {"asserted", "fatal", "exited"} /\ UNCHANGED vars

Spec == Init /\ [][Next]_vars

-----------------------------------------------------------------------------
(* Properties *)

\* The types; a buffer longer than its capacity would be a panic in safecopy.
TypeOK ==
    /\ bench \in Benches
    /\ store \subseteq Keys /\ rest \subseteq store
    /\ loads \in 0 .. MaxLoads /\ loaded \in Sizes \union {0} /\ valsz \in Sizes \union {0}
    /\ pc \in {"load", "run", "scan", "logged", "asserted", "fatal", "exited"}
    /\ j \in 0 .. BN /\ count \in Nat
    /\ v.len \in 0 .. v.cap

\* Every scan that is logged counted each key once up to the limit, whatever
\* the scans before it left in the counter, the buffers and the iterator.
CountIsExact == pc = "logged" => count = Min({Limit, Cardinality(store)})

\* The keys a scan gets to see.
Scanned == {a \in store : Cardinality({b \in store : Before(b, a)}) < Limit}

\* A scan that asserts sizes is logged only if all it passed has the size asked
\* for, and fails only if the directory holds data of another size there.
LoggedMeansRightSize ==
    bench \in {"bolt", "lmdb", "badgerWithValues"} =>
        /\ pc = "logged" => \A a \in Scanned : a.vsz = valsz
        /\ pc = "asserted" => \E a \in Scanned : a.vsz # valsz

\* After a run of populate with the same size the badger benchmark does not
\* fail, whatever was in the directory before: the removal is checked.
BadgerSizesMatch == Badger /\ valsz = loaded => pc # "asserted"
=============================================================================
