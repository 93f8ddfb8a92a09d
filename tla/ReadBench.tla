------------------------------ MODULE ReadBench -----------------------------
(***************************************************************************)
(* The random read benchmarks of bench_test.go: runRandomReadBenchmark and *)
(* the five doBench functions given to it. The testing package runs the    *)
(* body of b.Run once for each value of b.N and RunParallel hands out      *)
(* exactly b.N iterations to its goroutines. Each goroutine counts hits in *)
(* a hitCounter of its own and adds it to the shared one at the end.       *)
(***************************************************************************)
EXTENDS Integers, Sequences, FiniteSets

CONSTANTS
    Workers,    \* goroutines of RunParallel
    BN,         \* the values of b.N, in order
    Numbers,    \* 0 .. keys_mil * 1e6 - 1, the numbers in keys
    Sizes,      \* the values of valsz populate has been run with
    Kinds       \* the engines to consider

ASSUME WorkersAssumption == IsFiniteSet(Workers) /\ Workers # {}
ASSUME RoundsAssumption == BN \in Seq(Nat \ {0}) /\ BN # <<>>
ASSUME SizesAssumption == Sizes \subseteq Nat

VARIABLES
    kind,       \* the engine under test
    valueSize,  \* *flagValueSize
    store,      \* keys in the engine
    proc,       \* "running", "exited", "fatal" (y.Check) or "asserted" (y.AssertTruef)
    main,       \* where the benchmark function is
    db,         \* the engine: "nil", "open" or "closed"
    round,      \* which b.N
    left,       \* iterations pb.Next has not handed out
    pc,         \* where each goroutine is
    c,          \* its hitCounter
    counter,    \* the shared hitCounter
    slices,     \* C copies of values that nobody has freed
    hits        \* ghost: lookups of this round whose key is in the store

bench == <<kind, valueSize, store>>
work == <<left, pc, c, counter, slices, hits>>
vars == <<kind, valueSize, store, proc, main, db, round, left, pc, c, counter, slices, hits>>

Zero == [f \in {"found", "notFound", "errored"} |-> 0]

\* A key holds the value size and a number: "vsz=%05d-k=%010d".
newKey(k) == [vsz |-> valueSize, k |-> k]

SizeOfLastRun(key) == CHOOSE s \in Sizes : \A t \in Sizes : t <= s

\* populate writes a value of the size the key names.
StoredLen(key) == key.vsz

\* The engine may hold what populate left there in several runs.
Init ==
    /\ kind \in Kinds
    /\ valueSize \in Sizes
    /\ store \in SUBSET [vsz : Sizes, k : Numbers]
    /\ proc = "running"
    /\ main = "open"
    /\ db = "nil"
    /\ round = 0
    /\ left = 0
    /\ pc = [w \in Workers |-> "idle"]
    /\ c = [w \in Workers |-> Zero]
    /\ counter = Zero
    /\ slices = 0
    /\ hits = 0

Open ==
    /\ main = "open"
    /\ db' = "open"
    /\ main' = "run"
    /\ UNCHANGED <<bench, proc, round, work>>

OpenFails ==
    /\ main = "open"
    /\ proc' = "fatal"
    /\ UNCHANGED <<bench, main, db, round, work>>

KeepCounter == counter

\* counter.Reset()
Reset == Zero

SameRound == round

\* The testing package goes on to the next b.N.
NextRound == round + 1

\* testing calls the body of b.Run with the next b.N: RunParallel starts the
\* goroutines.
StartRound ==
    /\ main = "run"
    /\ round < Len(BN)
    /\ round' = NextRound
    /\ counter' = Reset
    /\ left' = BN[round + 1]
    /\ c' = [w \in Workers |-> Zero]
    /\ pc' = [w \in Workers |-> "loop"]
    /\ hits' = 0
    /\ main' = "wait"
    /\ UNCHANGED <<bench, proc, db, slices>>

AtLeastZero == left >= 0

\* pb.Next(): an iteration is left.
HasNext == left > 0

\* What one lookup of each engine counts, given whether the key is there.
Class(present, key) ==
    IF kind = "rocksdb"
    THEN IF present /\ StoredLen(key) > 0 THEN "found" ELSE "notFound"
    ELSE IF present THEN "found" ELSE "notFound"

\* bolt has no errors to count and rocksdb makes no assertion.
CountsErrors == kind # "bolt"
Asserts == kind # "rocksdb"

\* pb.Next() is true: one key is looked up and counted.
Lookup(w) ==
    /\ pc[w] = "loop"
    /\ HasNext
    /\ left' = left - 1
    /\ \E k \in Numbers :
          LET key == newKey(k)
              present == key \in store
          IN  IF Asserts /\ present /\ StoredLen(key) # valueSize
              THEN /\ proc' = "asserted"
                   /\ UNCHANGED <<c, slices, hits>>
              ELSE /\ c' = [c EXCEPT ![w][Class(present, key)] = @ + 1]
                   /\ slices' = IF kind = "rocksdb" /\ present THEN slices + 1 ELSE slices
                   /\ hits' = IF present THEN hits + 1 ELSE hits
                   /\ UNCHANGED proc
    /\ UNCHANGED <<bench, main, db, round, pc, counter>>

\* The engine answers with an error other than not-found.
LookupFails(w) ==
    /\ pc[w] = "loop"
    /\ HasNext
    /\ CountsErrors
    /\ left' = left - 1
    /\ c' = [c EXCEPT ![w].errored = @ + 1]
    /\ UNCHANGED <<bench, proc, main, db, round, pc, counter, slices, hits>>

\* The View of badger, bolt or lmdb around the loop cannot start: y.Check.
ViewFails(w) ==
    /\ pc[w] = "loop"
    /\ c[w] = Zero
    /\ kind \in {"badger", "bolt", "lmdb"}
    /\ proc' = "fatal"
    /\ UNCHANGED <<bench, main, db, round, work>>

\* pb.Next() is false: doBench returns.
LeaveLoop(w) ==
    /\ pc[w] = "loop"
    /\ ~HasNext
    /\ pc' = [pc EXCEPT ![w] = "update"]
    /\ UNCHANGED <<bench, proc, main, db, round, left, c, counter, slices, hits>>

LastOnly(h, d) == d

\* h.Update(c): an atomic add to each of the three fields.
Plus(h, d) == [f \in DOMAIN h |-> h[f] + d[f]]

\* Nobody reads the shared counter before all goroutines are done, so the three
\* adds are one step.
Update(w) ==
    /\ pc[w] = "update"
    /\ counter' = Plus(counter, c[w])
    /\ pc' = [pc EXCEPT ![w] = "done"]
    /\ UNCHANGED <<bench, proc, main, db, round, left, c, slices, hits>>

\* RunParallel returns; testing may stop here or go on with a larger b.N.
EndRound ==
    /\ main = "wait"
    /\ \A w \in Workers : pc[w] = "done"
    /\ main' \in IF round = Len(BN) THEN {"print"} ELSE {"run", "print"}
    /\ UNCHANGED <<bench, proc, db, round, work>>

\* counter.Print, then the deferred Close of the engine.
PrintAndClose ==
    /\ main = "print"
    /\ db' = "closed"
    /\ proc' = "exited"
    /\ UNCHANGED <<bench, main, round, work>>

Running == proc = "running"

Next ==
    \/ Running /\ (Open \/ OpenFails \/ StartRound \/ EndRound \/ PrintAndClose)
    \/ \E w \in Workers :
          Running /\ (Lookup(w) \/ LookupFails(w) \/ ViewFails(w) \/ LeaveLoop(w) \/ Update(w))
    \/ ~Running /\ UNCHANGED vars

Spec == Init /\ [][Next]_vars

\* The goroutines and the benchmark function are scheduled.
FairSpec ==
    /\ Spec
    /\ WF_vars(Running /\ (Open \/ StartRound \/ EndRound \/ PrintAndClose))
    /\ \A w \in Workers : WF_vars(Running /\ (Lookup(w) \/ LeaveLoop(w) \/ Update(w)))

-----------------------------------------------------------------------------
(* Properties *)

Counts == [{"found", "notFound", "errored"} -> Nat]

TypeOK ==
    /\ kind \in Kinds /\ valueSize \in Sizes
    /\ store \subseteq [vsz : Sizes, k : Numbers]
    /\ proc \in {"running", "exited", "fatal", "asserted"}
    /\ main \in {"open", "run", "wait", "print"}
    /\ db \in {"nil", "open", "closed"}
    /\ round \in 0 .. Len(BN)
    /\ left \in Nat
    /\ pc \in [Workers -> {"idle", "loop", "update", "done"}]
    /\ c \in [Workers -> Counts] /\ counter \in Counts
    /\ slices \in Nat /\ hits \in Nat

Total(h) == h.found + h.notFound + h.errored

\* "total keys looked at" is b.N of the round that is reported: no lookup is
\* dropped or counted twice between the goroutines and the shared counter, and
\* nothing is left over from the rounds before.
LookupsAddUp == main = "print" => Total(counter) = BN[round]

\* A lookup counts as found exactly if the key is in the store, for all engines
\* alike; with rocksdb, which goes by the size of the slice, only if values are
\* not empty.
FoundIsPresent ==
    main = "print" /\ (kind = "rocksdb" => valueSize > 0) => counter.found = hits

\* The assertion on the size of a value never fails, not even on a store that
\* holds keys of populate runs with other sizes: the size is part of the key.
SizeAssertionHolds == proc # "asserted"

\* "Remember to deallocate the returned Slice." (rdb/db.go:86-87): no copy
\* made for a Get is left when the benchmark is over.
SlicesAreFreed == proc = "exited" => slices = 0

\* The benchmark ends: every goroutine leaves its loop and the engine is closed.
Ends == <>(proc # "running")
=============================================================================
