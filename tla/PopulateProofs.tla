--------------------------- MODULE PopulateProofs ---------------------------
(***************************************************************************)
(* Proofs of the safety properties of Populate for every number of         *)
(* writers, every batch length, every number of keys and every engine.     *)
(***************************************************************************)
EXTENDS Populate, FiniteSetTheorems, TLAPS

-----------------------------------------------------------------------------
(* The barrier: what the WaitGroup counts and where main can be. *)

\* The writers wg.Wait waits for.
Active == {w \in Writers : pc[w] \notin {"idle", "done"}}

Barrier ==
    /\ wg = Cardinality(Active)
    /\ main = "open" => db = "nil" /\ \A w \in Writers : pc[w] = "idle"
    /\ main # "open" => db # "nil"
    /\ main \in {"wait", "cancel", "close", "print"} => \A w \in Writers : pc[w] # "idle"
    /\ main \in {"cancel", "close", "print"} => \A w \in Writers : pc[w] = "done"
    /\ db = "closed" => main = "print"
    /\ proc = "exited" => main = "print"

BarrierInv == TypeOK /\ Barrier

\* Active is finite and its cardinality a natural number.
LEMMA ActiveFinite == IsFiniteSet(Active) /\ Cardinality(Active) \in Nat
  <1>1. Active \subseteq Writers
    BY DEF Active
  <1>2. IsFiniteSet(Active)
    BY <1>1, FS_Subset, WritersAssumption
  <1> QED
    BY <1>2, FS_CardinalityType

\* Init establishes the barrier invariant.
LEMMA BarrierInit == Init => BarrierInv
  <1> SUFFICES ASSUME Init PROVE BarrierInv
    OBVIOUS
  <1>1. TypeOK
    BY DEF Init, TypeOK
  <1>2. Active = {}
    BY DEF Init, Active
  <1>3. wg = Cardinality(Active)
    BY <1>2, FS_EmptySet DEF Init
  <1> QED
    BY <1>1, <1>3 DEF Init, BarrierInv, Barrier

\* A step of one writer that keeps it active, or that does not touch it, leaves
\* the set of active writers alone.
LEMMA ActiveUnchanged ==
    ASSUME BarrierInv, wg' = wg,
           pc' \in [Writers -> {"idle", "loop", "write", "count", "rate", "done"}],
           \A w \in Writers : pc'[w] \in {"idle", "done"} <=> pc[w] \in {"idle", "done"}
    PROVE  wg' = Cardinality(Active')
  <1>1. Active' = Active
    BY DEF Active
  <1> QED
    BY <1>1 DEF BarrierInv, Barrier

\* Every step preserves the barrier invariant: Add and Done are paired, so the
\* WaitGroup counts exactly the writers between the go statement and wg.Done.
LEMMA BarrierNext == BarrierInv /\ [Next]_vars => BarrierInv'
  <1> SUFFICES ASSUME BarrierInv, [Next]_vars PROVE BarrierInv'
    OBVIOUS
  <1> USE DEF engine, writer, reporter
  <1>t. TypeOK /\ Barrier
    BY DEF BarrierInv
  <1>1. CASE OpenStore
    <2>1. TypeOK'
      BY <1>1, <1>t DEF TypeOK, OpenStore
    <2>2. wg' = Cardinality(Active')
      BY <1>1, <1>t, ActiveUnchanged DEF TypeOK, OpenStore
    <2> QED
      BY <1>1, <1>t, <2>1, <2>2 DEF OpenStore, BarrierInv, Barrier
  <1>2. ASSUME NEW w \in Writers, Spawn(w) PROVE BarrierInv'
    <2>1. TypeOK'
      BY <1>2, <1>t DEF TypeOK, Spawn, Add
    <2>2. Active' = Active \union {w} /\ w \notin Active
      BY <1>2, <1>t DEF TypeOK, Spawn, Active
    <2>3. wg' = Cardinality(Active')
      BY <1>2, <1>t, <2>2, ActiveFinite, FS_AddElement DEF Spawn, Add, Barrier
    <2> QED
      BY <1>2, <1>t, <2>1, <2>3 DEF Spawn, BarrierInv, Barrier, TypeOK
  <1>3. CASE Wait
    <2>1. TypeOK'
      BY <1>3, <1>t DEF TypeOK, Wait
    <2>2. wg' = Cardinality(Active')
      BY <1>3, <1>t, ActiveUnchanged DEF TypeOK, Wait
    <2>3. Active = {}
      BY <1>3, <1>t, ActiveFinite, FS_EmptySet DEF Wait, Barrier
    <2>4. \A w \in Writers : pc[w] = "done"
      BY <1>3, <1>t, <2>3 DEF Wait, Barrier, Active
    <2> QED
      BY <1>3, <1>t, <2>1, <2>2, <2>4 DEF Wait, BarrierInv, Barrier
  <1>4. CASE Cancel \/ CloseStore \/ PrintWrote
    <2>1. TypeOK'
      BY <1>4, <1>t DEF TypeOK, Cancel, CloseStore, PrintWrote
    <2>2. wg' = Cardinality(Active')
      BY <1>4, <1>t, ActiveUnchanged DEF TypeOK, Cancel, CloseStore, PrintWrote
    <2> QED
      BY <1>4, <1>t, <2>1, <2>2 DEF Cancel, CloseStore, PrintWrote, BarrierInv, Barrier
  <1>5. ASSUME NEW w \in Writers, Enter(w) \/ Write(w) \/ Count(w) \/ Incr(w)
        PROVE BarrierInv'
    <2>1. TypeOK'
      <3>1. CASE Enter(w)
        BY <3>1, <1>t DEF TypeOK, Enter
      <3>2. CASE Write(w)
        BY <3>2, <1>t DEF TypeOK, Write, Current
      <3>3. CASE Count(w)
        BY <3>3, <1>t, BatchLenAssumption DEF TypeOK, Count, AddInt64
      <3>4. CASE Incr(w)
        BY <3>4, <1>t, BatchLenAssumption DEF TypeOK, Incr
      <3> QED
        BY <1>5, <3>1, <3>2, <3>3, <3>4
    <2>2. wg' = Cardinality(Active')
      BY <1>5, <1>t, <2>1, ActiveUnchanged DEF TypeOK, Enter, Write, Count, Incr
    <2> QED
      BY <1>5, <1>t, <2>1, <2>2 DEF Enter, Write, Count, Incr, BarrierInv, Barrier, TypeOK
  <1>6. ASSUME NEW w \in Writers, Done(w) PROVE BarrierInv'
    <2>1. Active' = Active \ {w} /\ w \in Active
      BY <1>6, <1>t DEF TypeOK, Done, Active
    <2>2. wg' = Cardinality(Active') /\ wg' \in Nat
      BY <1>6, <1>t, <2>1, ActiveFinite, FS_RemoveElement, FS_CardinalityType, FS_Subset
         DEF Done, Add, Barrier
    <2>3. TypeOK'
      BY <1>6, <1>t, <2>2 DEF TypeOK, Done
    <2> QED
      BY <1>6, <1>t, <2>2, <2>3 DEF Done, BarrierInv, Barrier, TypeOK
  <1>7. CASE Tick \/ PrintTotal \/ StopReporter \/ RateExpires \/ WriteBack
    <2>1. TypeOK'
      BY <1>7, <1>t DEF TypeOK, Tick, PrintTotal, StopReporter, RateExpires, WriteBack
    <2>2. wg' = Cardinality(Active')
      BY <1>7, <1>t, ActiveUnchanged
         DEF TypeOK, Tick, PrintTotal, StopReporter, RateExpires, WriteBack
    <2> QED
      BY <1>7, <1>t, <2>1, <2>2
         DEF Tick, PrintTotal, StopReporter, RateExpires, WriteBack, BarrierInv, Barrier
  <1>8. CASE Failure
    <2>1. TypeOK'
      <3>1. CASE OpenFails
        BY <3>1, <1>t DEF TypeOK, OpenFails, Fatal
      <3>2. CASE Failure /\ ~OpenFails
        BY <3>2, <1>t DEF TypeOK, Failure, WriteFails, HttpFails, Crash, Fatal, Current
      <3> QED
        BY <1>8, <3>1, <3>2
    <2>2. wg' = Cardinality(Active')
      BY <1>8, <1>t, ActiveUnchanged
         DEF TypeOK, Failure, OpenFails, WriteFails, HttpFails, Crash, Fatal
    <2> QED
      BY <1>8, <1>t, <2>1, <2>2
         DEF Failure, OpenFails, WriteFails, HttpFails, Crash, Fatal, BarrierInv, Barrier
  <1>9. CASE UNCHANGED vars
    <2>1. TypeOK'
      BY <1>9, <1>t DEF TypeOK, vars
    <2>2. wg' = Cardinality(Active')
      BY <1>9, <1>t, ActiveUnchanged DEF TypeOK, vars
    <2> QED
      BY <1>9, <1>t, <2>1, <2>2 DEF vars, BarrierInv, Barrier
  <1> QED
    BY <1>1, <1>2, <1>3, <1>4, <1>5, <1>6, <1>7, <1>8, <1>9
       DEF Next, MainStep, WriterStep, ReporterStep, Environment, Over

\* The invariant of the barrier holds throughout.
LEMMA BarrierAlways == Spec => []BarrierInv
  BY BarrierInit, BarrierNext, PTL DEF Spec

\* Every variable keeps its type; in particular the WaitGroup counter never
\* becomes negative, which would panic.
THEOREM TypeCorrect == Spec => []TypeOK
  BY BarrierAlways, PTL DEF BarrierInv

\* No engine is closed under a writer, for any number of writers.
THEOREM EngineOutlivesWriters == Spec => []ClosedAfterWriters
  <1>1. BarrierInv => ClosedAfterWriters
    BY DEF BarrierInv, Barrier, ClosedAfterWriters
  <1> QED
    BY <1>1, BarrierAlways, PTL

-----------------------------------------------------------------------------
(* The ledger: which batches the counter stands for. *)

\* The batches of w that are in the counter.
Finished(w) == IF pc[w] = "rate" THEN batches[w] + 1 ELSE batches[w]

Counted == UNION {{w} \X (1 .. Finished(w)) : w \in Writers}

\* Batches that are committed and not counted yet.
Uncounted == {Current(w) : w \in {v \in Writers : pc[v] = "count"}}

Ledger ==
    /\ IsFiniteSet(Counted)
    /\ IsFiniteSet(committed)
    /\ counter = BatchLen * Cardinality(Counted)
    /\ proc \in {"running", "exited"} => committed = Counted \union Uncounted
    /\ proc # "crashed" => Counted \subseteq committed
    /\ Sync(which) => Counted \subseteq synced
    /\ Sync(which) /\ proc = "running" => Uncounted \subseteq synced

\* Membership in Counted.
LEMMA CountedElement ==
    ASSUME TypeOK
    PROVE  \A w, i : <<w, i>> \in Counted <=> w \in Writers /\ i \in 1 .. Finished(w)
  BY DEF Counted

\* Counted is a set of pairs.
LEMMA CountedPairs ==
    ASSUME TypeOK
    PROVE  Counted \subseteq Writers \X Nat
  <1>1. \A w \in Writers : Finished(w) \in Nat
    BY DEF TypeOK, Finished
  <1> QED
    BY <1>1 DEF Counted

\* Only Count and Incr change what a writer has finished, and Incr does not
\* change its sum.
LEMMA CountedUnchanged ==
    ASSUME \A w \in Writers : Finished(w)' = Finished(w)
    PROVE  Counted' = Counted
  BY DEF Counted

\* Nothing is written and nothing counted at the start.
LEMMA LedgerInit == Init => Ledger
  <1> SUFFICES ASSUME Init PROVE Ledger
    OBVIOUS
  <1>1. Counted = {}
    BY DEF Init, Counted, Finished
  <1>2. Uncounted = {}
    BY DEF Init, Uncounted
  <1> QED
    BY <1>1, <1>2, FS_EmptySet, BatchLenAssumption DEF Init, Ledger

\* A batch is in the store before it is counted and on stable storage before
\* that if the engine is synchronous; every step keeps the books.
LEMMA LedgerNext == BarrierInv /\ Ledger /\ [Next]_vars => Ledger'
  <1> SUFFICES ASSUME BarrierInv, Ledger, [Next]_vars PROVE Ledger'
    OBVIOUS
  <1> USE DEF engine, writer, reporter
  <1>t. TypeOK
    BY DEF BarrierInv
  <1>1. CASE UNCHANGED <<pc, batches, committed, synced, counter, which>>
             /\ (proc' = proc \/ (proc = "running" /\ proc' \in {"fatal", "exited"}))
    <2>1. Counted' = Counted /\ Uncounted' = Uncounted
      BY <1>1 DEF Counted, Finished, Uncounted, Current
    <2> QED
      BY <1>1, <2>1, <1>t DEF Ledger, Sync, TypeOK
  <1>2. ASSUME NEW w \in Writers, Spawn(w) \/ Enter(w) \/ Done(w) PROVE Ledger'
    <2>1. Counted' = Counted
      BY <1>2, <1>t, CountedUnchanged DEF Spawn, Enter, Done, Finished, TypeOK
    <2>2. Uncounted' = Uncounted
      BY <1>2, <1>t DEF Spawn, Enter, Done, Uncounted, Current, TypeOK
    <2> QED
      BY <1>2, <2>1, <2>2 DEF Spawn, Enter, Done, Ledger, Sync
  <1>3. ASSUME NEW w \in Writers, Write(w), Running PROVE Ledger'
    <2>1. Counted' = Counted
      BY <1>3, <1>t, CountedUnchanged DEF Write, Finished, TypeOK
    <2>2. Uncounted' = Uncounted \union {Current(w)}
      BY <1>3, <1>t DEF Write, Uncounted, Current, TypeOK
    <2>3. IsFiniteSet(committed')
      BY <1>3, FS_AddElement DEF Write, Ledger
    <2> QED
      BY <1>3, <1>t, <2>1, <2>2, <2>3 DEF Write, Ledger, Sync, Running, TypeOK
  <1>4. ASSUME NEW w \in Writers, WriteFails(w), Running PROVE Ledger'
    <2>1. Counted' = Counted
      BY <1>4 DEF WriteFails, Fatal, Counted, Finished
    <2>2. IsFiniteSet(committed')
      BY <1>4, FS_AddElement DEF WriteFails, Ledger
    <2> QED
      BY <1>4, <2>1, <2>2 DEF WriteFails, Fatal, Ledger, Sync, Running
  <1>5. ASSUME NEW w \in Writers, Count(w), Running PROVE Ledger'
    <2>1. Current(w) \notin Counted
      BY <1>5, <1>t, CountedElement DEF Current, Finished, Count, TypeOK
    <2>2. Counted' = Counted \union {Current(w)}
      <3>1. \A v \in Writers \ {w} : Finished(v)' = Finished(v)
        BY <1>5, <1>t DEF Count, Finished, TypeOK
      <3>2. Finished(w)' = Finished(w) + 1 /\ Finished(w) = batches[w] /\ batches[w] \in Nat
        BY <1>5, <1>t DEF Count, Finished, TypeOK
      <3>3. 1 .. Finished(w)' = (1 .. Finished(w)) \union {batches[w] + 1}
        BY <3>2
      <3> QED
        BY <3>1, <3>2, <3>3 DEF Counted, Current
    <2>3. Current(w) \in Uncounted
      BY <1>5 DEF Count, Uncounted
    <2>4. Uncounted' \subseteq Uncounted /\ Uncounted \subseteq Uncounted' \union {Current(w)}
      BY <1>5, <1>t DEF Count, Uncounted, Current, TypeOK
    <2>5. /\ IsFiniteSet(Counted')
          /\ Cardinality(Counted') = Cardinality(Counted) + 1
          /\ Cardinality(Counted) \in Nat
      BY <2>1, <2>2, FS_AddElement, FS_CardinalityType DEF Ledger
    <2>6. counter' = BatchLen * Cardinality(Counted')
      BY <1>5, <2>5, BatchLenAssumption DEF Count, AddInt64, Ledger
    <2> QED
      BY <1>5, <2>2, <2>3, <2>4, <2>5, <2>6 DEF Count, Ledger, Sync, Running
  <1>6. ASSUME NEW w \in Writers, Incr(w) PROVE Ledger'
    <2>1. Counted' = Counted
      BY <1>6, <1>t, CountedUnchanged DEF Incr, Finished, TypeOK
    <2>2. Uncounted' = Uncounted
      BY <1>6, <1>t DEF Incr, Uncounted, Current, TypeOK
    <2> QED
      BY <1>6, <2>1, <2>2 DEF Incr, Ledger, Sync
  <1>7. ASSUME WriteBack, Running PROVE Ledger'
    <2>1. Counted' = Counted /\ Uncounted' = Uncounted
      BY <1>7 DEF WriteBack, Counted, Finished, Uncounted, Current
    <2> QED
      BY <1>7, <2>1, <1>t DEF WriteBack, Ledger, Sync, Running, TypeOK
  <1>8. ASSUME Crash PROVE Ledger'
    <2>1. Counted' = Counted
      BY <1>8 DEF Crash, Counted, Finished
    <2>2. IsFiniteSet(committed')
      BY <1>8, <1>t, FS_Subset DEF Crash, Ledger, TypeOK
    <2> QED
      BY <1>8, <2>1, <2>2 DEF Crash, Ledger, Sync
  <1>9. CASE \/ MainStep /\ ~(\E w \in Writers : Spawn(w))
             \/ ReporterStep \/ (Environment /\ RateExpires)
             \/ (Running /\ (OpenFails \/ HttpFails))
             \/ UNCHANGED vars
    BY <1>9, <1>1
       DEF MainStep, ReporterStep, Environment, Running, OpenStore, Wait, Cancel,
           CloseStore, PrintWrote, Tick, PrintTotal, StopReporter, RateExpires, OpenFails,
           HttpFails, Fatal, vars
  <1> QED
    BY <1>2, <1>3, <1>4, <1>5, <1>6, <1>7, <1>8, <1>9
       DEF Next, MainStep, WriterStep, Environment, Failure, Over

-----------------------------------------------------------------------------
(* The share: how far each writer goes. *)

\* Keys written by one round of all the writers.
Round == BatchLen * N

Share ==
    \A w \in Writers :
        /\ pc[w] \in {"write", "count", "rate"} => batches[w] * Round < NumKeys
        /\ pc[w] = "done" => batches[w] * Round >= NumKeys
        /\ batches[w] # 0 => (batches[w] - 1) * Round < NumKeys

\* There is at least one writer, so a round is positive.
LEMMA RoundPositive == N \in Nat \ {0} /\ Round \in Nat \ {0}
  <1>1. N \in Nat /\ N # 0
    BY WritersAssumption, FS_CardinalityType, FS_EmptySet DEF N
  <1> QED
    BY <1>1, BatchLenAssumption DEF Round

\* The loop condition in terms of rounds.
LEMMA BelowShareRounds ==
    ASSUME TypeOK, NEW w \in Writers
    PROVE  BelowShare(w) <=> batches[w] * Round < NumKeys
  <1>1. batches[w] \in Nat /\ BatchLen \in Nat /\ N \in Nat
    BY BatchLenAssumption, RoundPositive DEF TypeOK
  <1>2. (batches[w] * BatchLen) * N = batches[w] * (BatchLen * N)
    BY <1>1
  <1> QED
    BY <1>2 DEF BelowShare, Round

\* No writer has started.
LEMMA ShareInit == Init => Share
  BY DEF Init, Share

\* A writer writes its next batch only while below its share.
LEMMA ShareNext == BarrierInv /\ Share /\ [Next]_vars => Share'
  <1> SUFFICES ASSUME BarrierInv, Share, [Next]_vars PROVE Share'
    OBVIOUS
  <1> USE DEF engine, writer, reporter
  <1>t. TypeOK
    BY DEF BarrierInv
  <1>r. Round' = Round /\ Round \in Nat
    BY RoundPositive DEF Round, N
  <1>n. NumKeys \in Nat
    BY NumKeysAssumption
  <1>1. CASE UNCHANGED <<pc, batches>>
    BY <1>1 DEF Share, Round, N
  <1>2. ASSUME NEW w \in Writers, Spawn(w) \/ Write(w) \/ Count(w) PROVE Share'
    BY <1>2, <1>t, <1>r DEF Spawn, Write, Count, Share, TypeOK
  <1>3. ASSUME NEW w \in Writers, Enter(w) PROVE Share'
    BY <1>3, <1>t, <1>r, BelowShareRounds DEF Enter, Share, TypeOK
  <1>4. ASSUME NEW w \in Writers, Done(w) PROVE Share'
    <2>1. batches[w] * Round \in Nat
      BY <1>t, <1>r DEF TypeOK
    <2> QED
      BY <1>4, <1>t, <1>r, <1>n, <2>1, BelowShareRounds DEF Done, Share, TypeOK
  <1>5. ASSUME NEW w \in Writers, Incr(w) PROVE Share'
    <2>1. pc[w] = "rate" /\ batches[w] * Round < NumKeys
      BY <1>5 DEF Incr, Share
    <2>2. batches[w]' = batches[w] + 1 /\ pc'[w] = "loop" /\ batches[w] \in Nat
      BY <1>5, <1>t DEF Incr, TypeOK
    <2>3. (batches[w]' - 1) * Round < NumKeys
      BY <2>1, <2>2
    <2>4. \A v \in Writers \ {w} : batches'[v] = batches[v] /\ pc'[v] = pc[v]
      BY <1>5, <1>t DEF Incr, TypeOK
    <2> QED
      BY <2>2, <2>3, <2>4, <1>r DEF Share
  <1>6. CASE \/ MainStep /\ ~(\E w \in Writers : Spawn(w))
             \/ ReporterStep \/ Environment \/ Failure \/ UNCHANGED vars
    BY <1>6, <1>1
       DEF MainStep, ReporterStep, Environment, Failure, OpenStore, Wait, Cancel, CloseStore,
           PrintWrote, Tick, PrintTotal, StopReporter, RateExpires, WriteBack, OpenFails,
           WriteFails, HttpFails, Crash, Fatal, vars
  <1> QED
    BY <1>2, <1>3, <1>4, <1>5, <1>6 DEF Next, MainStep, WriterStep, Over

-----------------------------------------------------------------------------
(* WROTE *)

\* Two writers that are done have written the same number of batches.
LEMMA SameShare ==
    ASSUME NEW a \in Nat, NEW b \in Nat, NEW r \in Nat \ {0}, NEW n \in Nat,
           a * r >= n, b # 0 => (b - 1) * r < n
    PROVE  b <= a
  <1> SUFFICES ASSUME a + 1 <= b PROVE FALSE
    OBVIOUS
  <1>1. PICK d \in Nat : b - 1 = a + d
    <2>1. b - 1 - a \in Nat
      OBVIOUS
    <2> QED
      BY <2>1
  <1>2. (b - 1) * r = a * r + d * r
    BY <1>1
  <1>3. a * r \in Nat /\ d * r \in Nat
    OBVIOUS
  <1> QED
    BY <1>2, <1>3

\* The size of an interval that starts at 1.
LEMMA IntervalCardinality ==
    ASSUME NEW k \in Nat
    PROVE  IsFiniteSet(1 .. k) /\ Cardinality(1 .. k) = k
  <1>1. CASE k = 0
    <2>1. 1 .. k = {}
      BY <1>1
    <2> QED
      BY <1>1, <2>1, FS_EmptySet
  <1>2. CASE k # 0
    <2>1. IsFiniteSet(1 .. k) /\ Cardinality(1 .. k) = IF 1 > k THEN 0 ELSE k - 1 + 1
      BY FS_Interval
    <2>2. ~(1 > k) /\ k - 1 + 1 = k
      BY <1>2
    <2> QED
      BY <2>1, <2>2
  <1> QED
    BY <1>1, <1>2

\* When all writers are done, each has written the same number of batches, the
\* smallest one that brings the total up to NumKeys.
LEMMA AllDone ==
    ASSUME TypeOK, Ledger, Share, \A w \in Writers : pc[w] = "done"
    PROVE  /\ counter >= NumKeys
           /\ counter < NumKeys + N * BatchLen
  <1>1. PICK w0 \in Writers : TRUE
    BY WritersAssumption
  <1> DEFINE K == batches[w0]
  <1>2. K \in Nat /\ NumKeys \in Nat /\ Round \in Nat \ {0} /\ N \in Nat /\ BatchLen \in Nat
    BY RoundPositive, NumKeysAssumption, BatchLenAssumption DEF TypeOK
  <1>3. \A w \in Writers : batches[w] = K
    <2> SUFFICES ASSUME NEW w \in Writers PROVE batches[w] = K
      OBVIOUS
    <2>1. batches[w] \in Nat
      BY DEF TypeOK
    <2>2. /\ batches[w] * Round >= NumKeys /\ (batches[w] # 0 => (batches[w] - 1) * Round < NumKeys)
          /\ K * Round >= NumKeys /\ (K # 0 => (K - 1) * Round < NumKeys)
      BY DEF Share
    <2>3. batches[w] <= K
      BY <1>2, <2>1, <2>2, SameShare
    <2>4. K <= batches[w]
      BY <1>2, <2>1, <2>2, SameShare
    <2> QED
      BY <1>2, <2>1, <2>3, <2>4
  <1>4. Counted = Writers \X (1 .. K)
    BY <1>3 DEF Counted, Finished
  <1>5. Cardinality(Counted) = N * K
    <2>1. IsFiniteSet(1 .. K) /\ Cardinality(1 .. K) = K
      BY <1>2, IntervalCardinality
    <2> QED
      BY <1>4, <2>1, FS_Product, WritersAssumption DEF N
  <1>6. counter = K * Round
    <2>1. BatchLen * (N * K) = K * (BatchLen * N)
      BY <1>2
    <2> QED
      BY <1>5, <2>1 DEF Ledger, Round
  <1>7. K * Round >= NumKeys /\ (K # 0 => (K - 1) * Round < NumKeys)
    BY <1>1 DEF Share
  <1>8. K # 0 => K * Round < NumKeys + Round
    <2>1. (K - 1) * Round = K * Round - Round
      BY <1>2
    <2>2. K * Round \in Nat
      BY <1>2
    <2> QED
      BY <1>2, <1>7, <2>1, <2>2
  <1>9. K = 0 => K * Round < NumKeys + Round
    BY <1>2
  <1>10. Round = N * BatchLen
    BY <1>2 DEF Round
  <1> QED
    BY <1>6, <1>7, <1>8, <1>9, <1>10

\* Badger does not get past opening with data of an earlier run.
Fresh ==
    /\ main # "open" /\ which = "badger" => ~stale
    /\ proc = "exited" => main # "open"

\* main has opened nothing at the start.
LEMMA FreshInit == Init => Fresh
  BY DEF Init, Fresh

\* Only opening the store changes stale, and main never goes back to it.
LEMMA FreshNext == Fresh /\ [Next]_vars => Fresh'
  <1> SUFFICES ASSUME Fresh, [Next]_vars PROVE Fresh'
    OBVIOUS
  <1> USE DEF Fresh, engine, writer, reporter
  <1>1. CASE OpenStore
    BY <1>1 DEF OpenStore, ChecksRemoval
  <1>2. ASSUME NEW w \in Writers, Spawn(w) \/ Enter(w) \/ Done(w) \/ Write(w) \/ Count(w) \/ Incr(w)
        PROVE  Fresh'
    BY <1>2 DEF Spawn, Enter, Done, Write, Count, Incr
  <1>3. CASE Wait \/ Cancel \/ CloseStore \/ PrintWrote
    BY <1>3 DEF Wait, Cancel, CloseStore, PrintWrote
  <1>4. CASE Tick \/ PrintTotal \/ StopReporter \/ RateExpires \/ WriteBack \/ UNCHANGED vars
    BY <1>4 DEF Tick, PrintTotal, StopReporter, RateExpires, WriteBack, vars
  <1>5. CASE Failure
    BY <1>5 DEF Failure, OpenFails, WriteFails, HttpFails, Crash, Fatal
  <1> QED
    BY <1>1, <1>2, <1>3, <1>4, <1>5
       DEF Next, MainStep, WriterStep, ReporterStep, Environment, Over

\* The line WROTE counts exactly the entries this run has put in the store and
\* lies within one batch per writer above the keys asked for, for every number
\* of writers; badger's store holds nothing else.
THEOREM WroteTellsTheTruth == Spec => []WroteIsExact
  <1>1. BarrierInv /\ Ledger /\ Share /\ Fresh => WroteIsExact
    <2> SUFFICES ASSUME BarrierInv, Ledger, Share, Fresh, proc = "exited"
                 PROVE  /\ counter = BatchLen * Cardinality(committed)
                        /\ counter >= NumKeys
                        /\ counter < NumKeys + N * BatchLen
                        /\ which = "badger" => ~stale
      BY DEF WroteIsExact
    <2>1. \A w \in Writers : pc[w] = "done"
      BY DEF BarrierInv, Barrier
    <2>2. committed = Counted
      BY <2>1 DEF Ledger, Uncounted
    <2>3. counter = BatchLen * Cardinality(committed)
      BY <2>2 DEF Ledger
    <2>4. which = "badger" => ~stale
      BY DEF Fresh
    <2> QED
      BY <2>1, <2>3, <2>4, AllDone DEF BarrierInv
  <1>2. Spec => [](BarrierInv /\ Ledger /\ Share /\ Fresh)
    BY BarrierInit, LedgerInit, ShareInit, FreshInit, BarrierNext, LedgerNext, ShareNext,
       FreshNext, PTL DEF Spec
  <1> QED
    BY <1>1, <1>2, PTL

-----------------------------------------------------------------------------
(* The reporter *)

\* Writers that have counted a batch and not yet added it to the rate.
Unrated == {w \in Writers : pc[w] = "rate"}

Reports ==
    /\ rate + BatchLen * Cardinality(Unrated) <= counter
    /\ rateSeen <= counter
    /\ shown.rate <= shown.total
    /\ shown.total <= counter

\* Unrated is a finite set.
LEMMA UnratedFinite == IsFiniteSet(Unrated) /\ Cardinality(Unrated) \in Nat
  <1>1. Unrated \subseteq Writers
    BY DEF Unrated
  <1>2. IsFiniteSet(Unrated)
    BY <1>1, FS_Subset, WritersAssumption
  <1> QED
    BY <1>2, FS_CardinalityType

\* Nothing is reported at the start.
LEMMA ReportsInit == Init => Reports
  <1> SUFFICES ASSUME Init PROVE Reports
    OBVIOUS
  <1>1. Unrated = {}
    BY DEF Init, Unrated
  <1> QED
    BY <1>1, FS_EmptySet, BatchLenAssumption DEF Init, Reports

\* The rate trails the counter by the batches counted and not yet rated.
LEMMA ReportsNext == BarrierInv /\ Reports /\ [Next]_vars => Reports'
  <1> SUFFICES ASSUME BarrierInv, Reports, [Next]_vars PROVE Reports'
    OBVIOUS
  <1> USE DEF engine, writer, reporter
  <1>t. TypeOK
    BY DEF BarrierInv
  <1>c. /\ Cardinality(Unrated) \in Nat /\ BatchLen \in Nat
        /\ BatchLen * Cardinality(Unrated) \in Nat
    BY UnratedFinite, BatchLenAssumption
  <1>1. CASE UNCHANGED <<rate, counter, reporter>> /\ Unrated' = Unrated
    BY <1>1 DEF Reports
  <1>2. ASSUME NEW w \in Writers, Spawn(w) \/ Enter(w) \/ Done(w) \/ Write(w)
        PROVE Reports'
    <2>1. Unrated' = Unrated
      BY <1>2, <1>t DEF Spawn, Enter, Done, Write, Unrated, TypeOK
    <2> QED
      BY <1>1, <1>2, <2>1 DEF Spawn, Enter, Done, Write
  <1>3. ASSUME NEW w \in Writers, Count(w) PROVE Reports'
    <2>1. Unrated' = Unrated \union {w} /\ w \notin Unrated
      BY <1>3, <1>t DEF Count, Unrated, TypeOK
    <2>2. Cardinality(Unrated') = Cardinality(Unrated) + 1
      BY <2>1, UnratedFinite, FS_AddElement
    <2>3. BatchLen * Cardinality(Unrated') = BatchLen * Cardinality(Unrated) + BatchLen
      BY <1>c, <2>2
    <2> QED
      BY <1>3, <1>t, <1>c, <2>3 DEF Count, AddInt64, Reports, TypeOK
  <1>4. ASSUME NEW w \in Writers, Incr(w) PROVE Reports'
    <2>1. Unrated' = Unrated \ {w} /\ w \in Unrated
      BY <1>4, <1>t DEF Incr, Unrated, TypeOK
    <2>2. Cardinality(Unrated') = Cardinality(Unrated) - 1
      BY <2>1, UnratedFinite, FS_RemoveElement
    <2>3. BatchLen * Cardinality(Unrated') = BatchLen * Cardinality(Unrated) - BatchLen
      BY <1>c, <2>2
    <2> QED
      BY <1>4, <1>t, <1>c, <2>3 DEF Incr, Reports, TypeOK
  <1>5. CASE Tick \/ PrintTotal \/ StopReporter
    <2>1. Unrated' = Unrated
      BY <1>5 DEF Tick, PrintTotal, StopReporter, Unrated
    <2> QED
      BY <1>5, <1>t, <1>c, <2>1 DEF Tick, PrintTotal, StopReporter, Reports, TypeOK
  <1>6. CASE RateExpires
    <2>1. Unrated' = Unrated
      BY <1>6 DEF RateExpires, Unrated
    <2> QED
      BY <1>6, <1>t, <1>c, <2>1 DEF RateExpires, Reports, TypeOK
  <1>7. CASE \/ OpenStore \/ Wait \/ Cancel \/ CloseStore \/ PrintWrote
             \/ WriteBack \/ Failure \/ UNCHANGED vars
    <2>1. UNCHANGED <<pc, rate, counter, rateSeen, shown>>
      BY <1>7 DEF OpenStore, Wait, Cancel, CloseStore, PrintWrote, WriteBack, Failure,
         OpenFails, WriteFails, HttpFails, Crash, Fatal, vars
    <2> QED
      BY <2>1 DEF Reports, Unrated
  <1> QED
    BY <1>2, <1>3, <1>4, <1>5, <1>6, <1>7
       DEF Next, MainStep, WriterStep, ReporterStep, Environment, Over

\* No line of the reporter shows a rate above its total, whatever the writers do
\* between the two reads.
THEOREM RateNeverAboveTotal == Spec => []RateWithinTotal
  <1>1. Reports => RateWithinTotal
    BY DEF Reports, RateWithinTotal
  <1> QED
    BY <1>1, BarrierInit, BarrierNext, ReportsInit, ReportsNext, PTL DEF Spec

\* More batches hold more keys.
LEMMA MoreKeys ==
    ASSUME NEW m \in Nat, NEW n \in Nat, m <= n
    PROVE  BatchLen * m <= BatchLen * n /\ BatchLen * m \in Nat /\ BatchLen * n \in Nat
  <1>1. PICK d \in Nat : n = m + d
    <2>1. n - m \in Nat /\ n = m + (n - m)
      OBVIOUS
    <2> QED
      BY <2>1
  <1>2. BatchLen * n = BatchLen * m + BatchLen * d
    BY <1>1, BatchLenAssumption
  <1>3. BatchLen * d \in Nat /\ BatchLen * m \in Nat
    BY BatchLenAssumption
  <1> QED
    BY <1>2, <1>3

\* With a synchronous engine no crash of the machine takes back what the
\* reporter has shown as written.
THEOREM ShownIsDurable == Spec => []ShownSurvivesSync
  <1>1. BarrierInv /\ Ledger /\ Reports => ShownSurvivesSync
    <2> SUFFICES ASSUME BarrierInv, Ledger, Reports, Sync(which)
                 PROVE  shown.total <= BatchLen * Cardinality(committed)
      BY DEF ShownSurvivesSync
    <2>1. Counted \subseteq committed
      BY DEF Ledger, BarrierInv, TypeOK
    <2>2. /\ Cardinality(Counted) <= Cardinality(committed)
          /\ Cardinality(Counted) \in Nat /\ Cardinality(committed) \in Nat
      BY <2>1, FS_Subset, FS_CardinalityType DEF Ledger
    <2>3. /\ BatchLen * Cardinality(Counted) <= BatchLen * Cardinality(committed)
          /\ BatchLen * Cardinality(Counted) \in Nat /\ BatchLen * Cardinality(committed) \in Nat
      BY <2>2, MoreKeys
    <2>4. shown.total <= counter /\ shown.total \in Nat
      BY DEF Reports, BarrierInv, TypeOK
    <2>5. counter = BatchLen * Cardinality(Counted)
      BY DEF Ledger
    <2> QED
      BY <2>3, <2>4, <2>5
  <1> QED
    BY <1>1, BarrierInit, BarrierNext, LedgerInit, LedgerNext, ReportsInit, ReportsNext, PTL
       DEF Spec

-----------------------------------------------------------------------------
(* Populate implements Loader. *)

\* What the proof of a step needs.
LoaderInv == BarrierInv /\ Ledger /\ Share /\ Reports

\* The module Loader counts elements as this one does.
LEMMA SameCardinality ==
    ASSUME NEW S
    PROVE  L!Cardinality(S) = Cardinality(S)
  BY Zenon DEF Cardinality, L!Cardinality

\* The keys that were counted are in the store, as long as it has not crashed.
LEMMA CountedAreHeld ==
    ASSUME BarrierInv, Ledger, proc # "crashed"
    PROVE  counter <= L!Keys /\ L!Keys \in Nat
  <1>1. /\ Cardinality(Counted) <= Cardinality(committed)
        /\ Cardinality(Counted) \in Nat /\ Cardinality(committed) \in Nat
    BY FS_Subset, FS_CardinalityType DEF Ledger
  <1>2. /\ BatchLen * Cardinality(Counted) <= BatchLen * Cardinality(committed)
        /\ BatchLen * Cardinality(committed) \in Nat
    BY <1>1, MoreKeys
  <1>3. L!Keys = BatchLen * Cardinality(committed)
    BY SameCardinality DEF L!Keys
  <1> QED
    BY <1>2, <1>3 DEF Ledger

\* The batch a writer is about to commit is not in the store.
LEMMA NewBatch ==
    ASSUME BarrierInv, Ledger, proc = "running", NEW w \in Writers, pc[w] = "write",
           committed' = committed \union {Current(w)}
    PROVE  L!Grows
  <1>t. TypeOK
    BY DEF BarrierInv
  <1>1. Current(w) \notin Counted
    BY <1>t, CountedElement DEF Current, Finished, TypeOK
  <1>2. Current(w) \notin Uncounted
    BY DEF Uncounted, Current
  <1>3. Current(w) \notin committed
    BY <1>1, <1>2 DEF Ledger
  <1>4. committed' \ committed = {Current(w)}
    BY <1>3
  <1>5. Cardinality(committed' \ committed) = 1
    BY <1>4, FS_Singleton
  <1> QED
    BY <1>5, SameCardinality DEF L!Grows

\* A step that changes nothing the loader speaks of.
LEMMA SilentStep ==
    ASSUME UNCHANGED <<which, proc, stale, committed, shown>>,
           (db # "nil") = (db' # "nil"), proc = "exited" => counter' = counter
    PROVE  UNCHANGED L!vars
  <1>1. ChecksRemoval(which)' = ChecksRemoval(which) /\ Sync(which)' = Sync(which)
    BY DEF ChecksRemoval, Sync, RocksSync
  <1> QED
    BY <1>1 DEF L!vars

\* Nothing but the loader's variables matters to Running.
LEMMA SameKind ==
    ASSUME Running, which' = which
    PROVE  L!Running
  BY DEF Running, L!Running, ChecksRemoval, Sync, RocksSync

\* The first state is one of Loader.
LEMMA LoaderInit == Init => L!Init
  BY DEF Init, L!Init, ChecksRemoval, Sync, RocksSync

\* Every step is a step of Loader or changes nothing of it.
LEMMA LoaderNext == LoaderInv /\ [Next]_vars => [L!Next]_(L!vars)
  <1> SUFFICES ASSUME LoaderInv, [Next]_vars PROVE [L!Next]_(L!vars)
    OBVIOUS
  <1> USE DEF engine, writer, reporter
  <1>0. BarrierInv /\ Barrier /\ TypeOK /\ Ledger /\ Share /\ Reports
    BY DEF LoaderInv, BarrierInv
  <1>1. ASSUME Running, OpenStore PROVE L!Next
    <2>1. L!Open
      BY <1>0, <1>1 DEF OpenStore, L!Open, Running, Barrier, TypeOK
    <2> QED
      BY <1>1, <2>1, SameKind DEF OpenStore, L!Next
  <1>2. ASSUME Running, NEW w \in Writers,
               Spawn(w) \/ Enter(w) \/ Done(w) \/ Count(w) \/ Incr(w)
        PROVE  UNCHANGED L!vars
    BY <1>2, SilentStep DEF Running, Spawn, Enter, Done, Count, Incr
  <1>3. ASSUME Running, Wait \/ Cancel \/ Tick \/ StopReporter \/ RateExpires \/ WriteBack
        PROVE  UNCHANGED L!vars
    BY <1>3, SilentStep DEF Running, Wait, Cancel, Tick, StopReporter, RateExpires, WriteBack
  <1>4. ASSUME Running, CloseStore PROVE UNCHANGED L!vars
    BY <1>0, <1>4, SilentStep DEF Running, CloseStore, Barrier
  <1>5. CASE UNCHANGED vars
    BY <1>5, SilentStep DEF vars
  <1>6. ASSUME Running, NEW w \in Writers, Write(w) PROVE L!Next
    <2>1. L!Grows
      BY <1>0, <1>6, NewBatch DEF Write, Running
    <2>2. L!Load
      BY <1>0, <1>6, <2>1 DEF Write, L!Load, Running
    <2> QED
      BY <1>6, <2>2, SameKind DEF Write, L!Next
  <1>7. ASSUME Running, PrintTotal PROVE L!Next
    <2>1. shown'.total = counter /\ shown.total <= counter /\ counter \in Nat /\ shown.total \in Nat
      BY <1>0, <1>7 DEF PrintTotal, Reports, TypeOK
    <2>2. counter <= L!Keys /\ L!Keys \in Nat
      BY <1>0, <1>7, CountedAreHeld DEF Running
    <2>3. shown'.total \in shown.total .. L!Keys
      BY <2>1, <2>2
    <2>4. L!Tell
      BY <1>7, <2>3 DEF PrintTotal, L!Tell, Running
    <2> QED
      BY <1>7, <2>4, SameKind DEF PrintTotal, L!Next
  <1>8. ASSUME Running, PrintWrote PROVE L!Next
    <2>1. \A w \in Writers : pc[w] = "done"
      BY <1>0, <1>8 DEF PrintWrote, Barrier
    <2>2. committed = Counted
      BY <1>0, <1>8, <2>1 DEF Ledger, Uncounted, Running
    <2>3. L!Keys = counter
      BY <1>0, <2>2, SameCardinality DEF Ledger, L!Keys
    <2>4. counter >= NumKeys /\ counter < NumKeys + N * BatchLen
      BY <1>0, <2>1, AllDone
    <2>5. L!Finish
      BY <1>0, <1>8, <2>3, <2>4 DEF PrintWrote, L!Finish, Running, Barrier
    <2> QED
      BY <1>8, <2>5, SameKind DEF PrintWrote, L!Next
  <1>9. ASSUME Running, OpenFails \/ HttpFails PROVE L!Next
    <2>1. L!Fail
      BY <1>0, <1>9 DEF OpenFails, HttpFails, Fatal, L!Fail, Running, Barrier
    <2> QED
      BY <1>9, <2>1, SameKind DEF OpenFails, HttpFails, Fatal, L!Next
  <1>10. ASSUME Running, NEW w \in Writers, WriteFails(w) PROVE L!Next
    <2>1. committed' = committed \/ L!Grows
      BY <1>0, <1>10, NewBatch DEF WriteFails, Running
    <2>2. db # "nil"
      BY <1>0, <1>10 DEF Barrier, WriteFails
    <2>3. L!Fail
      BY <1>10, <2>1, <2>2 DEF WriteFails, Fatal, L!Fail, Running
    <2> QED
      BY <1>10, <2>3, SameKind DEF WriteFails, Fatal, L!Next
  <1>11. ASSUME Running, Crash PROVE L!Next
    <2>1. committed' \subseteq committed /\ (Sync(which) => committed' = committed)
      BY <1>0, <1>11 DEF Crash, Ledger, TypeOK, Running
    <2>2. L!Crash
      BY <1>11, <2>1 DEF Crash, L!Crash, Running
    <2> QED
      BY <1>11, <2>2, SameKind DEF Crash, L!Next
  <1> QED
    BY <1>1, <1>2, <1>3, <1>4, <1>5, <1>6, <1>7, <1>8, <1>9, <1>10, <1>11
       DEF Next, MainStep, WriterStep, ReporterStep, Failure, Environment, Over

\* The goroutines of populate do to the store, and tell of it, what Loader
\* allows, for every number of writers and batches and every interleaving.
THEOREM LoaderIsImplemented == Spec => ImplementsLoader
  <1>1. Spec => []LoaderInv
    BY BarrierInit, LedgerInit, ShareInit, ReportsInit, BarrierNext, LedgerNext, ShareNext,
       ReportsNext, PTL DEF Spec, LoaderInv
  <1> QED
    BY <1>1, LoaderInit, LoaderNext, PTL DEF Spec, ImplementsLoader, L!Spec
=============================================================================
