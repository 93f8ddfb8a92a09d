--------------------------- MODULE ReadBenchProofs --------------------------
(***************************************************************************)
(* Proofs about ReadBench. What the goroutines have counted and not yet    *)
(* added to the shared counter is a sum over goroutines; it is expressed   *)
(* as the cardinality of a set of marks, one for each lookup.              *)
(***************************************************************************)
EXTENDS ReadBench, FiniteSetTheorems, TLAPS

-----------------------------------------------------------------------------
(* Marks *)

\* f[w] marks for each w in S.
Marks(S, f) == UNION {{w} \X (1 .. f[w]) : w \in S}

\* What the marks are.
LEMMA MarksAre ==
  ASSUME NEW S, NEW f, NEW p
  PROVE  p \in Marks(S, f) <=> \E w \in S : \E i \in 1 .. f[w] : p = <<w, i>>
  BY DEF Marks

\* Nobody has marks, or nobody is left to have them.
LEMMA MarksNone ==
  ASSUME NEW S, NEW f, \A w \in S : f[w] = 0
  PROVE  IsFiniteSet(Marks(S, f)) /\ Cardinality(Marks(S, f)) = 0
<1>1. Marks(S, f) = {}
  BY MarksAre
<1> QED
  BY <1>1, FS_EmptySet

\* One more mark for w.
LEMMA MarksMore ==
  ASSUME NEW S \in SUBSET Workers, NEW f \in [Workers -> Nat], NEW w \in S,
         IsFiniteSet(Marks(S, f)),
         NEW g, g[w] = f[w] + 1, \A u \in Workers \ {w} : g[u] = f[u]
  PROVE  /\ IsFiniteSet(Marks(S, g))
         /\ Cardinality(Marks(S, g)) = Cardinality(Marks(S, f)) + 1
<1> DEFINE x == <<w, f[w] + 1>>
<1>1. x \notin Marks(S, f)
  BY MarksAre
<1>2. ASSUME NEW p PROVE p \in Marks(S, g) <=> p \in Marks(S, f) \union {x}
  <2>1. p \in Marks(S, g) <=> \E u \in S : \E i \in 1 .. g[u] : p = <<u, i>>
    BY DEF Marks
  <2>2. p \in Marks(S, f) <=> \E u \in S : \E i \in 1 .. f[u] : p = <<u, i>>
    BY DEF Marks
  <2>3. \A u \in S, i \in Int : i \in 1 .. g[u] <=> i \in 1 .. f[u] \/ <<u, i>> = x
    OBVIOUS
  <2> QED
    BY <2>1, <2>2, <2>3
<1>3. Marks(S, g) = Marks(S, f) \union {x}
  BY <1>2
<1> HIDE DEF x
<1> QED
  <2>1. /\ IsFiniteSet(Marks(S, f) \union {x})
        /\ Cardinality(Marks(S, f) \union {x}) =
             IF x \in Marks(S, f) THEN Cardinality(Marks(S, f)) ELSE Cardinality(Marks(S, f)) + 1
    BY FS_AddElement, Zenon
  <2> QED
    BY <1>1, <1>3, <2>1, Zenon

\* The marks of w go.
LEMMA MarksGone ==
  ASSUME NEW S \in SUBSET Workers, NEW f \in [Workers -> Nat], NEW w \in S,
         IsFiniteSet(Marks(S, f))
  PROVE  /\ IsFiniteSet(Marks(S \ {w}, f))
         /\ Cardinality(Marks(S, f)) = Cardinality(Marks(S \ {w}, f)) + f[w]
<1> DEFINE Own == {w} \X (1 .. f[w])
           Others == Marks(S \ {w}, f)
           mark == [i \in 1 .. f[w] |-> <<w, i>>]
<1>1. mark \in Bijection(1 .. f[w], Own)
  <2>1. mark \in [1 .. f[w] -> Own]
    OBVIOUS
  <2>2. \A i, k \in 1 .. f[w] : mark[i] = mark[k] => i = k
    OBVIOUS
  <2>3. \A p \in Own : \E i \in 1 .. f[w] : mark[i] = p
    OBVIOUS
  <2> HIDE DEF Own, mark
  <2> QED
    BY <2>1, <2>2, <2>3, Zenon DEF Bijection, Injection, Surjection, IsInjective
<1>2. IsFiniteSet(Own) /\ Cardinality(Own) = f[w]
  <2>1. ExistsBijection(1 .. f[w], Own)
    BY <1>1, Zenon DEF ExistsBijection
  <2>2. IsFiniteSet(1 .. f[w]) /\ Cardinality(1 .. f[w]) = f[w]
    BY FS_Interval
  <2> QED
    <3> HIDE DEF Own
    <3> QED BY <2>1, <2>2, FS_Bijection
<1>3. Marks(S, f) = Others \union Own
  BY DEF Marks
<1>4. Others \cap Own = {}
  BY DEF Marks
<1>5. IsFiniteSet(Others)
  BY <1>3, FS_Subset
<1>6. Cardinality(Others \cap Own) = 0
  BY <1>4, FS_EmptySet
<1>7. Cardinality(Others) \in Nat
  BY <1>5, FS_CardinalityType
<1> HIDE DEF Own, Others
<1>8. Cardinality(Others \union Own) = Cardinality(Others) + Cardinality(Own) - Cardinality(Others \cap Own)
  BY <1>2, <1>5, FS_Union
<1> QED
  BY <1>2, <1>3, <1>5, <1>6, <1>7, <1>8 DEF Others

-----------------------------------------------------------------------------
(* Types *)

\* Adding counts gives counts.
LEMMA PlusType ==
  ASSUME NEW h \in Counts, NEW d \in Counts
  PROVE  /\ Plus(h, d) \in Counts
         /\ Plus(h, d).found = h.found + d.found
         /\ Total(Plus(h, d)) = Total(h) + Total(d)
  BY DEF Counts, Plus, Total

\* One more in a field.
LEMMA OneMore ==
  ASSUME NEW h \in Counts, NEW f \in {"found", "notFound", "errored"}
  PROVE  /\ [h EXCEPT ![f] = @ + 1] \in Counts
         /\ Total([h EXCEPT ![f] = @ + 1]) = Total(h) + 1
         /\ [h EXCEPT ![f] = @ + 1].found = IF f = "found" THEN h.found + 1 ELSE h.found
  BY DEF Counts, Total

\* What is read off counts are numbers.
LEMMA CountsType ==
  ASSUME NEW h \in Counts PROVE Total(h) \in Nat /\ h.found \in Nat
  BY DEF Counts, Total

\* Nothing counted yet.
LEMMA ZeroType == Zero \in Counts /\ Total(Zero) = 0 /\ Zero.found = 0
  BY DEF Zero, Counts, Total

\* Which field a lookup counts in.
LEMMA ClassType ==
  ASSUME NEW b, NEW key PROVE Class(b, key) \in {"found", "notFound"}
  BY DEF Class

\* The assertion on the size of a value cannot fail, since the key names it.
LEMMA NeverAsserts ==
  ASSUME NEW k PROVE StoredLen(newKey(k)) = valueSize
  BY DEF StoredLen, newKey

\* The types are kept.
LEMMA TypeNext == TypeOK /\ [Next]_vars => TypeOK'
<1> SUFFICES ASSUME TypeOK, [Next]_vars PROVE TypeOK'
  OBVIOUS
<1> USE DEF TypeOK
<1>1. CASE Open
  BY <1>1 DEF Open, bench, work
<1>2. CASE OpenFails
  BY <1>2 DEF OpenFails, bench, work
<1>3. CASE StartRound
  <2>1. BN[round + 1] \in Nat /\ round' \in 0 .. Len(BN)
    BY <1>3, RoundsAssumption DEF StartRound, NextRound
  <2> QED
    BY <1>3, <2>1, ZeroType DEF StartRound, NextRound, Reset, bench
<1>4. CASE EndRound
  BY <1>4 DEF EndRound, bench, work
<1>5. CASE PrintAndClose
  BY <1>5 DEF PrintAndClose, bench, work
<1>6. ASSUME NEW w \in Workers, Lookup(w) PROVE TypeOK'
  <2>1. left' \in Nat
    BY <1>6 DEF Lookup, HasNext
  <2>2. PICK k \in Numbers :
          LET key == newKey(k)
              present == key \in store
          IN  /\ c' = [c EXCEPT ![w][Class(present, key)] = @ + 1]
              /\ slices' = IF kind = "rocksdb" /\ present THEN slices + 1 ELSE slices
              /\ hits' = IF present THEN hits + 1 ELSE hits
              /\ UNCHANGED proc
    BY <1>6, NeverAsserts DEF Lookup
  <2>3. c' \in [Workers -> Counts]
    BY <2>2, OneMore, ClassType
  <2> QED
    BY <1>6, <2>1, <2>2, <2>3 DEF Lookup, bench
<1>7. ASSUME NEW w \in Workers, LookupFails(w) PROVE TypeOK'
  <2>1. left' \in Nat
    BY <1>7 DEF LookupFails, HasNext
  <2>2. c' \in [Workers -> Counts]
    BY <1>7, OneMore DEF LookupFails
  <2> QED
    BY <1>7, <2>1, <2>2 DEF LookupFails, bench
<1>8. ASSUME NEW w \in Workers, ViewFails(w) PROVE TypeOK'
  BY <1>8 DEF ViewFails, bench, work
<1>9. ASSUME NEW w \in Workers, LeaveLoop(w) PROVE TypeOK'
  BY <1>9 DEF LeaveLoop, bench
<1>10. ASSUME NEW w \in Workers, Update(w) PROVE TypeOK'
  BY <1>10, PlusType DEF Update, bench
<1>11. CASE UNCHANGED vars
  BY <1>11 DEF vars
<1> QED
  BY <1>1, <1>2, <1>3, <1>4, <1>5, <1>6, <1>7, <1>8, <1>9, <1>10, <1>11 DEF Next

\* ReadBench keeps its types: the counters never leave the natural numbers.
THEOREM TypeCorrect == Spec => []TypeOK
<1>1. Init => TypeOK
  BY ZeroType, RoundsAssumption DEF Init, TypeOK
<1> QED
  BY <1>1, TypeNext, PTL DEF Spec

\* The assertion on the size of a value never fails.
THEOREM AssertionNeverFails == Spec => []SizeAssertionHolds
<1>1. Init => SizeAssertionHolds
  BY DEF Init, SizeAssertionHolds
<1>2. SizeAssertionHolds /\ [Next]_vars => SizeAssertionHolds'
  BY NeverAsserts DEF SizeAssertionHolds, Next, vars, work, bench, Open, OpenFails, StartRound,
     EndRound, PrintAndClose, Lookup, LookupFails, ViewFails, LeaveLoop, Update
<1> QED
  BY <1>1, <1>2, PTL DEF Spec

-----------------------------------------------------------------------------
(* The counts *)

\* The goroutines that have not added their counts yet, and what they counted.
Busy == {w \in Workers : pc[w] # "done"}
Looked == [w \in Workers |-> Total(c[w])]
Hit == [w \in Workers |-> c[w].found]

\* Values whose size tells whether the key is there.
Sized == kind = "rocksdb" => valueSize > 0

\* Where main and the goroutines are; a goroutine leaves its loop only when no
\* iteration is left.
Phases ==
    /\ main # "wait" => \A w \in Workers : pc[w] \in {"idle", "done"}
    /\ main = "print" => \A w \in Workers : pc[w] = "done"
    /\ main \in {"wait", "print"} => round >= 1
    /\ \A w \in Workers : pc[w] \in {"update", "done"} => left = 0

\* Each iteration of the round is still to be handed out, or is in the count of
\* one goroutine, or in the shared counter.
Tally ==
    main \in {"wait", "print"} =>
        /\ IsFiniteSet(Marks(Busy, Looked)) /\ IsFiniteSet(Marks(Busy, Hit))
        /\ left + Total(counter) + Cardinality(Marks(Busy, Looked)) = BN[round]
        /\ Sized => hits = counter.found + Cardinality(Marks(Busy, Hit))

\* What the goroutines counted are numbers.
LEMMA SumTypes ==
  ASSUME TypeOK
  PROVE  /\ Looked \in [Workers -> Nat] /\ Hit \in [Workers -> Nat]
         /\ \A w \in Workers : Looked[w] = Total(c[w]) /\ Hit[w] = c[w].found
<1>1. \A w \in Workers : c[w] \in Counts
  BY DEF TypeOK
<1>2. \A w \in Workers : Total(c[w]) \in Nat /\ c[w].found \in Nat
  BY <1>1, CountsType, Zenon
<1> QED
  BY <1>2, Zenon DEF Looked, Hit

\* Nothing in Tally is touched.
LEMMA SameTally ==
  ASSUME TypeOK, Tally, main' \in {"wait", "print"} => main \in {"wait", "print"},
         UNCHANGED <<kind, valueSize, round, left, pc, c, counter, hits>>
  PROVE  Tally'
<1>1. Busy' = Busy /\ Looked' = Looked /\ Hit' = Hit /\ Sized' = Sized
  BY DEF Busy, Looked, Hit, Sized
<1> QED
  BY <1>1 DEF Tally

\* A lookup moves one iteration from those left to the count of w.
LEMMA CountedOnce ==
  ASSUME TypeOK, Phases, Tally, NEW w \in Workers, pc[w] = "loop", left > 0,
         left' = left - 1, NEW f \in {"found", "notFound", "errored"},
         Total(c'[w]) = Total(c[w]) + 1,
         c'[w].found = IF f = "found" THEN c[w].found + 1 ELSE c[w].found,
         \A u \in Workers \ {w} : c'[u] = c[u],
         Sized => hits' = IF f = "found" THEN hits + 1 ELSE hits,
         UNCHANGED <<kind, valueSize, main, round, pc, counter>>
  PROVE  Tally'
<1>1. main = "wait"
  BY DEF Phases, TypeOK
<1>2. Busy' = Busy /\ Busy \in SUBSET Workers /\ w \in Busy /\ Sized' = Sized
  BY DEF Busy, Sized
<1>3. /\ Looked \in [Workers -> Nat] /\ Hit \in [Workers -> Nat]
      /\ \A u \in Workers : Looked[u] = Total(c[u]) /\ Hit[u] = c[u].found
  BY SumTypes, Zenon
<1>4. \A u \in Workers : Looked'[u] = Total(c'[u]) /\ Hit'[u] = c'[u].found
  BY Zenon DEF Looked, Hit
<1>5. IsFiniteSet(Marks(Busy, Looked)) /\ IsFiniteSet(Marks(Busy, Hit))
  BY <1>1, Zenon DEF Tally
<1>6. /\ IsFiniteSet(Marks(Busy, Looked'))
      /\ Cardinality(Marks(Busy, Looked')) = Cardinality(Marks(Busy, Looked)) + 1
  <2>1. Looked'[w] = Looked[w] + 1 /\ \A u \in Workers \ {w} : Looked'[u] = Looked[u]
    BY <1>3, <1>4, Zenon
  <2> QED
    BY <1>2, <1>3, <1>5, <2>1, MarksMore, Zenon
<1>7. /\ IsFiniteSet(Marks(Busy, Hit'))
      /\ Cardinality(Marks(Busy, Hit')) =
           IF f = "found" THEN Cardinality(Marks(Busy, Hit)) + 1 ELSE Cardinality(Marks(Busy, Hit))
  <2>1. CASE f = "found"
    <3>1. Hit'[w] = Hit[w] + 1 /\ \A u \in Workers \ {w} : Hit'[u] = Hit[u]
      BY <1>3, <1>4, <2>1, Zenon
    <3>2. /\ IsFiniteSet(Marks(Busy, Hit'))
          /\ Cardinality(Marks(Busy, Hit')) = Cardinality(Marks(Busy, Hit)) + 1
      BY <1>2, <1>3, <1>5, <3>1, MarksMore, Zenon
    <3> QED
      BY <2>1, <3>2, Zenon
  <2>2. CASE f # "found"
    <3>1. \A u \in Workers : Hit'[u] = Hit[u]
      BY <1>3, <1>4, <2>2, Zenon
    <3>2. Marks(Busy, Hit') = Marks(Busy, Hit)
      BY <1>2, <3>1 DEF Marks
    <3> QED
      BY <1>5, <2>2, <3>2, Zenon
  <2> QED
    BY <2>1, <2>2, Zenon
<1>8. /\ Cardinality(Marks(Busy, Looked)) \in Nat /\ Cardinality(Marks(Busy, Hit)) \in Nat
       /\ Total(counter) \in Nat /\ counter.found \in Nat
  <2>1. counter \in Counts
    BY DEF TypeOK
  <2> QED
    BY <1>5, <2>1, CountsType, FS_CardinalityType, Zenon
<1>9. Marks(Busy, Looked)' = Marks(Busy, Looked') /\ Marks(Busy, Hit)' = Marks(Busy, Hit')
  BY <1>2
<1>10. left' + Total(counter)' + Cardinality(Marks(Busy, Looked))' = BN[round]'
  BY <1>1, <1>6, <1>8, <1>9 DEF Tally, TypeOK
<1>11. Sized' => hits' = counter'.found + Cardinality(Marks(Busy, Hit))'
  BY <1>1, <1>2, <1>7, <1>8, <1>9 DEF Tally, TypeOK
<1> QED
  BY <1>6, <1>7, <1>9, <1>10, <1>11 DEF Tally

\* Update moves the counts of w into the shared counter.
LEMMA AddedOnce ==
  ASSUME TypeOK, Phases, Tally, NEW w \in Workers, Update(w)
  PROVE  Tally'
<1>1. main = "wait" /\ UNCHANGED <<kind, valueSize, main, round, left, c, hits>>
  BY DEF TypeOK, Phases, Update, bench
<1>2. /\ Busy' = Busy \ {w} /\ Busy \in SUBSET Workers /\ w \in Busy /\ Sized' = Sized
      /\ Looked' = Looked /\ Hit' = Hit
  BY <1>1 DEF TypeOK, Busy, Sized, Update, Looked, Hit
<1>3. /\ Looked \in [Workers -> Nat] /\ Hit \in [Workers -> Nat]
      /\ Looked[w] = Total(c[w]) /\ Hit[w] = c[w].found
  BY SumTypes, Zenon
<1>4. /\ Total(counter') = Total(counter) + Looked[w]
      /\ counter'.found = counter.found + Hit[w]
  <2>1. counter \in Counts /\ c[w] \in Counts /\ counter' = Plus(counter, c[w])
    BY DEF TypeOK, Update
  <2> QED
    BY <1>3, <2>1, PlusType
<1>5. /\ IsFiniteSet(Marks(Busy \ {w}, Looked))
      /\ Cardinality(Marks(Busy, Looked)) = Cardinality(Marks(Busy \ {w}, Looked)) + Looked[w]
  BY <1>1, <1>2, <1>3, MarksGone DEF Tally
<1>6. /\ IsFiniteSet(Marks(Busy \ {w}, Hit))
      /\ Cardinality(Marks(Busy, Hit)) = Cardinality(Marks(Busy \ {w}, Hit)) + Hit[w]
  BY <1>1, <1>2, <1>3, MarksGone DEF Tally
<1>7. /\ Cardinality(Marks(Busy \ {w}, Looked)) \in Nat /\ Cardinality(Marks(Busy \ {w}, Hit)) \in Nat
      /\ Total(counter) \in Nat /\ counter.found \in Nat
  <2>1. counter \in Counts
    BY DEF TypeOK
  <2> QED
    BY <1>5, <1>6, <2>1, CountsType, FS_CardinalityType, Zenon
<1>8. /\ Marks(Busy, Looked)' = Marks(Busy \ {w}, Looked)
      /\ Marks(Busy, Hit)' = Marks(Busy \ {w}, Hit)
  BY <1>2
<1>9. Looked[w] \in Nat /\ Hit[w] \in Nat
  BY <1>3
<1>10. left' + Total(counter') + Cardinality(Marks(Busy \ {w}, Looked)) = BN[round']
  BY <1>1, <1>4, <1>5, <1>7, <1>9 DEF TypeOK, Tally
<1>11. Sized => hits' = counter'.found + Cardinality(Marks(Busy \ {w}, Hit))
  BY <1>1, <1>4, <1>6, <1>7, <1>9 DEF TypeOK, Tally
<1> QED
  BY <1>2, <1>5, <1>6, <1>8, <1>10, <1>11 DEF Tally

\* Main and the goroutines keep to their phases.
LEMMA PhasesNext == TypeOK /\ Phases /\ [Next]_vars => Phases'
<1> SUFFICES ASSUME TypeOK, Phases, [Next]_vars PROVE Phases'
  OBVIOUS
<1> USE DEF TypeOK, Phases
<1>1. CASE StartRound
  BY <1>1 DEF StartRound, NextRound
<1>2. CASE EndRound
  BY <1>2 DEF EndRound, work
<1>3. CASE Open \/ OpenFails \/ PrintAndClose
  BY <1>3 DEF Open, OpenFails, PrintAndClose, work
<1>4. ASSUME NEW w \in Workers, Lookup(w) \/ LookupFails(w) PROVE Phases'
  BY <1>4 DEF Lookup, LookupFails, HasNext
<1>5. ASSUME NEW w \in Workers, ViewFails(w) PROVE Phases'
  BY <1>5 DEF ViewFails, work
<1>6. ASSUME NEW w \in Workers, LeaveLoop(w) PROVE Phases'
  BY <1>6 DEF LeaveLoop, HasNext
<1>7. ASSUME NEW w \in Workers, Update(w) PROVE Phases'
  BY <1>7 DEF Update
<1>8. CASE UNCHANGED vars
  BY <1>8 DEF vars
<1> QED
  BY <1>1, <1>2, <1>3, <1>4, <1>5, <1>6, <1>7, <1>8 DEF Next

\* No step loses an iteration or counts it twice.
LEMMA TallyNext == TypeOK /\ Phases /\ Tally /\ [Next]_vars => Tally'
<1> SUFFICES ASSUME TypeOK, Phases, Tally, [Next]_vars PROVE Tally'
  OBVIOUS
<1>1. CASE StartRound
  <2>1. /\ \A w \in Workers : Looked'[w] = 0 /\ Hit'[w] = 0
        /\ Busy' = Workers
    BY <1>1, ZeroType DEF StartRound, Looked, Hit, Busy
  <2>2. /\ IsFiniteSet(Marks(Busy', Looked')) /\ Cardinality(Marks(Busy', Looked')) = 0
        /\ IsFiniteSet(Marks(Busy', Hit')) /\ Cardinality(Marks(Busy', Hit')) = 0
    BY <2>1, MarksNone
  <2>3. BN[round + 1] \in Nat /\ round' = round + 1 /\ left' = BN[round + 1]
    BY <1>1, RoundsAssumption DEF StartRound, NextRound, TypeOK
  <2>4. Total(counter') = 0 /\ counter'.found = 0 /\ hits' = 0
    BY <1>1, ZeroType DEF StartRound, Reset
  <2> QED
    BY <2>2, <2>3, <2>4 DEF Tally
<1>2. CASE Open \/ OpenFails \/ EndRound \/ PrintAndClose \/ UNCHANGED vars
  BY <1>2, SameTally DEF Open, OpenFails, EndRound, PrintAndClose, bench, work, vars
<1>3. ASSUME NEW w \in Workers, Lookup(w) PROVE Tally'
  <2>1. PICK k \in Numbers :
          LET key == newKey(k)
              present == key \in store
          IN  /\ c' = [c EXCEPT ![w][Class(present, key)] = @ + 1]
              /\ hits' = IF present THEN hits + 1 ELSE hits
    BY <1>3, NeverAsserts DEF Lookup
  <2> DEFINE f == Class(newKey(k) \in store, newKey(k))
  <2>2. f \in {"found", "notFound", "errored"}
    BY ClassType
  <2>3. Sized => hits' = IF f = "found" THEN hits + 1 ELSE hits
    BY <2>1, NeverAsserts DEF Sized, Class
  <2>4. c' = [c EXCEPT ![w][f] = @ + 1]
    BY <2>1
  <2> HIDE DEF f
  <2>5. /\ Total(c'[w]) = Total(c[w]) + 1
        /\ c'[w].found = IF f = "found" THEN c[w].found + 1 ELSE c[w].found
        /\ \A u \in Workers \ {w} : c'[u] = c[u]
    <3>1. c \in [Workers -> Counts] /\ c[w] \in Counts
      BY DEF TypeOK
    <3>2. c'[w] = [c[w] EXCEPT ![f] = @ + 1] /\ \A u \in Workers \ {w} : c'[u] = c[u]
      BY <2>4, <3>1
    <3> QED
      BY <2>2, <3>1, <3>2, OneMore, Zenon
  <2>6. /\ pc[w] = "loop" /\ left > 0 /\ left' = left - 1
        /\ UNCHANGED <<kind, valueSize, main, round, pc, counter>>
    BY <1>3 DEF Lookup, HasNext, bench
  <2> QED
    BY <2>2, <2>3, <2>5, <2>6, CountedOnce
<1>4. ASSUME NEW w \in Workers, LookupFails(w) PROVE Tally'
  <2>1. /\ Total(c'[w]) = Total(c[w]) + 1
        /\ c'[w].found = c[w].found
        /\ \A u \in Workers \ {w} : c'[u] = c[u]
    <3>1. c \in [Workers -> Counts] /\ c[w] \in Counts
      BY DEF TypeOK
    <3>2. c'[w] = [c[w] EXCEPT !["errored"] = @ + 1] /\ \A u \in Workers \ {w} : c'[u] = c[u]
      BY <1>4, <3>1 DEF LookupFails
    <3> QED
      BY <3>1, <3>2, OneMore
  <2>2. /\ pc[w] = "loop" /\ left > 0 /\ left' = left - 1 /\ hits' = hits
        /\ UNCHANGED <<kind, valueSize, main, round, pc, counter>>
    BY <1>4 DEF LookupFails, HasNext, bench
  <2> QED
    BY <2>1, <2>2, CountedOnce
<1>5. ASSUME NEW w \in Workers, ViewFails(w) PROVE Tally'
  BY <1>5, SameTally DEF ViewFails, bench, work
<1>6. ASSUME NEW w \in Workers, LeaveLoop(w) PROVE Tally'
  <2>1. Busy' = Busy /\ Looked' = Looked /\ Hit' = Hit /\ Sized' = Sized
    BY <1>6 DEF LeaveLoop, Busy, Looked, Hit, Sized, bench, TypeOK
  <2> QED
    BY <1>6, <2>1 DEF LeaveLoop, Tally
<1>7. ASSUME NEW w \in Workers, Update(w) PROVE Tally'
  BY <1>7, AddedOnce
<1> QED
  BY <1>1, <1>2, <1>3, <1>4, <1>5, <1>6, <1>7 DEF Next

\* The inductive invariant.
LEMMA Invariant == Spec => [](TypeOK /\ Phases /\ Tally)
<1>1. Init => Phases /\ Tally
  BY DEF Init, Phases, Tally
<1> QED
  BY <1>1, TypeCorrect, PhasesNext, TallyNext, PTL DEF Spec

\* When main prints, all counts are in the shared counter.
LEMMA AllAdded ==
  ASSUME TypeOK, Phases, Tally, main = "print"
  PROVE  Total(counter) = BN[round] /\ (Sized => counter.found = hits)
<1>1. Busy = {}
  BY DEF Phases, Busy
<1>2. left = 0
  BY WorkersAssumption DEF Phases
<1>3. Cardinality(Marks(Busy, Looked)) = 0 /\ Cardinality(Marks(Busy, Hit)) = 0
  BY <1>1, MarksNone
<1>4. Total(counter) \in Nat /\ counter.found \in Nat
  BY DEF TypeOK, Counts, Total
<1> QED
  BY <1>2, <1>3, <1>4 DEF Tally

\* The total that is printed is b.N of the last round, with any number of
\* goroutines and any interleaving of their lookups and additions.
THEOREM EveryLookupCounts == Spec => []LookupsAddUp
<1>1. TypeOK /\ Phases /\ Tally => LookupsAddUp
  BY AllAdded DEF LookupsAddUp
<1> QED
  BY <1>1, Invariant, PTL

\* The number of keys found that is printed is the number of lookups of keys that
\* are in the store.
THEOREM FoundTellsTheTruth == Spec => []FoundIsPresent
<1>1. TypeOK /\ Phases /\ Tally => FoundIsPresent
  BY AllAdded DEF FoundIsPresent, Sized
<1> QED
  BY <1>1, Invariant, PTL

-----------------------------------------------------------------------------
(* The slices of rocksdb *)

\* Every key rocksdb has found in this round has left a C copy behind, and no
\* other engine makes one.
Leaked ==
    /\ kind # "rocksdb" => slices = 0
    /\ kind = "rocksdb" => slices >= hits

\* No copy is made before the first lookup, and none is ever freed.
LEMMA LeakedNext == TypeOK /\ Leaked /\ [Next]_vars => Leaked'
<1> SUFFICES ASSUME TypeOK, Leaked, [Next]_vars PROVE Leaked'
  OBVIOUS
<1>0. slices \in Nat /\ hits \in Nat
  BY DEF TypeOK
<1>1. CASE Open \/ OpenFails \/ EndRound \/ PrintAndClose \/ UNCHANGED vars
  BY <1>1 DEF Open, OpenFails, EndRound, PrintAndClose, bench, work, vars, Leaked
<1>2. CASE StartRound
  BY <1>0, <1>2 DEF StartRound, bench, Leaked
<1>3. ASSUME NEW w \in Workers, Lookup(w) PROVE Leaked'
  <2>1. PICK k \in Numbers :
          LET present == newKey(k) \in store
          IN  /\ slices' = IF kind = "rocksdb" /\ present THEN slices + 1 ELSE slices
              /\ hits' = IF present THEN hits + 1 ELSE hits
    BY <1>3, NeverAsserts DEF Lookup
  <2>2. kind' = kind
    BY <1>3 DEF Lookup, bench
  <2> QED
    BY <1>0, <2>1, <2>2 DEF Leaked
<1>4. ASSUME NEW w \in Workers, LookupFails(w) \/ ViewFails(w) \/ LeaveLoop(w) \/ Update(w)
      PROVE  Leaked'
  BY <1>4 DEF LookupFails, ViewFails, LeaveLoop, Update, bench, work, Leaked
<1> QED
  BY <1>1, <1>2, <1>3, <1>4 DEF Next

\* BenchmarkReadRandomRocks never frees the slices it gets: at least one stays
\* behind for each key found in the round that is reported, while the other
\* benchmarks leave none.
THEOREM RocksSlicesLeak ==
  Spec => [](/\ kind # "rocksdb" => slices = 0
             /\ kind = "rocksdb" => slices >= hits)
<1>1. Init => Leaked
  BY DEF Init, Leaked
<1>2. Leaked => /\ kind # "rocksdb" => slices = 0
                /\ kind = "rocksdb" => slices >= hits
  BY DEF Leaked
<1> QED
  BY <1>1, <1>2, TypeCorrect, LeakedNext, PTL DEF Spec
=============================================================================
