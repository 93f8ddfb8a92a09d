---------------------------- MODULE IterateProofs ---------------------------
(***************************************************************************)
(* Proofs about Iterate: the iteration benchmarks count each key once, up  *)
(* to their limit, and log only scans whose values had the right size.     *)
(***************************************************************************)
EXTENDS Iterate, FiniteSetTheorems, WellFoundedInduction, TLAPS

-----------------------------------------------------------------------------
(* The order of the keys *)

\* A non-empty set of naturals has a least element.
LEMMA Least ==
  ASSUME NEW S \in SUBSET Nat, S # {}
  PROVE  \E m \in S : \A x \in S : m <= x
<1>1. PICK m \in S : \A y \in S : ~(<<y, m>> \in OpToRel(<, Nat))
  BY NatLessThanWellFounded, WFMin, Zenon
<1>2. \A y \in S : ~(y < m)
  BY <1>1, Zenon DEF OpToRel
<1> QED
  BY <1>2

\* The parts of a key are numbers.
LEMMA KeyType ==
  ASSUME NEW a \in Keys PROVE a.vsz \in Nat /\ a.vsz \in Sizes /\ a.k \in Nat
  BY DataAssumption DEF Keys

\* Two keys with the same parts are one.
LEMMA SameKey ==
  ASSUME NEW a \in Keys, NEW b \in Keys, a.vsz = b.vsz, a.k = b.k PROVE a = b
  BY DEF Keys

\* A non-empty set of keys has a first one.
LEMMA FirstKey ==
  ASSUME NEW S \in SUBSET Keys, S # {}
  PROVE  FirstOf(S) \in S /\ \A b \in S : FirstOf(S) = b \/ Before(FirstOf(S), b)
<1> DEFINE Lens == {a.vsz : a \in S}
<1>1. PICK n \in Lens : \A x \in Lens : n <= x
  <2>1. Lens \in SUBSET Nat /\ Lens # {}
    BY KeyType
  <2> HIDE DEF Lens
  <2> QED
    BY <2>1, Least
<1> DEFINE Nums == {a.k : a \in {b \in S : b.vsz = n}}
<1>2. PICK m \in Nums : \A x \in Nums : m <= x
  <2>1. Nums \in SUBSET Nat /\ Nums # {}
    BY KeyType
  <2> HIDE DEF Nums
  <2> QED
    BY <2>1, Least
<1>3. PICK a \in S : a.vsz = n /\ a.k = m
  OBVIOUS
<1>4. \A b \in S : a = b \/ Before(a, b)
  <2> TAKE b \in S
  <2>1. n <= b.vsz /\ (b.vsz = n => m <= b.k)
    BY <1>1, <1>2
  <2>2. a \in Keys /\ b \in Keys /\ a.vsz \in Nat /\ b.vsz \in Nat /\ a.k \in Nat /\ b.k \in Nat
    BY KeyType
  <2> HIDE DEF Lens, Nums
  <2> QED
    BY <1>3, <2>1, <2>2, SameKey DEF Before
<1> QED
  BY <1>3, <1>4, Zenon DEF FirstOf

\* A key is not before one that is before it.
LEMMA OneWay ==
  ASSUME NEW a \in Keys, NEW b \in Keys, Before(a, b) PROVE a # b /\ ~Before(b, a)
  BY KeyType DEF Before

\* The keys of one run of populate are finitely many.
LEMMA LoadIsFinite ==
  ASSUME NEW s, NEW new \in SUBSET [vsz : {s}, k : Numbers] PROVE IsFiniteSet(new)
<1> DEFINE T == [vsz : {s}, k : Numbers]
           f == [n \in Numbers |-> [vsz |-> s, k |-> n]]
<1>1. f \in Surjection(Numbers, T)
  <2>1. f \in [Numbers -> T]
    OBVIOUS
  <2>2. \A t \in T : \E n \in Numbers : f[n] = t
    OBVIOUS
  <2> HIDE DEF f, T
  <2> QED
    BY <2>1, <2>2, Zenon DEF Surjection
<1> HIDE DEF f
<1>2. IsFiniteSet(T)
  BY <1>1, DataAssumption, FS_Surjection
<1> QED
  BY <1>2, FS_Subset

-----------------------------------------------------------------------------
(* The iteration benchmarks *)

\* The keys the iterator is past.
Passed == store \ rest

\* Populate leaves finitely many keys; in a badger directory they have the size
\* of the run that wrote last.
StoreOK ==
    /\ IsFiniteSet(store)
    /\ Badger => \A a \in store : a.vsz = loaded

\* The buffer for values.
BufferOK == v \in [cap : Nat, len : Nat]

\* A scan is past as many keys as it counted, they are the first ones, and they
\* have the size the benchmark asserts.
ScanOK ==
    /\ pc = "load" => rest = {}
    /\ pc = "scan" => j < BN
    /\ pc \in {"scan", "logged", "asserted"} =>
          /\ count + Cardinality(rest) = Cardinality(store)
          /\ count <= Limit
          /\ \A a \in Passed, b \in rest : Before(a, b)
          /\ Asserts => \A a \in Passed : a.vsz = valsz
    /\ pc \in {"scan", "asserted"} => count < Limit
    /\ pc = "logged" => rest = {} \/ count = Limit
    /\ pc = "asserted" => rest # {} /\ FirstOf(rest).vsz # valsz

\* The invariant of the iteration benchmarks.
IterateInv == TypeOK /\ StoreOK /\ BufferOK /\ ScanOK

\* What a visit does to rest and count when the key has the right size.
LEMMA Passes ==
  ASSUME IterateInv, pc = "scan", rest # {}, NEW key, key = FirstOf(rest),
         Asserts => key.vsz = valsz, rest' = rest \ {key}, count' = count + 1,
         UNCHANGED <<bench, store, valsz>>
  PROVE  /\ key \in Keys /\ key \in store
         /\ rest' \subseteq store /\ count' \in Nat /\ count' <= Limit
         /\ count' + Cardinality(rest') = Cardinality(store)
         /\ \A a \in Passed', b \in rest' : Before(a, b)
         /\ Asserts => \A a \in Passed' : a.vsz = valsz
<1>1. rest \in SUBSET Keys /\ rest \subseteq store
  BY DEF IterateInv, TypeOK
<1>2. key \in rest /\ \A b \in rest : key = b \/ Before(key, b)
  BY <1>1, FirstKey
<1>3. Passed' = Passed \union {key}
  BY <1>1, <1>2 DEF Passed
<1>4. \A a \in Passed', b \in rest' : Before(a, b)
  BY <1>2, <1>3 DEF IterateInv, ScanOK
<1>5. IsFiniteSet(rest)
  BY <1>1, FS_Subset DEF IterateInv, StoreOK
<1>6. Cardinality(rest) \in Nat /\ Cardinality(rest') = Cardinality(rest) - 1
  BY <1>2, <1>5, FS_RemoveElement, FS_CardinalityType
<1>7. count \in Nat /\ count < Limit /\ Limit \in Nat
  BY LimitAssumption DEF IterateInv, TypeOK, ScanOK
<1>8. count + Cardinality(rest) = Cardinality(store)
  BY DEF IterateInv, ScanOK
<1>9. Asserts => \A a \in Passed' : a.vsz = valsz
  BY <1>3 DEF IterateInv, ScanOK
<1> QED
  BY <1>1, <1>2, <1>4, <1>6, <1>7, <1>8, <1>9

\* The invariant holds at first.
LEMMA IterateInit == Init => IterateInv
<1> SUFFICES ASSUME Init PROVE IterateInv
  OBVIOUS
<1>1. TypeOK
  BY BoundsAssumption DEF Init, TypeOK
<1>2. StoreOK
  BY FS_EmptySet DEF Init, StoreOK
<1>3. BufferOK /\ ScanOK
  BY BoundsAssumption DEF Init, BufferOK, ScanOK
<1> QED
  BY <1>1, <1>2, <1>3 DEF IterateInv

\* The invariant is kept.
LEMMA IterateNext == IterateInv /\ [Next]_vars => IterateInv'
<1> SUFFICES ASSUME IterateInv, [Next]_vars PROVE IterateInv'
  OBVIOUS
<1>0. TypeOK /\ StoreOK /\ BufferOK /\ ScanOK
  BY DEF IterateInv
<1>1. ASSUME NEW s \in Sizes, Populate(s) PROVE IterateInv'
  <2>1. pc' = "load" /\ loads' \in 0 .. MaxLoads /\ UNCHANGED <<bench, valsz, pc, j, count, rest, v>>
    BY <1>0, <1>1, BoundsAssumption DEF Populate, TypeOK
  <2>2. /\ store' \subseteq Keys /\ rest' \subseteq store' /\ loaded' \in Sizes \union {0}
        /\ IsFiniteSet(store') /\ (Badger => \A a \in store' : a.vsz = loaded')
    <3>1. CASE UNCHANGED <<store, loaded>>
      BY <1>0, <2>1, <3>1 DEF TypeOK, StoreOK
    <3>2. ASSUME NEW new \in SUBSET [vsz : {s}, k : Numbers], NEW old \in Kept,
                 store' = old \union new, loaded' = s
          PROVE  <2>2
      <4>1. new \subseteq Keys /\ IsFiniteSet(new) /\ \A a \in new : a.vsz = s
        BY LoadIsFinite DEF Keys
      <4>2. old = {} \/ (~Badger /\ old = store)
        BY DEF Kept
      <4>3. old \subseteq Keys /\ IsFiniteSet(old) /\ (Badger => old = {})
        BY <1>0, <4>2, FS_EmptySet DEF TypeOK, StoreOK
      <4>4. IsFiniteSet(old \union new)
        BY <4>1, <4>3, FS_Union
      <4>5. rest' \subseteq store'
        BY <1>0, <1>1 DEF Populate, TypeOK, ScanOK
      <4> QED
        BY <3>2, <4>1, <4>3, <4>4, <4>5
    <3> QED
      BY <1>1, <3>1, <3>2 DEF Populate
  <2> QED
    BY <1>0, <2>1, <2>2 DEF IterateInv, TypeOK, StoreOK, BufferOK, ScanOK, Badger
<1>2. ASSUME NEW s \in Sizes, Open(s) PROVE IterateInv'
  BY <1>0, <1>2 DEF Open, IterateInv, TypeOK, StoreOK, BufferOK, ScanOK, Badger
<1>3. CASE Rewind
  <2>1. Cardinality(store) \in Nat
    BY <1>0, FS_CardinalityType DEF StoreOK
  <2>2. Passed' = {}
    BY <1>3 DEF Rewind, Passed
  <2> QED
    BY <1>0, <1>3, <2>1, <2>2, LimitAssumption DEF Rewind, IterateInv, TypeOK, StoreOK, BufferOK, ScanOK, Badger
<1>4. CASE Visit
  <2> DEFINE key == FirstOf(rest)
  <2>1. CASE Asserts /\ key.vsz # valsz
    BY <1>0, <1>4, <2>1 DEF Visit, IterateInv, TypeOK, StoreOK, BufferOK, ScanOK, Badger, Asserts, Passed
  <2>2. CASE ~(Asserts /\ key.vsz # valsz)
    <3>1. /\ v' = IF CopiesValues THEN safecopy(v, key.vsz) ELSE v
          /\ count' = count + 1 /\ rest' = rest \ {key}
          /\ UNCHANGED <<bench, store, loads, loaded, valsz>> /\ pc = "scan" /\ rest # {}
          /\ \/ count' >= Limit /\ pc' = "logged" /\ j' = j + 1
             \/ ~(count' >= Limit) /\ pc' = pc /\ j' = j
      BY <1>4, <2>2 DEF Visit, Breaks
    <3>2. /\ key \in Keys /\ key \in store
          /\ rest' \subseteq store /\ count' \in Nat /\ count' <= Limit
          /\ count' + Cardinality(rest') = Cardinality(store)
          /\ \A a \in Passed', b \in rest' : Before(a, b)
          /\ Asserts => \A a \in Passed' : a.vsz = valsz
      BY <2>2, <3>1, Passes
    <3>3. v' \in [cap : Nat, len : Nat] /\ v'.len \in 0 .. v'.cap
      <4>1. key.vsz \in Nat
        BY <3>2, KeyType
      <4> QED
        BY <1>0, <3>1, <4>1 DEF safecopy, BufferOK, TypeOK
    <3>4. pc' \in {"scan", "logged"} /\ j' \in 0 .. BN /\ (pc' = "scan" => j' < BN)
      BY <1>0, <3>1, BoundsAssumption DEF TypeOK, ScanOK
    <3>5. (pc' = "scan" => count' < Limit) /\ (pc' = "logged" => count' = Limit)
      BY <3>1, <3>2, LimitAssumption
    <3> HIDE DEF key
    <3>6. TypeOK' /\ StoreOK' /\ BufferOK'
      BY <1>0, <3>1, <3>2, <3>3, <3>4 DEF TypeOK, StoreOK, BufferOK, Badger
    <3>7. ScanOK'
      BY <3>1, <3>2, <3>4, <3>5 DEF ScanOK, Asserts
    <3> QED
      BY <3>6, <3>7 DEF IterateInv
  <2> QED
    BY <2>1, <2>2
<1>5. CASE EndOfStore
  BY <1>0, <1>5, BoundsAssumption DEF EndOfStore, IterateInv, TypeOK, StoreOK, BufferOK, ScanOK, Badger, Asserts, Passed
<1>6. CASE Fails \/ Exit
  BY <1>0, <1>6 DEF Fails, Exit, IterateInv, TypeOK, StoreOK, BufferOK, ScanOK, Badger
<1>7. CASE UNCHANGED vars
  BY <1>0, <1>7 DEF vars, IterateInv, TypeOK, StoreOK, BufferOK, ScanOK, Badger, Asserts, Passed
<1> QED
  BY <1>1, <1>2, <1>3, <1>4, <1>5, <1>6, <1>7 DEF Next

\* Hence it always holds.
LEMMA IterateInvariant == Spec => []IterateInv
  BY IterateInit, IterateNext, PTL DEF Spec

\* Iterate keeps its types: whatever the values and however many the scans, the
\* buffer of safecopy is never longer than its capacity.
THEOREM IterateTypes == Spec => []TypeOK
<1>1. IterateInv => TypeOK
  BY DEF IterateInv
<1> QED
  BY <1>1, IterateInvariant, PTL

\* Every scan that is logged counted each key once up to the limit.
THEOREM ScansCountExactly == Spec => []CountIsExact
<1>1. IterateInv => CountIsExact
  <2> SUFFICES ASSUME IterateInv, pc = "logged"
               PROVE  count = Min({Limit, Cardinality(store)})
    BY DEF CountIsExact
  <2>1. Cardinality(store) \in Nat /\ IsFiniteSet(rest) /\ Cardinality(rest) \in Nat
    BY FS_CardinalityType, FS_Subset DEF IterateInv, TypeOK, StoreOK
  <2>2. /\ count + Cardinality(rest) = Cardinality(store) /\ count <= Limit /\ count \in Nat
        /\ rest = {} \/ count = Limit
    BY DEF IterateInv, TypeOK, ScanOK
  <2>3. rest = {} => Cardinality(rest) = 0
    BY FS_EmptySet
  <2>4. count \in {Limit, Cardinality(store)} /\ \A n \in {Limit, Cardinality(store)} : count <= n
    BY <2>1, <2>2, <2>3, LimitAssumption
  <2>5. \A n \in {Limit, Cardinality(store)} :
          (\A m \in {Limit, Cardinality(store)} : n <= m) => n = count
    BY <2>1, <2>2, <2>4, LimitAssumption
  <2> QED
    BY <2>4, <2>5 DEF Min
<1> QED
  BY <1>1, IterateInvariant, PTL

\* A benchmark that asserts sizes is logged only if every key it got to see has
\* the size asked for, and fails only if one of them has not.
THEOREM LoggedScansHadOneSize == Spec => []LoggedMeansRightSize
<1>1. IterateInv => LoggedMeansRightSize
  <2> SUFFICES ASSUME IterateInv, bench \in {"bolt", "lmdb", "badgerWithValues"}
               PROVE  /\ pc = "logged" => \A a \in Scanned : a.vsz = valsz
                      /\ pc = "asserted" => \E a \in Scanned : a.vsz # valsz
    BY DEF LoggedMeansRightSize
  <2>1. /\ IsFiniteSet(store) /\ IsFiniteSet(rest) /\ rest \subseteq store /\ rest \in SUBSET Keys
        /\ store \in SUBSET Keys /\ Asserts /\ count \in Nat
    BY FS_Subset DEF IterateInv, TypeOK, StoreOK, Asserts
  <2>2. pc \in {"logged", "asserted"} => Cardinality(Passed) = count /\ IsFiniteSet(Passed)
    <3>1. IsFiniteSet(Passed) /\ Cardinality(Passed) = Cardinality(store) - Cardinality(rest)
      <4>1. store \cap rest = rest
        BY <2>1
      <4> QED
        BY <2>1, <4>1, FS_Difference DEF Passed
    <3>2. Cardinality(rest) \in Nat /\ Cardinality(store) \in Nat
      BY <2>1, FS_CardinalityType
    <3> QED
      BY <2>1, <3>1, <3>2 DEF IterateInv, ScanOK
  <2>3. ASSUME pc = "logged", NEW a \in Scanned PROVE a.vsz = valsz
    <3> DEFINE Earlier == {b \in store : Before(b, a)}
    <3>1. a \in store /\ Cardinality(Earlier) < Limit
      BY DEF Scanned
    <3>2. ASSUME a \in rest PROVE FALSE
      <4>1. Passed \subseteq Earlier /\ IsFiniteSet(Earlier)
        BY <2>1, <2>3, <3>2, FS_Subset DEF IterateInv, ScanOK, Passed
      <4>2. count = Limit
        BY <2>3, <3>2 DEF IterateInv, ScanOK
      <4> HIDE DEF Earlier
      <4>3. Cardinality(Passed) <= Cardinality(Earlier) /\ Cardinality(Earlier) \in Nat
        BY <4>1, FS_Subset, FS_CardinalityType
      <4> QED
        BY <2>2, <2>3, <3>1, <4>2, <4>3, LimitAssumption
    <3> QED
      BY <2>1, <2>3, <3>1, <3>2 DEF IterateInv, ScanOK, Passed
  <2>4. ASSUME pc = "asserted" PROVE \E a \in Scanned : a.vsz # valsz
    <3> DEFINE a == FirstOf(rest)
               Earlier == {b \in store : Before(b, a)}
    <3>1. a \in rest /\ a.vsz # valsz /\ count < Limit
      BY <2>1, <2>4, FirstKey DEF IterateInv, ScanOK
    <3>2. Earlier \subseteq Passed
      <4> SUFFICES ASSUME NEW b \in store, Before(b, a), b \in rest PROVE FALSE
        BY DEF Passed
      <4>1. a = b \/ Before(a, b)
        BY <2>1, FirstKey
      <4>2. a \in Keys /\ b \in Keys
        BY <2>1, <3>1
      <4> HIDE DEF a
      <4> QED
        BY <4>1, <4>2, OneWay
    <3>3. Cardinality(Earlier) <= Cardinality(Passed) /\ Cardinality(Earlier) \in Nat
      <4> HIDE DEF Earlier
      <4> QED
        BY <2>2, <2>4, <3>2, FS_Subset, FS_CardinalityType
    <3>4. Cardinality(Earlier) < Limit
      <4> HIDE DEF Earlier, a
      <4> QED
        BY <2>1, <2>2, <2>4, <3>1, <3>3, LimitAssumption
    <3>5. a \in Scanned
      BY <2>1, <3>1, <3>4 DEF Scanned
    <3> QED
      BY <3>1, <3>5
  <2> QED
    BY <2>3, <2>4
<1> QED
  BY <1>1, IterateInvariant, PTL

\* After populate with the same size the badger benchmark does not fail.
THEOREM BadgerScansMatch == Spec => []BadgerSizesMatch
<1>1. IterateInv => BadgerSizesMatch
  <2> SUFFICES ASSUME IterateInv, Badger, valsz = loaded, pc = "asserted" PROVE FALSE
    BY DEF BadgerSizesMatch
  <2>1. rest \in SUBSET Keys /\ rest # {} /\ rest \subseteq store /\ FirstOf(rest).vsz # valsz
    BY DEF IterateInv, TypeOK, ScanOK
  <2>2. FirstOf(rest) \in store
    BY <2>1, FirstKey
  <2> QED
    BY <2>1, <2>2 DEF IterateInv, StoreOK
<1> QED
  BY <1>1, IterateInvariant, PTL
=============================================================================
