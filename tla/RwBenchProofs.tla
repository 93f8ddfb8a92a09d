---------------------------- MODULE RwBenchProofs ---------------------------
(***************************************************************************)
(* Proofs about RwBench: rw-bench counts, for both engines, exactly the    *)
(* keys it drew.                                                           *)
(***************************************************************************)
EXTENDS RwBench, FiniteSetTheorems, TLAPS

\* The steps before the entries are drawn, and those before the first scan.
Early == {<<"remove", "badger">>, <<"open", "badger">>, <<"remove", "rocks">>, <<"open", "rocks">>}
Unwritten == Early \union {<<"create">>, <<"set">>, <<"write">>}

\* Until the first scan the batch has the keys of the entries and nothing has
\* been counted.
DrawOK ==
    /\ pc \in Unwritten => rb = entries /\ count = 0
    /\ pc \in Unwritten \union {<<"scan", "rocks">>} => printed = [e \in Engines |-> -1]
    /\ pc \in Early => entries = <<>>
    /\ pc \in Early \union {<<"create">>} => txn = <<>>

\* The transaction has the entries in their order, and in the end all of them.
TxnOK ==
    /\ \A i \in 1 .. Len(txn) : txn[i] = i
    /\ pc = <<"set">> => Len(txn) < N /\ Len(entries) = N
    /\ pc \in {<<"write">>, <<"scan", "rocks">>, <<"commit">>} => Len(txn) = Len(entries)

\* A directory is empty from its removal to the write.
DiskOK ==
    /\ pc \in {<<"open", "rocks">>, <<"create">>, <<"set">>, <<"write">>} => disk["rocks"] = {}
    /\ pc \in (Unwritten \ {<<"remove", "badger">>}) \union {<<"scan", "rocks">>, <<"commit">>} =>
          disk["badger"] = {}

\* A scan of an engine with the drawn keys has counted those it is past.
CountOK ==
    \A e \in Engines :
        pc = <<"scan", e>> =>
            /\ disk[e] = ToSet(entries) /\ rest \subseteq disk[e]
            /\ count + Cardinality(rest) = Cardinality(disk[e])

\* The invariant of rw-bench.
RwInv == TypeOK /\ DrawOK /\ TxnOK /\ DiskOK /\ CountOK /\ BothCountTheDrawnKeys

\* The entries of a sequence are finitely many.
LEMMA ToSetIsFinite ==
  ASSUME NEW S, NEW s \in Seq(S)
  PROVE  IsFiniteSet(ToSet(s)) /\ ToSet(s) \subseteq S
<1> DEFINE T == ToSet(s)
<1>0. DOMAIN s = 1 .. Len(s) /\ Len(s) \in Nat
  OBVIOUS
<1>1. s \in [1 .. Len(s) -> T] /\ \A t \in T : \E i \in 1 .. Len(s) : s[i] = t
  BY <1>0 DEF ToSet
<1>2. s \in Surjection(1 .. Len(s), T)
  <2> HIDE DEF T
  <2> QED
    BY <1>1, Zenon DEF Surjection
<1>3. IsFiniteSet(1 .. Len(s))
  BY <1>0, FS_Interval
<1>4. IsFiniteSet(T)
  BY <1>2, <1>3, FS_Surjection
<1> QED
  BY <1>0, <1>4 DEF ToSet

\* A transaction with all the entries in their order has all their keys.
LEMMA AllEntriesSet ==
  ASSUME TypeOK, TxnOK, Len(txn) = Len(entries)
  PROVE  {entries[i] : i \in ToSet(txn)} = ToSet(entries)
<1>1. DOMAIN txn = 1 .. Len(txn) /\ DOMAIN entries = 1 .. Len(entries)
  BY DEF TypeOK
<1>2. ToSet(txn) = 1 .. Len(txn)
  BY <1>1 DEF ToSet, TxnOK
<1> QED
  BY <1>1, <1>2 DEF ToSet

\* The invariant holds at first.
LEMMA RwInit == Init => RwInv
  BY DEF Init, RwInv, TypeOK, DrawOK, TxnOK, DiskOK, CountOK, BothCountTheDrawnKeys,
     Unwritten, Early, Engines

\* The invariant is kept.
LEMMA RwNext == RwInv /\ [Next]_vars => RwInv'
<1> SUFFICES ASSUME RwInv, [Next]_vars PROVE RwInv'
  OBVIOUS
<1>0. TypeOK /\ DrawOK /\ TxnOK /\ DiskOK /\ CountOK /\ BothCountTheDrawnKeys
  BY DEF RwInv
<1> USE DEF Step, Unwritten, Early, Engines
<1>1. ASSUME NEW e \in Engines, RemoveAll(e) PROVE RwInv'
  <2>1. TypeOK'
    BY <1>0, <1>1 DEF RemoveAll, TypeOK
  <2>2. DrawOK' /\ TxnOK' /\ CountOK' /\ BothCountTheDrawnKeys'
    BY <1>0, <1>1 DEF RemoveAll, DrawOK, TxnOK, CountOK, BothCountTheDrawnKeys
  <2>3. DiskOK'
    BY <1>0, <1>1 DEF RemoveAll, DiskOK, TypeOK
  <2> QED
    BY <2>1, <2>2, <2>3 DEF RwInv
<1>2. ASSUME NEW e \in Engines, Open(e) PROVE RwInv'
  <2>1. TypeOK'
    BY <1>0, <1>2 DEF Open, TypeOK
  <2>2. DrawOK' /\ TxnOK' /\ CountOK' /\ BothCountTheDrawnKeys' /\ DiskOK'
    BY <1>0, <1>2 DEF Open, DrawOK, TxnOK, CountOK, BothCountTheDrawnKeys, DiskOK
  <2> QED
    BY <2>1, <2>2 DEF RwInv
<1>3. ASSUME NEW e \in Engines, Visit(e) PROVE RwInv'
  <2>1. PICK k \in rest : rest' = rest \ {k}
    BY <1>3 DEF Visit
  <2>2. /\ pc = <<"scan", e>> /\ count' = count + 1
        /\ UNCHANGED <<pc, disk, entries, rb, txn, printed>>
    BY <1>3 DEF Visit
  <2>3. IsFiniteSet(rest) /\ Cardinality(rest) \in Nat /\ Cardinality(rest') = Cardinality(rest) - 1
    <3>1. IsFiniteSet(disk[e]) /\ rest \subseteq disk[e]
      BY <1>0, <2>2, ToSetIsFinite DEF CountOK, TypeOK
    <3>2. IsFiniteSet(rest)
      BY <3>1, FS_Subset
    <3> QED
      BY <2>1, <3>2, FS_RemoveElement, FS_CardinalityType
  <2>4. TypeOK'
    BY <1>0, <2>1, <2>2 DEF TypeOK
  <2>5. DrawOK' /\ TxnOK' /\ BothCountTheDrawnKeys' /\ DiskOK'
    BY <1>0, <2>2 DEF DrawOK, TxnOK, BothCountTheDrawnKeys, DiskOK
  <2>6. CountOK'
    <3>1. count' + Cardinality(rest') = count + Cardinality(rest)
      BY <1>0, <2>2, <2>3 DEF TypeOK
    <3> QED
      BY <1>0, <2>1, <2>2, <3>1 DEF CountOK
  <2> QED
    BY <2>4, <2>5, <2>6 DEF RwInv
<1>4. CASE CreateEntry
  <2>1. PICK k \in Keys : entries' = Append(entries, k) /\ rb' = Append(rb, k)
    BY <1>4 DEF CreateEntry, Filled
  <2>2. /\ pc = <<"create">> /\ pc' = IF Len(entries) + 1 = N THEN <<"set">> ELSE <<"create">>
        /\ UNCHANGED <<disk, txn, rest, count, printed>>
    BY <1>4 DEF CreateEntry
  <2>3. TypeOK'
    BY <1>0, <2>1, <2>2 DEF TypeOK
  <2>4. DrawOK' /\ CountOK' /\ DiskOK'
    BY <1>0, <2>1, <2>2 DEF DrawOK, CountOK, DiskOK
  <2>5. Len(entries') = Len(entries) + 1 /\ Len(entries) \in Nat /\ txn = <<>>
    BY <1>0, <2>1, <2>2 DEF TypeOK, DrawOK
  <2>6. TxnOK'
    BY <2>2, <2>5 DEF TxnOK
  <2>7. BothCountTheDrawnKeys'
    BY <1>0, <2>2 DEF BothCountTheDrawnKeys, DrawOK
  <2> QED
    BY <2>3, <2>4, <2>6, <2>7 DEF RwInv
<1>5. CASE SetEntry
  <2>1. /\ pc = <<"set">> /\ pc' = IF Len(txn) + 1 = N THEN <<"write">> ELSE <<"set">>
        /\ txn' = Append(txn, Len(txn) + 1)
        /\ UNCHANGED <<disk, entries, rb, rest, count, printed>>
    BY <1>5 DEF SetEntry, NextEntry
  <2>2. Len(txn) \in Nat /\ Len(txn) < N /\ Len(entries) = N /\ N \in Nat
    BY <1>0, <2>1 DEF TypeOK, TxnOK
  <2>3. /\ txn' \in Seq(1 .. N) /\ Len(txn') = Len(txn) + 1
        /\ \A i \in 1 .. Len(txn') : txn'[i] = i
    BY <1>0, <2>1, <2>2 DEF TypeOK, TxnOK
  <2>4. TypeOK'
    BY <1>0, <2>1, <2>3 DEF TypeOK
  <2>5. TxnOK'
    BY <2>1, <2>2, <2>3 DEF TxnOK
  <2>6. DrawOK' /\ CountOK' /\ DiskOK' /\ BothCountTheDrawnKeys'
    BY <1>0, <2>1 DEF DrawOK, CountOK, DiskOK, BothCountTheDrawnKeys
  <2> QED
    BY <2>4, <2>5, <2>6 DEF RwInv
<1>6. CASE WriteBatch
  <2>1. /\ pc = <<"write">> /\ pc' = <<"scan", "rocks">>
        /\ disk' = [disk EXCEPT !["rocks"] = @ \union ToSet(rb)] /\ rest' = disk'["rocks"]
        /\ UNCHANGED <<entries, rb, txn, count, printed>>
    BY <1>6 DEF WriteBatch
  <2>2. rb = entries /\ count = 0 /\ disk["rocks"] = {} /\ disk["badger"] = {}
    BY <1>0, <2>1 DEF DrawOK, DiskOK
  <2>3. IsFiniteSet(ToSet(entries)) /\ ToSet(entries) \subseteq Keys
    BY <1>0, ToSetIsFinite DEF TypeOK
  <2>4. disk'["rocks"] = ToSet(entries) /\ disk'["badger"] = {} /\ disk' \in [Engines -> SUBSET Keys]
    BY <1>0, <2>1, <2>2, <2>3 DEF TypeOK
  <2>5. Cardinality(ToSet(entries)) \in Nat
    BY <2>3, FS_CardinalityType
  <2>6. TypeOK'
    BY <1>0, <2>1, <2>3, <2>4 DEF TypeOK
  <2>7. CountOK'
    BY <2>1, <2>2, <2>4, <2>5 DEF CountOK
  <2>8. DrawOK' /\ TxnOK' /\ DiskOK' /\ BothCountTheDrawnKeys'
    BY <1>0, <2>1, <2>4 DEF DrawOK, TxnOK, DiskOK, BothCountTheDrawnKeys
  <2> QED
    BY <2>6, <2>7, <2>8 DEF RwInv
<1>7. ASSUME NEW e \in Engines, pc = <<"scan", e>>, rest = {}, Report(e),
             UNCHANGED <<entries, count>>
      PROVE  BothCountTheDrawnKeys' /\ printed' \in [Engines -> Nat \union {-1}]
  <2>1. Cardinality(rest) = 0
    BY <1>7, FS_EmptySet
  <2>2. count = Cardinality(ToSet(entries))
    BY <1>0, <1>7, <2>1 DEF CountOK, TypeOK
  <2> QED
    BY <1>0, <1>7, <2>2 DEF Report, BothCountTheDrawnKeys, TypeOK
<1>8. CASE FinishRocks
  <2>1. BothCountTheDrawnKeys' /\ printed' \in [Engines -> Nat \union {-1}]
    BY <1>7, <1>8 DEF FinishRocks
  <2>2. TypeOK'
    BY <1>0, <1>8, <2>1 DEF TypeOK, FinishRocks
  <2>3. DrawOK' /\ TxnOK' /\ DiskOK' /\ CountOK'
    BY <1>0, <1>8 DEF FinishRocks, DrawOK, TxnOK, DiskOK, CountOK
  <2> QED
    BY <2>1, <2>2, <2>3 DEF RwInv
<1>9. CASE Commit
  <2>1. /\ pc = <<"commit">> /\ pc' = <<"scan", "badger">>
        /\ disk' = [disk EXCEPT !["badger"] = @ \union {entries[i] : i \in ToSet(txn)}]
        /\ rest' = disk'["badger"] /\ count' = 0
        /\ UNCHANGED <<entries, rb, txn, printed>>
    BY <1>9 DEF Commit
  <2>2. {entries[i] : i \in ToSet(txn)} = ToSet(entries)
    BY <1>0, <2>1, AllEntriesSet DEF TxnOK
  <2>3. IsFiniteSet(ToSet(entries)) /\ ToSet(entries) \subseteq Keys
    BY <1>0, ToSetIsFinite DEF TypeOK
  <2>4. disk["badger"] = {}
    BY <1>0, <2>1 DEF DiskOK
  <2>5. disk'["badger"] = ToSet(entries) /\ disk' \in [Engines -> SUBSET Keys]
    BY <1>0, <2>1, <2>2, <2>3, <2>4 DEF TypeOK
  <2>6. Cardinality(ToSet(entries)) \in Nat
    BY <2>3, FS_CardinalityType
  <2>7. TypeOK'
    BY <1>0, <2>1, <2>3, <2>5 DEF TypeOK
  <2>8. CountOK'
    BY <2>1, <2>5, <2>6 DEF CountOK
  <2>9. DrawOK' /\ TxnOK' /\ DiskOK' /\ BothCountTheDrawnKeys'
    BY <1>0, <2>1 DEF DrawOK, TxnOK, DiskOK, BothCountTheDrawnKeys
  <2> QED
    BY <2>7, <2>8, <2>9 DEF RwInv
<1>10. CASE FinishBadger
  <2>1. BothCountTheDrawnKeys' /\ printed' \in [Engines -> Nat \union {-1}]
    BY <1>7, <1>10 DEF FinishBadger
  <2>2. TypeOK'
    BY <1>0, <1>10, <2>1 DEF TypeOK, FinishBadger
  <2>3. DrawOK' /\ TxnOK' /\ DiskOK' /\ CountOK'
    BY <1>0, <1>10 DEF FinishBadger, DrawOK, TxnOK, DiskOK, CountOK
  <2> QED
    BY <2>1, <2>2, <2>3 DEF RwInv
<1>11. CASE Fails
  <2>1. TypeOK'
    BY <1>0, <1>11 DEF Fails, TypeOK
  <2>2. DrawOK' /\ TxnOK' /\ CountOK' /\ BothCountTheDrawnKeys' /\ DiskOK'
    BY <1>0, <1>11 DEF Fails, DrawOK, TxnOK, CountOK, BothCountTheDrawnKeys, DiskOK
  <2> QED
    BY <2>1, <2>2 DEF RwInv
<1>12. CASE UNCHANGED vars
  BY <1>0, <1>12 DEF vars, RwInv, TypeOK, DrawOK, TxnOK, CountOK, BothCountTheDrawnKeys, DiskOK
<1> QED
  BY <1>1, <1>2, <1>3, <1>4, <1>5, <1>6, <1>8, <1>9, <1>10, <1>11, <1>12 DEF Next

\* Hence it always holds.
LEMMA RwInvariant == Spec => []RwInv
  BY RwInit, RwNext, PTL DEF Spec

\* RwBench keeps its types.
THEOREM RwTypes == Spec => []TypeOK
<1>1. RwInv => TypeOK
  BY DEF RwInv
<1> QED
  BY <1>1, RwInvariant, PTL

\* rw-bench prints for both engines the number of different keys it drew, for
\* any number of entries and whatever earlier runs left in the directories.
THEOREM BothEnginesCountTheDrawnKeys == Spec => []BothCountTheDrawnKeys
<1>1. RwInv => BothCountTheDrawnKeys
  BY DEF RwInv
<1> QED
  BY <1>1, RwInvariant, PTL
=============================================================================
