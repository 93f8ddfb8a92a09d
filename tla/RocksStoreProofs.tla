-------------------------- MODULE RocksStoreProofs --------------------------
(***************************************************************************)
(* Proofs about RocksStore, for any keys, directories, snapshots,          *)
(* iterators, batches and checkpoints: least and greatest keys, the        *)
(* dictionary of a log, what opening, committing, saving and moving an     *)
(* iterator leave alone of what other stores, snapshots and iterators see, *)
(* the type invariant, and the order of the updates in a batch. Then what  *)
(* the clients of a RocksStore see: scans are complete; and RocksStore     *)
(* implements KVStore: every call and every crash does to the files what   *)
(* one action of KVStore does to the dictionaries.                         *)
(***************************************************************************)
EXTENDS RocksStore, WellFoundedInduction, TLAPS

-----------------------------------------------------------------------------
(* Smallest and largest numbers *)

\* A non-empty set of naturals has a least element.
LEMMA Least ==
  ASSUME NEW S \in SUBSET Nat, S # {}
  PROVE  \E m \in S : \A x \in S : m <= x
<1>1. PICK m \in S : \A y \in S : ~(<<y, m>> \in OpToRel(<, Nat))
  BY NatLessThanWellFounded, WFMin, Zenon
<1>2. \A y \in S : ~(y < m)
  BY <1>1, Zenon DEF OpToRel
<1> QED
  BY <1>2

\* A non-empty set of naturals with an upper bound has a greatest element.
LEMMA Greatest ==
  ASSUME NEW S \in SUBSET Nat, S # {}, NEW b \in Nat, \A x \in S : x <= b
  PROVE  \E m \in S : \A x \in S : m >= x
<1> DEFINE U == {u \in Nat : \A x \in S : x <= u}
<1>1. U \in SUBSET Nat /\ b \in U
  OBVIOUS
<1>2. PICK u \in U : \A y \in U : u <= y
  <2> HIDE DEF U
  <2> QED
    BY <1>1, Least
<1>3. u \in S
  <2> SUFFICES ASSUME u \notin S PROVE FALSE
    OBVIOUS
  <2>1. \A x \in S : x <= u /\ x # u
    OBVIOUS
  <2>2. PICK x \in S : TRUE
    BY Zenon
  <2>3. u \in Nat /\ u # 0
    BY <2>1, <2>2
  <2>4. \A y \in S : y <= u - 1
    BY <2>1, <2>3
  <2>5. u - 1 \in U
    BY <2>3, <2>4
  <2> QED
    BY <1>2, <2>3, <2>5
<1> QED
  BY <1>3

\* Min and Max are what their names say.
LEMMA MinOf ==
  ASSUME NEW S \in SUBSET Nat, S # {}
  PROVE  Min(S) \in S /\ \A x \in S : Min(S) <= x
  BY Least, Zenon DEF Min

\* Max of a set with an upper bound.
LEMMA MaxOf ==
  ASSUME NEW S \in SUBSET Nat, S # {}, NEW b \in Nat, \A x \in S : x <= b
  PROVE  Max(S) \in S /\ \A x \in S : Max(S) >= x
  BY Greatest, Zenon DEF Max

\* There is a greatest key.
LEMMA KeysBounded == \E m \in Nat : \A k \in Keys : k <= m
<1>1. PICK q \in Seq(Keys) : \A k \in Keys : \E n \in 1 .. Len(q) : k = q[n]
  BY KeysAssumption DEF IsFiniteSet
<1>a. \A j \in 1 .. Len(q) : q[j] \in Nat
  <2>1. Keys \subseteq Nat
    BY KeysAssumption
  <2>2. \A j \in 1 .. Len(q) : q[j] \in Keys
    OBVIOUS
  <2> QED
    BY <2>1, <2>2, Zenon
<1> DEFINE Bad == {n \in 0 .. Len(q) : ~\E m \in Nat : \A j \in 1 .. n : q[j] <= m}
<1>2. Bad = {}
  <2> SUFFICES ASSUME Bad # {} PROVE FALSE
    BY Zenon
  <2>0. Bad \in SUBSET Nat
    OBVIOUS
  <2>1. PICK b \in Bad : \A x \in Bad : b <= x
    <3> HIDE DEF Bad
    <3> QED
      BY <2>0, Least
  <2>2. b \in 1 .. Len(q)
    <3>1. \A j \in 1 .. 0 : q[j] <= 0
      OBVIOUS
    <3> QED
      BY <3>1
  <2>3. PICK m \in Nat : \A j \in 1 .. b - 1 : q[j] <= m
    <3>1. b - 1 \in 0 .. Len(q) /\ ~(b <= b - 1)
      BY <2>2
    <3>2. b - 1 \notin Bad
      <4> HIDE DEF Bad
      <4> QED
        BY <2>1, <3>1
    <3> QED
      BY <3>1, <3>2
  <2> HIDE DEF Bad
  <2>5. \A j \in 1 .. b : q[j] <= IF q[b] <= m THEN m ELSE q[b]
    <3> TAKE j \in 1 .. b
    <3>1. q[j] \in Nat /\ q[b] \in Nat
      BY <1>a, <2>2
    <3>2. j = b \/ j \in 1 .. b - 1
      BY <2>2
    <3> QED
      BY <2>3, <3>1, <3>2, SMT
  <2>6. (IF q[b] <= m THEN m ELSE q[b]) \in Nat
    BY <1>a, <2>2
  <2> QED
    BY <2>5, <2>6, Zenon DEF Bad
<1>3. PICK m \in Nat : \A j \in 1 .. Len(q) : q[j] <= m
  <2>1. Len(q) \in 0 .. Len(q) /\ Len(q) \notin Bad
    <3> HIDE DEF Bad
    <3> QED
      BY <1>2
  <2> QED
    BY <2>1
<1> QED
  BY <1>1, <1>3, Zenon

\* Where First and FinalKey put an iterator.
LEMMA Ends ==
  ASSUME NEW S \in SUBSET Keys
  PROVE  /\ First(S) \in S \union {Off}
         /\ First(S) = Off => S = {}
         /\ S # {} => \A k \in S : First(S) <= k
         /\ FinalKey(S) \in S \union {Off}
<1>1. S \in SUBSET Nat /\ 0 \notin S
  BY KeysAssumption
<1>2. PICK b \in Nat : \A k \in S : k <= b
  BY KeysBounded
<1> QED
  BY <1>1, <1>2, MinOf, MaxOf, Zenon DEF First, FinalKey, Off

-----------------------------------------------------------------------------
(* The dictionary of a log *)

\* The commits among the first n that have key k.
Touched(l, n, k) == {i \in 1 .. n : k \in DOMAIN l[i]}

\* View in terms of Touched.
LEMMA ViewOf ==
  ASSUME NEW l, NEW n
  PROVE  View(l, n) = [k \in Keys |-> IF Touched(l, n, k) = {} THEN NoVal
                                      ELSE l[Max(Touched(l, n, k))][k]]
  BY DEF View, Touched

\* A commit has values for its keys.
LEMMA CommitValue ==
  ASSUME NEW c \in Commits, NEW k \in DOMAIN c
  PROVE  c[k] \in Vals \union {NoVal}
  BY DEF Commits

\* The view of a log is a dictionary.
LEMMA ViewType ==
  ASSUME NEW l \in Seq(Commits), NEW n \in 0 .. Len(l)
  PROVE  View(l, n) \in Dictionary
<1> SUFFICES ASSUME NEW k \in Keys, Touched(l, n, k) # {}
             PROVE  l[Max(Touched(l, n, k))][k] \in Vals \union {NoVal}
  BY ViewOf DEF Dictionary
<1>1. Touched(l, n, k) \in SUBSET Nat /\ \A x \in Touched(l, n, k) : x <= n
  BY DEF Touched
<1>2. Max(Touched(l, n, k)) \in Touched(l, n, k)
  BY <1>1, MaxOf, n \in Nat, Zenon
<1> QED
  BY <1>2, CommitValue DEF Touched

\* It depends on those commits only.
LEMMA ViewPrefix ==
  ASSUME NEW l, NEW m, NEW n \in Nat, \A i \in 1 .. n : l[i] = m[i]
  PROVE  View(l, n) = View(m, n)
<1>1. ASSUME NEW k \in Keys
      PROVE  /\ Touched(l, n, k) = Touched(m, n, k)
             /\ Touched(l, n, k) # {} =>
                  l[Max(Touched(l, n, k))][k] = m[Max(Touched(m, n, k))][k]
  <2>1. Touched(l, n, k) = Touched(m, n, k)
    BY DEF Touched
  <2>2. Touched(l, n, k) \in SUBSET Nat /\ \A x \in Touched(l, n, k) : x <= n
    BY DEF Touched
  <2>3. Touched(l, n, k) # {} => Max(Touched(l, n, k)) \in 1 .. n
    BY <2>2, MaxOf, Zenon DEF Touched
  <2> QED
    BY <2>1, <2>3
<1> QED
  BY <1>1, ViewOf

\* A database that was just created is empty.
LEMMA ViewEmpty == View(<<>>, 0) = [k \in Keys |-> NoVal]
<1>1. \A k \in Keys : Touched(<<>>, 0, k) = {}
  BY DEF Touched
<1> QED
  BY <1>1, ViewOf

\* Appending a commit leaves the earlier views alone.
LEMMA ViewAppend ==
  ASSUME NEW l \in Seq(Commits), NEW c, NEW n \in 0 .. Len(l)
  PROVE  View(Append(l, c), n) = View(l, n)
<1>1. n \in Nat /\ \A i \in 1 .. n : Append(l, c)[i] = l[i]
  OBVIOUS
<1> QED
  BY <1>1, ViewPrefix, Zenon

\* Recovery of a prefix brings back the view it had.
LEMMA ViewSubSeq ==
  ASSUME NEW l \in Seq(Commits), NEW n \in 0 .. Len(l)
  PROVE  /\ SubSeq(l, 1, n) \in Seq(Commits) /\ Len(SubSeq(l, 1, n)) = n
         /\ View(SubSeq(l, 1, n), n) = View(l, n)
<1>1. /\ SubSeq(l, 1, n) \in Seq(Commits) /\ Len(SubSeq(l, 1, n)) = n
      /\ \A i \in 1 .. n : SubSeq(l, 1, n)[i] = l[i]
  OBVIOUS
<1> QED
  BY <1>1, ViewPrefix, n \in Nat, Zenon

\* The effect of a batch is a commit.
LEMMA EffectType ==
  ASSUME NEW ops \in Seq(Updates)
  PROVE  Effect(ops) \in Commits
<1> DEFINE S == {ops[i].key : i \in DOMAIN ops}
           At(k) == {i \in DOMAIN ops : ops[i].key = k}
<1>0. \A i \in DOMAIN ops : ops[i] \in Updates
  OBVIOUS
<1>1. S \in SUBSET Keys
  BY <1>0 DEF Updates
<1>2. ASSUME NEW k \in S
      PROVE  ops[Max(At(k))].val \in Vals \union {NoVal}
  <2>1. At(k) \in SUBSET Nat /\ At(k) # {} /\ \A x \in At(k) : x <= Len(ops)
    OBVIOUS
  <2>2. Max(At(k)) \in At(k)
    <3> HIDE DEF At
    <3> QED
      BY <2>1, MaxOf, Len(ops) \in Nat, Zenon
  <2> QED
    BY <1>0, <2>2 DEF Updates
<1>3. Effect(ops) \in [S -> Vals \union {NoVal}]
  BY <1>2, Zenon DEF Effect
<1> QED
  BY <1>1, <1>3, Zenon DEF Commits

-----------------------------------------------------------------------------
(* Batches *)

\* What a commit does to the dictionary: its keys get its values.
LEMMA ViewCommit ==
  ASSUME NEW l \in Seq(Commits), NEW c
  PROVE  View(Append(l, c), Len(l) + 1)
           = [k \in Keys |-> IF k \in DOMAIN c THEN c[k] ELSE View(l, Len(l))[k]]
<1> DEFINE n == Len(l)
           m == Append(l, c)
<1>0. n \in Nat /\ m[n + 1] = c /\ \A i \in 1 .. n : m[i] = l[i]
  OBVIOUS
<1>1. ASSUME NEW k \in Keys, k \in DOMAIN c
      PROVE  Touched(m, n + 1, k) # {} /\ m[Max(Touched(m, n + 1, k))][k] = c[k]
  <2>1. /\ Touched(m, n + 1, k) \in SUBSET Nat /\ n + 1 \in Touched(m, n + 1, k)
        /\ \A x \in Touched(m, n + 1, k) : x <= n + 1
    BY <1>0, <1>1 DEF Touched
  <2>2. Max(Touched(m, n + 1, k)) \in Nat /\ Max(Touched(m, n + 1, k)) >= n + 1
        /\ Max(Touched(m, n + 1, k)) <= n + 1
    BY <1>0, <2>1, MaxOf, n + 1 \in Nat, Zenon
  <2>3. Max(Touched(m, n + 1, k)) = n + 1
    BY <1>0, <2>2
  <2> HIDE DEF n, m
  <2> QED
    BY <1>0, <2>1, <2>3, Zenon
<1>2. ASSUME NEW k \in Keys, k \notin DOMAIN c
      PROVE  Touched(m, n + 1, k) = Touched(m, n, k)
  BY <1>0, <1>2 DEF Touched
<1>3. View(m, n) = View(l, n)
  BY <1>0, ViewPrefix, Zenon
<1> HIDE DEF n, m
<1>4. ASSUME NEW k \in Keys
      PROVE  View(m, n + 1)[k] = IF k \in DOMAIN c THEN c[k] ELSE View(l, n)[k]
  <2>1. CASE k \in DOMAIN c
    BY <1>1, <2>1, ViewOf
  <2>2. CASE k \notin DOMAIN c
    <3>1. View(m, n + 1)[k] = View(m, n)[k]
      BY <1>2, <2>2, ViewOf
    <3> QED
      BY <1>3, <2>2, <3>1, Zenon
  <2> QED
    BY <2>1, <2>2
<1>5. View(m, n + 1) = [k \in Keys |-> View(m, n + 1)[k]]
  BY ViewOf
<1>6. View(m, n + 1) = [k \in Keys |-> IF k \in DOMAIN c THEN c[k] ELSE View(l, n)[k]]
  BY <1>4, <1>5
<1> QED
  BY <1>6 DEF n, m

\* The updates of key k among the first n.
UpdatesOf(ops, n, k) == {i \in 1 .. n : ops[i].key = k}

\* A dictionary after the first n updates: the last one of a key counts.
AfterFirst(m, ops, n) ==
    [k \in Keys |->
        IF UpdatesOf(ops, n, k) = {} THEN m[k] ELSE ops[Max(UpdatesOf(ops, n, k))].val]

\* The last update of a key.
LEMMA LastUpdate ==
  ASSUME NEW ops \in Seq(Updates), NEW n \in 1 .. Len(ops), NEW k \in Keys
  PROVE  IF ops[n].key = k
         THEN UpdatesOf(ops, n, k) # {} /\ Max(UpdatesOf(ops, n, k)) = n
         ELSE UpdatesOf(ops, n, k) = UpdatesOf(ops, n - 1, k)
<1>0. n \in Nat
  OBVIOUS
<1>1. CASE ops[n].key = k
  <2>1. /\ UpdatesOf(ops, n, k) \in SUBSET Nat /\ n \in UpdatesOf(ops, n, k)
        /\ \A x \in UpdatesOf(ops, n, k) : x <= n
    BY <1>1 DEF UpdatesOf
  <2>2. Max(UpdatesOf(ops, n, k)) \in UpdatesOf(ops, n, k) /\ Max(UpdatesOf(ops, n, k)) >= n
    BY <1>0, <2>1, MaxOf, Zenon
  <2>3. Max(UpdatesOf(ops, n, k)) \in Nat /\ Max(UpdatesOf(ops, n, k)) <= n
    BY <2>1, <2>2
  <2> QED
    BY <1>0, <1>1, <2>1, <2>2, <2>3
<1>2. CASE ops[n].key # k
  BY <1>0, <1>2 DEF UpdatesOf
<1> QED
  BY <1>1, <1>2

\* One more update.
LEMMA AfterOneMore ==
  ASSUME NEW m \in Dictionary, NEW ops \in Seq(Updates), NEW n \in 1 .. Len(ops)
  PROVE  AfterFirst(m, ops, n) = [AfterFirst(m, ops, n - 1) EXCEPT ![ops[n].key] = ops[n].val]
<1>1. ASSUME NEW k \in Keys
      PROVE  AfterFirst(m, ops, n)[k]
               = IF ops[n].key = k THEN ops[n].val ELSE AfterFirst(m, ops, n - 1)[k]
  BY LastUpdate DEF AfterFirst
<1>2. /\ AfterFirst(m, ops, n) = [k \in Keys |-> AfterFirst(m, ops, n)[k]]
      /\ AfterFirst(m, ops, n - 1) = [k \in Keys |-> AfterFirst(m, ops, n - 1)[k]]
  BY DEF AfterFirst
<1> QED
  BY <1>1, <1>2

\* Nothing applied yet.
LEMMA AfterNone ==
  ASSUME NEW m \in Dictionary, NEW ops PROVE AfterFirst(m, ops, 0) = m
<1>1. \A k \in Keys : UpdatesOf(ops, 0, k) = {}
  BY DEF UpdatesOf
<1> QED
  BY <1>1 DEF AfterFirst, Dictionary

\* Applying updates one by one and looking for the last one of each key come to
\* the same.
LEMMA AppliedIs ==
  ASSUME NEW m \in Dictionary, NEW ops \in Seq(Updates)
  PROVE  Applied(m, ops) = AfterFirst(m, ops, Len(ops))
<1> DEFINE Body(f) == [n \in 0 .. Len(ops) |->
                         IF n = 0 THEN m ELSE [f[n - 1] EXCEPT ![ops[n].key] = ops[n].val]]
           closed == [n \in 0 .. Len(ops) |-> AfterFirst(m, ops, n)]
           after == CHOOSE f : f = Body(f)
<1>1. closed = Body(closed)
  <2>1. ASSUME NEW n \in 0 .. Len(ops), n # 0
        PROVE  n \in 1 .. Len(ops) /\ closed[n - 1] = AfterFirst(m, ops, n - 1)
    BY <2>1
  <2>2. ASSUME NEW n \in 0 .. Len(ops), n # 0
        PROVE  closed[n] = [closed[n - 1] EXCEPT ![ops[n].key] = ops[n].val]
    BY <2>1, <2>2, AfterOneMore
  <2>3. closed[0] = m
    BY AfterNone
  <2> QED
    BY <2>2, <2>3
<1>2. after = Body(after)
  <2> HIDE DEF Body, closed
  <2> QED
    BY <1>1
<1>3. \A n \in 0 .. Len(ops) :
        after[n] = IF n = 0 THEN m ELSE [after[n - 1] EXCEPT ![ops[n].key] = ops[n].val]
  <2> HIDE DEF after
  <2> QED
    BY <1>2, Zenon
<1> HIDE DEF after
<1> DEFINE Bad == {n \in 0 .. Len(ops) : after[n] # AfterFirst(m, ops, n)}
<1>4. Bad = {}
  <2> SUFFICES ASSUME Bad # {} PROVE FALSE
    BY Zenon
  <2>1. PICK b \in Bad : \A x \in Bad : b <= x
    <3>1. Bad \in SUBSET Nat
      OBVIOUS
    <3> HIDE DEF Bad
    <3> QED
      BY <3>1, Least
  <2>2. b # 0
    BY <1>3, AfterNone, Zenon
  <2>3. b \in 1 .. Len(ops) /\ b - 1 \in 0 .. Len(ops) /\ ~(b <= b - 1)
    BY <2>2
  <2>4. after[b - 1] = AfterFirst(m, ops, b - 1)
    <3>1. b - 1 \notin Bad
      <4> HIDE DEF Bad
      <4> QED
        BY <2>1, <2>3
    <3> QED
      BY <2>3, <3>1
  <2>5. after[b] = AfterFirst(m, ops, b)
    <3>1. after[b] = [after[b - 1] EXCEPT ![ops[b].key] = ops[b].val]
      BY <1>3, <2>2, Zenon
    <3>2. AfterFirst(m, ops, b) = [AfterFirst(m, ops, b - 1) EXCEPT ![ops[b].key] = ops[b].val]
      BY <2>3, AfterOneMore
    <3> QED
      BY <2>4, <3>1, <3>2, Zenon
  <2> QED
    BY <2>5
<1>5. after[Len(ops)] = AfterFirst(m, ops, Len(ops))
  BY <1>4
<1> QED
  BY <1>5 DEF Applied, after

\* A batch that is written leaves the dictionary its updates leave when applied
\* one by one.
LEMMA CommitApplies ==
  ASSUME NEW l \in Seq(Commits), NEW ops \in Seq(Updates)
  PROVE  View(Append(l, Effect(ops)), Len(l) + 1) = Applied(View(l, Len(l)), ops)
<1> DEFINE m == View(l, Len(l))
<1>1. m \in Dictionary
  BY ViewType
<1>2. DOMAIN ops = 1 .. Len(ops)
  OBVIOUS
<1>3. ASSUME NEW k \in Keys
      PROVE  /\ k \in DOMAIN Effect(ops) <=> UpdatesOf(ops, Len(ops), k) # {}
             /\ k \in DOMAIN Effect(ops) =>
                  Effect(ops)[k] = ops[Max(UpdatesOf(ops, Len(ops), k))].val
  BY <1>2, Zenon DEF Effect, UpdatesOf
<1> HIDE DEF m
<1>4. [k \in Keys |-> IF k \in DOMAIN Effect(ops) THEN Effect(ops)[k] ELSE m[k]]
        = AfterFirst(m, ops, Len(ops))
  BY <1>3 DEF AfterFirst
<1> QED
  BY <1>1, <1>4, ViewCommit, AppliedIs DEF m

-----------------------------------------------------------------------------
(* Types *)

\* TypeOK by parts: the functions, and what holds of each directory, snapshot,
\* iterator and checkpoint.
Types ==
    /\ log \in [Dirs -> Seq(Commits) \union {Nil}]
    /\ synced \in [Dirs -> Nat]
    /\ mode \in [Dirs -> {"closed", "rw", "sync", "ro"}]
    /\ ropt \in [Dirs -> Snaps \union {Nil}]
    /\ snap \in [Snaps -> Snapshot \union {Nil}]
    /\ iter \in [Iters -> Iterator \union {Nil}]
    /\ wb \in [Batches -> Seq(Updates)]
    /\ ckpt \in [Ckpts -> Dirs \union {Nil}]

DirOK(d) ==
    /\ synced[d] <= IF log[d] = Nil THEN 0 ELSE Last(d)
    /\ mode[d] # "closed" => log[d] # Nil

RoptOK(d) == ropt[d] # Nil /\ snap[ropt[d]] # Nil => snap[ropt[d]].dir = d

SnapOK(s) ==
    snap[s] # Nil => mode[snap[s].dir] # "closed" /\ snap[s].at <= Last(snap[s].dir)

IterOK(i) ==
    iter[i] # Nil =>
        /\ mode[iter[i].dir] # "closed" /\ iter[i].at <= Last(iter[i].dir)
        /\ iter[i].pos \in Present(IterView(i)) \union {Off}

CkptOK(c) == ckpt[c] # Nil => mode[ckpt[c]] # "closed"

\* The parts are TypeOK.
LEMMA Parts ==
  ASSUME Types', \A d \in Dirs : DirOK(d)', \A d \in Dirs : RoptOK(d)', \A s \in Snaps : SnapOK(s)',
         \A i \in Iters : IterOK(i)', \A c \in Ckpts : CkptOK(c)'
  PROVE  TypeOK'
  BY DEF TypeOK, Types, DirOK, RoptOK, SnapOK, IterOK, CkptOK

\* TypeOK has these parts.
LEMMA PartsOf ==
  ASSUME TypeOK
  PROVE  /\ Types /\ \A d \in Dirs : DirOK(d) /\ RoptOK(d)
         /\ \A s \in Snaps : SnapOK(s)
         /\ \A i \in Iters : IterOK(i)
         /\ \A c \in Ckpts : CkptOK(c)
  BY DEF TypeOK, Types, DirOK, RoptOK, SnapOK, IterOK, CkptOK

\* A log that is there is a sequence of commits.
LEMMA LogType ==
  ASSUME TypeOK, NEW d \in Dirs, log[d] # Nil
  PROVE  log[d] \in Seq(Commits) /\ Last(d) \in Nat
<1>1. log[d] \in Seq(Commits)
  BY PartsOf DEF Types
<1> QED
  BY <1>1 DEF Last

\* A log with one more commit.
LEMMA OneMoreCommit ==
  ASSUME NEW l \in Seq(Commits), NEW x \in Commits
  PROVE  Append(l, x) \in Seq(Commits) /\ Append(l, x) # Nil /\ Len(Append(l, x)) = Len(l) + 1
<1>1. Append(l, x) \in Seq(Commits) /\ Len(Append(l, x)) = Len(l) + 1
  OBVIOUS
<1> QED
  BY <1>1, NilAssumption, Zenon

\* The end of a log that is on stable storage, and the files as functions.
LEMMA FileTypes ==
  ASSUME TypeOK
  PROVE  /\ log \in [Dirs -> Seq(Commits) \union {Nil}] /\ synced \in [Dirs -> Nat]
         /\ \A d \in Dirs : synced[d] <= IF log[d] = Nil THEN 0 ELSE Last(d)
  BY PartsOf DEF Types, DirOK

\* What a step does to a store that others still use: it stays open and its log
\* may have grown by a commit.
Kept(d) ==
    /\ mode'[d] # "closed"
    /\ log'[d] = log[d] \/ \E c \in Commits : log'[d] = Append(log[d], c)

\* No store that is open is closed, and none loses a commit.
AllKept == \A d \in Dirs : mode[d] # "closed" => Kept(d)

\* Then the views up to its end are what they were.
LEMMA KeptViews ==
  ASSUME TypeOK, NEW d \in Dirs, mode[d] # "closed", Kept(d),
         NEW n \in Nat, n <= Last(d)
  PROVE  View(log'[d], n) = View(log[d], n) /\ n <= Len(log'[d])
<1>1. log[d] # Nil
  BY PartsOf DEF Types, DirOK, SnapOK
<1>2. log[d] \in Seq(Commits) /\ n \in 0 .. Len(log[d])
  BY <1>1, LogType DEF Last
<1>3. CASE log'[d] = log[d]
  BY <1>3 DEF Last
<1>4. CASE \E c \in Commits : log'[d] = Append(log[d], c)
  <2>1. PICK c \in Commits : log'[d] = Append(log[d], c)
    BY <1>4
  <2>2. View(log'[d], n) = View(log[d], n)
    BY <1>2, <2>1, ViewAppend
  <2>3. Len(log'[d]) = Len(log[d]) + 1
    BY <1>2, <2>1
  <2> QED
    BY <1>2, <2>2, <2>3 DEF Last
<1> QED
  BY <1>3, <1>4 DEF Kept

\* A snapshot that a step leaves alone keeps its view.
LEMMA SnapStays ==
  ASSUME TypeOK, NEW s \in Snaps, snap[s] # Nil, Kept(snap[s].dir), snap'[s] = snap[s]
  PROVE  /\ SnapOK(s)'
         /\ View(log'[snap[s].dir], snap[s].at) = View(log[snap[s].dir], snap[s].at)
<1>1. snap[s].dir \in Dirs /\ snap[s].at \in Nat
  BY PartsOf DEF Snapshot, Types
<1>2. mode[snap[s].dir] # "closed" /\ snap[s].at <= Last(snap[s].dir)
  BY PartsOf DEF SnapOK
<1>3. /\ View(log'[snap[s].dir], snap[s].at) = View(log[snap[s].dir], snap[s].at)
      /\ snap[s].at <= Len(log'[snap[s].dir])
  BY <1>1, <1>2, KeptViews
<1> QED
  BY <1>3 DEF SnapOK, Kept, Last

\* An iterator too.
LEMMA IterStays ==
  ASSUME TypeOK, NEW i \in Iters, iter[i] # Nil, Kept(iter[i].dir), iter'[i] # Nil,
         iter'[i].dir = iter[i].dir, iter'[i].at = iter[i].at
  PROVE  /\ IterView(i)' = IterView(i)
         /\ mode'[iter[i].dir] # "closed" /\ iter'[i].at <= Len(log'[iter'[i].dir])
         /\ iter'[i].pos \in Present(IterView(i)) \union {Off} => IterOK(i)'
<1>1. iter[i].dir \in Dirs /\ iter[i].at \in Nat
  BY PartsOf DEF Iterator, Types
<1>2. mode[iter[i].dir] # "closed" /\ iter[i].at <= Last(iter[i].dir)
  BY PartsOf DEF IterOK
<1>3. /\ View(log'[iter[i].dir], iter[i].at) = View(log[iter[i].dir], iter[i].at)
      /\ iter[i].at <= Len(log'[iter[i].dir])
  BY <1>1, <1>2, KeptViews
<1>4. IterView(i)' = IterView(i)
  BY <1>3 DEF IterView
<1>5. mode'[iter[i].dir] # "closed" /\ iter'[i].at <= Len(log'[iter'[i].dir])
  BY <1>3 DEF Kept
<1> QED
  BY <1>4, <1>5 DEF IterOK, Present, Last

\* So a step that keeps every open store, and the snapshots, iterators and
\* checkpoints, keeps what is known of them.
LEMMA UsersStay ==
  ASSUME TypeOK, AllKept
  PROVE  /\ UNCHANGED <<ropt, snap>> => \A d \in Dirs : RoptOK(d)'
         /\ UNCHANGED snap => \A s \in Snaps : SnapOK(s)'
         /\ UNCHANGED iter => \A i \in Iters : IterOK(i)'
         /\ UNCHANGED ckpt => \A c \in Ckpts : CkptOK(c)'
<1>1. ASSUME UNCHANGED snap, NEW s \in Snaps PROVE SnapOK(s)'
  <2>1. CASE snap[s] = Nil
    BY <1>1, <2>1 DEF SnapOK
  <2>2. CASE snap[s] # Nil
    <3>1. snap[s].dir \in Dirs /\ mode[snap[s].dir] # "closed"
      BY <2>2, PartsOf DEF Snapshot, Types, SnapOK
    <3> QED
      BY <1>1, <2>2, <3>1, SnapStays DEF AllKept
  <2> QED
    BY <2>1, <2>2
<1>2. ASSUME UNCHANGED iter, NEW i \in Iters PROVE IterOK(i)'
  <2>1. CASE iter[i] = Nil
    BY <1>2, <2>1 DEF IterOK
  <2>2. CASE iter[i] # Nil
    <3>1. iter[i].dir \in Dirs /\ mode[iter[i].dir] # "closed"
      BY <2>2, PartsOf DEF Iterator, Types, IterOK
    <3>2. iter[i].pos \in Present(IterView(i)) \union {Off}
      BY <2>2 DEF TypeOK
    <3> QED
      BY <1>2, <2>2, <3>1, <3>2, IterStays DEF AllKept
  <2> QED
    BY <2>1, <2>2
<1>3. ASSUME UNCHANGED ckpt, NEW c \in Ckpts PROVE CkptOK(c)'
  BY <1>3, PartsOf DEF CkptOK, AllKept, Kept, Types, DirOK, IterOK
<1>4. ASSUME UNCHANGED <<ropt, snap>>, NEW d \in Dirs PROVE RoptOK(d)'
  BY <1>4, PartsOf DEF RoptOK, Types
<1> QED
  BY <1>1, <1>2, <1>3, <1>4

\* What opening does to the log: create it where there is none.
Opened(d) ==
    \/ log[d] # Nil /\ log' = log
    \/ log[d] = Nil /\ log' = [log EXCEPT ![d] = <<>>]

\* The three ways to open a store.
LEMMA OpenOf ==
  ASSUME NEW d \in Dirs, NewStore(d)
  PROVE  /\ mode[d] = "closed"
         /\ \E m \in {"rw", "sync", "ro"} : mode' = [mode EXCEPT ![d] = m]
         /\ Opened(d)
         /\ UNCHANGED <<synced, ropt, snap, iter, wb, ckpt>>
<1>1. CASE OpenDb(d)
  BY <1>1 DEF NewStore, OpenDb, rdb_open, Opened
<1>2. CASE OpenDbForReadOnly(d)
  BY <1>2 DEF NewStore, OpenDbForReadOnly, rdb_open_for_read_only, Opened
<1> QED
  BY <1>1, <1>2 DEF NewStore

\* Put, Delete and WriteBatch are commits of updates.
LEMMA CommitOf ==
  ASSUME TypeOK, NEW d \in Dirs,
         SetOne(d) \/ Delete(d) \/ \E b \in Batches : WriteBatch(d, b)
  PROVE  \E ops \in Seq(Updates) : Commit(d, ops)
<1>1. CASE SetOne(d)
  <2>1. PICK k \in Keys, v \in Vals : Commit(d, <<[key |-> k, val |-> v]>>)
    BY <1>1 DEF SetOne, Put
  <2>2. <<[key |-> k, val |-> v]>> \in Seq(Updates)
    BY DEF Updates
  <2> QED
    BY <2>1, <2>2, Zenon
<1>2. CASE Delete(d)
  <2>1. PICK k \in Keys : Commit(d, <<[key |-> k, val |-> NoVal]>>)
    BY <1>2 DEF Delete
  <2>2. <<[key |-> k, val |-> NoVal]>> \in Seq(Updates)
    BY DEF Updates
  <2> QED
    BY <2>1, <2>2, Zenon
<1>3. CASE \E b \in Batches : WriteBatch(d, b)
  BY <1>3, PartsOf DEF WriteBatch, Types
<1> QED
  BY <1>1, <1>2, <1>3

\* Opening a store changes no other one.
LEMMA OpenKeeps ==
  ASSUME TypeOK, NEW d \in Dirs, NewStore(d)
  PROVE  AllKept
<1>1. /\ mode[d] = "closed" /\ Opened(d)
      /\ \E m \in {"rw", "sync", "ro"} : mode' = [mode EXCEPT ![d] = m]
  BY OpenOf
<1>2. \A e \in Dirs \ {d} : log'[e] = log[e] /\ mode'[e] = mode[e]
  BY <1>1, PartsOf DEF Opened, Types
<1> QED
  BY <1>1, <1>2 DEF AllKept, Kept

\* A commit is appended.
LEMMA CommitKeeps ==
  ASSUME TypeOK, NEW d \in Dirs, NEW ops \in Seq(Updates), Commit(d, ops)
  PROVE  AllKept
<1>1. Effect(ops) \in Commits
  BY EffectType
<1>2. log' = [log EXCEPT ![d] = Append(log[d], Effect(ops))] /\ mode' = mode
  BY DEF Commit
<1> QED
  BY <1>1, <1>2, PartsOf DEF AllKept, Kept, Types

\* Save writes to a directory in which there was no database.
LEMMA SaveKeeps ==
  ASSUME TypeOK, NEW c \in Ckpts, NEW e \in Dirs, Save(c, e)
  PROVE  AllKept
<1>1. mode[e] = "closed"
  BY PartsOf DEF Save, CanSave, DirOK
<1>2. log' = [log EXCEPT ![e] = log[ckpt[c]]] /\ mode' = mode
  BY DEF Save
<1> QED
  BY <1>1, <1>2, PartsOf DEF AllKept, Kept, Types

\* The moves of an iterator put it on a key of its view, or off.
MovesIter(i) ==
    \/ SeekToFirst(i) \/ SeekToLast(i) \/ Seek(i) \/ SeekForPrev(i)
    \/ IterNext(i) \/ IterPrev(i)

\* Every one of them is a Move.
LEMMA MoveOf ==
  ASSUME TypeOK, NEW i \in Iters, MovesIter(i)
  PROVE  /\ iter[i] # Nil
         /\ \E k \in Present(IterView(i)) \union {Off}, scan \in BOOLEAN, seen \in SUBSET Keys :
               Move(i, k, scan, seen)
<1>0. Present(IterView(i)) \in SUBSET Keys
  BY DEF Present
<1>1. CASE SeekToFirst(i)
  BY <1>0, <1>1, Ends, Zenon DEF SeekToFirst
<1>2. CASE SeekToLast(i)
  BY <1>0, <1>2, Ends, Zenon DEF SeekToLast
<1>3. CASE Seek(i)
  <2>1. PICK k \in Keys : Move(i, First({j \in Present(IterView(i)) : j >= k}), FALSE, {})
    BY <1>3, Zenon DEF Seek
  <2>2. First({j \in Present(IterView(i)) : j >= k}) \in Present(IterView(i)) \union {Off}
    BY <1>0, Ends
  <2> QED
    BY <1>3, <2>1, <2>2, Zenon DEF Seek
<1>4. CASE SeekForPrev(i)
  <2>1. PICK k \in Keys : Move(i, FinalKey({j \in Present(IterView(i)) : j <= k}), FALSE, {})
    BY <1>4, Zenon DEF SeekForPrev
  <2>2. FinalKey({j \in Present(IterView(i)) : j <= k}) \in Present(IterView(i)) \union {Off}
    BY <1>0, Ends
  <2> QED
    BY <1>4, <2>1, <2>2, Zenon DEF SeekForPrev
<1>5. CASE IterNext(i)
  <2>1. First({j \in Present(IterView(i)) : j > iter[i].pos}) \in Present(IterView(i)) \union {Off}
    BY <1>0, Ends
  <2>2. iter[i] # Nil /\ iter[i].scan \in BOOLEAN /\ iter[i].seen \in SUBSET Keys
    BY <1>5, PartsOf DEF IterNext, Valid, Iterator, Types
  <2> QED
    BY <1>5, <2>1, <2>2 DEF IterNext
<1>6. CASE IterPrev(i)
  <2>1. FinalKey({j \in Present(IterView(i)) : j < iter[i].pos}) \in Present(IterView(i)) \union {Off}
    BY <1>0, Ends
  <2> QED
    BY <1>6, <2>1, Zenon DEF IterPrev, Valid
<1> QED
  BY <1>1, <1>2, <1>3, <1>4, <1>5, <1>6 DEF MovesIter

\* What a move makes of the iterator.
LEMMA Moved ==
  ASSUME TypeOK, NEW i \in Iters, iter[i] # Nil,
         NEW k \in Present(IterView(i)) \union {Off}, NEW scan \in BOOLEAN,
         NEW seen \in SUBSET Keys, Move(i, k, scan, seen)
  PROVE  /\ iter' \in [Iters -> Iterator \union {Nil}]
         /\ \A j \in Iters \ {i} : iter'[j] = iter[j]
         /\ iter'[i] # Nil
         /\ iter'[i].dir = iter[i].dir /\ iter'[i].at = iter[i].at /\ iter'[i].pos = k
<1> DEFINE new == [dir |-> iter[i].dir, at |-> iter[i].at, pos |-> k, scan |-> scan,
                   seen |-> IF scan THEN seen \union ({k} \ {Off}) ELSE {}]
<1>1. iter[i] \in Iterator
  BY PartsOf DEF Types
<1>2. k \in Keys \union {Off}
  BY DEF Present
<1>3. k \in Nat /\ (k \in Keys \/ k = Off)
  BY <1>2, KeysAssumption, SMTT(20) DEF Off
<1>4. new \in Iterator
  BY <1>1, <1>3 DEF Iterator
<1>5. iter' = [iter EXCEPT ![i] = new]
  BY PartsOf DEF Move, Types
<1>6. new # Nil
  BY <1>4, NilAssumption, Zenon
<1>8. new.dir = iter[i].dir /\ new.at = iter[i].at /\ new.pos = k
  OBVIOUS
<1> HIDE DEF new
<1>7. /\ iter' \in [Iters -> Iterator \union {Nil}]
      /\ \A j \in Iters \ {i} : iter'[j] = iter[j]
      /\ iter'[i] = new
  BY <1>4, <1>5, PartsOf DEF Types
<1> QED
  BY <1>6, <1>7, <1>8

-----------------------------------------------------------------------------
(* The type invariant *)

\* Init has the types.
LEMMA TypeInit == Init => TypeOK
  BY SMTT(20) DEF Init, TypeOK

\* A step that changes neither files nor modes keeps every open store and all
\* that it does not change itself.
LEMMA QuietStep ==
  ASSUME TypeOK, UNCHANGED <<log, synced, mode>>
  PROVE  /\ \A d \in Dirs : DirOK(d)'
         /\ AllKept
         /\ UNCHANGED <<ropt, snap>> => \A d \in Dirs : RoptOK(d)'
         /\ UNCHANGED snap => \A s \in Snaps : SnapOK(s)'
         /\ UNCHANGED iter => \A i \in Iters : IterOK(i)'
         /\ UNCHANGED ckpt => \A c \in Ckpts : CkptOK(c)'
<1>1. AllKept
  BY DEF AllKept, Kept
<1>2. \A d \in Dirs : DirOK(d)'
  BY PartsOf DEF DirOK, Last, Types
<1> QED
  BY <1>1, <1>2, UsersStay

\* Every call, a crash and the operating system keep the types.
LEMMA TypeNext == TypeOK /\ [Next]_vars => TypeOK'
<1> SUFFICES ASSUME TypeOK, [Next]_vars PROVE TypeOK'
  OBVIOUS
<1>0. Types
  BY PartsOf DEF Types
<1>1. CASE UNCHANGED vars
  <2>1. UNCHANGED <<log, synced, mode, ropt, snap, iter, wb, ckpt>>
    BY <1>1 DEF vars
  <2>2. Types'
    BY <1>0, <2>1 DEF Types
  <2> QED
    BY <2>1, <2>2, QuietStep, Parts
<1>2. ASSUME NEW d \in Dirs, Get(d) PROVE TypeOK'
  <2>1. UNCHANGED <<log, synced, mode, ropt, snap, iter, wb, ckpt>>
    BY <1>2 DEF Get, files
  <2>2. Types'
    BY <1>0, <2>1 DEF Types
  <2> QED
    BY <2>1, <2>2, QuietStep, Parts
<1>3. ASSUME NEW d \in Dirs, NewStore(d) PROVE TypeOK'
  <2>1. /\ mode[d] = "closed"
        /\ \E m \in {"rw", "sync", "ro"} : mode' = [mode EXCEPT ![d] = m]
        /\ Opened(d)
        /\ UNCHANGED <<synced, ropt, snap, iter, wb, ckpt>>
    BY <1>3, OpenOf
  <2>2. PICK m \in {"rw", "sync", "ro"} : mode' = [mode EXCEPT ![d] = m]
    BY <2>1, Zenon
  <2>3. log' \in [Dirs -> Seq(Commits) \union {Nil}]
    <3>1. <<>> \in Seq(Commits)
      BY SMTT(20)
    <3> QED
      BY <1>0, <2>1, <3>1, Zenon DEF Types, Opened
  <2>4. Types'
    BY <1>0, <2>1, <2>2, <2>3, Zenon DEF Types
  <2>5. \A e \in Dirs \ {d} : log'[e] = log[e] /\ mode'[e] = mode[e]
    BY <1>0, <2>1, <2>2 DEF Types, Opened
  <2>6. \A e \in Dirs \ {d} : DirOK(e)'
    BY <2>1, <2>5, PartsOf DEF DirOK, Last, Types
  <2>7. DirOK(d)'
    <3>1. CASE log[d] # Nil /\ log' = log
      BY <2>1, <3>1, PartsOf DEF DirOK, Last, Types
    <3>2. CASE log[d] = Nil /\ log' = [log EXCEPT ![d] = <<>>]
      <4>1. log'[d] = <<>> /\ <<>> \in Seq(Commits)
        BY <1>0, <3>2, SMTT(20) DEF Types
      <4>2. log'[d] # Nil /\ Len(log'[d]) = 0
        BY <4>1, NilAssumption, Zenon
      <4>3. synced'[d] <= 0
        BY <2>1, <3>2, PartsOf DEF DirOK
      <4> QED
        BY <4>2, <4>3 DEF DirOK, Last
    <3> QED
      BY <2>1, <3>1, <3>2 DEF Opened
  <2>8. AllKept
    BY <1>3, OpenKeeps
  <2> QED
    BY <2>1, <2>4, <2>6, <2>7, <2>8, UsersStay, Parts
<1>4. ASSUME NEW d \in Dirs, Close(d) PROVE TypeOK'
  <2>1. Types'
    BY <1>0, <1>4 DEF Close, files, Types
  <2>2. \A e \in Dirs : DirOK(e)'
    BY <1>4, PartsOf DEF Close, files, DirOK, Last, Types
  <2>3. \A e \in Dirs \ {d} : mode[e] # "closed" => Kept(e)
    BY <1>4, PartsOf DEF Close, files, Kept, Types
  <2>4. \A s \in Snaps : SnapOK(s)'
    <3> TAKE s \in Snaps
    <3>1. CASE snap'[s] = Nil
      BY <3>1 DEF SnapOK
    <3>2. CASE snap'[s] # Nil
      <4>1. snap'[s] = snap[s] /\ snap[s] # Nil /\ snap[s].dir # d
        BY <1>4, <3>2 DEF Close
      <4>2. snap[s].dir \in Dirs /\ mode[snap[s].dir] # "closed"
        BY <4>1 DEF TypeOK, Snapshot
      <4> QED
        BY <2>3, <4>1, <4>2, SnapStays
    <3> QED
      BY <3>1, <3>2
  <2>5. \A i \in Iters : IterOK(i)'
    <3> TAKE i \in Iters
    <3>1. CASE iter'[i] = Nil
      BY <3>1 DEF IterOK
    <3>2. CASE iter'[i] # Nil
      <4>1. iter'[i] = iter[i] /\ iter[i] # Nil /\ iter[i].dir # d
        BY <1>4, <3>2 DEF Close
      <4>2. /\ iter[i].dir \in Dirs /\ mode[iter[i].dir] # "closed"
            /\ iter[i].pos \in Present(IterView(i)) \union {Off}
        BY <4>1, PartsOf DEF Iterator, Types, IterOK
      <4> QED
        BY <2>3, <4>1, <4>2, IterStays
    <3> QED
      BY <3>1, <3>2
  <2>6. \A c \in Ckpts : CkptOK(c)'
    BY <1>4, PartsOf DEF Close, CkptOK, Types
  <2>7. \A e \in Dirs : RoptOK(e)'
    <3> TAKE e \in Dirs
    <3>1. CASE e = d
      BY <1>0, <1>4, <3>1 DEF Close, RoptOK, Types
    <3>2. CASE e # d
      <4>1. ropt'[e] = ropt[e]
        BY <1>0, <1>4, <3>2 DEF Close, Types
      <4>2. ropt[e] # Nil => ropt[e] \in Snaps /\ snap'[ropt[e]] \in {snap[ropt[e]], Nil}
        BY <1>0, <1>4 DEF Close, Types
      <4> QED
        BY <4>1, <4>2, PartsOf DEF RoptOK, Types
    <3> QED
      BY <3>1, <3>2
  <2> QED
    BY <2>1, <2>2, <2>4, <2>5, <2>6, <2>7, Parts
<1>5. ASSUME NEW d \in Dirs, NEW ops \in Seq(Updates), Commit(d, ops) PROVE TypeOK'
  <2>0. Effect(ops) \in Commits
    BY EffectType
  <2>1. log[d] \in Seq(Commits) /\ log[d] # Nil
    BY <1>5, LogType, PartsOf DEF Commit, DirOK
  <2>2. Append(log[d], Effect(ops)) \in Seq(Commits) /\ Len(Append(log[d], Effect(ops))) = Last(d) + 1
    BY <2>0, <2>1, OneMoreCommit, Zenon DEF Last
  <2>3. log' = [log EXCEPT ![d] = Append(log[d], Effect(ops))]
    BY <1>5 DEF Commit
  <2>4. Types'
    <3>1. log' \in [Dirs -> Seq(Commits) \union {Nil}]
      BY <1>0, <2>2, <2>3 DEF Types
    <3>2. synced' \in [Dirs -> Nat]
      BY <1>0, <1>5, <2>1, SMTT(20) DEF Types, Commit, SyncedBy, Last
    <3> QED
      BY <1>0, <1>5, <3>1, <3>2 DEF Types, Commit
  <2>5. \A e \in Dirs : DirOK(e)'
    <3> TAKE e \in Dirs
    <3>1. CASE e = d
      <4>1. log'[d] = Append(log[d], Effect(ops)) /\ log'[d] # Nil
        BY <2>2, <2>3, <1>0, NilAssumption, Zenon DEF Types
      <4>2. Last(d)' = Last(d) + 1 /\ Last(d) \in Nat
        BY <2>1, <2>2, <4>1, SMTT(20) DEF Last
      <4>3. synced'[d] <= Last(d) + 1
        <5>1. synced \in [Dirs -> Nat] /\ synced[d] <= Last(d)
          BY <2>1, FileTypes, Zenon
        <5>2. synced'[d] = Last(d) + 1 \/ synced'[d] = synced[d]
          BY <1>5, <5>1 DEF Commit, SyncedBy
        <5> QED
          BY <4>2, <5>1, <5>2, SMTT(20)
      <4> QED
        BY <3>1, <4>1, <4>2, <4>3 DEF DirOK
    <3>2. CASE e # d
      BY <1>5, <2>3, <3>2, PartsOf DEF Commit, DirOK, Last, Types
    <3> QED
      BY <3>1, <3>2
  <2>6. AllKept
    BY <1>5, CommitKeeps
  <2> QED
    BY <1>5, <2>4, <2>5, <2>6, UsersStay, Parts DEF Commit
<1>6. ASSUME NEW b \in Batches, QueueUpdate(b) \/ ClearBatch(b) PROVE TypeOK'
  <2>1. wb' \in [Batches -> Seq(Updates)]
    <3>1. CASE QueueUpdate(b)
      <4>1. PICK k \in Keys, v \in Vals \union {NoVal} :
              wb' = [wb EXCEPT ![b] = Append(@, [key |-> k, val |-> v])]
        BY <3>1, Zenon DEF QueueUpdate
      <4>2. [key |-> k, val |-> v] \in Updates
        BY DEF Updates
      <4> QED
        BY <1>0, <4>1, <4>2, SMTT(20) DEF Types
    <3>2. CASE ClearBatch(b)
      BY <1>0, <3>2, SMTT(20) DEF ClearBatch, Types
    <3> QED
      BY <1>6, <3>1, <3>2
  <2>2. UNCHANGED <<log, synced, mode, ropt, snap, iter, ckpt>>
    BY <1>6 DEF QueueUpdate, ClearBatch, files
  <2>3. Types'
    BY <1>0, <2>1, <2>2 DEF Types
  <2> QED
    BY <2>2, <2>3, QuietStep, Parts
<1>7. ASSUME NEW s \in Snaps, NEW d \in Dirs, NewSnapshot(s, d) PROVE TypeOK'
  <2> DEFINE new == [dir |-> d, at |-> Last(d)]
  <2>1. Last(d) \in Nat
    BY <1>7, LogType, PartsOf DEF NewSnapshot, DirOK
  <2>2. new \in Snapshot /\ new # Nil
    BY <2>1, NilAssumption, SMTT(20) DEF Snapshot
  <2>3. UNCHANGED <<log, synced, mode, ropt, iter, wb, ckpt>> /\ snap' = [snap EXCEPT ![s] = new]
    BY <1>7 DEF NewSnapshot, files
  <2> HIDE DEF new
  <2>4. Types'
    BY <1>0, <2>2, <2>3 DEF Types
  <2>5. snap'[s] = new /\ \A t \in Snaps \ {s} : snap'[t] = snap[t]
    BY <1>0, <2>3 DEF Types
  <2>6. \A t \in Snaps : SnapOK(t)'
    <3> TAKE t \in Snaps
    <3>1. CASE t = s
      <4>1. mode'[d] # "closed" /\ new.dir = d /\ new.at <= Len(log'[d])
        <5>1. mode[d] # "closed" /\ mode'[d] = mode[d] /\ log'[d] = log[d]
          BY <1>7, <2>3 DEF NewSnapshot
        <5> QED
          BY <2>1, <5>1, SMTT(20) DEF new, Last
      <4> QED
        BY <2>5, <3>1, <4>1 DEF SnapOK, Last
    <3>2. CASE t # s
      BY <2>3, <2>5, <3>2, PartsOf DEF SnapOK, Last, Types
    <3> QED
      BY <3>1, <3>2
  <2>7. \A e \in Dirs : RoptOK(e)'
    <3> TAKE e \in Dirs
    <3>1. ropt[e] # Nil => ropt[e] \in Snaps \ {s}
      BY <1>0, <1>7 DEF NewSnapshot, Types
    <3>2. ropt[e] # Nil => snap'[ropt[e]] = snap[ropt[e]]
      BY <2>5, <3>1
    <3> QED
      BY <2>3, <3>2, PartsOf DEF RoptOK, Types
  <2> QED
    BY <2>3, <2>4, <2>6, <2>7, QuietStep, Parts
<1>8. ASSUME NEW s \in Snaps, Release(s) PROVE TypeOK'
  <2>1. UNCHANGED <<log, synced, mode, ropt, iter, wb, ckpt>> /\ snap' = [snap EXCEPT ![s] = Nil]
    BY <1>8 DEF Release, files
  <2>2. Types'
    BY <1>0, <2>1 DEF Types
  <2>3. \A t \in Snaps : SnapOK(t)'
    BY <1>0, <2>1, PartsOf DEF SnapOK, Types, Last
  <2>4. \A e \in Dirs : RoptOK(e)'
    BY <1>0, <2>1, PartsOf DEF RoptOK, Types
  <2> QED
    BY <2>1, <2>2, <2>3, <2>4, QuietStep, Parts
<1>9. ASSUME NEW d \in Dirs, SetSnapshot(d) PROVE TypeOK'
  <2>1. UNCHANGED <<log, synced, mode, snap, iter, wb, ckpt>>
    BY <1>9 DEF SetSnapshot, files
  <2>2. Types'
    BY <1>0, <1>9, <2>1 DEF Types, SetSnapshot
  <2>3. PICK s \in Snaps \union {Nil} :
          /\ s # Nil /\ snap[s] # Nil => snap[s].dir = d
          /\ ropt' = [ropt EXCEPT ![d] = IF s # Nil /\ snap[s] # Nil THEN s ELSE Nil]
    BY <1>9, Zenon DEF SetSnapshot
  <2>4. \A e \in Dirs : RoptOK(e)'
    BY <1>0, <2>1, <2>3, PartsOf DEF RoptOK, Types
  <2> QED
    BY <2>1, <2>2, <2>4, QuietStep, Parts
<1>10. ASSUME NEW i \in Iters, NEW d \in Dirs, NewIterator(i, d) PROVE TypeOK'
  <2> DEFINE new == [dir |-> d, at |-> Last(d), pos |-> Off, scan |-> FALSE, seen |-> {}]
  <2>1. Last(d) \in Nat
    BY <1>10, LogType, PartsOf DEF NewIterator, DirOK
  <2>b. new \in Iterator
    BY <2>1, Zenon DEF Iterator, Off
  <2>2. new \in Iterator /\ new # Nil
    BY <2>b, NilAssumption, Zenon
  <2>3. UNCHANGED <<log, synced, mode, ropt, snap, wb, ckpt>> /\ iter' = [iter EXCEPT ![i] = new]
    BY <1>10, Zenon DEF NewIterator, files
  <2>a. mode'[d] # "closed" /\ new.dir = d /\ new.at <= Len(log'[d]) /\ new.pos = Off
    <3>1. mode[d] # "closed" /\ Len(log[d]) \in Nat
      BY <1>10, <2>1 DEF NewIterator, Last
    <3>3. mode' = mode /\ log' = log
      BY <2>3, Zenon
    <3>4. Len(log[d]) <= Len(log[d])
      BY <3>1, SMTT(20)
    <3>2. new.dir = d /\ new.at = Len(log[d]) /\ new.pos = Off
      BY DEF Last
    <3> HIDE DEF new
    <3> QED
      BY <3>1, <3>2, <3>3, <3>4, Zenon
  <2> HIDE DEF new
  <2>4. Types'
    BY <1>0, <2>2, <2>3 DEF Types
  <2>5. iter'[i] = new /\ \A j \in Iters \ {i} : iter'[j] = iter[j]
    BY <1>0, <2>3 DEF Types
  <2>6. \A j \in Iters : IterOK(j)'
    <3> TAKE j \in Iters
    <3>1. CASE j = i
      BY <2>5, <2>a, <3>1 DEF IterOK, Last
    <3>2. CASE j # i
      BY <2>3, <2>5, <3>2, PartsOf DEF IterOK, Last, Present, IterView, Types
    <3> QED
      BY <3>1, <3>2
  <2> QED
    BY <2>3, <2>4, <2>6, QuietStep, Parts
<1>11. ASSUME NEW i \in Iters, MovesIter(i) PROVE TypeOK'
  <2>1. iter[i] # Nil
    BY <1>11, MoveOf
  <2>2. PICK k \in Present(IterView(i)) \union {Off}, scan \in BOOLEAN, seen \in SUBSET Keys :
          Move(i, k, scan, seen)
    BY <1>11, MoveOf
  <2>3. UNCHANGED <<log, synced, mode, ropt, snap, wb, ckpt>>
    BY <2>2 DEF Move, files
  <2>4. /\ iter' \in [Iters -> Iterator \union {Nil}]
        /\ \A j \in Iters \ {i} : iter'[j] = iter[j]
        /\ iter'[i] # Nil /\ iter'[i].dir = iter[i].dir /\ iter'[i].at = iter[i].at
        /\ iter'[i].pos = k
    BY <2>1, <2>2, Moved
  <2>5. Types'
    BY <1>0, <2>3, <2>4 DEF Types
  <2>6. IterOK(i)'
    <3>1. iter[i].dir \in Dirs /\ mode[iter[i].dir] # "closed"
      BY <2>1, PartsOf DEF Iterator, Types, IterOK
    <3>2. Kept(iter[i].dir)
      BY <2>3, <3>1 DEF Kept
    <3> QED
      BY <2>1, <2>4, <3>2, IterStays
  <2>7. \A j \in Iters \ {i} : IterOK(j)'
    BY <2>3, <2>4, PartsOf DEF IterOK, Last, Present, IterView, Types
  <2> QED
    BY <2>3, <2>5, <2>6, <2>7, QuietStep, Parts
<1>12. ASSUME NEW i \in Iters, IterClose(i) PROVE TypeOK'
  <2>1. UNCHANGED <<log, synced, mode, ropt, snap, wb, ckpt>> /\ iter' = [iter EXCEPT ![i] = Nil]
    BY <1>12 DEF IterClose, files
  <2>2. Types'
    BY <1>0, <2>1 DEF Types
  <2>3. iter'[i] = Nil /\ \A j \in Iters \ {i} : iter'[j] = iter[j]
    BY <1>0, <2>1 DEF Types
  <2>4. \A j \in Iters : IterOK(j)'
    BY <2>1, <2>3, PartsOf DEF IterOK, Last, Present, IterView, Types
  <2> QED
    BY <2>1, <2>2, <2>4, QuietStep, Parts
<1>13. ASSUME NEW c \in Ckpts, DestroyCheckpoint(c) \/ \E d \in Dirs : NewCheckpoint(c, d)
       PROVE  TypeOK'
  <2>1. UNCHANGED <<log, synced, mode, ropt, snap, iter, wb>>
    BY <1>13, Zenon DEF DestroyCheckpoint, NewCheckpoint, files
  <2>2. Types'
    BY <1>0, <1>13, <2>1, Zenon DEF Types, DestroyCheckpoint, NewCheckpoint
  <2>3. \A x \in Ckpts : CkptOK(x)'
    <3> TAKE x \in Ckpts
    <3>1. ckpt[x] # Nil => mode[ckpt[x]] # "closed"
      BY PartsOf DEF CkptOK
    <3>2. CASE DestroyCheckpoint(c)
      <4>1. ckpt'[x] = Nil \/ ckpt'[x] = ckpt[x]
        BY <1>0, <3>2 DEF Types, DestroyCheckpoint
      <4> QED
        BY <2>1, <3>1, <4>1 DEF CkptOK
    <3>3. ASSUME NEW d \in Dirs, NewCheckpoint(c, d) PROVE CkptOK(x)'
      <4>1. (ckpt'[x] = d \/ ckpt'[x] = ckpt[x]) /\ mode[d] # "closed"
        BY <1>0, <3>3 DEF Types, NewCheckpoint
      <4> QED
        BY <2>1, <3>1, <4>1 DEF CkptOK
    <3> QED
      BY <1>13, <3>2, <3>3
  <2> QED
    BY <2>1, <2>2, <2>3, QuietStep, Parts
<1>14. ASSUME NEW c \in Ckpts, NEW e \in Dirs, Save(c, e) PROVE TypeOK'
  <2>1. ckpt[c] \in Dirs /\ log[ckpt[c]] # Nil
    BY <1>14 DEF Save, TypeOK
  <2>2. log[ckpt[c]] \in Seq(Commits) /\ Last(ckpt[c]) \in Nat
    BY <2>1, LogType
  <2>3. /\ log' = [log EXCEPT ![e] = log[ckpt[c]]]
        /\ synced' = [synced EXCEPT ![e] = Last(ckpt[c])]
        /\ UNCHANGED <<mode, ropt, snap, iter, wb, ckpt>>
    BY <1>14 DEF Save
  <2>4. Types'
    BY <1>0, <2>2, <2>3 DEF Types
  <2>5. \A d \in Dirs : DirOK(d)'
    <3> TAKE d \in Dirs
    <3>1. mode'[d] = mode[d] /\ (mode[d] # "closed" => log[d] # Nil)
      BY <2>3, PartsOf DEF DirOK
    <3>2. CASE d = e
      <4>1. log'[e] = log[ckpt[c]] /\ synced'[e] = Last(ckpt[c])
        BY <1>0, <2>3 DEF Types
      <4> QED
        <5>1. Last(e)' = Last(ckpt[c]) /\ log'[e] # Nil
          BY <2>1, <4>1, Zenon DEF Last
        <5> QED
          <6>1. synced'[e] <= Last(e)'
            BY <2>2, <4>1, <5>1, SMTT(20)
          <6> QED
            BY <3>2, <5>1, <6>1, Zenon DEF DirOK
    <3>3. CASE d # e
      <4>1. log'[d] = log[d] /\ synced'[d] = synced[d]
        BY <1>0, <2>3, <3>3 DEF Types
      <4>2. synced[d] <= IF log[d] = Nil THEN 0 ELSE Last(d)
        BY FileTypes, Zenon
      <4> QED
        BY <3>1, <4>1, <4>2, Zenon DEF DirOK, Last
    <3> QED
      BY <3>2, <3>3
  <2>7. AllKept
    BY <1>14, SaveKeeps
  <2> QED
    BY <2>3, <2>4, <2>5, <2>7, UsersStay, Parts
<1>15. ASSUME NEW d \in Dirs, WriteBack(d) PROVE TypeOK'
  <2>1. UNCHANGED <<log, mode, ropt, snap, iter, wb, ckpt>> /\ log[d] # Nil
    BY <1>15 DEF WriteBack
  <2>2. PICK n \in synced[d] + 1 .. Last(d) : synced' = [synced EXCEPT ![d] = n]
    BY <1>15, Zenon DEF WriteBack
  <2>3. synced[d] \in Nat /\ Last(d) \in Nat
    BY <2>1, LogType, PartsOf DEF Types
  <2>4. n \in Nat /\ n <= Last(d)
    BY <2>2, <2>3, SMTT(20)
  <2>5. Types'
    BY <1>0, <2>1, <2>2, <2>4 DEF Types
  <2>6. \A e \in Dirs : DirOK(e)'
    BY <2>1, <2>2, <2>4, PartsOf DEF DirOK, Last, Types
  <2>7. AllKept
    BY <2>1 DEF AllKept, Kept
  <2> QED
    BY <2>1, <2>5, <2>6, <2>7, UsersStay, Parts, Zenon
<1>16. CASE Crash
  <2>1. PICK n \in [Dirs -> 0 .. MaxCommits] :
          /\ \A d \in Dirs : n[d] \in IF log[d] = Nil THEN {0} ELSE synced[d] .. Last(d)
          /\ log' = [d \in Dirs |-> IF log[d] = Nil THEN Nil ELSE SubSeq(log[d], 1, n[d])]
          /\ synced' = n
    BY <1>16, Zenon DEF Crash
  <2>0. /\ mode' = [d \in Dirs |-> "closed"] /\ ropt' = [d \in Dirs |-> Nil]
        /\ snap' = [s \in Snaps |-> Nil] /\ iter' = [i \in Iters |-> Nil]
        /\ wb' = [b \in Batches |-> <<>>] /\ ckpt' = [c \in Ckpts |-> Nil]
    BY <1>16, Zenon DEF Crash
  <2>2. ASSUME NEW d \in Dirs, log[d] # Nil
        PROVE  n[d] \in 0 .. Len(log[d]) /\ log[d] \in Seq(Commits)
    <3>1. log[d] \in Seq(Commits) /\ Last(d) \in Nat /\ synced[d] \in Nat
      BY <2>2, LogType, PartsOf DEF Types
    <3> QED
      BY <2>1, <2>2, <3>1, SMTT(20) DEF Last
  <2>3. ASSUME NEW d \in Dirs, log[d] # Nil
        PROVE  /\ log'[d] = SubSeq(log[d], 1, n[d])
               /\ log'[d] \in Seq(Commits) /\ Len(log'[d]) = n[d]
    BY <2>1, <2>2, <2>3, ViewSubSeq
  <2>4. ASSUME NEW d \in Dirs PROVE synced'[d] \in Nat /\ log'[d] \in Seq(Commits) \union {Nil}
    BY <2>1, <2>2, <2>3, SMTT(20)
  <2>5. Types'
    <3>1. log' \in [Dirs -> Seq(Commits) \union {Nil}] /\ synced' \in [Dirs -> Nat]
      BY <2>1, <2>4
    <3> QED
      BY <2>0, <3>1, SMTT(20) DEF Types
  <2>6. \A d \in Dirs : DirOK(d)'
    <3> TAKE d \in Dirs
    <3>1. CASE log[d] = Nil
      <4>1. log'[d] = Nil /\ synced'[d] = 0
        BY <2>1, <3>1
      <4> QED
        BY <2>0, <4>1, SMTT(20) DEF DirOK
    <3>2. CASE log[d] # Nil
      <4>1. Len(log'[d]) = n[d] /\ n[d] \in Nat /\ log'[d] # Nil
        BY <2>2, <2>3, <3>2, NilAssumption, SMTT(20)
      <4>2. synced'[d] <= Last(d)'
        BY <2>1, <4>1, SMTT(20) DEF Last
      <4> QED
        BY <4>1, <4>2, Zenon DEF DirOK
    <3> QED
      BY <3>1, <3>2
  <2>7. /\ \A d \in Dirs : RoptOK(d)'
        /\ \A s \in Snaps : SnapOK(s)'
        /\ \A i \in Iters : IterOK(i)'
        /\ \A c \in Ckpts : CkptOK(c)'
    BY <2>0 DEF RoptOK, SnapOK, IterOK, CkptOK
  <2> QED
    BY <2>5, <2>6, <2>7, Parts
<1>17. ASSUME NEW d \in Dirs,
              SetOne(d) \/ Delete(d) \/ \E b \in Batches : WriteBatch(d, b)
       PROVE  TypeOK'
  BY <1>5, <1>17, CommitOf
<1> QED
  BY <1>1, <1>2, <1>3, <1>4, <1>6, <1>7, <1>8, <1>9, <1>10, <1>11, <1>12, <1>13, <1>14,
     <1>15, <1>16, <1>17
     DEF Next, MovesIter

\* Every variable keeps its type; a snapshot, an iterator and a checkpoint belong
\* to a store that is open, and no position is beyond the end of its log.
THEOREM TypeCorrect == Spec => []TypeOK
  BY TypeInit, TypeNext, PTL DEF Spec

\* Writing a batch (rdb/write_batch.go, rdb_write) leaves the database as its
\* puts and deletes applied one by one would, however long the batch and however
\* often a key is repeated in it.
THEOREM BatchesApplyInOrder == Spec => []BatchAppliesInOrder
<1>1. TypeOK => BatchAppliesInOrder
  <2> SUFFICES ASSUME TypeOK, NEW d \in Dirs, NEW b \in Batches, log[d] # Nil
               PROVE  View(Append(log[d], Effect(wb[b])), Last(d) + 1)
                        = Applied(View(log[d], Last(d)), wb[b])
    BY DEF BatchAppliesInOrder
  <2>1. log[d] \in Seq(Commits) /\ wb[b] \in Seq(Updates)
    BY LogType, PartsOf DEF Types
  <2> QED
    BY <2>1, CommitApplies, Zenon DEF Last
<1> QED
  BY <1>1, TypeCorrect, PTL

-----------------------------------------------------------------------------
(* Scans *)

\* What a step does to an iterator that is there afterwards.
LEMMA IterSteps ==
  ASSUME TypeOK, [Next]_vars, NEW i \in Iters, iter'[i] # Nil
  PROVE  \/ iter[i] # Nil /\ iter'[i] = iter[i] /\ Kept(iter[i].dir)
         \/ MovesIter(i)
         \/ \E d \in Dirs : NewIterator(i, d)
<1> DEFINE Stays == iter[i] # Nil /\ iter'[i] = iter[i] /\ Kept(iter[i].dir)
<1>1. ASSUME AllKept, iter'[i] = iter[i] PROVE Stays
  <2>1. iter[i].dir \in Dirs /\ mode[iter[i].dir] # "closed"
    BY <1>1, PartsOf, Zenon DEF Iterator, Types, IterOK
  <2> QED
    BY <1>1, <2>1 DEF AllKept
<1>2. ASSUME UNCHANGED <<log, synced, mode>>, iter'[i] = iter[i] PROVE Stays
  BY <1>1, <1>2, QuietStep
<1> HIDE DEF Stays
<1> DEFINE Result == Stays \/ MovesIter(i) \/ \E d \in Dirs : NewIterator(i, d)
<1>3. ASSUME UNCHANGED vars PROVE Stays
  BY <1>2, <1>3 DEF vars
<1>4. ASSUME NEW d \in Dirs, Get(d) \/ SetSnapshot(d) PROVE Stays
  BY <1>2, <1>4, Zenon DEF Get, SetSnapshot, files
<1>5. ASSUME NEW d \in Dirs, NewStore(d) PROVE Stays
  BY <1>1, <1>5, OpenKeeps, OpenOf
<1>6. ASSUME NEW d \in Dirs, Close(d) PROVE Stays
  <2>1. iter'[i] = iter[i] /\ iter[i] # Nil /\ iter[i].dir # d
    BY <1>6, Zenon DEF Close
  <2>2. iter[i].dir \in Dirs /\ mode[iter[i].dir] # "closed"
    BY <2>1, PartsOf DEF Iterator, Types, IterOK
  <2>3. Kept(iter[i].dir)
    BY <1>6, <2>1, <2>2, PartsOf DEF Close, files, Kept, Types
  <2> QED
    BY <2>1, <2>3, Zenon DEF Stays
<1>7. ASSUME NEW d \in Dirs, SetOne(d) \/ Delete(d) \/ \E b \in Batches : WriteBatch(d, b)
      PROVE  Stays
  <2>1. PICK ops \in Seq(Updates) : Commit(d, ops)
    BY <1>7, CommitOf
  <2> QED
    BY <1>1, <2>1, CommitKeeps, Zenon DEF Commit
<1>8. ASSUME NEW d \in Dirs, WriteBack(d) PROVE Stays
  BY <1>1, <1>8 DEF WriteBack, AllKept, Kept
<1>9. ASSUME NEW b \in Batches, QueueUpdate(b) \/ ClearBatch(b) PROVE Stays
  BY <1>2, <1>9 DEF QueueUpdate, ClearBatch, files
<1>10. ASSUME NEW s \in Snaps, Release(s) \/ \E d \in Dirs : NewSnapshot(s, d) PROVE Stays
  BY <1>2, <1>10 DEF Release, NewSnapshot, files
<1>11. ASSUME NEW c \in Ckpts, DestroyCheckpoint(c) \/ \E d \in Dirs : NewCheckpoint(c, d)
       PROVE  Stays
  BY <1>2, <1>11 DEF DestroyCheckpoint, NewCheckpoint, files
<1>12. ASSUME NEW c \in Ckpts, NEW e \in Dirs, Save(c, e) PROVE Stays
  BY <1>1, <1>12, SaveKeeps, Zenon DEF Save
<1>13. ~Crash
  BY DEF Crash
<1>14. ASSUME NEW j \in Iters,
              MovesIter(j) \/ IterClose(j) \/ \E d \in Dirs : NewIterator(j, d)
       PROVE  Result
  <2>1. CASE j = i
    <3>1. ~IterClose(i)
      BY PartsOf DEF IterClose, Types
    <3> QED
      BY <1>14, <2>1, <3>1
  <2>2. CASE j # i
    <3>1. UNCHANGED <<log, synced, mode>> /\ iter'[i] = iter[i]
      <4>1. CASE MovesIter(j)
        <5>1. PICK k \in Present(IterView(j)) \union {Off}, scan \in BOOLEAN, seen \in SUBSET Keys :
                Move(j, k, scan, seen)
          BY <4>1, MoveOf
        <5> QED
          BY <2>2, <5>1, PartsOf DEF Move, files, Types
      <4>2. CASE IterClose(j) \/ \E d \in Dirs : NewIterator(j, d)
        BY <2>2, <4>2, PartsOf, Zenon DEF IterClose, NewIterator, files, Types
      <4> QED
        BY <1>14, <4>1, <4>2, Zenon
    <3> QED
      BY <1>2, <3>1
  <2> QED
    BY <2>1, <2>2
<1>a. Stays => Result
  OBVIOUS
<1> HIDE DEF Result
<1>15. Result
  BY <1>a, <1>3, <1>4, <1>5, <1>6, <1>7, <1>8, <1>9, <1>10, <1>11, <1>12, <1>13, <1>14
     DEF Next, MovesIter
<1> QED
  BY <1>15 DEF Stays, Result

\* What a scan of iterator i has met.
ScanOK(i) ==
    iter[i] # Nil /\ iter[i].scan =>
        iter[i].seen = {k \in Present(IterView(i)) : iter[i].pos # Off => k <= iter[i].pos}

ScansOK == \A i \in Iters : ScanOK(i)

\* What a Move makes of the scan of iterator i.
LEMMA MoveScans ==
  ASSUME TypeOK, NEW i \in Iters, iter[i] # Nil, NEW k, NEW scan, NEW seen,
         Move(i, k, scan, seen)
  PROVE  /\ IterView(i)' = IterView(i)
         /\ iter'[i].pos = k
         /\ iter'[i].scan = scan
         /\ scan => iter'[i].seen = seen \union ({k} \ {Off})
<1>1. iter'[i] = [dir |-> iter[i].dir, at |-> iter[i].at, pos |-> k, scan |-> scan,
                  seen |-> IF scan THEN seen \union ({k} \ {Off}) ELSE {}]
  BY PartsOf DEF Move, Types
<1>2. iter'[i].dir = iter[i].dir /\ iter'[i].at = iter[i].at /\ UNCHANGED log
  BY <1>1, SMTT(20) DEF Move, files
<1>3. IterView(i)' = IterView(i)
  BY <1>2 DEF IterView
<1>4. iter'[i].pos = k /\ iter'[i].scan = scan
  BY <1>1, SMTT(20)
<1>5. scan => iter'[i].seen = seen \union ({k} \ {Off})
  BY <1>1, SMTT(20)
<1> QED
  BY <1>3, <1>4, <1>5, Zenon

\* Every step keeps the scans complete as far as they have come: SeekToFirst and
\* Next leave out no key of the view, which commits do not change.
LEMMA ScanNext == TypeOK /\ ScansOK /\ [Next]_vars => ScansOK'
<1> SUFFICES ASSUME TypeOK, ScansOK, [Next]_vars, NEW i \in Iters, iter'[i] # Nil
             PROVE  ScanOK(i)'
  BY DEF ScansOK, ScanOK
<1> DEFINE P == Present(IterView(i))
<1>0. P \in SUBSET Keys /\ Keys \subseteq Nat \ {0}
  BY KeysAssumption DEF Present
<1>1. CASE iter[i] # Nil /\ iter'[i] = iter[i] /\ Kept(iter[i].dir)
  <2>1. IterView(i)' = IterView(i)
    BY <1>1, IterStays
  <2> QED
    BY <1>1, <2>1 DEF ScansOK, ScanOK, Present
<1>2. CASE \E d \in Dirs : NewIterator(i, d)
  <2>1. PICK d \in Dirs :
          iter' = [iter EXCEPT ![i] = [dir |-> d, at |-> Last(d), pos |-> Off,
                                       scan |-> FALSE, seen |-> {}]]
    BY <1>2, Zenon DEF NewIterator
  <2>2. DOMAIN iter = Iters
    BY PartsOf, Zenon DEF Types
  <2>3. iter'[i].scan = FALSE
    BY <2>1, <2>2
  <2> QED
    BY <2>3, Zenon DEF ScanOK
<1>3. CASE SeekToLast(i) \/ Seek(i) \/ SeekForPrev(i) \/ IterPrev(i)
  <2>1. iter[i] # Nil /\ \E k : Move(i, k, FALSE, {})
    BY <1>3, Zenon DEF SeekToLast, Seek, SeekForPrev, IterPrev, Valid
  <2>2. iter'[i].scan = FALSE
    BY <2>1, MoveScans, Zenon
  <2> QED
    BY <2>2 DEF ScanOK
<1>4. CASE SeekToFirst(i)
  <2> DEFINE k == First(P)
  <2>1. iter[i] # Nil /\ Move(i, k, TRUE, {})
    BY <1>4, Zenon DEF SeekToFirst
  <2>2. /\ k \in P \union {Off} /\ (k = Off => P = {})
        /\ P # {} => \A j \in P : k <= j
    BY <1>0, Ends, Zenon
  <2> HIDE DEF k, P
  <2>3. IterView(i)' = IterView(i) /\ iter'[i].pos = k /\ iter'[i].seen = {} \union ({k} \ {Off})
    BY <2>1, MoveScans, Zenon
  <2>4. {k} \ {Off} = {j \in P : k # Off => j <= k}
    <3>1. CASE k = Off
      BY <2>2, <3>1
    <3>2. CASE k # Off
      <4>1. k \in P /\ P \subseteq Nat /\ \A j \in P : k <= j
        BY <1>0, <2>2, <3>2
      <4>2. \A j \in P : j <= k <=> j = k
        BY <4>1, SMTT(20)
      <4> QED
        BY <3>2, <4>1, <4>2, Zenon
    <3> QED
      BY <3>1, <3>2
  <2> QED
    BY <2>3, <2>4 DEF ScanOK, P, Present
<1>5. CASE IterNext(i)
  <2> DEFINE Q == {j \in P : j > iter[i].pos}
             k == First(Q)
  <2>1. Valid(i) /\ iter[i] # Nil /\ Move(i, k, iter[i].scan, iter[i].seen)
    BY <1>5 DEF IterNext, Valid
  <2>2. iter[i].pos \in P /\ iter[i].pos # Off
    BY <2>1, PartsOf DEF Valid, IterOK
  <2>3. /\ k \in Q \union {Off} /\ (k = Off => Q = {})
        /\ Q # {} => \A j \in Q : k <= j
    BY <1>0, Ends, Zenon
  <2> HIDE DEF k, P
  <2>4. /\ IterView(i)' = IterView(i) /\ iter'[i].pos = k /\ iter'[i].scan = iter[i].scan
        /\ iter[i].scan => iter'[i].seen = iter[i].seen \union ({k} \ {Off})
    <3> HIDE DEF Q
    <3>1. PICK scan, seen : scan = iter[i].scan /\ seen = iter[i].seen
      BY Zenon
    <3>2. Move(i, k, scan, seen) /\ iter[i] # Nil
      BY <2>1, <3>1
    <3>3. /\ IterView(i)' = IterView(i) /\ iter'[i].pos = k /\ iter'[i].scan = scan
          /\ scan => iter'[i].seen = seen \union ({k} \ {Off})
      BY <3>2, MoveScans, Zenon
    <3> QED
      BY <3>1, <3>3, Zenon
  <2>5. iter[i].scan => iter[i].seen = {j \in P : j <= iter[i].pos}
    BY <2>1, <2>2 DEF ScansOK, ScanOK, P
  <2>6. {j \in P : j <= iter[i].pos} \union ({k} \ {Off}) = {j \in P : k # Off => j <= k}
    <3>0. P \subseteq Nat /\ iter[i].pos \in Nat
      BY <1>0, <2>2, Zenon
    <3>1. k \in P \union {Off}
      BY <2>3
    <3>2. ASSUME NEW j \in P, j <= iter[i].pos, k # Off PROVE j <= k
      <4>1. k \in P /\ k > iter[i].pos
        BY <2>3, <3>2
      <4>2. j \in Nat /\ k \in Nat
        BY <3>0, <4>1
      <4> HIDE DEF Q
      <4> QED
        BY <3>0, <3>2, <4>1, <4>2, SMTT(20)
    <3>3. ASSUME NEW j \in P, k # Off => j <= k, ~(j <= iter[i].pos) PROVE j \in {k} \ {Off}
      <4>1. j \in Q
        BY <3>0, <3>3, SMTT(20)
      <4>2. k # Off /\ k <= j /\ k \in P
        BY <2>3, <4>1
      <4> QED
        BY <3>0, <3>3, <4>2, SMTT(20)
    <3>4. k # Off => k <= k
      BY <3>0, <3>1, SMTT(20)
    <3> QED
      BY <3>1, <3>2, <3>3, <3>4
  <2>7. iter'[i].scan => iter'[i].seen = {j \in P : iter'[i].pos # Off => j <= iter'[i].pos}
    BY <2>4, <2>5, <2>6
  <2> QED
    BY <2>4, <2>7 DEF ScanOK, P, Present
<1> QED
  BY <1>1, <1>2, <1>3, <1>4, <1>5, IterSteps, Zenon DEF MovesIter

\* A full scan meets exactly the keys its database had when the iterator was
\* made, for any number of keys, iterators and commits during the scan.
THEOREM ScansAreComplete == Spec => []ScanIsComplete
<1>1. Init => ScansOK
  BY DEF Init, ScansOK, ScanOK
<1>2. ScansOK => ScanIsComplete
  BY DEF ScansOK, ScanOK, ScanIsComplete, IterView
<1> QED
  BY <1>1, <1>2, ScanNext, TypeInit, TypeNext, PTL DEF Spec

-----------------------------------------------------------------------------
(* RocksStore implements KVStore. *)

\* The dictionary of a directory.
LEMMA DictOf ==
  ASSUME TypeOK, NEW d \in Dirs
  PROVE  /\ dict[d] = Nil <=> log[d] = Nil
         /\ log[d] # Nil => /\ dict[d] = View(log[d], Last(d))
                            /\ dict[d] \in Dictionary
                            /\ safe[d] = {View(log[d], n) : n \in synced[d] .. Last(d)}
<1>1. CASE log[d] = Nil
  BY <1>1 DEF dict
<1>2. CASE log[d] # Nil
  <2>1. log[d] \in Seq(Commits) /\ Last(d) \in 0 .. Len(log[d])
    BY <1>2, LogType, SMTT(20) DEF Last
  <2>2. dict[d] = View(log[d], Last(d)) /\ dict[d] \in Dictionary
    BY <1>2, <2>1, ViewType DEF dict
  <2>3. dict[d] # Nil
    BY <2>2, NilAssumption
  <2> QED
    BY <1>2, <2>2, <2>3 DEF safe
<1> QED
  BY <1>1, <1>2

\* The records that snapshots and iterators are mapped to.
LEMMA FrozenType ==
  ASSUME NEW d \in Dirs, NEW v \in Dictionary
  PROVE  /\ [dir |-> d, dict |-> v] \in [dir : Dirs, dict : Dictionary]
         /\ \A p \in Nat : [dir |-> d, dict |-> v, pos |-> p]
                              \in [dir : Dirs, dict : Dictionary, pos : Nat]
  OBVIOUS

\* A part of a log that ends where it ends.
LEMMA SubInterval ==
  ASSUME NEW a \in Nat, NEW b \in Nat, NEW n \in a .. b
  PROVE  n \in 0 .. b
  BY SMTT(20)

\* The dictionary of a snapshot.
LEMMA FrozenOf ==
  ASSUME TypeOK, NEW s \in Snaps
  PROVE  /\ frozen[s] = Nil <=> snap[s] = Nil
         /\ snap[s] # Nil => /\ frozen[s].dir = snap[s].dir
                             /\ frozen[s].dict = View(log[snap[s].dir], snap[s].at)
<1>1. CASE snap[s] = Nil
  BY <1>1 DEF frozen
<1>2. CASE snap[s] # Nil
  <2>1. snap[s].dir \in Dirs /\ snap[s].at \in Nat
    BY <1>2, PartsOf DEF Snapshot, Types
  <2>2. log[snap[s].dir] # Nil /\ snap[s].at <= Last(snap[s].dir)
    BY <1>2, <2>1, PartsOf DEF Types, DirOK, SnapOK
  <2>3. View(log[snap[s].dir], snap[s].at) \in Dictionary
    BY <2>1, <2>2, LogType, ViewType, SMTT(20) DEF Last
  <2>4. frozen[s] = [dir |-> snap[s].dir, dict |-> View(log[snap[s].dir], snap[s].at)]
    BY <1>2 DEF frozen
  <2>5. frozen[s] \in [dir : Dirs, dict : Dictionary]
    BY <2>1, <2>3, <2>4, FrozenType, Zenon
  <2>6. frozen[s] # Nil
    BY <2>5, NilAssumption, Zenon
  <2>7. frozen[s].dir = snap[s].dir /\ frozen[s].dict = View(log[snap[s].dir], snap[s].at)
    BY <2>4, SMTT(20)
  <2> QED
    BY <1>2, <2>6, <2>7, Zenon
<1> QED
  BY <1>1, <1>2

\* The dictionary and the position of an iterator.
LEMMA CursorOf ==
  ASSUME TypeOK, NEW i \in Iters
  PROVE  /\ cursor[i] = Nil <=> iter[i] = Nil
         /\ iter[i] # Nil =>
              /\ cursor[i] = [dir |-> iter[i].dir, dict |-> IterView(i), pos |-> iter[i].pos]
              /\ cursor[i].dir = iter[i].dir
              /\ cursor[i].dict = IterView(i)
<1>1. CASE iter[i] = Nil
  BY <1>1 DEF cursor
<1>2. CASE iter[i] # Nil
  <2>1. iter[i].dir \in Dirs /\ iter[i].at \in Nat /\ iter[i].pos \in Nat
    BY <1>2, PartsOf DEF Iterator, Types
  <2>2. log[iter[i].dir] # Nil /\ iter[i].at <= Last(iter[i].dir)
    BY <1>2, <2>1, PartsOf DEF Types, DirOK, IterOK
  <2>3. IterView(i) \in Dictionary
    BY <2>1, <2>2, LogType, ViewType, SMTT(20) DEF Last, IterView
  <2>4. cursor[i] = [dir |-> iter[i].dir, dict |-> IterView(i), pos |-> iter[i].pos]
    BY <1>2 DEF cursor
  <2>5. cursor[i] \in [dir : Dirs, dict : Dictionary, pos : Nat]
    BY <2>1, <2>3, <2>4, FrozenType, Zenon
  <2>6. cursor[i] # Nil
    BY <2>5, NilAssumption, Zenon
  <2>7. cursor[i].dir = iter[i].dir /\ cursor[i].dict = IterView(i)
    BY <2>4, SMTT(20)
  <2> QED
    BY <1>2, <2>4, <2>6, <2>7, Zenon
<1> QED
  BY <1>1, <1>2

\* The mapping of what a step leaves alone.
LEMMA SameFiles ==
  ASSUME UNCHANGED <<log, synced>>
  PROVE  dict' = dict /\ safe' = safe
  BY DEF dict, safe, Last

\* Snapshots stay frozen.
LEMMA SameFrozen ==
  ASSUME TypeOK, AllKept, UNCHANGED snap
  PROVE  frozen' = frozen
<1>1. ASSUME NEW s \in Snaps, snap[s] # Nil
      PROVE  View(log'[snap[s].dir], snap[s].at) = View(log[snap[s].dir], snap[s].at)
  <2>1. snap[s].dir \in Dirs /\ mode[snap[s].dir] # "closed"
    BY <1>1, PartsOf DEF Snapshot, Types, SnapOK
  <2> QED
    BY <1>1, <2>1, SnapStays DEF AllKept
<1> QED
  BY <1>1 DEF frozen

\* So do the views of iterators.
LEMMA SameCursor ==
  ASSUME TypeOK, AllKept, UNCHANGED iter
  PROVE  cursor' = cursor
<1>1. ASSUME NEW i \in Iters, iter[i] # Nil
      PROVE  IterView(i)' = IterView(i)
  <2>1. iter[i].dir \in Dirs /\ mode[iter[i].dir] # "closed"
    BY <1>1, PartsOf DEF Iterator, Types, IterOK
  <2> QED
    BY <1>1, <2>1, IterStays DEF AllKept
<1> QED
  BY <1>1 DEF cursor

\* A step that changes neither files nor modes.
LEMMA SameQuiet ==
  ASSUME TypeOK, UNCHANGED <<log, synced, mode>>
  PROVE  /\ dict' = dict /\ safe' = safe
         /\ UNCHANGED snap => frozen' = frozen
         /\ UNCHANGED iter => cursor' = cursor
  BY QuietStep, SameFiles, SameFrozen, SameCursor

\* Init maps to the initial state of KVStore.
LEMMA RefinesInit == Init => KV!Init
  BY DEF Init, KV!Init, dict, safe, frozen, cursor

\* A Get reads what KVStore lets it read.
LEMMA GetReads ==
  ASSUME TypeOK, NEW d \in Dirs, Get(d)
  PROVE  KV!Read(d)
<1>1. Readable(d) = KV!Seen(d)
  <2>1. CASE ropt[d] = Nil
    <3>1. log[d] # Nil
      BY PartsOf DEF Get, DirOK
    <3> QED
      BY <2>1, <3>1, DictOf DEF Readable, KV!Seen
  <2>2. CASE ropt[d] # Nil
    <3>1. ropt[d] \in Snaps
      BY <2>2, PartsOf DEF Types
    <3>2. /\ frozen[ropt[d]] = Nil <=> snap[ropt[d]] = Nil
          /\ snap[ropt[d]] # Nil =>
                frozen[ropt[d]].dict = View(log[snap[ropt[d]].dir], snap[ropt[d]].at)
      BY <3>1, FrozenOf
    <3>3. snap[ropt[d]] # Nil => snap[ropt[d]].dir = d
      BY <2>2, <3>1, PartsOf DEF RoptOK
    <3>4. CASE snap[ropt[d]] = Nil
      BY <2>2, <3>2, <3>4, Zenon DEF Readable, KV!Seen, KV!Dictionary
    <3>5. CASE snap[ropt[d]] # Nil
      <4>1. Readable(d) = {View(log[d], snap[ropt[d]].at)}
        BY <2>2, <3>5 DEF Readable
      <4>2. KV!Seen(d) = {frozen[ropt[d]].dict}
        BY <2>2, <3>2, <3>5 DEF KV!Seen
      <4> QED
        BY <3>2, <3>3, <3>5, <4>1, <4>2
    <3> QED
      BY <3>4, <3>5
  <2> QED
    BY <2>1, <2>2
<1>2. UNCHANGED <<log, synced, mode, ropt, snap, iter>>
  BY DEF Get, files
<1>3. dict' = dict /\ safe' = safe /\ frozen' = frozen /\ cursor' = cursor
  BY <1>2, SameQuiet
<1> QED
  BY <1>1, <1>2, <1>3 DEF Get, rdb_get, KV!Read

\* The mapping of a step that changes the files of one directory.
LEMMA SafeUpdate ==
  ASSUME NEW d \in Dirs, \A e \in Dirs \ {d} : safe'[e] = safe[e]
  PROVE  safe' = [safe EXCEPT ![d] = safe'[d]]
<1> DEFINE f(e) == IF log[e] = Nil THEN {} ELSE {View(log[e], n) : n \in synced[e] .. Last(e)}
           g(e) == IF log'[e] = Nil THEN {} ELSE {View(log'[e], n) : n \in synced'[e] .. Len(log'[e])}
<1>1. safe = [e \in Dirs |-> f(e)] /\ safe' = [e \in Dirs |-> g(e)]
  BY DEF safe, Last
<1> HIDE DEF f, g
<1> QED
  BY <1>1

\* The mapping of a step that changes one snapshot.
LEMMA FrozenUpdate ==
  ASSUME NEW s \in Snaps, \A t \in Snaps \ {s} : frozen'[t] = frozen[t]
  PROVE  frozen' = [frozen EXCEPT ![s] = frozen'[s]]
<1>1. DOMAIN frozen = Snaps /\ DOMAIN frozen' = Snaps
  BY DEF frozen
<1>2. frozen = [t \in Snaps |-> frozen[t]] /\ frozen' = [t \in Snaps |-> frozen'[t]]
  BY DEF frozen
<1> QED
  BY <1>1, <1>2

\* The mapping of a step that changes one iterator.
LEMMA CursorUpdate ==
  ASSUME NEW i \in Iters, \A j \in Iters \ {i} : cursor'[j] = cursor[j]
  PROVE  cursor' = [cursor EXCEPT ![i] = cursor'[i]]
<1>1. DOMAIN cursor = Iters /\ DOMAIN cursor' = Iters
  BY DEF cursor
<1>2. cursor = [j \in Iters |-> cursor[j]] /\ cursor' = [j \in Iters |-> cursor'[j]]
  BY DEF cursor
<1> QED
  BY <1>1, <1>2

\* NewStore, NewSyncStore and NewReadOnlyStore open.
LEMMA NewStoreOpens ==
  ASSUME TypeOK, TypeOK', NEW d \in Dirs, NewStore(d)
  PROVE  KV!Open(d)
<1>1. /\ mode[d] = "closed"
      /\ \E m \in {"rw", "sync", "ro"} : mode' = [mode EXCEPT ![d] = m]
      /\ Opened(d)
      /\ UNCHANGED <<synced, ropt, snap, iter>>
  BY OpenOf
<1>2. frozen' = frozen /\ cursor' = cursor
  BY <1>1, OpenKeeps, SameFrozen, SameCursor
<1>3. CASE log[d] # Nil /\ log' = log
  <2>1. dict' = dict /\ safe' = safe /\ dict[d] # Nil
    BY <1>1, <1>3, SameFiles, DictOf
  <2> QED
    BY <1>1, <1>2, <2>1, Zenon DEF KV!Open
<1>4. CASE log[d] = Nil /\ log' = [log EXCEPT ![d] = <<>>]
  <2> DEFINE empty == [k \in Keys |-> NoVal]
  <2>1. log'[d] = <<>> /\ log'[d] # Nil /\ \A e \in Dirs \ {d} : log'[e] = log[e]
    <3>1. log'[d] = <<>> /\ \A e \in Dirs \ {d} : log'[e] = log[e]
      BY <1>4, PartsOf DEF Types
    <3>2. <<>> \in Seq(Commits)
      BY SMTT(20)
    <3> QED
      BY <3>1, <3>2, NilAssumption, Zenon
  <2>2. synced'[d] = 0 /\ Len(log'[d]) = 0
    <3>1. synced[d] \in Nat /\ synced[d] <= 0
      BY <1>4, FileTypes
    <3> QED
      BY <1>1, <2>1, <3>1, SMTT(20)
  <2>3. View(log'[d], Len(log'[d])) = empty
    BY <2>1, <2>2, ViewEmpty
  <2> HIDE DEF empty
  <2>4. dict' = [dict EXCEPT ![d] = empty]
    BY <2>1, <2>3, Zenon DEF dict, Last
  <2>5. {View(log'[d], n) : n \in synced'[d] .. Len(log'[d])} = {empty}
    <3>1. synced'[d] .. Len(log'[d]) = {0}
      BY <2>2, SMTT(20)
    <3> QED
      BY <2>2, <2>3, <3>1
  <2>6. safe' = [safe EXCEPT ![d] = {empty}]
    <3>1. safe'[d] = {empty}
      BY <2>1, <2>5, Zenon DEF safe, Last
    <3>2. \A e \in Dirs \ {d} : safe'[e] = safe[e]
      <4> TAKE e \in Dirs \ {d}
      <4>1. log'[e] = log[e] /\ synced'[e] = synced[e]
        BY <1>1, <2>1, Zenon
      <4> QED
        BY <4>1, Zenon DEF safe, Last
    <3> QED
      BY <3>1, <3>2, SafeUpdate
  <2>7. dict[d] = Nil /\ dict'[d] = empty
    BY <1>4, <2>4, DictOf, Zenon DEF dict
  <2> QED
    BY <1>1, <1>2, <2>4, <2>6, <2>7, Zenon DEF KV!Open, empty
<1> QED
  BY <1>1, <1>3, <1>4 DEF Opened

\* Close closes, and what was made from the store is gone.
LEMMA CloseCloses ==
  ASSUME TypeOK, NEW d \in Dirs, Close(d)
  PROVE  KV!Close(d)
<1>1. UNCHANGED <<log, synced>>
  BY DEF Close, files
<1>2. dict' = dict /\ safe' = safe
  BY <1>1, SameFiles
<1>3. frozen' = [s \in Snaps |-> IF frozen[s] # Nil /\ frozen[s].dir = d THEN Nil ELSE frozen[s]]
  <2>1. ASSUME NEW s \in Snaps
        PROVE  frozen'[s] = IF frozen[s] # Nil /\ frozen[s].dir = d THEN Nil ELSE frozen[s]
    <3>1. snap'[s] = IF snap[s] # Nil /\ snap[s].dir = d THEN Nil ELSE snap[s]
      BY DEF Close
    <3>2. frozen'[s] = IF snap'[s] = Nil THEN Nil
                       ELSE [dir |-> snap'[s].dir, dict |-> View(log[snap'[s].dir], snap'[s].at)]
      BY <1>1 DEF frozen
    <3>3. frozen[s] = IF snap[s] = Nil THEN Nil
                      ELSE [dir |-> snap[s].dir, dict |-> View(log[snap[s].dir], snap[s].at)]
      BY DEF frozen
    <3>4. CASE snap[s] # Nil /\ snap[s].dir = d
      BY <3>1, <3>2, <3>4, FrozenOf
    <3>5. CASE ~(snap[s] # Nil /\ snap[s].dir = d)
      BY <3>1, <3>2, <3>3, <3>5, FrozenOf, Zenon
    <3> QED
      BY <3>4, <3>5, Zenon
  <2> QED
    BY <2>1, Zenon DEF frozen
<1>4. cursor' = [i \in Iters |-> IF cursor[i] # Nil /\ cursor[i].dir = d THEN Nil ELSE cursor[i]]
  <2>1. ASSUME NEW i \in Iters
        PROVE  cursor'[i] = IF cursor[i] # Nil /\ cursor[i].dir = d THEN Nil ELSE cursor[i]
    <3>1. iter'[i] = IF iter[i] # Nil /\ iter[i].dir = d THEN Nil ELSE iter[i]
      BY DEF Close
    <3>2. cursor'[i] = IF iter'[i] = Nil THEN Nil
                       ELSE [dir |-> iter'[i].dir, dict |-> IterView(i)', pos |-> iter'[i].pos]
      BY DEF cursor
    <3>3. cursor[i] = IF iter[i] = Nil THEN Nil
                      ELSE [dir |-> iter[i].dir, dict |-> IterView(i), pos |-> iter[i].pos]
      BY DEF cursor
    <3>4. CASE iter[i] # Nil /\ iter[i].dir = d
      BY <3>1, <3>2, <3>4, CursorOf, Zenon
    <3>5. CASE ~(iter[i] # Nil /\ iter[i].dir = d)
      <4>1. iter'[i] = iter[i]
        BY <3>1, <3>5
      <4>2. IterView(i)' = IterView(i)
        BY <1>1, <4>1 DEF IterView
      <4>3. cursor'[i] = cursor[i]
        BY <3>2, <3>3, <4>1, <4>2
      <4> QED
        BY <3>5, <4>3, CursorOf, Zenon
    <3> QED
      BY <3>4, <3>5
  <2> QED
    BY <2>1, Zenon DEF cursor
<1> QED
  BY <1>2, <1>3, <1>4 DEF Close, KV!Close

\* A commit is one update of the dictionary.
LEMMA CommitUpdates ==
  ASSUME TypeOK, TypeOK', NEW d \in Dirs, NEW ops \in Seq(Updates), Commit(d, ops)
  PROVE  KV!Update(d)
<1> DEFINE new == View(log'[d], Last(d) + 1)
<1>1. log[d] # Nil
  BY PartsOf, Zenon DEF Commit, DirOK
<1>2. log[d] \in Seq(Commits) /\ Last(d) \in Nat /\ Last(d) = Len(log[d])
  BY <1>1, LogType DEF Last
<1>3. Effect(ops) \in Commits
  BY EffectType
<1>4. log' = [log EXCEPT ![d] = Append(log[d], Effect(ops))]
  BY DEF Commit
<1>5. /\ log'[d] = Append(log[d], Effect(ops)) /\ log'[d] \in Seq(Commits)
      /\ Len(log'[d]) = Last(d) + 1 /\ log'[d] # Nil
  <2>1. log'[d] = Append(log[d], Effect(ops))
    BY <1>4, PartsOf DEF Types
  <2> QED
    BY <1>2, <1>3, <2>1, OneMoreCommit, Zenon
<1>6. \A e \in Dirs \ {d} : log'[e] = log[e] /\ synced'[e] = synced[e]
  BY <1>4, PartsOf, Zenon DEF Commit, Types
<1>7. \A n \in 0 .. Last(d) : View(log'[d], n) = View(log[d], n)
  <2> TAKE n \in 0 .. Last(d)
  <2>1. n \in 0 .. Len(log[d])
    BY <1>2, Zenon
  <2>2. View(Append(log[d], Effect(ops)), n) = View(log[d], n)
    BY <1>2, <2>1, ViewAppend, Zenon
  <2> QED
    BY <1>5, <2>2, Zenon
<1>8. new \in Dictionary
  <2>1. \A n \in Nat : n + 1 \in 0 .. n + 1
    BY SMTT(20)
  <2>2. Last(d) + 1 \in 0 .. Len(log'[d])
    BY <1>2, <1>5, <2>1, Zenon
  <2> QED
    BY <1>5, <2>2, ViewType, Zenon
<1> HIDE DEF new
<1>9. dict' = [dict EXCEPT ![d] = new]
  BY <1>5, <1>6, Zenon DEF dict, Last, new
<1>10. {View(log'[d], n) : n \in synced'[d] .. Last(d) + 1}
         = IF mode[d] = "sync" THEN {new} ELSE safe[d] \union {new}
  <2>1. CASE mode[d] = "sync"
    <3>1. synced'[d] = Last(d) + 1
      BY <2>1, PartsOf, Zenon DEF Commit, SyncedBy, Types
    <3>2. synced'[d] .. Last(d) + 1 = {Last(d) + 1}
      <4>1. \A n \in Nat : (n + 1) .. (n + 1) = {n + 1}
        BY SMTT(20)
      <4> QED
        BY <1>2, <3>1, <4>1, Zenon
    <3> QED
      BY <2>1, <3>2 DEF new
  <2>2. CASE mode[d] # "sync"
    <3>1. synced'[d] = synced[d] /\ synced[d] \in Nat /\ synced[d] <= Last(d)
      BY <1>1, <2>2, PartsOf, Zenon DEF Commit, Types, DirOK
    <3>2. synced'[d] .. Last(d) + 1 = (synced[d] .. Last(d)) \union {Last(d) + 1}
      BY <1>2, <3>1, SMTT(20)
    <3>3. safe[d] = {View(log[d], n) : n \in synced[d] .. Last(d)}
      BY <1>1, DictOf, Zenon
    <3>4. \A n \in synced[d] .. Last(d) : View(log'[d], n) = View(log[d], n)
      BY <1>2, <1>7, <3>1, SubInterval, Zenon
    <3> QED
      BY <2>2, <3>2, <3>3, <3>4 DEF new
  <2> QED
    BY <2>1, <2>2, Zenon
<1>11. safe' = [safe EXCEPT ![d] = IF mode[d] = "sync" THEN {new} ELSE @ \union {new}]
  <2>1. safe'[d] = IF mode[d] = "sync" THEN {new} ELSE safe[d] \union {new}
    <3>1. safe'[d] = {View(log'[d], n) : n \in synced'[d] .. Len(log'[d])}
      BY <1>5, Zenon DEF safe, Last
    <3> QED
      BY <1>5, <1>10, <3>1
  <2>2. \A e \in Dirs \ {d} : safe'[e] = safe[e]
    BY <1>6, Zenon DEF safe, Last
  <2> QED
    BY <2>1, <2>2, SafeUpdate
<1>12. UNCHANGED <<mode, ropt, snap, iter>> /\ mode[d] \in {"rw", "sync"}
  BY DEF Commit
<1>13. frozen' = frozen /\ cursor' = cursor
  BY <1>12, CommitKeeps, SameFrozen, SameCursor
<1>14. new \in KV!Dictionary
  BY <1>8 DEF Dictionary, KV!Dictionary
<1> QED
  BY <1>9, <1>11, <1>12, <1>13, <1>14, Zenon DEF KV!Update

\* NewSnapshot takes the present dictionary.
LEMMA SnapshotTakes ==
  ASSUME TypeOK, NEW s \in Snaps, NEW d \in Dirs, NewSnapshot(s, d)
  PROVE  KV!Take(s, d)
<1> DEFINE new == [dir |-> d, at |-> Last(d)]
<1>1. UNCHANGED <<log, synced, mode, ropt, iter>> /\ mode[d] # "closed" /\ snap[s] = Nil
  BY DEF NewSnapshot, files
<1>2. dict' = dict /\ safe' = safe /\ cursor' = cursor
  BY <1>1, SameQuiet
<1>3. log[d] # Nil /\ Last(d) \in Nat
  BY <1>1, LogType, PartsOf DEF DirOK
<1>4. new \in Snapshot /\ new.dir = d /\ new.at = Last(d)
  BY <1>3 DEF Snapshot
<1>5. new # Nil
  BY <1>4, NilAssumption
<1>6. snap' = [snap EXCEPT ![s] = new]
  BY DEF NewSnapshot
<1> HIDE DEF new
<1>7. snap'[s] = new /\ \A t \in Snaps \ {s} : snap'[t] = snap[t]
  BY <1>6, PartsOf DEF Types
<1>8. dict[d] = View(log[d], Last(d))
  BY <1>3, DictOf, Zenon
<1>9. frozen'[s] = [dir |-> d, dict |-> dict[d]]
  BY <1>1, <1>4, <1>5, <1>7, <1>8, Zenon DEF frozen
<1>10. \A t \in Snaps \ {s} : frozen'[t] = frozen[t]
  BY <1>1, <1>7 DEF frozen
<1>11. frozen' = [frozen EXCEPT ![s] = [dir |-> d, dict |-> dict[d]]]
  BY <1>9, <1>10, FrozenUpdate
<1>12. frozen[s] = Nil /\ \A e \in Dirs : ropt[e] # s
  BY <1>1, FrozenOf DEF NewSnapshot
<1> QED
  BY <1>1, <1>2, <1>11, <1>12, Zenon DEF KV!Take

\* Release drops it.
LEMMA ReleaseDrops ==
  ASSUME TypeOK, NEW s \in Snaps, Release(s)
  PROVE  KV!Drop(s)
<1>1. UNCHANGED <<log, synced, mode, ropt, iter>>
  BY DEF Release, files
<1>2. dict' = dict /\ safe' = safe /\ cursor' = cursor
  BY <1>1, SameQuiet
<1>3. snap'[s] = Nil /\ \A t \in Snaps \ {s} : snap'[t] = snap[t]
  BY PartsOf DEF Release, Types
<1>4. frozen'[s] = Nil
  BY <1>3 DEF frozen
<1>5. \A t \in Snaps \ {s} : frozen'[t] = frozen[t]
  BY <1>1, <1>3, Zenon DEF frozen
<1>6. frozen' = [frozen EXCEPT ![s] = Nil]
  BY <1>4, <1>5, FrozenUpdate
<1> QED
  BY <1>1, <1>2, <1>6 DEF KV!Drop

\* SetSnapshot makes Gets read a snapshot that is there, or none.
LEMMA SetSnapshotReads ==
  ASSUME TypeOK, NEW d \in Dirs, SetSnapshot(d)
  PROVE  KV!ReadFrom(d)
<1>1. UNCHANGED <<log, synced, mode, snap, iter>> /\ mode[d] # "closed"
  BY DEF SetSnapshot, files
<1>2. dict' = dict /\ safe' = safe /\ frozen' = frozen /\ cursor' = cursor
  BY <1>1, SameQuiet
<1>3. PICK s \in Snaps \union {Nil} :
        ropt' = [ropt EXCEPT ![d] = IF s # Nil /\ snap[s] # Nil THEN s ELSE Nil]
  BY Zenon DEF SetSnapshot
<1>4. \E t \in Snaps \union {Nil} :
        (t # Nil => frozen[t] # Nil) /\ ropt' = [ropt EXCEPT ![d] = t]
  <2>1. CASE s # Nil /\ snap[s] # Nil
    <3>1. frozen[s] # Nil
      BY <2>1, FrozenOf
    <3> QED
      BY <1>3, <2>1, <3>1, Zenon
  <2>2. CASE ~(s # Nil /\ snap[s] # Nil)
    BY <1>3, <2>2, Zenon
  <2> QED
    BY <2>1, <2>2
<1> QED
  BY <1>1, <1>2, <1>4, Zenon DEF KV!ReadFrom

\* NewIterator points at the present dictionary.
LEMMA NewIteratorPoints ==
  ASSUME TypeOK, NEW i \in Iters, NEW d \in Dirs, NewIterator(i, d)
  PROVE  KV!Point(i)
<1> DEFINE new == [dir |-> d, at |-> Last(d), pos |-> Off, scan |-> FALSE, seen |-> {}]
<1>1. UNCHANGED <<log, synced, mode, ropt, snap>> /\ mode[d] # "closed"
  BY DEF NewIterator, files
<1>2. dict' = dict /\ safe' = safe /\ frozen' = frozen
  BY <1>1, SameQuiet
<1>3. log[d] # Nil /\ Last(d) \in Nat
  BY <1>1, LogType, PartsOf DEF DirOK
<1>4. new \in Iterator /\ new.dir = d /\ new.at = Last(d) /\ new.pos = Off
  BY <1>3, Zenon DEF Iterator, Off
<1>5. new # Nil
  BY <1>4, NilAssumption, Zenon
<1>6. iter' = [iter EXCEPT ![i] = new]
  BY DEF NewIterator
<1> HIDE DEF new
<1>7. iter'[i] = new /\ \A j \in Iters \ {i} : iter'[j] = iter[j]
  BY <1>6, PartsOf DEF Types
<1>8. dict[d] = View(log[d], Last(d))
  BY <1>3, DictOf
<1>9. cursor'[i] = [dir |-> d, dict |-> dict[d], pos |-> Off]
  BY <1>1, <1>4, <1>5, <1>7, <1>8 DEF cursor, IterView
<1>10. \A j \in Iters \ {i} : cursor'[j] = cursor[j]
  BY <1>1, <1>7 DEF cursor, IterView
<1>11. cursor' = [cursor EXCEPT ![i] = [dir |-> d, dict |-> dict[d], pos |-> KV!Off]]
  BY <1>9, <1>10, CursorUpdate DEF Off, KV!Off
<1> QED
  BY <1>1, <1>2, <1>11, Zenon DEF KV!Point

\* A move puts it on a key of its dictionary, or off.
LEMMA MovePoints ==
  ASSUME TypeOK, NEW i \in Iters, MovesIter(i)
  PROVE  KV!Point(i)
<1>1. iter[i] # Nil
  BY MoveOf
<1>2. PICK k \in Present(IterView(i)) \union {Off}, scan \in BOOLEAN, seen \in SUBSET Keys :
        Move(i, k, scan, seen)
  BY MoveOf
<1>3. UNCHANGED <<log, synced, mode, ropt, snap>>
  BY <1>2 DEF Move, files
<1>4. dict' = dict /\ safe' = safe /\ frozen' = frozen
  BY <1>3, SameQuiet
<1>5. /\ \A j \in Iters \ {i} : iter'[j] = iter[j]
      /\ iter'[i] # Nil
      /\ iter'[i].dir = iter[i].dir /\ iter'[i].at = iter[i].at /\ iter'[i].pos = k
  BY <1>1, <1>2, Moved
<1>6. cursor'[i] = [dir |-> iter[i].dir, dict |-> IterView(i), pos |-> k]
  BY <1>3, <1>5, Zenon DEF cursor, IterView
<1>7. \A j \in Iters \ {i} : cursor'[j] = cursor[j]
  BY <1>3, <1>5, Zenon DEF cursor, IterView
<1>8. /\ cursor[i] # Nil /\ cursor[i].dict = IterView(i)
      /\ cursor[i] = [dir |-> iter[i].dir, dict |-> IterView(i), pos |-> iter[i].pos]
  BY <1>1, CursorOf
<1>9. cursor' = [cursor EXCEPT ![i] = cursor'[i]]
  BY <1>7, CursorUpdate
<1>10. cursor'[i] = [cursor[i] EXCEPT !.pos = k]
  BY <1>6, <1>8, SMTT(20)
<1>11. cursor' = [cursor EXCEPT ![i].pos = k]
  BY <1>9, <1>10
<1>12. k \in {j \in Keys : cursor[i].dict[j] # NoVal} \union {KV!Off}
  BY <1>8 DEF Present, Off, KV!Off
<1> QED
  BY <1>3, <1>4, <1>8, <1>11, <1>12, Zenon DEF KV!Point

\* Closing an iterator.
LEMMA IterClosePoints ==
  ASSUME TypeOK, NEW i \in Iters, IterClose(i)
  PROVE  KV!Point(i)
<1>1. UNCHANGED <<log, synced, mode, ropt, snap>>
  BY DEF IterClose, files
<1>2. dict' = dict /\ safe' = safe /\ frozen' = frozen
  BY <1>1, SameQuiet
<1>3. iter'[i] = Nil /\ \A j \in Iters \ {i} : iter'[j] = iter[j]
  BY PartsOf, Zenon DEF IterClose, Types
<1>4. cursor'[i] = Nil
  BY <1>3 DEF cursor
<1>5. \A j \in Iters \ {i} : cursor'[j] = cursor[j]
  BY <1>1, <1>3, Zenon DEF cursor, IterView
<1>6. cursor' = [cursor EXCEPT ![i] = Nil]
  BY <1>4, <1>5, CursorUpdate
<1> QED
  BY <1>1, <1>2, <1>6 DEF KV!Point

\* Save copies a dictionary.
LEMMA SaveCopies ==
  ASSUME TypeOK, NEW c \in Ckpts, NEW e \in Dirs, Save(c, e)
  PROVE  \E d \in Dirs : KV!Copy(d, e)
<1> DEFINE d == ckpt[c]
<1>1. d \in Dirs /\ mode[d] # "closed" /\ log[e] = Nil
  BY DEF Save, CanSave, TypeOK
<1>2. log[d] # Nil /\ Last(d) \in Nat
  BY <1>1, LogType, PartsOf DEF DirOK
<1> HIDE DEF d
<1>3. log' = [log EXCEPT ![e] = log[d]] /\ synced' = [synced EXCEPT ![e] = Last(d)]
  BY DEF Save, d
<1>4. /\ log'[e] = log[d] /\ synced'[e] = Last(d)
      /\ \A x \in Dirs \ {e} : log'[x] = log[x] /\ synced'[x] = synced[x]
  BY <1>3, PartsOf DEF Types
<1>5. dict[e] = Nil /\ dict[d] = View(log[d], Last(d))
  BY <1>1, <1>2, DictOf, Zenon
<1>6. dict' = [dict EXCEPT ![e] = dict[d]]
  BY <1>2, <1>4, <1>5, Zenon DEF dict, Last
<1>7. safe'[e] = {dict[d]}
  <2>1. safe'[e] = {View(log'[e], n) : n \in synced'[e] .. Len(log'[e])}
    BY <1>2, <1>4 DEF safe, Last
  <2>2. synced'[e] .. Len(log'[e]) = {Last(d)}
    BY <1>2, <1>4, SMTT(20) DEF Last
  <2> QED
    BY <1>4, <1>5, <2>1, <2>2
<1>8. safe' = [safe EXCEPT ![e] = {dict[d]}]
  <2>1. \A x \in Dirs \ {e} : safe'[x] = safe[x]
    BY <1>4, Zenon DEF safe, Last
  <2> QED
    BY <1>7, <2>1, SafeUpdate
<1>9. UNCHANGED <<mode, ropt, snap, iter>>
  BY DEF Save
<1>10. frozen' = frozen /\ cursor' = cursor
  BY <1>9, SaveKeeps, SameFrozen, SameCursor
<1> QED
  BY <1>1, <1>5, <1>6, <1>8, <1>9, <1>10, Zenon DEF KV!Copy

\* WriteBack leaves fewer dictionaries to a crash, the present one among them.
LEMMA WriteBackSettles ==
  ASSUME TypeOK, NEW d \in Dirs, WriteBack(d)
  PROVE  KV!Settle(d)
<1>1. UNCHANGED <<log, mode, ropt, snap, iter>> /\ log[d] # Nil
  BY DEF WriteBack
<1>2. PICK n \in synced[d] + 1 .. Last(d) : synced' = [synced EXCEPT ![d] = n]
  BY Zenon DEF WriteBack
<1>3. Last(d) \in Nat /\ synced[d] \in Nat
  BY <1>1, LogType, PartsOf, Zenon DEF Types
<1>4. synced'[d] = n /\ \A e \in Dirs \ {d} : synced'[e] = synced[e]
  BY <1>2, PartsOf DEF Types
<1>5. dict' = dict
  BY <1>1 DEF dict, Last
<1>6. frozen' = frozen /\ cursor' = cursor
  BY <1>1, Zenon DEF frozen, cursor, IterView
<1> DEFINE left == {View(log[d], m) : m \in n .. Last(d)}
<1>7. /\ dict[d] = View(log[d], Last(d)) /\ dict[d] # Nil
      /\ safe[d] = {View(log[d], m) : m \in synced[d] .. Last(d)}
  BY <1>1, DictOf
<1>8. n .. Last(d) \subseteq synced[d] .. Last(d) /\ Last(d) \in n .. Last(d)
  BY <1>3, SMTT(20)
<1>9. left \in SUBSET safe[d] /\ dict[d] \in left
  BY <1>7, <1>8
<1>10. safe'[d] = left
  BY <1>1, <1>4 DEF safe, Last
<1> HIDE DEF left
<1>11. safe' = [safe EXCEPT ![d] = left]
  <2>1. \A e \in Dirs \ {d} : safe'[e] = safe[e]
    BY <1>1, <1>4, Zenon DEF safe, Last
  <2> QED
    BY <1>10, <2>1, SafeUpdate
<1> QED
  BY <1>1, <1>5, <1>6, <1>7, <1>9, <1>11, Zenon DEF KV!Settle

\* A crash leaves a dictionary that was safe, and it alone.
LEMMA CrashCrashes ==
  ASSUME TypeOK, TypeOK', Crash
  PROVE  KV!Crash
<1>1. PICK n \in [Dirs -> 0 .. MaxCommits] :
        /\ \A d \in Dirs : n[d] \in IF log[d] = Nil THEN {0} ELSE synced[d] .. Last(d)
        /\ log' = [d \in Dirs |-> IF log[d] = Nil THEN Nil ELSE SubSeq(log[d], 1, n[d])]
        /\ synced' = n
  BY Zenon DEF Crash
<1>2. /\ mode' = [d \in Dirs |-> "closed"] /\ ropt' = [d \in Dirs |-> Nil]
      /\ snap' = [s \in Snaps |-> Nil] /\ iter' = [i \in Iters |-> Nil]
  BY DEF Crash
<1>3. frozen' = [s \in Snaps |-> Nil] /\ cursor' = [i \in Iters |-> Nil]
  BY <1>2 DEF frozen, cursor
<1>4. ASSUME NEW d \in Dirs, log[d] = Nil
      PROVE  dict[d] = Nil /\ dict'[d] = Nil /\ safe'[d] = {}
  <2>1. log'[d] = Nil
    BY <1>1, <1>4
  <2> QED
    BY <1>4, <2>1 DEF dict, safe
<1>5. ASSUME NEW d \in Dirs, log[d] # Nil
      PROVE  /\ dict[d] # Nil /\ dict'[d] # Nil
             /\ dict'[d] \in safe[d] /\ safe'[d] = {dict'[d]}
  <2>1. log[d] \in Seq(Commits) /\ Last(d) = Len(log[d]) /\ synced[d] \in Nat
    BY <1>5, LogType, PartsOf, Zenon DEF Last, Types
  <2>2. n[d] \in synced[d] .. Last(d) /\ n[d] \in 0 .. Len(log[d])
    <3>1. n[d] \in synced[d] .. Last(d)
      BY <1>1, <1>5, Zenon
    <3>2. Len(log[d]) \in Nat
      BY <2>1, SMTT(20)
    <3> QED
      BY <2>1, <3>1, <3>2, SubInterval, Zenon
  <2>3. log'[d] = SubSeq(log[d], 1, n[d]) /\ synced'[d] = n[d]
    BY <1>1, <1>5
  <2>4. /\ log'[d] \in Seq(Commits) /\ Len(log'[d]) = n[d]
        /\ View(log'[d], n[d]) = View(log[d], n[d])
    BY <2>1, <2>2, <2>3, ViewSubSeq
  <2>5. log'[d] # Nil
    BY <2>4, NilAssumption
  <2>6. dict'[d] = View(log[d], n[d])
    BY <2>4, <2>5 DEF dict, Last
  <2>7. dict[d] # Nil /\ safe[d] = {View(log[d], m) : m \in synced[d] .. Last(d)}
    BY <1>5, DictOf
  <2>8. View(log[d], n[d]) \in Dictionary
    BY <2>1, <2>2, ViewType
  <2>9. dict'[d] # Nil
    BY <2>6, <2>8, NilAssumption
  <2>10. safe'[d] = {View(log'[d], m) : m \in n[d] .. n[d]}
    BY <2>3, <2>4, <2>5, Zenon DEF safe, Last
  <2>11. n[d] .. n[d] = {n[d]}
    BY <2>2, SMTT(20)
  <2> QED
    BY <2>2, <2>4, <2>6, <2>7, <2>9, <2>10, <2>11, Zenon
<1>6. \A d \in Dirs : IF dict[d] = Nil THEN dict'[d] = Nil ELSE dict'[d] \in safe[d]
  BY <1>4, <1>5
<1>7. dict' = [d \in Dirs |-> dict'[d]]
  BY DEF dict
<1>8. safe' = [d \in Dirs |-> IF dict'[d] = Nil THEN {} ELSE {dict'[d]}]
  <2>1. safe' = [d \in Dirs |-> safe'[d]]
    BY DEF safe
  <2>2. \A d \in Dirs : safe'[d] = IF dict'[d] = Nil THEN {} ELSE {dict'[d]}
    BY <1>4, <1>5, Zenon
  <2> QED
    BY <2>1, <2>2
<1> QED
  BY <1>2, <1>3, <1>6, <1>7, <1>8 DEF KV!Crash

\* Batches that are filled and checkpoints that are made change nothing of it.
LEMMA RestIsIdle ==
  ASSUME TypeOK, UNCHANGED <<log, synced, mode, ropt, snap, iter>>
  PROVE  KV!Idle
  BY SameQuiet DEF KV!Idle

\* Every step is one of KVStore's, or changes nothing of it.
LEMMA RefinesNext ==
  ASSUME TypeOK, TypeOK', [Next]_vars
  PROVE  [KV!Next]_(KV!abstract)
<1>1. ASSUME NEW d \in Dirs, Get(d) PROVE KV!Next
  BY <1>1, GetReads DEF KV!Next
<1>2. ASSUME UNCHANGED vars PROVE UNCHANGED KV!abstract
  <2>1. UNCHANGED <<log, synced, mode, ropt, snap, iter, got>>
    BY <1>2 DEF vars
  <2> QED
    BY <2>1, SameQuiet DEF KV!abstract
<1>3. ASSUME NEW d \in Dirs, got' = Nil,
             \/ NewStore(d) \/ Close(d) \/ SetOne(d) \/ Delete(d) \/ SetSnapshot(d)
             \/ WriteBack(d) \/ \E b \in Batches : WriteBatch(d, b)
      PROVE  KV!Next
  <2>1. CASE NewStore(d)
    BY <1>3, <2>1, NewStoreOpens DEF KV!Next
  <2>2. CASE Close(d)
    BY <1>3, <2>2, CloseCloses DEF KV!Next
  <2>3. CASE SetOne(d) \/ Delete(d) \/ \E b \in Batches : WriteBatch(d, b)
    BY <1>3, <2>3, CommitOf, CommitUpdates DEF KV!Next
  <2>4. CASE SetSnapshot(d)
    BY <1>3, <2>4, SetSnapshotReads DEF KV!Next
  <2>5. CASE WriteBack(d)
    BY <1>3, <2>5, WriteBackSettles DEF KV!Next
  <2> QED
    BY <1>3, <2>1, <2>2, <2>3, <2>4, <2>5
<1>4. ASSUME NEW b \in Batches, got' = Nil, QueueUpdate(b) \/ ClearBatch(b)
      PROVE  KV!Next
  <2>1. UNCHANGED <<log, synced, mode, ropt, snap, iter>>
    BY <1>4 DEF QueueUpdate, ClearBatch, files
  <2> QED
    BY <1>4, <2>1, RestIsIdle DEF KV!Next
<1>5. ASSUME NEW s \in Snaps, got' = Nil, Release(s) \/ \E d \in Dirs : NewSnapshot(s, d)
      PROVE  KV!Next
  BY <1>5, ReleaseDrops, SnapshotTakes DEF KV!Next
<1>6. ASSUME NEW i \in Iters, got' = Nil,
             \/ \E d \in Dirs : NewIterator(i, d)
             \/ SeekToFirst(i) \/ SeekToLast(i) \/ Seek(i) \/ SeekForPrev(i)
             \/ IterNext(i) \/ IterPrev(i) \/ IterClose(i)
      PROVE  KV!Next
  <2>1. KV!Point(i)
    BY <1>6, NewIteratorPoints, MovePoints, IterClosePoints DEF MovesIter
  <2> QED
    BY <1>6, <2>1 DEF KV!Next
<1>7. ASSUME NEW c \in Ckpts, got' = Nil,
             \/ \E d \in Dirs : NewCheckpoint(c, d) \/ Save(c, d)
             \/ DestroyCheckpoint(c)
      PROVE  KV!Next
  <2>1. CASE \E d \in Dirs : Save(c, d)
    BY <1>7, <2>1, SaveCopies DEF KV!Next
  <2>2. CASE (\E d \in Dirs : NewCheckpoint(c, d)) \/ DestroyCheckpoint(c)
    <3>1. UNCHANGED <<log, synced, mode, ropt, snap, iter>>
      BY <2>2 DEF NewCheckpoint, DestroyCheckpoint, files
    <3> QED
      BY <1>7, <3>1, RestIsIdle DEF KV!Next
  <2> QED
    BY <1>7, <2>1, <2>2
<1>8. ASSUME got' = Nil, Crash PROVE KV!Next
  BY <1>8, CrashCrashes DEF KV!Next
<1> QED
  BY <1>1, <1>2, <1>3, <1>4, <1>5, <1>6, <1>7, <1>8 DEF Next

\* The log of commits implements the dictionary: every call on a store, batches
\* and iterators included, and every crash does what KVStore allows.
THEOREM Refinement == Spec => ImplementsKVStore
<1>1. TypeOK /\ TypeOK' /\ [Next]_vars => [KV!Next]_(KV!abstract)
  BY RefinesNext
<1> QED
  BY RefinesInit, TypeInit, TypeNext, <1>1, PTL DEF Spec, ImplementsKVStore, KV!Spec

-----------------------------------------------------------------------------
(* What callers may rely on, from the refinement *)

\* The dictionary of a snapshot or of an iterator is never another one.
ViewsKept ==
    /\ \A s \in Snaps : frozen[s] # Nil => frozen'[s] \in {frozen[s], Nil}
    /\ \A i \in Iters : cursor[i] # Nil /\ cursor'[i] # Nil =>
          cursor'[i].dir = cursor[i].dir /\ cursor'[i].dict = cursor[i].dict

\* A directory goes from its dictionary to one that a crash may leave, unless
\* it is being written to; and a write to a synchronous store is then the only
\* dictionary that a crash may leave.
Durable ==
    \A d \in Dirs : dict[d] # Nil =>
        /\ dict'[d] \in safe[d] \/ (mode[d] \in {"rw", "sync"} /\ mode'[d] = mode[d])
        /\ mode[d] = "sync" /\ mode'[d] = "sync" /\ dict'[d] # dict[d] =>
              safe'[d] = {dict'[d]}

\* The snapshots of KVStore stay as they are.
LEMMA SnapshotsKept ==
  ASSUME TypeOK, TypeOK', [Next]_vars, NEW s \in Snaps, frozen[s] # Nil
  PROVE  frozen'[s] \in {frozen[s], Nil}
<1>1. [KV!Next]_(KV!abstract)
  BY RefinesNext
<1>2. DOMAIN frozen = Snaps
  BY Zenon DEF frozen
<1>3. \/ UNCHANGED frozen
      \/ \E d \in Dirs : KV!Close(d)
      \/ \E x \in Snaps : KV!Drop(x) \/ \E d \in Dirs : KV!Take(x, d)
      \/ KV!Crash
  BY <1>1 DEF KV!Next, KV!abstract, KV!Read, KV!Open, KV!Update, KV!ReadFrom, KV!Settle,
              KV!Point, KV!Copy, KV!Idle
<1>4. CASE UNCHANGED frozen
  BY <1>4
<1>5. CASE KV!Crash \/ \E d \in Dirs : KV!Close(d)
  BY <1>5 DEF KV!Crash, KV!Close
<1>6. ASSUME NEW x \in Snaps, KV!Drop(x) PROVE frozen'[s] \in {frozen[s], Nil}
  BY <1>2, <1>6 DEF KV!Drop
<1>7. ASSUME NEW x \in Snaps, NEW d \in Dirs, KV!Take(x, d)
      PROVE  frozen'[s] \in {frozen[s], Nil}
  BY <1>2, <1>7 DEF KV!Take
<1> QED
  BY <1>3, <1>4, <1>5, <1>6, <1>7

\* An iterator that is there before and after a step shows the same.
LEMMA IteratorsKept ==
  ASSUME TypeOK, TypeOK', [Next]_vars, NEW i \in Iters, iter[i] # Nil, iter'[i] # Nil
  PROVE  iter'[i].dir = iter[i].dir /\ IterView(i)' = IterView(i)
<1>1. CASE iter'[i] = iter[i] /\ Kept(iter[i].dir)
  BY <1>1, IterStays
<1>2. CASE MovesIter(i)
  <2>1. PICK k, scan, seen : Move(i, k, scan, seen)
    BY <1>2, Zenon DEF MovesIter, SeekToFirst, SeekToLast, Seek, SeekForPrev, IterNext, IterPrev
  <2>2. iter'[i].dir = iter[i].dir
    BY <2>1, PartsOf, Zenon DEF Move, Types
  <2> QED
    BY <2>1, <2>2, MoveScans
<1>3. CASE \E d \in Dirs : NewIterator(i, d)
  BY <1>3 DEF NewIterator
<1> QED
  BY <1>1, <1>2, <1>3, IterSteps, Zenon

\* What a step does to a directory is what KVStore allows.
LEMMA DurableStep ==
  ASSUME TypeOK, TypeOK', [Next]_vars
  PROVE  Durable
<1> SUFFICES ASSUME NEW d \in Dirs, dict[d] # Nil
             PROVE  /\ dict'[d] \in safe[d] \/ (mode[d] \in {"rw", "sync"} /\ mode'[d] = mode[d])
                    /\ mode[d] = "sync" /\ mode'[d] = "sync" /\ dict'[d] # dict[d] =>
                          safe'[d] = {dict'[d]}
  BY DEF Durable
<1>1. [KV!Next]_(KV!abstract)
  BY RefinesNext
<1>2. DOMAIN dict = Dirs /\ DOMAIN safe = Dirs
  BY DEF dict, safe
<1>3. mode \in [Dirs -> {"closed", "rw", "sync", "ro"}]
  BY PartsOf, Zenon DEF Types
<1>4. dict[d] \in safe[d]
  <2>1. log[d] # Nil /\ dict[d] = View(log[d], Last(d))
        /\ safe[d] = {View(log[d], n) : n \in synced[d] .. Last(d)}
    BY DictOf, Zenon
  <2>2. synced[d] \in Nat /\ Last(d) \in Nat /\ synced[d] <= Last(d)
    BY <2>1, FileTypes, LogType DEF Last
  <2>3. Last(d) \in synced[d] .. Last(d)
    BY <2>2, SMTT(20)
  <2> QED
    BY <2>1, <2>3
<1>5. CASE dict'[d] = dict[d]
  BY <1>4, <1>5
<1>6. CASE dict'[d] # dict[d]
  <2>1. \/ \E e \in Dirs : KV!Open(e) \/ KV!Update(e)
        \/ \E e, g \in Dirs : KV!Copy(e, g)
        \/ KV!Crash
    BY <1>1, <1>6 DEF KV!Next, KV!abstract, KV!Read, KV!Close, KV!ReadFrom, KV!Settle,
                      KV!Take, KV!Drop, KV!Point, KV!Idle
  <2>2. ASSUME NEW e \in Dirs, KV!Open(e) PROVE FALSE
    BY <1>2, <1>6, <2>2 DEF KV!Open
  <2>3. ASSUME NEW e \in Dirs, NEW g \in Dirs, KV!Copy(e, g) PROVE FALSE
    <3>1. dict[g] = Nil /\ dict' = [dict EXCEPT ![g] = dict[e]]
      BY <2>3 DEF KV!Copy
    <3> QED
      BY <1>2, <1>6, <3>1
  <2>4. CASE KV!Crash
    BY <2>4 DEF KV!Crash
  <2>5. ASSUME NEW e \in Dirs, KV!Update(e)
        PROVE  /\ mode[d] \in {"rw", "sync"} /\ mode'[d] = mode[d]
               /\ mode[d] = "sync" => safe'[d] = {dict'[d]}
    <3>0. mode[e] \in {"rw", "sync"} /\ mode' = mode
      BY <2>5 DEF KV!Update
    <3>1. PICK new \in KV!Dictionary :
            /\ dict' = [dict EXCEPT ![e] = new]
            /\ safe' = [safe EXCEPT ![e] = IF mode[e] = "sync" THEN {new} ELSE @ \union {new}]
      BY <2>5, Zenon DEF KV!Update
    <3>2. e = d
      BY <1>2, <1>6, <3>1
    <3>3. dict'[d] = new /\ (mode[d] = "sync" => safe'[d] = {new})
      BY <1>2, <3>1, <3>2
    <3> QED
      BY <3>0, <3>2, <3>3
  <2> QED
    BY <2>1, <2>2, <2>3, <2>4, <2>5
<1> QED
  BY <1>5, <1>6

\* However the store is written to, a snapshot reads the database of the moment it
\* was made until it is released or its store is closed, and an iterator shows that
\* of its own moment until it is closed.
THEOREM ViewsStayFrozen == Spec => [][ViewsKept]_vars
<1>1. TypeOK /\ TypeOK' /\ [Next]_vars => ViewsKept
  <2> SUFFICES ASSUME TypeOK, TypeOK', [Next]_vars PROVE ViewsKept
    OBVIOUS
  <2>1. ASSUME NEW i \in Iters, cursor[i] # Nil, cursor'[i] # Nil
        PROVE  cursor'[i].dir = cursor[i].dir /\ cursor'[i].dict = cursor[i].dict
    <3>1. iter[i] # Nil /\ cursor[i].dir = iter[i].dir /\ cursor[i].dict = IterView(i)
      BY <2>1, CursorOf, Zenon
    <3>2. iter'[i] # Nil
      BY <2>1 DEF cursor
    <3>3. cursor'[i].dir = iter'[i].dir /\ cursor'[i].dict = IterView(i)'
      BY <3>2 DEF cursor
    <3> QED
      BY <3>1, <3>2, <3>3, IteratorsKept
  <2> QED
    BY <2>1, SnapshotsKept DEF ViewsKept
<1> QED
  BY <1>1, TypeCorrect, PTL DEF Spec

\* Nothing that has reached stable storage is lost: a crash leaves one of the
\* dictionaries since the last one that did, a store that is closed or read-only
\* changes in no other way, and after a write of a synchronous store
\* (NewSyncStore, wopt.SetSync(true)) only that dictionary can be left.
THEOREM WritesAreDurable == Spec => [][Durable]_vars
<1>1. TypeOK /\ TypeOK' /\ [Next]_vars => Durable
  BY DurableStep
<1> QED
  BY <1>1, TypeCorrect, PTL DEF Spec
=============================================================================
