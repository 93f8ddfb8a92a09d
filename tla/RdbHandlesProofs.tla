-------------------------- MODULE RdbHandlesProofs --------------------------
(***************************************************************************)
(* The safety properties of RdbHandles, for any number of native objects   *)
(* and any sequence of calls.                                              *)
(***************************************************************************)
EXTENDS RdbHandles, TLAPS

Records == [kind : Kinds, of : Nat, alive : BOOLEAN, c : BOOLEAN,
            freed : BOOLEAN, snapshot : Nat, ended : BOOLEAN]

\* What the client has done to an object tells whether its memory is allocated,
\* whether its wrapper has a pointer and whether a slice is marked as freed.
Life(r) ==
    /\ r.kind = "db" => r.c /\ (r.alive <=> ~r.ended)
    /\ r.kind \in {"iter", "snap"} \union Plain => (r.c <=> ~r.ended) /\ (r.alive <=> ~r.ended)
    /\ r.kind = "ckpt" => (r.c <=> ~r.ended) /\ r.alive
    /\ r.kind = "iterropt" => r.alive /\ ~r.c
    /\ r.kind = "value" => r.c /\ (r.alive <=> ~r.ended) /\ (r.freed <=> r.ended)
    /\ r.kind = "key" => r.c /\ (r.alive <=> ~r.ended) /\ r.freed

\* Where its references go: to the database, the iterator or the snapshot, all
\* of them made before.
Linked(m, r) ==
    /\ r.kind \in {"iter", "snap", "ckpt"} => r.of \in DOMAIN m /\ m[r.of].kind = "db"
    /\ r.kind = "key" => r.of \in DOMAIN m /\ m[r.of].kind = "iter"
    /\ r.snapshot # 0 => r.snapshot \in DOMAIN m /\ m[r.snapshot].kind = "snap"

Good(m, r) == r \in Records /\ Life(r) /\ Linked(m, r)

Heap == obj \in Seq(Records) /\ \A o \in Objs : Good(obj, obj[o])

\* A step that changes objects in place, keeping their kinds, keeps the heap.
LEMMA InPlace ==
    ASSUME Heap, DOMAIN obj' = DOMAIN obj, obj' = [o \in DOMAIN obj |-> obj'[o]],
           \A o \in Objs : /\ obj'[o] \in Records /\ Life(obj'[o])
                           /\ obj'[o].kind = obj[o].kind /\ obj'[o].of = obj[o].of
                           /\ \/ obj'[o].snapshot = obj[o].snapshot
                              \/ obj'[o].snapshot \in Of("snap") \union {0}
    PROVE  Heap'
<1>1. obj' \in Seq(Records)
  BY DEF Heap, Objs
<1>2. ASSUME NEW o \in Objs PROVE Linked(obj', obj'[o])
  <2>1. obj[o] \in Records /\ Linked(obj, obj[o])
    BY DEF Heap, Good
  <2> QED
    BY <2>1 DEF Linked, Objs, Of
<1> QED
  BY <1>1, <1>2 DEF Heap, Good, Objs

\* A step that makes one object keeps the heap.
LEMMA Made ==
    ASSUME Heap, NEW r \in Records, Life(r), Linked(obj, r), obj' = Append(obj, r)
    PROVE  Heap'
<1>1. obj' \in Seq(Records) /\ DOMAIN obj' = DOMAIN obj \union {Len(obj) + 1}
  BY DEF Heap
<1>2. obj'[Len(obj) + 1] = r /\ \A o \in Objs : obj'[o] = obj[o] /\ obj[o] \in Records
  BY DEF Heap, Objs
<1>3. \A o \in DOMAIN obj' : Linked(obj', obj'[o])
  BY <1>1, <1>2 DEF Heap, Good, Linked, Objs
<1>4. \A o \in DOMAIN obj' : Life(obj'[o])
  BY <1>1, <1>2 DEF Heap, Good, Objs
<1> QED
  BY <1>1, <1>2, <1>3, <1>4 DEF Heap, Good, Objs

\* A new object that is not an iterator's slice, made from a database if it has to be.
LEMMA MadeNew ==
    ASSUME Heap, NEW kind \in Kinds \ {"key", "iterropt"}, NEW from \in Nat,
           kind \in {"iter", "snap", "ckpt"} => from \in Of("db"), New(kind, from)
    PROVE  Heap'
<1>1. Object(kind, from, TRUE, FALSE) \in Records
  BY DEF Object, Records, Kinds
<1>2. Life(Object(kind, from, TRUE, FALSE)) /\ Linked(obj, Object(kind, from, TRUE, FALSE))
  BY DEF Object, Life, Linked, Kinds, Of, Objs
<1> QED
  BY <1>1, <1>2, Made DEF New

\* So does changing one object in a way that fits what has been done to it.
LEMMA Changed ==
    ASSUME Heap, NEW o \in Objs, NEW r \in Records, Life(r), obj' = [obj EXCEPT ![o] = r],
           r.kind = obj[o].kind, r.of = obj[o].of,
           r.snapshot = obj[o].snapshot \/ r.snapshot \in Of("snap") \union {0}
    PROVE  Heap'
<1>1. obj \in Seq(Records) /\ \A p \in Objs : obj[p] \in Records /\ Life(obj[p])
  BY DEF Heap, Good
<1>2. DOMAIN obj' = DOMAIN obj /\ obj' = [p \in DOMAIN obj |-> obj'[p]]
  BY <1>1
<1>3. obj'[o] = r /\ \A p \in Objs : p # o => obj'[p] = obj[p]
  BY <1>1 DEF Objs
<1> QED
  BY <1>1, <1>2, <1>3, InPlace

\* The calls that change one object.
LEMMA OneChanged ==
    ASSUME Heap, NEW o \in Objs,
           \/ obj[o].kind = "db" /\ Close(o)
           \/ obj[o].kind = "ckpt" /\ CheckpointDestroy(o)
           \/ obj[o].kind \in {"iter", "snap"} \union Plain /\ obj' = Deleted(obj, o)
           \/ obj[o].kind \in {"value", "key"} /\ SliceFree(o) /\ obj' # obj
           \/ obj[o].kind = "ropt" /\ \E s \in Of("snap") \union {0} : SetSnapshot(o, s)
    PROVE  Heap'
<1>1. obj \in Seq(Records) /\ obj[o] \in Records /\ Life(obj[o])
  BY DEF Heap, Good
<1>2. CASE obj[o].kind = "db" /\ Close(o)
  <2> DEFINE r == [obj[o] EXCEPT !.alive = FALSE, !.ended = TRUE]
  <2>1. obj' = [obj EXCEPT ![o] = r]
    BY <1>1, <1>2 DEF Close, Objs
  <2>2. r \in Records /\ Life(r) /\ r.kind = obj[o].kind /\ r.of = obj[o].of /\ r.snapshot = obj[o].snapshot
    BY <1>1, <1>2 DEF Records, Life, Plain
  <2> QED
    BY <2>1, <2>2, Changed
<1>3. CASE obj[o].kind = "ckpt" /\ CheckpointDestroy(o)
  <2> DEFINE r == [obj[o] EXCEPT !.c = FALSE, !.ended = TRUE]
  <2>1. obj' = [obj EXCEPT ![o] = r]
    BY <1>1, <1>3 DEF CheckpointDestroy, Objs
  <2>2. r \in Records /\ Life(r) /\ r.kind = obj[o].kind /\ r.of = obj[o].of /\ r.snapshot = obj[o].snapshot
    BY <1>1, <1>3 DEF Records, Life, Plain
  <2> QED
    BY <2>1, <2>2, Changed
<1>4. CASE obj[o].kind \in {"iter", "snap"} \union Plain /\ obj' = Deleted(obj, o)
  <2> DEFINE r == [obj[o] EXCEPT !.alive = FALSE, !.c = FALSE, !.ended = TRUE]
  <2>1. obj' = [obj EXCEPT ![o] = r]
    BY <1>1, <1>4 DEF Deleted, Objs
  <2>2. r \in Records /\ Life(r) /\ r.kind = obj[o].kind /\ r.of = obj[o].of /\ r.snapshot = obj[o].snapshot
    BY <1>1, <1>4 DEF Records, Life, Plain
  <2> QED
    BY <2>1, <2>2, Changed
<1>5. CASE obj[o].kind \in {"value", "key"} /\ SliceFree(o) /\ obj' # obj
  <2> DEFINE r == [obj[o] EXCEPT !.alive = FALSE, !.freed = TRUE, !.ended = TRUE]
  <2>1. obj' = [obj EXCEPT ![o] = r]
    BY <1>1, <1>5 DEF SliceFree, Objs
  <2>2. r \in Records /\ Life(r) /\ r.kind = obj[o].kind /\ r.of = obj[o].of /\ r.snapshot = obj[o].snapshot
    BY <1>1, <1>5 DEF Records, Life, Plain
  <2> QED
    BY <2>1, <2>2, Changed
<1>6. CASE obj[o].kind = "ropt" /\ \E s \in Of("snap") \union {0} : SetSnapshot(o, s)
  <2>1. PICK s \in Of("snap") \union {0} : SetSnapshot(o, s)
    BY <1>6
  <2> DEFINE q == IF s = 0 THEN 0 ELSE Ptr(s)
             r == [obj[o] EXCEPT !.snapshot = q]
  <2>2. q \in Of("snap") \union {0} /\ q \in Nat
    BY <1>1 DEF Of, Objs, Ptr
  <2>3. obj' = [obj EXCEPT ![o] = r]
    BY <1>1, <2>1 DEF SetSnapshot, Objs
  <2>4. r \in Records /\ Life(r) /\ r.kind = obj[o].kind /\ r.of = obj[o].of /\ r.snapshot = q
    BY <1>1, <1>6, <2>2 DEF Records, Life, Plain
  <2> QED
    BY <2>2, <2>3, <2>4, Changed
<1> QED
  BY <1>2, <1>3, <1>4, <1>5, <1>6

\* The slices of an iterator that moves or is closed end.
LEMMA HeapInvalidated ==
    ASSUME Heap, NEW o \in Of("iter"),
           obj' = Invalidated(o) \/ obj' = Deleted(Invalidated(o), o)
    PROVE  Heap'
<1>1. obj \in Seq(Records) /\ \A p \in Objs : obj[p] \in Records /\ Life(obj[p])
  BY DEF Heap, Good
<1>2. o \in Objs /\ obj[o].kind = "iter"
  BY DEF Of
<1> DEFINE inv == Invalidated(o)
<1>3. DOMAIN inv = DOMAIN obj /\ inv = [p \in DOMAIN obj |-> inv[p]]
  BY DEF Invalidated, Objs
<1>4. inv[o] = obj[o]
  BY <1>2 DEF Invalidated
<1>5. ASSUME NEW p \in Objs
      PROVE  /\ inv[p] \in Records /\ Life(inv[p]) /\ inv[p].kind = obj[p].kind
             /\ inv[p].of = obj[p].of /\ inv[p].snapshot = obj[p].snapshot
  BY <1>1 DEF Invalidated, Records, Life, Plain
<1>6. CASE obj' = inv
  BY <1>3, <1>5, <1>6, InPlace
<1>7. CASE obj' = Deleted(inv, o)
  <2>1. DOMAIN obj' = DOMAIN obj /\ obj' = [p \in DOMAIN obj |-> obj'[p]]
    BY <1>3, <1>7 DEF Deleted
  <2>2. \A p \in Objs : p # o => obj'[p] = inv[p]
    BY <1>3, <1>7 DEF Deleted, Objs
  <2>3. obj'[o] = [obj[o] EXCEPT !.alive = FALSE, !.c = FALSE, !.ended = TRUE]
    BY <1>2, <1>3, <1>4, <1>7 DEF Deleted, Objs
  <2>4. /\ obj'[o] \in Records /\ Life(obj'[o]) /\ obj'[o].kind = obj[o].kind
        /\ obj'[o].of = obj[o].of /\ obj'[o].snapshot = obj[o].snapshot
    BY <1>1, <1>2, <2>3 DEF Records, Life, Plain
  <2> HIDE DEF inv
  <2> QED
    BY <1>5, <2>1, <2>2, <2>4, InPlace
<1> QED
  BY <1>6, <1>7

\* Store.NewIterator makes two objects.
LEMMA MadeTwo ==
    ASSUME Heap, NEW o \in Of("db"), StoreNewIterator(o)
    PROVE  Heap'
<1> DEFINE a == Object("iter", o, TRUE, FALSE)
           b == Object("iterropt", 0, FALSE, FALSE)
           n == Len(obj)
<1>1. obj \in Seq(Records) /\ n \in Nat /\ o \in 1 .. n /\ obj[o].kind = "db"
  BY DEF Heap, Of, Objs
<1>2. a \in Records /\ b \in Records /\ Life(a) /\ Life(b)
  <2>1. a \in Records /\ Life(a)
    BY <1>1 DEF Object, Records, Kinds, Life, Plain
  <2>2. b \in Records /\ Life(b)
    BY DEF Object, Records, Kinds, Life, Plain
  <2> QED
    BY <2>1, <2>2
<1>3. a.kind = "iter" /\ a.of = o /\ a.snapshot = 0 /\ b.kind = "iterropt" /\ b.snapshot = 0
  BY DEF Object
<1> HIDE DEF a, b
<1>4. obj' = obj \o <<a, b>>
  BY DEF StoreNewIterator, a, b
<1>5. obj' \in Seq(Records) /\ DOMAIN obj' = DOMAIN obj \union {n + 1, n + 2}
  <2>1. <<a, b>> \in Seq(Records) /\ Len(<<a, b>>) = 2
    BY <1>2
  <2>2. obj' \in Seq(Records) /\ Len(obj') = n + 2
    BY <1>1, <1>4, <2>1
  <2> QED
    BY <1>1, <2>2
<1>6. obj'[n + 1] = a /\ obj'[n + 2] = b /\ \A p \in Objs : obj'[p] = obj[p]
  BY <1>1, <1>4 DEF Objs
<1>7. \A p \in Objs : obj[p] \in Records /\ Life(obj[p]) /\ Linked(obj, obj[p])
  BY DEF Heap, Good
<1>8. \A p \in Objs : Linked(obj', obj[p])
  BY <1>5, <1>6, <1>7 DEF Linked, Objs
<1>9. Linked(obj', a) /\ Linked(obj', b)
  BY <1>1, <1>3, <1>5, <1>6 DEF Linked, Objs
<1> QED
  BY <1>2, <1>5, <1>6, <1>7, <1>8, <1>9 DEF Heap, Good, Objs

\* A key or value of an iterator.
LEMMA MadeKey ==
    ASSUME Heap, NEW o \in Of("iter"), Key(o)
    PROVE  Heap'
<1>1. o \in Nat /\ o \in DOMAIN obj /\ obj[o].kind = "iter"
  BY DEF Heap, Of, Objs
<1>2. Object("key", o, TRUE, TRUE) \in Records
  BY <1>1 DEF Object, Records, Kinds
<1>3. Life(Object("key", o, TRUE, TRUE)) /\ Linked(obj, Object("key", o, TRUE, TRUE))
  BY <1>1 DEF Object, Life, Linked, Plain
<1> QED
  BY <1>2, <1>3, Made DEF Key, KeyFreed

\* Every step keeps the heap.
LEMMA HeapNext == Heap /\ [Next]_vars => Heap'
<1> SUFFICES ASSUME Heap, [Next]_vars PROVE Heap'
  OBVIOUS
<1>1. CASE UNCHANGED obj
  BY <1>1 DEF Heap, Objs
<1>2. CASE OpenDb
  BY <1>2, MadeNew DEF OpenDb, Kinds
<1>3. ASSUME NEW kind \in Plain, Create(kind) PROVE Heap'
  BY <1>3, MadeNew DEF Create, Kinds, Plain
<1>4. ASSUME NEW o \in Of("db"), NewSnapshot(o) \/ NewCheckpoint(o) PROVE Heap'
  <2>1. o \in Nat
    BY DEF Heap, Of, Objs
  <2> QED
    BY <1>4, <2>1, MadeNew DEF NewSnapshot, NewCheckpoint, Kinds
<1>5. ASSUME NEW o \in Of("db"), NEW r \in Of("ropt"), Get(o, r) \/ NewIterator(o, r) PROVE Heap'
  <2>1. o \in Nat
    BY DEF Heap, Of, Objs
  <2> QED
    BY <1>5, <2>1, MadeNew DEF Get, NewIterator, Kinds
<1>6. ASSUME NEW o \in Of("db"), Close(o) PROVE Heap'
  BY <1>6, OneChanged DEF Of
<1>7. ASSUME NEW o \in Of("ckpt"), CheckpointDestroy(o) PROVE Heap'
  BY <1>7, OneChanged DEF Of
<1>8. ASSUME NEW o \in Of("snap"), Release(o) PROVE Heap'
  BY <1>8, OneChanged DEF Of, Release
<1>9. ASSUME NEW kind \in Plain, NEW o \in Of(kind), Destroy(o) PROVE Heap'
  BY <1>9, OneChanged DEF Of, Destroy
<1>10. ASSUME NEW r \in Of("ropt"), NEW s \in Of("snap") \union {0}, SetSnapshot(r, s) PROVE Heap'
  BY <1>10, OneChanged DEF Of
<1>11. ASSUME NEW o \in Of("value") \union Of("key"), SliceFree(o) PROVE Heap'
  BY <1>1, <1>11, OneChanged DEF Of
<1>12. ASSUME NEW o \in Of("iter"), Move(o) \/ IteratorClose(o) PROVE Heap'
  BY <1>12, HeapInvalidated DEF Move, IteratorClose
<1> QED
  BY <1>1, <1>2, <1>3, <1>4, <1>5, <1>6, <1>7, <1>8, <1>9, <1>10, <1>11, <1>12, MadeTwo, MadeKey
     DEF Next, vars, Put, Write, GetProperty, GetBytes, Look, Save, Set, SliceData

-----------------------------------------------------------------------------
(* Faults *)

Rulebook == {"db", "again", "slice", "snapshot"}
Faults == fault \in {"none", "nil", "dangling"} /\ sins \subseteq Rulebook

Safe == KeepingTheRulesIsSafe /\ SilentFaultsHaveThreeCauses

\* A call is safe if each nil pointer it uses comes with a broken rule and each
\* dead object with one of the three.
LEMMA TouchSafe ==
    ASSUME NEW ptrs, Touch(ptrs), 0 \in ptrs => sins' # {},
           \A p \in ptrs \ {0} :
               ~obj[p].alive => sins' \intersect {"db", "slice", "snapshot"} # {}
    PROVE  Safe' /\ fault' \in {"none", "nil", "dangling"}
  BY DEF Touch, Safe, KeepingTheRulesIsSafe, SilentFaultsHaveThreeCauses

\* The rules broken by using objects.
LEMMA RulesOf ==
    ASSUME NEW os
    PROVE  /\ Rules(os) \subseteq Rulebook
           /\ \A o \in os : obj[o].ended => Rules(os) # {}
           /\ \A o \in os : obj[o].ended /\ obj[o].kind = "db" => "db" \in Rules(os)
  BY DEF Rules, Rulebook

\* What a pointer and the memory behind it say of the client.
LEMMA Pointers ==
    ASSUME Heap, NEW o \in Objs, obj[o].kind # "iterropt"
    PROVE  /\ Ptr(o) = 0 => obj[o].ended
           /\ Ptr(o) \in {o, 0}
           /\ Ptr(o) = o /\ ~obj[o].alive => obj[o].kind \in {"db", "value", "key"} /\ obj[o].ended
<1>1. obj[o] \in Records /\ Life(obj[o]) /\ o # 0
  BY DEF Heap, Good, Objs
<1> QED
  BY <1>1 DEF Ptr, Life, Plain, Records, Kinds

\* A call through the pointers of databases, options, batches and checkpoints is
\* safe if it breaks the rules of the ones it must not use any more.
LEMMA CallSafe ==
    ASSUME Heap, Faults, NEW os, NEW rules, os \subseteq Objs, rules \subseteq Rulebook,
           \A o \in os : obj[o].kind \in {"db", "ckpt"} \union Plain,
           Touch({Ptr(o) : o \in os}), Break(rules), Rules(os) \subseteq rules
    PROVE  Safe' /\ Faults'
<1>1. sins' = sins \union rules
  BY DEF Break
<1>2. 0 \in {Ptr(o) : o \in os} => sins' # {}
  BY <1>1, Pointers, RulesOf DEF Plain
<1>3. ASSUME NEW o \in os, Ptr(o) # 0, ~obj[Ptr(o)].alive PROVE "db" \in sins'
  BY <1>1, <1>3, Pointers, RulesOf DEF Plain
<1>4. \A p \in {Ptr(o) : o \in os} \ {0} :
          ~obj[p].alive => sins' \intersect {"db", "slice", "snapshot"} # {}
  BY <1>3
<1>5. Safe' /\ fault' \in {"none", "nil", "dangling"}
  BY <1>2, <1>4, TouchSafe
<1> QED
  BY <1>1, <1>5 DEF Faults

\* The same for a call on an iterator, a snapshot or a checkpoint, which uses its
\* database too.
LEMMA ChildSafe ==
    ASSUME Heap, Faults, NEW o \in Objs, obj[o].kind \in {"iter", "snap", "ckpt"},
           Touch(Used(o)), Break(Rules(Mine(o)))
    PROVE  Safe' /\ Faults'
<1> DEFINE d == obj[o].of
<1>1. o # 0 /\ Life(obj[o]) /\ obj[o] \in Records /\ Linked(obj, obj[o])
  BY DEF Heap, Good, Objs
<1>2. d \in Objs /\ obj[d].kind = "db" /\ d # 0 /\ Life(obj[d]) /\ obj[d] \in Records
  BY <1>1 DEF Linked, Objs, Heap, Good
<1>3. sins' = sins \union Rules(Mine(o)) /\ Mine(o) = {o, d}
  BY DEF Break, Mine
<1>4. obj[o].ended => sins' # {}
  BY <1>3, RulesOf
<1>5. obj[d].ended => "db" \in sins'
  BY <1>2, <1>3, RulesOf
<1>6. 0 \in Used(o) => obj[o].ended
  BY <1>1, <1>2 DEF Used, Life, Plain
<1>7. \A p \in Used(o) \ {0} : ~obj[p].alive => p = d /\ obj[d].ended
  BY <1>1, <1>2 DEF Used, Life, Plain
<1>8. Safe' /\ fault' \in {"none", "nil", "dangling"}
  BY <1>4, <1>5, <1>6, <1>7, TouchSafe
<1> QED
  BY <1>3, <1>8, RulesOf DEF Faults

\* And for a read, which uses the snapshot in its options.
LEMMA ReadSafe ==
    ASSUME Heap, Faults, NEW o \in Of("db"), NEW r \in Of("ropt"), Read(o, r)
    PROVE  Safe' /\ Faults'
<1> DEFINE s == obj[r].snapshot
           extra == IF s # 0 /\ obj[s].ended THEN {"snapshot"} ELSE {}
<1>1. o \in Objs /\ r \in Objs /\ obj[o].kind = "db" /\ obj[r].kind = "ropt"
  BY DEF Of
<1>2. s # 0 => s \in Objs /\ obj[s].kind = "snap" /\ Life(obj[s]) /\ obj[s] \in Records
  BY <1>1 DEF Heap, Good, Linked, Objs
<1>3. sins' = sins \union Rules({o, r}) \union extra
  BY DEF Read, Break
<1>4. Touch({Ptr(o), Ptr(r)} \union ({s} \ {0}))
  BY DEF Read
<1>5. Ptr(o) = 0 \/ Ptr(r) = 0 => sins' # {}
  BY <1>1, <1>3, Pointers, RulesOf
<1>6. Ptr(o) # 0 /\ ~obj[Ptr(o)].alive => "db" \in sins'
  BY <1>1, <1>3, Pointers, RulesOf
<1>7. Ptr(r) # 0 => obj[Ptr(r)].alive
  BY <1>1, Pointers
<1>8. s # 0 /\ ~obj[s].alive => "snapshot" \in sins'
  BY <1>2, <1>3 DEF Life
<1>9. Safe' /\ fault' \in {"none", "nil", "dangling"}
  <2> HIDE DEF s, extra
  <2>1. 0 \in {Ptr(o), Ptr(r)} \union ({s} \ {0}) => sins' # {}
    BY <1>5
  <2>2. \A p \in ({Ptr(o), Ptr(r)} \union ({s} \ {0})) \ {0} :
            ~obj[p].alive => sins' \intersect {"db", "slice", "snapshot"} # {}
    BY <1>6, <1>7, <1>8
  <2> QED
    BY <1>4, <2>1, <2>2, TouchSafe
<1>10. sins' \subseteq Rulebook
  BY <1>3, RulesOf DEF Faults, Rulebook
<1> QED
  BY <1>9, <1>10 DEF Faults

\* Every step is safe.
LEMMA SafeNext == Heap /\ Faults /\ Safe /\ [Next]_vars => Safe' /\ Faults'
<1> SUFFICES ASSUME Heap, Faults, Safe, [Next]_vars PROVE Safe' /\ Faults'
  OBVIOUS
<1>1. CASE UNCHANGED vars
  BY <1>1 DEF vars, Safe, Faults, KeepingTheRulesIsSafe, SilentFaultsHaveThreeCauses
<1>2. ASSUME Touch({}), Break({}) PROVE Safe' /\ Faults'
  BY <1>2 DEF Touch, Break, Safe, Faults, KeepingTheRulesIsSafe, SilentFaultsHaveThreeCauses
<1>3. CASE OpenDb \/ \E kind \in Plain : Create(kind)
  BY <1>2, <1>3 DEF OpenDb, Create
<1>4. ASSUME NEW o \in Objs, obj[o].kind \in {"db", "ckpt"} \union Plain,
             Touch({Ptr(o)}), Break(Rules({o}))
      PROVE  Safe' /\ Faults'
  <2>1. {Ptr(x) : x \in {o}} = {Ptr(o)}
    OBVIOUS
  <2> QED
    BY <1>4, <2>1, CallSafe, RulesOf
<1>5. ASSUME NEW o \in Of("db"),
             \/ Close(o) \/ StoreNewIterator(o) \/ NewSnapshot(o) \/ NewCheckpoint(o)
             \/ GetProperty(o)
      PROVE  Safe' /\ Faults'
  BY <1>4, <1>5 DEF Of, Close, StoreNewIterator, NewSnapshot, NewCheckpoint, GetProperty
<1>6. ASSUME NEW o \in Of("db"), NEW w \in Of("wopt"), Put(o, w) PROVE Safe' /\ Faults'
  <2>1. {Ptr(x) : x \in {o, w}} = {Ptr(o), Ptr(w)}
    OBVIOUS
  <2>2. {o, w} \subseteq Objs /\ \A x \in {o, w} : obj[x].kind \in {"db", "ckpt"} \union Plain
    BY DEF Of, Plain
  <2>3. Touch({Ptr(x) : x \in {o, w}}) /\ Break(Rules({o, w}))
    BY <1>6, <2>1 DEF Put
  <2> QED
    BY <2>2, <2>3, CallSafe, RulesOf
<1>7. ASSUME NEW o \in Of("db"), NEW w \in Of("wopt"), NEW b \in Of("wb"), Write(o, w, b)
      PROVE  Safe' /\ Faults'
  <2>1. {Ptr(x) : x \in {o, w, b}} = {Ptr(o), Ptr(w), Ptr(b)}
    OBVIOUS
  <2>2. {o, w, b} \subseteq Objs /\ \A x \in {o, w, b} : obj[x].kind \in {"db", "ckpt"} \union Plain
    BY DEF Of, Plain
  <2>3. Touch({Ptr(x) : x \in {o, w, b}}) /\ Break(Rules({o, w, b}))
    BY <1>7, <2>1 DEF Write
  <2> QED
    BY <2>2, <2>3, CallSafe, RulesOf
<1>8. ASSUME NEW o \in Of("db"), NEW r \in Of("ropt"), Get(o, r) \/ GetBytes(o, r) \/ NewIterator(o, r)
      PROVE  Safe' /\ Faults'
  BY <1>8, ReadSafe DEF Get, GetBytes, NewIterator
<1>9. ASSUME NEW o \in Of("iter"), Move(o) \/ Look(o) \/ Key(o) \/ IteratorClose(o)
      PROVE  Safe' /\ Faults'
  BY <1>9, ChildSafe DEF Of, Move, Look, Key, IteratorClose
<1>10. ASSUME NEW o \in Of("snap"), Release(o) PROVE Safe' /\ Faults'
  BY <1>10, ChildSafe DEF Of, Release
<1>11. ASSUME NEW o \in Of("ckpt"), Save(o) PROVE Safe' /\ Faults'
  BY <1>11, ChildSafe DEF Of, Save
<1>12. ASSUME NEW o \in Of("ckpt"), CheckpointDestroy(o) PROVE Safe' /\ Faults'
  BY <1>4, <1>12 DEF Of, CheckpointDestroy
<1>13. ASSUME NEW kind \in Plain, NEW o \in Of(kind), Set(o) PROVE Safe' /\ Faults'
  BY <1>4, <1>13 DEF Of, Set
<1>14. ASSUME NEW kind \in Plain, NEW o \in Of(kind), Destroy(o) PROVE Safe' /\ Faults'
  <2>1. Touch({Ptr(o)} \ {0}) /\ sins' = sins
    BY <1>14 DEF Destroy, Break
  <2>2. Ptr(o) # 0 => obj[Ptr(o)].alive
    BY Pointers DEF Of, Plain
  <2>3. Safe' /\ fault' \in {"none", "nil", "dangling"}
    BY <2>1, <2>2, TouchSafe
  <2> QED
    BY <2>1, <2>3 DEF Faults
<1>15. ASSUME NEW r \in Of("ropt"), NEW s \in Of("snap") \union {0}, SetSnapshot(r, s)
       PROVE  Safe' /\ Faults'
  <2> DEFINE q == IF s = 0 THEN {} ELSE {Ptr(s)} \ {0}
  <2>1. Touch({Ptr(r)} \union q) /\ sins' = sins \union Rules({r})
    BY <1>15 DEF SetSnapshot, Break
  <2>2. \A p \in q : p # 0 /\ obj[p].alive
    BY Pointers DEF Of
  <2>3. Ptr(r) # 0 => obj[Ptr(r)].alive
    BY Pointers DEF Of
  <2>4. Ptr(r) = 0 => sins' # {}
    BY <2>1, Pointers, RulesOf DEF Of
  <2> HIDE DEF q
  <2>5. Safe' /\ fault' \in {"none", "nil", "dangling"}
    BY <2>1, <2>2, <2>3, <2>4, TouchSafe
  <2> QED
    BY <2>1, <2>5, RulesOf DEF Faults
<1>16. ASSUME NEW o \in Of("value") \union Of("key"), SliceFree(o) PROVE Safe' /\ Faults'
  <2>1. o \in Objs /\ obj[o] \in Records /\ Life(obj[o]) /\ obj[o].kind \in {"value", "key"}
    BY DEF Of, Heap, Good
  <2>2. CASE obj[o].freed
    BY <1>2, <1>16, <2>2 DEF SliceFree
  <2>3. CASE ~obj[o].freed
    <3>1. obj[o].alive /\ obj[o].kind = "value"
      BY <2>1, <2>3 DEF Life
    <3>2. fault' = "none" /\ sins' = sins
      BY <1>16, <2>3, <3>1 DEF SliceFree, Break
    <3> QED
      BY <3>2 DEF Safe, Faults, KeepingTheRulesIsSafe, SilentFaultsHaveThreeCauses
  <2> QED
    BY <2>2, <2>3
<1>17. ASSUME NEW o \in Of("value") \union Of("key"), SliceData(o) PROVE Safe' /\ Faults'
  <2>1. o \in Objs /\ o # 0 /\ Life(obj[o]) /\ obj[o].kind \in {"value", "key"}
    BY DEF Of, Heap, Good, Objs
  <2>2. Touch({o}) /\ sins' = sins \union (IF obj[o].ended THEN {"slice"} ELSE {})
    BY <1>17 DEF SliceData, Break
  <2>3. ~obj[o].alive => "slice" \in sins'
    BY <2>1, <2>2 DEF Life
  <2>4. Safe' /\ fault' \in {"none", "nil", "dangling"}
    BY <2>1, <2>2, <2>3, TouchSafe
  <2> QED
    BY <2>2, <2>4 DEF Faults, Rulebook
<1> QED
  BY <1>1, <1>3, <1>5, <1>6, <1>7, <1>8, <1>9, <1>10, <1>11, <1>12, <1>13, <1>14, <1>15,
     <1>16, <1>17
     DEF Next

\* A client starts with no object and no fault.
LEMMA HandlesInit == Init => Heap /\ Faults /\ Safe
  BY DEF Init, Heap, Objs, Faults, Safe, KeepingTheRulesIsSafe, SilentFaultsHaveThreeCauses

\* Every variable keeps its type, and the references between objects are what
\* they should be.
THEOREM TypeCorrect == Spec => []TypeOK
<1>1. Heap /\ Faults => TypeOK
  BY DEF Heap, Faults, TypeOK, Good, Linked, Records, Of, Objs, Rulebook
<1> QED
  BY <1>1, HandlesInit, HeapNext, SafeNext, PTL DEF Spec

\* A client that keeps the rules of the package never uses freed or nil memory.
THEOREM RulesSuffice == Spec => []KeepingTheRulesIsSafe
<1>1. Safe => KeepingTheRulesIsSafe
  BY DEF Safe
<1> QED
  BY <1>1, HandlesInit, HeapNext, SafeNext, PTL DEF Spec

\* Freed memory is used only through a closed DB, a slice past its life or a
\* released snapshot.
THEOREM ThreeCauses == Spec => []SilentFaultsHaveThreeCauses
<1>1. Safe => SilentFaultsHaveThreeCauses
  BY DEF Safe
<1> QED
  BY <1>1, HandlesInit, HeapNext, SafeNext, PTL DEF Spec

\* Nothing but checkpoints and the read options of Store.NewIterator leaks.
THEOREM LeaksAreKnown == Spec => []OnlyKnownLeaks
<1>1. Heap => OnlyKnownLeaks
  BY DEF Heap, Good, Life, Records, Kinds, Plain, OnlyKnownLeaks
<1> QED
  BY <1>1, HandlesInit, HeapNext, SafeNext, PTL DEF Spec
=================================================================
