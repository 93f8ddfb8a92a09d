----------------------------- MODULE RocksStore -----------------------------
(***************************************************************************)
(* Package store over package rdb over the C wrapper rdbc.cc: what the     *)
(* calls of a client do to the databases, to the read options of the store *)
(* and to the snapshots, iterators, write batches and checkpoints made     *)
(* from it. RocksDB itself is external. It is a log of commits for each    *)
(* directory; a snapshot or an iterator is a position in that log.         *)
(*                                                                         *)
(* A call that returns an error leaves all of this alone and so is a       *)
(* stuttering step: a write to a read-only store, Save into a directory    *)
(* that exists, OpenDb of a directory that is open already.                *)
(***************************************************************************)
EXTENDS Integers, Sequences, FiniteSets

CONSTANTS
    Keys,       \* keys: positive numbers, in the order of the comparator
    Vals,       \* values
    NoVal,      \* no value for a key, and the value of a tombstone
    Dirs,       \* directories
    Snaps,      \* Go variables of type *Snapshot
    Iters,      \* Go variables of type *Iterator
    Batches,    \* Go variables of type *WriteBatch
    Ckpts,      \* Go variables of type *Checkpoint
    Nil,
    MaxCommits, \* bound: commits in one directory
    MaxOps      \* bound: updates in a write batch

Dictionary == [Keys -> Vals \union {NoVal}]
Commits == UNION {[S -> Vals \union {NoVal}] : S \in SUBSET Keys}
Updates == [key : Keys, val : Vals \union {NoVal}]
Snapshot == [dir : Dirs, at : Nat]
Iterator == [dir : Dirs, at : Nat, pos : Nat, scan : BOOLEAN, seen : SUBSET Keys]

ASSUME KeysAssumption == Keys \subseteq Nat \ {0} /\ IsFiniteSet(Keys)
ASSUME NoValAssumption == NoVal \notin Vals
ASSUME NilAssumption ==
    /\ Nil \notin Snaps \union Dirs
    /\ Nil \notin Seq(Commits) /\ Nil \notin Dictionary
    /\ Nil \notin Snapshot /\ Nil \notin Iterator
    /\ Nil \notin [dir : Dirs, dict : Dictionary]
    /\ Nil \notin [dir : Dirs, dict : Dictionary, pos : Nat]

VARIABLES
    log,        \* commits of each directory, Nil if there is no database
    synced,     \* how many of them are on stable storage
    mode,       \* "closed", or how the store is open: "rw", "sync" or "ro"
    ropt,       \* rep.snapshot of the store's ReadOptions
    snap,       \* directory and log position of each snapshot
    iter,       \* directory, log position, key and scan of each iterator
    wb,         \* the updates queued in each WriteBatch
    ckpt,       \* directory of each checkpoint
    got         \* what the last call returned

files == <<log, synced>>
vars == <<log, synced, mode, ropt, snap, iter, wb, ckpt, got>>

Off == 0

Min(S) == CHOOSE x \in S : \A y \in S : x <= y
Max(S) == CHOOSE x \in S : \A y \in S : x >= y

Last(d) == Len(log[d])

\* The dictionary after the first n commits of a log.
View(l, n) ==
    [k \in Keys |->
        LET touched == {i \in 1 .. n : k \in DOMAIN l[i]}
        IN  IF touched = {} THEN NoVal ELSE l[Max(touched)][k]]

Init ==
    /\ log = [d \in Dirs |-> Nil]
    /\ synced = [d \in Dirs |-> 0]
    /\ mode = [d \in Dirs |-> "closed"]
    /\ ropt = [d \in Dirs |-> Nil]
    /\ snap = [s \in Snaps |-> Nil]
    /\ iter = [i \in Iters |-> Nil]
    /\ wb = [b \in Batches |-> <<>>]
    /\ ckpt = [c \in Ckpts |-> Nil]
    /\ got = Nil

-----------------------------------------------------------------------------
(* Opening and closing *)

\* DB::Open with create_if_missing.
rdb_open(d) == log' = IF log[d] = Nil THEN [log EXCEPT ![d] = <<>>] ELSE log

ReadOnlyUnchecked(d) == UNCHANGED log

\* DB::OpenForReadOnly does not create a database.
rdb_open_for_read_only(d) == log[d] # Nil /\ UNCHANGED log

OpenDb(d) == mode[d] = "closed" /\ rdb_open(d)

OpenDbForReadOnly(d) == mode[d] = "closed" /\ rdb_open_for_read_only(d)

\* NewStore, NewSyncStore and NewReadOnlyStore; their read options are new and
\* use no snapshot.
NewStore(d) ==
    /\ \/ OpenDb(d) /\ mode' = [mode EXCEPT ![d] = "rw"]
       \/ OpenDb(d) /\ mode' = [mode EXCEPT ![d] = "sync"]
       \/ OpenDbForReadOnly(d) /\ mode' = [mode EXCEPT ![d] = "ro"]
    /\ UNCHANGED <<synced, ropt, snap, iter, wb, ckpt>>

\* The objects made from the store are left dangling and the client must not
\* use them again.
Close(d) ==
    /\ mode[d] # "closed"
    /\ mode' = [mode EXCEPT ![d] = "closed"]
    /\ ropt' = [ropt EXCEPT ![d] = Nil]
    /\ snap' = [s \in Snaps |-> IF snap[s] # Nil /\ snap[s].dir = d THEN Nil ELSE snap[s]]
    /\ iter' = [i \in Iters |-> IF iter[i] # Nil /\ iter[i].dir = d THEN Nil ELSE iter[i]]
    /\ ckpt' = [c \in Ckpts |-> IF ckpt[c] = d THEN Nil ELSE ckpt[c]]
    /\ UNCHANGED <<files, wb>>

-----------------------------------------------------------------------------
(* Writing *)

FirstCounts(ops) ==
    [k \in {ops[i].key : i \in DOMAIN ops} |->
        ops[Min({i \in DOMAIN ops : ops[i].key = k})].val]

\* The effect of updates applied in order: the last one of a key counts.
Effect(ops) ==
    [k \in {ops[i].key : i \in DOMAIN ops} |->
        ops[Max({i \in DOMAIN ops : ops[i].key = k})].val]

SyncedBefore(d) == Last(d)

\* How much of the log a synchronous commit has made durable when it returns.
SyncedBy(d) == Last(d) + 1

\* The engine appends the updates as one commit; with sync it returns only when
\* the log is on stable storage.
Commit(d, ops) ==
    /\ mode[d] \in {"rw", "sync"}
    /\ Last(d) < MaxCommits
    /\ log' = [log EXCEPT ![d] = Append(@, Effect(ops))]
    /\ synced' = IF mode[d] = "sync" THEN [synced EXCEPT ![d] = SyncedBy(d)] ELSE synced
    /\ UNCHANGED <<mode, ropt, snap, iter, wb, ckpt>>

Put(d, k, v) == Commit(d, <<[key |-> k, val |-> v]>>)

SetOne(d) == \E k \in Keys, v \in Vals : Put(d, k, v)

\* Deleting a key that is not there is a commit all the same.
Delete(d) == \E k \in Keys : Commit(d, <<[key |-> k, val |-> NoVal]>>)

\* The batch keeps its updates after Write.
WriteBatch(d, b) == wb[b] # <<>> /\ Commit(d, wb[b])

\* WriteBatch.Put (v in Vals) and WriteBatch.Delete (v = NoVal).
QueueUpdate(b) ==
    /\ Len(wb[b]) < MaxOps
    /\ \E k \in Keys, v \in Vals \union {NoVal} :
          wb' = [wb EXCEPT ![b] = Append(@, [key |-> k, val |-> v])]
    /\ UNCHANGED <<files, mode, ropt, snap, iter, ckpt>>

\* WriteBatch.Clear, and Destroy followed by NewWriteBatch.
ClearBatch(b) ==
    /\ wb[b] # <<>>
    /\ wb' = [wb EXCEPT ![b] = <<>>]
    /\ UNCHANGED <<files, mode, ropt, snap, iter, ckpt>>

-----------------------------------------------------------------------------
(* Reading *)

\* The dictionaries a read with the store's options may see. A snapshot that
\* was released while the options still point to it leaves them dangling.
Readable(d) ==
    IF ropt[d] = Nil THEN {View(log[d], Last(d))}
    ELSE IF snap[ropt[d]] = Nil THEN [Keys -> Vals \union {NoVal}]
    ELSE {View(log[d], snap[ropt[d]].at)}

\* rdb_get copies the value, or returns no data and no error if there is none.
rdb_get(d, k) ==
    \E view \in Readable(d) : got' = [dir |-> d, key |-> k, val |-> view[k]]

Get(d) ==
    /\ mode[d] # "closed"
    /\ \E k \in Keys : rdb_get(d, k)
    /\ UNCHANGED <<files, mode, ropt, snap, iter, wb, ckpt>>

\* A Go variable is used again only when no options point to its old snapshot.
NewSnapshot(s, d) ==
    /\ mode[d] # "closed"
    /\ snap[s] = Nil
    /\ \A e \in Dirs : ropt[e] # s
    /\ snap' = [snap EXCEPT ![s] = [dir |-> d, at |-> Last(d)]]
    /\ UNCHANGED <<files, mode, ropt, iter, wb, ckpt>>

\* Release forgets both C pointers; a second call would dereference nil.
Release(s) ==
    /\ snap[s] # Nil
    /\ snap' = [snap EXCEPT ![s] = Nil]
    /\ UNCHANGED <<files, mode, ropt, iter, wb, ckpt>>

\* rep.snapshot = (snap ? snap->rep : nullptr). The c of a released snapshot is
\* nil, so setting one clears the option.
SetSnapshot(d) ==
    /\ mode[d] # "closed"
    /\ \E s \in Snaps \union {Nil} :
          /\ s # Nil /\ snap[s] # Nil => snap[s].dir = d
          /\ ropt' = [ropt EXCEPT ![d] = IF s # Nil /\ snap[s] # Nil THEN s ELSE Nil]
    /\ UNCHANGED <<files, mode, snap, iter, wb, ckpt>>

-----------------------------------------------------------------------------
(* Iterators *)

LatestView(i) == View(log[iter[i].dir], Last(iter[i].dir))

\* What iterator i shows.
IterView(i) == View(log[iter[i].dir], iter[i].at)

Present(view) == {k \in Keys : view[k] # NoVal}

Valid(i) == iter[i] # Nil /\ iter[i].pos # Off

First(S) == IF S = {} THEN Off ELSE Min(S)

FinalKey(S) == IF S = {} THEN Off ELSE Max(S)

\* The iterator gets read options of its own, which use no snapshot. Ghosts:
\* whether it is on a full scan, and the keys met by the scan.
NewIterator(i, d) ==
    /\ mode[d] # "closed"
    /\ iter[i] = Nil
    /\ iter' = [iter EXCEPT ![i] =
                  [dir |-> d, at |-> Last(d), pos |-> Off,
                   scan |-> FALSE, seen |-> {}]]
    /\ UNCHANGED <<files, mode, ropt, snap, wb, ckpt>>

Move(i, k, scan, seen) ==
    /\ iter' = [iter EXCEPT ![i] =
                  [dir |-> @.dir, at |-> @.at, pos |-> k, scan |-> scan,
                   seen |-> IF scan THEN seen \union ({k} \ {Off}) ELSE {}]]
    /\ UNCHANGED <<files, mode, ropt, snap, wb, ckpt>>

SeekToFirst(i) == iter[i] # Nil /\ Move(i, First(Present(IterView(i))), TRUE, {})

SeekToLast(i) == iter[i] # Nil /\ Move(i, FinalKey(Present(IterView(i))), FALSE, {})

\* The position greater than or equal to the key.
Seek(i) ==
    /\ iter[i] # Nil
    /\ \E k \in Keys : Move(i, First({j \in Present(IterView(i)) : j >= k}), FALSE, {})

SeekForPrev(i) ==
    /\ iter[i] # Nil
    /\ \E k \in Keys : Move(i, FinalKey({j \in Present(IterView(i)) : j <= k}), FALSE, {})

\* for ; it.Valid(); it.Next(): RocksDB requires Valid.
IterNext(i) ==
    /\ Valid(i)
    /\ Move(i, First({j \in Present(IterView(i)) : j > iter[i].pos}), iter[i].scan, iter[i].seen)

IterPrev(i) ==
    /\ Valid(i)
    /\ Move(i, FinalKey({j \in Present(IterView(i)) : j < iter[i].pos}), FALSE, {})

IterClose(i) ==
    /\ iter[i] # Nil
    /\ iter' = [iter EXCEPT ![i] = Nil]
    /\ UNCHANGED <<files, mode, ropt, snap, wb, ckpt>>

-----------------------------------------------------------------------------
(* Checkpoints *)

\* Checkpoint::Create only keeps the database: nothing is copied yet.
NewCheckpoint(c, d) ==
    /\ mode[d] # "closed"
    /\ ckpt[c] = Nil
    /\ ckpt' = [ckpt EXCEPT ![c] = d]
    /\ UNCHANGED <<files, mode, ropt, snap, iter, wb>>

\* CreateCheckpoint fails if the directory exists, and in a read-only store.
CanSave(c, e) == log[e] = Nil /\ mode[ckpt[c]] # "ro"

\* CreateCheckpoint copies the database as it is now into a new directory.
Save(c, e) ==
    /\ ckpt[c] # Nil
    /\ CanSave(c, e)
    /\ log' = [log EXCEPT ![e] = log[ckpt[c]]]
    /\ synced' = [synced EXCEPT ![e] = Last(ckpt[c])]
    /\ UNCHANGED <<mode, ropt, snap, iter, wb, ckpt>>

DestroyCheckpoint(c) ==
    /\ ckpt[c] # Nil
    /\ ckpt' = [ckpt EXCEPT ![c] = Nil]
    /\ UNCHANGED <<files, mode, ropt, snap, iter, wb>>

-----------------------------------------------------------------------------
(* The surroundings *)

\* The operating system or a flush brings commits to stable storage.
WriteBack(d) ==
    /\ log[d] # Nil
    /\ \E n \in synced[d] + 1 .. Last(d) : synced' = [synced EXCEPT ![d] = n]
    /\ UNCHANGED <<log, mode, ropt, snap, iter, wb, ckpt>>

\* The machine fails. Recovery finds a prefix of every log that holds at least
\* what was on stable storage; everything in memory is gone.
Crash ==
    /\ \E n \in [Dirs -> 0 .. MaxCommits] :
          /\ \A d \in Dirs :
                n[d] \in IF log[d] = Nil THEN {0} ELSE synced[d] .. Last(d)
          /\ log' = [d \in Dirs |-> IF log[d] = Nil THEN Nil ELSE SubSeq(log[d], 1, n[d])]
          /\ synced' = n
    /\ mode' = [d \in Dirs |-> "closed"]
    /\ ropt' = [d \in Dirs |-> Nil]
    /\ snap' = [s \in Snaps |-> Nil]
    /\ iter' = [i \in Iters |-> Nil]
    /\ wb' = [b \in Batches |-> <<>>]
    /\ ckpt' = [c \in Ckpts |-> Nil]

\* got is what the call returned; only Get returns something that is kept.
Next ==
    \/ \E d \in Dirs : Get(d)
    \/ /\ got' = Nil
       /\ \/ \E d \in Dirs :
                \/ NewStore(d) \/ Close(d) \/ SetOne(d) \/ Delete(d) \/ SetSnapshot(d)
                \/ WriteBack(d) \/ \E b \in Batches : WriteBatch(d, b)
          \/ \E b \in Batches : QueueUpdate(b) \/ ClearBatch(b)
          \/ \E s \in Snaps : Release(s) \/ \E d \in Dirs : NewSnapshot(s, d)
          \/ \E i \in Iters :
                \/ \E d \in Dirs : NewIterator(i, d)
                \/ SeekToFirst(i) \/ SeekToLast(i) \/ Seek(i) \/ SeekForPrev(i)
                \/ IterNext(i) \/ IterPrev(i) \/ IterClose(i)
          \/ \E c \in Ckpts :
                \/ \E d \in Dirs : NewCheckpoint(c, d) \/ Save(c, d)
                \/ DestroyCheckpoint(c)
          \/ Crash

Spec == Init /\ [][Next]_vars

-----------------------------------------------------------------------------
(* Properties *)

TypeOK ==
    /\ log \in [Dirs -> Seq(Commits) \union {Nil}]
    /\ synced \in [Dirs -> Nat]
    /\ mode \in [Dirs -> {"closed", "rw", "sync", "ro"}]
    /\ ropt \in [Dirs -> Snaps \union {Nil}]
    /\ snap \in [Snaps -> Snapshot \union {Nil}]
    /\ iter \in [Iters -> Iterator \union {Nil}]
    /\ wb \in [Batches -> Seq(Updates)]
    /\ ckpt \in [Ckpts -> Dirs \union {Nil}]
    /\ \A d \in Dirs : /\ synced[d] <= IF log[d] = Nil THEN 0 ELSE Last(d)
                       /\ mode[d] # "closed" => log[d] # Nil
    /\ \A d \in Dirs : ropt[d] # Nil /\ snap[ropt[d]] # Nil => snap[ropt[d]].dir = d
    /\ \A s \in Snaps : snap[s] # Nil =>
          mode[snap[s].dir] # "closed" /\ snap[s].at <= Last(snap[s].dir)
    /\ \A i \in Iters : iter[i] # Nil =>
          /\ mode[iter[i].dir] # "closed" /\ iter[i].at <= Last(iter[i].dir)
          /\ iter[i].pos \in Present(IterView(i)) \union {Off}
    /\ \A c \in Ckpts : ckpt[c] # Nil => mode[ckpt[c]] # "closed"

\* A full scan, SeekToFirst and then Next until Valid fails, meets exactly the
\* keys of the database as it was when the iterator was made, in order, however
\* the store was written to during the scan.
ScanIsComplete ==
    \A i \in Iters :
        iter[i] # Nil /\ iter[i].scan =>
            iter[i].seen = {k \in Present(View(log[iter[i].dir], iter[i].at)) :
                                iter[i].pos # Off => k <= iter[i].pos}

\* Updates applied one by one to a dictionary m.
Applied(m, ops) ==
    LET after[n \in 0 .. Len(ops)] ==
            IF n = 0 THEN m ELSE [after[n - 1] EXCEPT ![ops[n].key] = ops[n].val]
    IN  after[Len(ops)]

\* Writing a batch (rdb/write_batch.go, rdb_write) leaves the database as the
\* queued puts and deletes applied one by one would, repeated keys included.
BatchAppliesInOrder ==
    \A d \in Dirs, b \in Batches :
        log[d] # Nil =>
            View(Append(log[d], Effect(wb[b])), Last(d) + 1)
                = Applied(View(log[d], Last(d)), wb[b])

-----------------------------------------------------------------------------
(* The log of commits implements the dictionary of KVStore. *)

dict == [d \in Dirs |-> IF log[d] = Nil THEN Nil ELSE View(log[d], Last(d))]

safe ==
    [d \in Dirs |->
        IF log[d] = Nil THEN {} ELSE {View(log[d], n) : n \in synced[d] .. Last(d)}]

frozen ==
    [s \in Snaps |->
        IF snap[s] = Nil THEN Nil
        ELSE [dir |-> snap[s].dir, dict |-> View(log[snap[s].dir], snap[s].at)]]

cursor ==
    [i \in Iters |->
        IF iter[i] = Nil THEN Nil
        ELSE [dir |-> iter[i].dir, dict |-> IterView(i), pos |-> iter[i].pos]]

KV == INSTANCE KVStore WITH reading <- ropt

\* Every step of the store is a step of KVStore: snapshots and iterators stay
\* frozen while commits are appended, batches are atomic, a synchronous store
\* loses nothing in a crash and any other one falls back to a whole commit.
ImplementsKVStore == KV!Spec
=============================================================================
