----------------------------- MODULE RdbHandles -----------------------------
(***************************************************************************)
(* The native objects behind the Go types of package rdb. A Go wrapper     *)
(* holds a raw C pointer; Close, Release, Destroy and Free give the memory *)
(* back and most of them, not all, forget the pointer. One client makes    *)
(* any calls in any order, those it must not make included. The model says *)
(* which calls touch which native objects and what is alive; the contents  *)
(* of the database are those of RocksStore.                                *)
(*                                                                         *)
(* A call through a nil pointer kills the process at once ("nil"); one     *)
(* that touches freed memory may go unnoticed ("dangling"). If it does     *)
(* both, the worse is assumed.                                             *)
(***************************************************************************)
EXTENDS Integers, Sequences

CONSTANT MaxObjs    \* bound: native objects made

ASSUME MaxObjsAssumption == MaxObjs \in Nat

VARIABLES
    obj,    \* the native objects, in the order they were made
    fault,  \* "none", "nil" or "dangling"
    sins    \* ghost: the rules of the package the client has broken

vars == <<obj, fault, sins>>

Objs == DOMAIN obj
Of(kind) == {o \in Objs : obj[o].kind = kind}

\* The pointer in the wrapper of o; 0 is nil.
Ptr(o) == IF obj[o].c THEN o ELSE 0

\* A call that touches these pointers.
Touch(ptrs) ==
    fault' = IF \E p \in ptrs \ {0} : ~obj[p].alive THEN "dangling"
             ELSE IF 0 \in ptrs THEN "nil" ELSE "none"

\* The rules: a DB, or what was made from it, is not used after its Close
\* ("db"), nor any other wrapper after its end ("again").
Rules(os) ==
    {IF obj[o].kind = "db" THEN "db" ELSE "again" : o \in {x \in os : obj[x].ended}}

Break(rules) == sins' = sins \union rules

\* Fields: the object it was made from, whether its memory is allocated,
\* whether the wrapper has its pointer, Slice.freed, the snapshot in
\* ReadOptions; ghost: the client has ended it, or it is no longer valid.
Object(kind, from, c, freed) ==
    [kind |-> kind, of |-> from, alive |-> TRUE, c |-> c, freed |-> freed,
     snapshot |-> 0, ended |-> FALSE]

New(kind, from) ==
    /\ Len(obj) < MaxObjs
    /\ obj' = Append(obj, Object(kind, from, TRUE, FALSE))

Init == obj = <<>> /\ fault = "none" /\ sins = {}

-----------------------------------------------------------------------------
(* Databases *)

OpenDb == New("db", 0) /\ Touch({}) /\ Break({})

\* DB.Close keeps its pointer. What was made from the database stays allocated.
Close(o) ==
    /\ Touch({Ptr(o)})
    /\ Break(Rules({o}))
    /\ obj' = [obj EXCEPT ![o].alive = FALSE, ![o].ended = TRUE]

\* DB.Put and DB.Delete; w is the write options.
Put(o, w) == Touch({Ptr(o), Ptr(w)}) /\ Break(Rules({o, w})) /\ UNCHANGED obj

Write(o, w, b) ==
    Touch({Ptr(o), Ptr(w), Ptr(b)}) /\ Break(Rules({o, w, b})) /\ UNCHANGED obj

\* GetProperty frees the copy it gets.
GetProperty(o) == Touch({Ptr(o)}) /\ Break(Rules({o})) /\ UNCHANGED obj

\* A read with options r follows their snapshot pointer.
Read(o, r) ==
    LET s == obj[r].snapshot
    IN  /\ Touch({Ptr(o), Ptr(r)} \union ({s} \ {0}))
        /\ Break(Rules({o, r}) \union (IF s # 0 /\ obj[s].ended THEN {"snapshot"} ELSE {}))

\* DB.Get of a key that is there: the value is copied into memory the returned
\* Slice must free.
Get(o, r) == Read(o, r) /\ New("value", 0)

\* GetBytes frees the copy itself.
GetBytes(o, r) == Read(o, r) /\ UNCHANGED obj

NewIterator(o, r) == Read(o, r) /\ New("iter", o)

\* Store.NewIterator makes read options that nothing refers to afterwards.
StoreNewIterator(o) ==
    /\ Touch({Ptr(o)})
    /\ Break(Rules({o}))
    /\ Len(obj) + 1 < MaxObjs
    /\ obj' = obj \o <<Object("iter", o, TRUE, FALSE), Object("iterropt", 0, FALSE, FALSE)>>

DbForgotten(o) == New("snap", 0) /\ Touch({Ptr(o)}) /\ Break(Rules({o}))

NewSnapshot(o) == New("snap", o) /\ Touch({Ptr(o)}) /\ Break(Rules({o}))

NewCheckpoint(o) == New("ckpt", o) /\ Touch({Ptr(o)}) /\ Break(Rules({o}))

-----------------------------------------------------------------------------
(* Iterators, snapshots and checkpoints use the database they were made from. *)

\* The pointers and the objects a call on wrapper o uses.
Used(o) == IF obj[o].c THEN {o, obj[o].of} ELSE {0}

Mine(o) == {o, obj[o].of}

\* Key and value slices of iterator o point into it and end with its position.
Invalidated(o) ==
    [p \in Objs |-> IF obj[p].kind = "key" /\ obj[p].of = o
                    THEN [obj[p] EXCEPT !.alive = FALSE, !.ended = TRUE] ELSE obj[p]]

\* Next, Prev, Seek, SeekForPrev, SeekToFirst, SeekToLast.
Move(o) == Touch(Used(o)) /\ Break(Rules(Mine(o))) /\ obj' = Invalidated(o)

\* Valid and Err.
Look(o) == Touch(Used(o)) /\ Break(Rules(Mine(o))) /\ UNCHANGED obj

KeyOwned == FALSE

\* Slice.freed of what Key and Value return: there is nothing to free.
KeyFreed == TRUE

Key(o) ==
    /\ Touch(Used(o))
    /\ Break(Rules(Mine(o)))
    /\ Len(obj) < MaxObjs
    /\ obj' = Append(obj, Object("key", o, TRUE, KeyFreed))

KeepPointer(m, o) == [m EXCEPT ![o].alive = FALSE, ![o].ended = TRUE]

KeepMemory(m, o) == [m EXCEPT ![o].c = FALSE, ![o].ended = TRUE]

\* The native object is deleted and the wrapper forgets it.
Deleted(m, o) == [m EXCEPT ![o].alive = FALSE, ![o].c = FALSE, ![o].ended = TRUE]

\* rdb_iter_destroy reads iter->rep.
IteratorClose(o) ==
    Touch(Used(o)) /\ Break(Rules(Mine(o))) /\ obj' = Deleted(Invalidated(o), o)

\* rdb_release_snapshot uses the wrapper's own pointer to the database.
Release(o) == Touch(Used(o)) /\ Break(Rules(Mine(o))) /\ obj' = Deleted(obj, o)

Save(o) == Touch(Used(o)) /\ Break(Rules(Mine(o))) /\ UNCHANGED obj

\* rdb_destroy_checkpoint deletes checkpoint->rep, for which it does not need
\* the database, and leaves the checkpoint itself allocated.
CheckpointDestroy(o) ==
    /\ Touch({Ptr(o)})
    /\ Break(Rules({o}))
    /\ obj' = [obj EXCEPT ![o].c = FALSE, ![o].ended = TRUE]

-----------------------------------------------------------------------------
(* Write batches, options and slices *)

Plain == {"wb", "ropt", "wopt"}

\* NewWriteBatch, NewDefaultReadOptions, NewDefaultWriteOptions.
Create(kind) == New(kind, 0) /\ Touch({}) /\ Break({})

\* WriteBatch.Put, Delete, Count, Clear; WriteOptions.SetSync; SetFillCache.
Set(o) == Touch({Ptr(o)}) /\ Break(Rules({o})) /\ UNCHANGED obj

\* delete of a nil pointer does nothing, so Destroy may be repeated.
Destroy(o) ==
    /\ Touch({Ptr(o)} \ {0})
    /\ Break({})
    /\ obj' = Deleted(obj, o)

\* rep.snapshot = (snap ? snap->rep : nullptr)
SetSnapshot(r, s) ==
    /\ Touch({Ptr(r)} \union (IF s = 0 THEN {} ELSE {Ptr(s)} \ {0}))
    /\ Break(Rules({r}))
    /\ obj' = [obj EXCEPT ![r].snapshot = IF s = 0 THEN 0 ELSE Ptr(s)]

\* Memory that is not from malloc cannot be freed. Free may be repeated.
SliceFree(o) ==
    /\ Break({})
    /\ IF ~obj[o].freed
       THEN /\ fault' = IF obj[o].alive /\ obj[o].kind = "value" THEN "none" ELSE "dangling"
            /\ obj' = [obj EXCEPT ![o].alive = FALSE, ![o].freed = TRUE, ![o].ended = TRUE]
       ELSE Touch({}) /\ UNCHANGED obj

\* The bytes are read where they are.
SliceData(o) ==
    /\ Touch({o})
    /\ Break(IF obj[o].ended THEN {"slice"} ELSE {})
    /\ UNCHANGED obj

-----------------------------------------------------------------------------
Next ==
    \/ fault # "none" /\ UNCHANGED vars
    \/ fault = "none" /\
        \/ OpenDb
        \/ \E kind \in Plain : Create(kind)
        \/ \E o \in Of("db") :
              \/ Close(o) \/ StoreNewIterator(o) \/ NewSnapshot(o) \/ NewCheckpoint(o)
              \/ GetProperty(o)
              \/ \E w \in Of("wopt") : Put(o, w) \/ \E b \in Of("wb") : Write(o, w, b)
              \/ \E r \in Of("ropt") : Get(o, r) \/ GetBytes(o, r) \/ NewIterator(o, r)
        \/ \E o \in Of("iter") : Move(o) \/ Look(o) \/ Key(o) \/ IteratorClose(o)
        \/ \E o \in Of("snap") : Release(o)
        \/ \E o \in Of("ckpt") : Save(o) \/ CheckpointDestroy(o)
        \/ \E o \in UNION {Of(kind) : kind \in Plain} : Set(o) \/ Destroy(o)
        \/ \E r \in Of("ropt"), s \in Of("snap") \union {0} : SetSnapshot(r, s)
        \/ \E o \in Of("value") \union Of("key") : SliceFree(o) \/ SliceData(o)

Spec == Init /\ [][Next]_vars

-----------------------------------------------------------------------------
(* Properties *)

Kinds == {"db", "iter", "snap", "ckpt", "key", "value", "iterropt"} \union Plain

TypeOK ==
    /\ fault \in {"none", "nil", "dangling"}
    /\ sins \subseteq {"db", "again", "slice", "snapshot"}
    /\ obj \in Seq([kind : Kinds, of : Nat, alive : BOOLEAN, c : BOOLEAN,
                    freed : BOOLEAN, snapshot : Nat, ended : BOOLEAN])
    /\ \A o \in Objs :
          /\ obj[o].kind \in {"iter", "snap", "ckpt"} => obj[o].of \in Of("db")
          /\ obj[o].kind = "key" => obj[o].of \in Of("iter")
          /\ obj[o].snapshot \in Of("snap") \union {0}

\* A client that keeps the rules never touches freed or nil memory, in whatever
\* order it ends its objects. Keeping them it may still destroy options and
\* batches and free slices more than once, free the slices of an iterator, set
\* a released snapshot, and leave anything open.
KeepingTheRulesIsSafe == sins = {} => fault = "none"

\* Freed memory is touched only through a closed DB, a slice past its life, or
\* a released snapshot that is still set. A second Close, Release or Destroy of
\* anything else, or a call after it, fails on a nil pointer or does nothing,
\* since these wrappers forget their pointers.
SilentFaultsHaveThreeCauses ==
    fault = "dangling" => sins \intersect {"db", "slice", "snapshot"} # {}

\* Memory that no Go wrapper points to any more has been given back, but for
\* the C wrapper of a checkpoint (rdbc.cc:536) and the read options of
\* Store.NewIterator (store.go:100), which are never freed.
OnlyKnownLeaks ==
    \A o \in Objs : obj[o].alive /\ ~obj[o].c => obj[o].kind \in {"ckpt", "iterropt"}
=============================================================================
