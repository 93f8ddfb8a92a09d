------------------------------ MODULE KVStore -------------------------------
(***************************************************************************)
(* What package store promises its callers: a directory holds a dictionary *)
(* that changes by atomic updates; a snapshot and an iterator keep the     *)
(* dictionary of the moment they were made; a Get reads the snapshot that  *)
(* is set or else the present dictionary; a checkpoint is a copy; a crash  *)
(* leaves one of the dictionaries the directory has held since it was last *)
(* on stable storage, and the present one if the store is synchronous.     *)
(***************************************************************************)
EXTENDS Integers

CONSTANTS
    Keys,       \* keys: numbers, in the order of the store's comparator
    Vals,       \* values
    NoVal,      \* no value for a key
    Dirs,       \* directories
    Snaps,      \* Go variables of type *Snapshot
    Iters,      \* Go variables of type *Iterator
    Nil

VARIABLES
    dict,       \* dictionary of each directory, Nil if there is no database
    safe,       \* the dictionaries a crash may leave there
    mode,       \* how the store of each directory is open
    reading,    \* the snapshot its Gets use, or Nil
    frozen,     \* dictionary of each snapshot
    cursor,     \* dictionary and position of each iterator
    got         \* what the last call returned

abstract == <<dict, safe, mode, reading, frozen, cursor, got>>

Dictionary == [Keys -> Vals \union {NoVal}]
Off == 0    \* position of an iterator that is not Valid

\* The dictionary a Get on d sees: anything, once the snapshot in use is gone.
Seen(d) ==
    IF reading[d] = Nil THEN {dict[d]}
    ELSE IF frozen[reading[d]] = Nil THEN Dictionary
    ELSE {frozen[reading[d]].dict}

Init ==
    /\ dict = [d \in Dirs |-> Nil]
    /\ safe = [d \in Dirs |-> {}]
    /\ mode = [d \in Dirs |-> "closed"]
    /\ reading = [d \in Dirs |-> Nil]
    /\ frozen = [s \in Snaps |-> Nil]
    /\ cursor = [i \in Iters |-> Nil]
    /\ got = Nil

\* A database is opened, and created where there is none.
Open(d) ==
    /\ mode[d] = "closed"
    /\ \E m \in {"rw", "sync", "ro"} : mode' = [mode EXCEPT ![d] = m]
    /\ \/ dict[d] # Nil /\ UNCHANGED <<dict, safe>>
       \/ /\ dict[d] = Nil
          /\ dict' = [dict EXCEPT ![d] = [k \in Keys |-> NoVal]]
          /\ safe' = [safe EXCEPT ![d] = {dict'[d]}]
    /\ UNCHANGED <<reading, frozen, cursor>>

\* What hangs on a closed store may not be used any more.
Close(d) ==
    /\ mode[d] # "closed"
    /\ mode' = [mode EXCEPT ![d] = "closed"]
    /\ reading' = [reading EXCEPT ![d] = Nil]
    /\ frozen' = [s \in Snaps |->
                    IF frozen[s] # Nil /\ frozen[s].dir = d THEN Nil ELSE frozen[s]]
    /\ cursor' = [i \in Iters |->
                    IF cursor[i] # Nil /\ cursor[i].dir = d THEN Nil ELSE cursor[i]]
    /\ UNCHANGED <<dict, safe>>

\* All changes of one call take place together.
Update(d) ==
    /\ mode[d] \in {"rw", "sync"}
    /\ UNCHANGED <<mode, reading, frozen, cursor>>
    /\ \E new \in Dictionary :
          /\ dict' = [dict EXCEPT ![d] = new]
          /\ safe' = [safe EXCEPT ![d] = IF mode[d] = "sync" THEN {new} ELSE @ \union {new}]

Read(d) ==
    /\ mode[d] # "closed"
    /\ \E k \in Keys, seen \in Seen(d) : got' = [dir |-> d, key |-> k, val |-> seen[k]]
    /\ UNCHANGED <<dict, safe, mode, reading, frozen, cursor>>

Take(s, d) ==
    /\ mode[d] # "closed"
    /\ frozen[s] = Nil
    /\ \A e \in Dirs : reading[e] # s
    /\ UNCHANGED <<mode, reading, cursor, dict, safe>>
    /\ frozen' = [frozen EXCEPT ![s] = [dir |-> d, dict |-> dict[d]]]

Drop(s) ==
    /\ UNCHANGED <<mode, reading, cursor, dict, safe>>
    /\ frozen' = [frozen EXCEPT ![s] = Nil]

ReadFrom(d) ==
    /\ mode[d] # "closed"
    /\ \E s \in Snaps \union {Nil} :
          /\ s # Nil => frozen[s] # Nil
          /\ reading' = [reading EXCEPT ![d] = s]
    /\ UNCHANGED <<dict, safe, mode, frozen, cursor>>

\* An iterator shows the dictionary of the moment it was made and stands on a
\* key of it, or on none.
Point(i) ==
    /\ UNCHANGED <<mode, reading, frozen, dict, safe>>
    /\ \/ \E d \in Dirs : /\ mode[d] # "closed"
                          /\ cursor' = [cursor EXCEPT ![i] =
                                          [dir |-> d, dict |-> dict[d], pos |-> Off]]
       \/ /\ cursor[i] # Nil
          /\ \E k \in {j \in Keys : cursor[i].dict[j] # NoVal} \union {Off} :
                cursor' = [cursor EXCEPT ![i].pos = k]
       \/ cursor' = [cursor EXCEPT ![i] = Nil]

Copy(d, e) ==
    /\ mode[d] # "closed"
    /\ dict[e] = Nil
    /\ UNCHANGED <<mode, reading, frozen, cursor>>
    /\ dict' = [dict EXCEPT ![e] = dict[d]]
    /\ safe' = [safe EXCEPT ![e] = {dict[d]}]

\* Fewer dictionaries remain possible after a crash.
Settle(d) ==
    /\ dict[d] # Nil
    /\ UNCHANGED <<mode, reading, frozen, cursor, dict>>
    /\ \E left \in SUBSET safe[d] : /\ dict[d] \in left
                                    /\ safe' = [safe EXCEPT ![d] = left]

Crash ==
    /\ mode' = [d \in Dirs |-> "closed"]
    /\ reading' = [d \in Dirs |-> Nil]
    /\ frozen' = [s \in Snaps |-> Nil]
    /\ cursor' = [i \in Iters |-> Nil]
    /\ \A d \in Dirs : IF dict[d] = Nil THEN dict'[d] = Nil ELSE dict'[d] \in safe[d]
    /\ dict' = [d \in Dirs |-> dict'[d]]
    /\ safe' = [d \in Dirs |-> IF dict'[d] = Nil THEN {} ELSE {dict'[d]}]

\* A call that neither changes the store nor returns a value.
Idle == UNCHANGED <<mode, reading, frozen, cursor, dict, safe>>

Next ==
    \/ \E d \in Dirs : Read(d)
    \/ /\ got' = Nil
       /\ \/ \E d \in Dirs : Open(d) \/ Close(d) \/ Update(d) \/ ReadFrom(d) \/ Settle(d)
          \/ \E s \in Snaps : Drop(s) \/ \E d \in Dirs : Take(s, d)
          \/ \E i \in Iters : Point(i)
          \/ \E d, e \in Dirs : Copy(d, e)
          \/ Crash \/ Idle

Spec == Init /\ [][Next]_abstract
=============================================================================
