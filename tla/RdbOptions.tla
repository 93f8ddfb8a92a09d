----------------------------- MODULE RdbOptions -----------------------------
(***************************************************************************)
(* How the options of package rdb reach a database, and who owns a filter  *)
(* policy on the way. SetBlockBasedTableFactory copies the table options   *)
(* into a table factory, which the options and the databases opened with   *)
(* them share. SetFilterPolicy gives the raw pointer of a C policy to a    *)
(* std::shared_ptr: the copies of that shared_ptr are one owner ("block"), *)
(* which deletes the policy when its last copy goes, and a second handover *)
(* of the same pointer makes a second owner.                               *)
(***************************************************************************)
EXTENDS Integers, Sequences

CONSTANTS
    Tables,      \* BlockBasedTableOptions
    Opts,        \* Options
    DBs,
    Caches,
    GoPolicies,  \* FilterPolicy implementations written in Go
    Values,      \* of the plain settings: block size, no cache, whole keys
    None,
    MaxPolicies, \* bound: C policies made
    MaxBlocks    \* bound: SetFilterPolicy calls

VARIABLES
    policy,          \* the C policies made: Go policy or None, index, deleted
    filterPolicies,  \* the Go variable, 1-based
    block,           \* the owners made: the policy each deletes
    table,           \* per table options: has its pointer, and the settings
    factory,         \* per options: the settings of its table factory
    db,              \* per database: the settings it was opened with, or None
    cache,           \* per cache: the wrapper has its pointer
    fault,           \* "none", "nil" or "dangling"
    shared           \* ghost: a native policy was handed over twice

vars == <<policy, filterPolicies, block, table, factory, db, cache, fault, shared>>

\* rocksdb's defaults; block 0: no filter policy.
Settings == [value : Values \union {None}, cache : Caches \union {None}, block : Nat]
Default == [value |-> None, cache |-> None, block |-> 0]

Init ==
    /\ policy = <<>>
    /\ filterPolicies = <<>>
    /\ block = <<>>
    /\ table = [b \in Tables |-> [c |-> TRUE, rep |-> Default]]
    /\ factory = [o \in Opts |-> Default]
    /\ db = [d \in DBs |-> None]
    /\ cache = [k \in Caches |-> TRUE]
    /\ fault = "none"
    /\ shared = FALSE

\* The owners of which a copy is left.
Held ==
    ({table[b].rep.block : b \in Tables} \union
     {factory[o].block : o \in Opts} \union
     {db[d].block : d \in {d \in DBs : db[d] # None}}) \ {0}

\* The owners in gone delete their policies; a policy deleted twice is a fault.
Delete(policies, gone) ==
    LET dead == {block[k] : k \in gone}
    IN  /\ policy' = [p \in DOMAIN policies |->
                         [policies[p] EXCEPT !.deleted = @ \/ p \in dead]]
        /\ fault' = IF \/ \E j, k \in gone : j # k /\ block[j] = block[k]
                       \/ \E p \in dead : policies[p].deleted
                    THEN "dangling" ELSE "none"

\* What a call does with the owners that its other changes leave without a copy.
Drop == Delete(policy, Held \ Held')

\* A method of table options that were destroyed dereferences a nil pointer.
Nil == fault' = "nil" /\ UNCHANGED <<policy, filterPolicies, block, table, factory, db, cache, shared>>

-----------------------------------------------------------------------------
(* Table options *)

SetValueOfAll(b, v) ==
    /\ table' = [table EXCEPT ![b].rep.value = v]
    /\ db' = [d \in DBs |-> IF db[d] = None THEN None ELSE [db[d] EXCEPT !.value = v]]
    /\ UNCHANGED <<policy, filterPolicies, block, factory, cache, fault, shared>>

\* SetBlockSize, SetNoBlockCache, SetWholeKeyFiltering
SetValue(b, v) ==
    IF table[b].c
    THEN /\ table' = [table EXCEPT ![b].rep.value = v]
         /\ UNCHANGED <<policy, filterPolicies, block, factory, db, cache, fault, shared>>
    ELSE Nil

\* SetBlockCache and SetBlockCacheCompressed copy the shared_ptr in the cache;
\* a cache that was destroyed leaves the options as they are.
SetCache(b, k) ==
    IF table[b].c \/ ~cache[k]
    THEN /\ table' = IF cache[k] THEN [table EXCEPT ![b].rep.cache = k] ELSE table
         /\ UNCHANGED <<policy, filterPolicies, block, factory, db, cache, fault, shared>>
    ELSE Nil

CacheDestroy(k) ==
    /\ cache' = [cache EXCEPT ![k] = FALSE]
    /\ UNCHANGED <<policy, filterPolicies, block, table, factory, db, fault, shared>>

NewBloomFilter ==
    /\ Len(policy) < MaxPolicies
    /\ policy' = Append(policy, [go |-> None, idx |-> 0, deleted |-> FALSE])
    /\ UNCHANGED <<filterPolicies, block, table, factory, db, cache, fault, shared>>

IndexOfNext == Len(filterPolicies') + 1

\* What registerFilterPolicy returns: the index of what it appended.
Registered == Len(filterPolicies')

\* filter_policy.reset(fp): the new owner comes before the old one goes.
Reset(b, policies, p) ==
    /\ Len(block) < MaxBlocks
    /\ block' = Append(block, p)
    /\ table' = [table EXCEPT ![b].rep.block = Len(block')]
    /\ UNCHANGED <<factory, db, cache>>
    /\ Delete(policies, Held \ Held')

NilPolicy(b, p) == UNCHANGED <<filterPolicies, shared>> /\ Reset(b, policy, 0)

\* SetFilterPolicy of a nativeFilterPolicy
SetNative(b, p) ==
    /\ UNCHANGED filterPolicies
    /\ Reset(b, policy, p)
    /\ shared' = (shared \/ \E k \in DOMAIN block : block[k] = p)

\* SetFilterPolicy of a policy written in Go: each call makes a C policy of its own.
SetGo(b, g) ==
    /\ Len(policy) < MaxPolicies
    /\ filterPolicies' = Append(filterPolicies, g)
    /\ Reset(b, Append(policy, [go |-> g, idx |-> Registered, deleted |-> FALSE]),
             Len(policy) + 1)
    /\ UNCHANGED shared

SetFilterPolicy(b) ==
    IF table[b].c
    THEN \/ \E p \in DOMAIN policy : policy[p].go = None /\ SetNative(b, p)
         \/ \E g \in GoPolicies : SetGo(b, g)
    ELSE Nil

\* As the comment on cFp has it ("so we can free their memory in Destroy").
DestroyFreesPolicy(b) ==
    LET k == table[b].rep.block
    IN  /\ table' = [table EXCEPT ![b] = [c |-> FALSE, rep |-> Default]]
        /\ UNCHANGED <<filterPolicies, block, factory, db, cache, shared>>
        /\ Delete(policy, (Held \ Held') \union ({k} \ {0}))

\* rdb_block_based_options_destroy drops the copies in rep; deleting nil does
\* nothing. cFp is kept.
TableDestroy(b) ==
    /\ table' = [table EXCEPT ![b] = [c |-> FALSE, rep |-> Default]]
    /\ UNCHANGED <<filterPolicies, block, factory, db, cache, shared>>
    /\ Drop

-----------------------------------------------------------------------------
(* Options and databases *)

\* A destroyed table options (nil) leaves the factory as it is.
SetBlockBasedTableFactory(o, b) ==
    /\ factory' = IF table[b].c THEN [factory EXCEPT ![o] = table[b].rep] ELSE factory
    /\ UNCHANGED <<filterPolicies, block, table, db, cache, shared>>
    /\ Drop

\* OpenDb and OpenDbForReadOnly: rocksdb copies the options.
OpenDb(d, o) ==
    /\ db[d] = None
    /\ db' = [db EXCEPT ![d] = factory[o]]
    /\ UNCHANGED <<policy, filterPolicies, block, table, factory, cache, fault, shared>>

Close(d) ==
    /\ db[d] # None
    /\ db' = [db EXCEPT ![d] = None]
    /\ UNCHANGED <<filterPolicies, block, table, factory, cache, shared>>
    /\ Drop

\* A database calls its policy, when it builds a table and when it looks in one.
UsesPolicy(d) ==
    /\ db[d] # None
    /\ db[d].block # 0
    /\ fault' = IF policy[block[db[d].block]].deleted THEN "dangling" ELSE "none"
    /\ UNCHANGED <<policy, filterPolicies, block, table, factory, db, cache, shared>>

Next ==
    \/ fault # "none" /\ UNCHANGED vars
    \/ fault = "none" /\
       \/ NewBloomFilter
       \/ \E b \in Tables :
             \/ SetFilterPolicy(b) \/ TableDestroy(b)
             \/ \E v \in Values : SetValue(b, v)
             \/ \E k \in Caches : SetCache(b, k)
             \/ \E o \in Opts : SetBlockBasedTableFactory(o, b)
       \/ \E k \in Caches : CacheDestroy(k)
       \/ \E d \in DBs : Close(d) \/ UsesPolicy(d) \/ \E o \in Opts : OpenDb(d, o)

Spec == Init /\ [][Next]_vars

-----------------------------------------------------------------------------
(* Properties *)

TypeOK ==
    /\ policy \in Seq([go : GoPolicies \union {None}, idx : Nat, deleted : BOOLEAN])
    /\ filterPolicies \in Seq(GoPolicies)
    /\ block \in Seq(DOMAIN policy)
    /\ table \in [Tables -> [c : BOOLEAN, rep : Settings]]
    /\ factory \in [Opts -> Settings]
    /\ db \in [DBs -> Settings \union {None}]
    /\ cache \in [Caches -> BOOLEAN]
    /\ fault \in {"none", "nil", "dangling"}
    /\ shared \in BOOLEAN
    /\ Held \subseteq DOMAIN block

\* As long as no native policy is handed over twice, a policy that some table
\* options, options or open database still refer to is allocated, and no policy
\* is deleted twice, whatever is destroyed, reset or closed in between. (Of the
\* Go policies the same one may be set any number of times.)
PolicyInUseIsLive ==
    ~shared => /\ fault # "dangling"
               /\ \A k \in Held : ~policy[block[k]].deleted

\* A callback of rocksdb reaches the Go policy that was set, however many were
\* registered since: rdbc_filterpolicy_* index filterPolicies with the number
\* SetFilterPolicy stored in the C policy.
CallbacksReachTheirPolicy ==
    \A p \in DOMAIN policy : policy[p].go # None =>
        /\ policy[p].idx \in DOMAIN filterPolicies
        /\ filterPolicies[policy[p].idx] = policy[p].go

\* Calls on options never change an open database: its settings stay those its
\* options' table factory had when it was opened.
OpenDbKeepsItsSettings ==
    [][\A d \in DBs : db[d] # None => db'[d] \in {db[d], None}]_vars
=============================================================================
