-------------------------- MODULE RdbOptionsProofs --------------------------
(***************************************************************************)
(* Who owns a filter policy, for any number of options, databases and      *)
(* policies, and any sequence of calls; and that the calls of a Store are  *)
(* such a sequence.                                                        *)
(***************************************************************************)
EXTENDS StoreOptions, TLAPS

Policies == [go : GoPolicies \union {None}, idx : Nat, deleted : BOOLEAN]

\* The types that the argument needs.
Shape ==
    /\ policy \in Seq(Policies)
    /\ block \in Seq(Nat) /\ \A k \in DOMAIN block : block[k] \in DOMAIN policy
    /\ table \in [Tables -> [c : BOOLEAN, rep : Settings]]
    /\ factory \in [Opts -> Settings]
    /\ db \in [DBs -> Settings \union {None}]
    /\ Held \subseteq DOMAIN block

\* No two owners have the same policy, and a policy that was deleted had an
\* owner that no copy is left of.
Owned ==
    /\ \A j, k \in DOMAIN block : block[j] = block[k] => j = k
    /\ \A p \in DOMAIN policy :
          policy[p].deleted => \E k \in DOMAIN block : block[k] = p /\ k \notin Held
    /\ fault # "dangling"

Ownership == Shape /\ (~shared => Owned)

\* The rest of the state, and the registry of the Go policies.
Registry ==
    /\ filterPolicies \in Seq(GoPolicies)
    /\ cache \in [Caches -> BOOLEAN]
    /\ fault \in {"none", "nil", "dangling"}
    /\ shared \in BOOLEAN
    /\ CallbacksReachTheirPolicy

\* A call that may drop copies and may make one owner, of a policy that has none
\* yet, keeps what is known of ownership: an owner without copies never gets one.
LEMMA Dropped ==
    ASSUME Shape, Owned, Shape', NEW policies \in Seq(Policies),
           Delete(policies, Held \ Held'),
           DOMAIN policy \subseteq DOMAIN policies,
           \A p \in DOMAIN policy : policies[p] = policy[p],
           \A p \in DOMAIN policies : p \notin DOMAIN policy => ~policies[p].deleted,
           DOMAIN block \subseteq DOMAIN block',
           \A k \in DOMAIN block : block'[k] = block[k],
           \A j, k \in DOMAIN block' : block'[j] = block'[k] => j = k,
           Held' \subseteq Held \union (DOMAIN block' \ DOMAIN block)
    PROVE  Owned'
<1> DEFINE gone == Held \ Held'
           dead == {block[k] : k \in gone}
<1>1. gone \subseteq DOMAIN block /\ gone \subseteq Held
  BY DEF Shape
<1>2. DOMAIN policy' = DOMAIN policies
  BY DEF Delete
<1>3. \A p \in DOMAIN policies : policy'[p] = [policies[p] EXCEPT !.deleted = @ \/ p \in dead]
  BY DEF Delete
<1>4. ASSUME NEW p \in dead PROVE p \in DOMAIN policy /\ ~policy[p].deleted
  BY <1>1, <1>4 DEF Shape, Owned
<1>5. fault' # "dangling"
  <2>1. ~ \E j, k \in gone : j # k /\ block[j] = block[k]
    BY <1>1 DEF Owned
  <2>2. ~ \E p \in dead : policies[p].deleted
    BY <1>4
  <2> QED
    BY <2>1, <2>2 DEF Delete
<1>6. ASSUME NEW p \in DOMAIN policy', policy'[p].deleted
      PROVE  \E k \in DOMAIN block' : block'[k] = p /\ k \notin Held'
  <2>1. CASE p \in dead
    BY <1>1, <2>1
  <2>2. CASE p \notin dead
    <3>0. policies[p] \in Policies
      BY <1>2, <1>6
    <3>1. p \in DOMAIN policy /\ policy[p].deleted
      BY <1>2, <1>3, <1>6, <2>2, <3>0 DEF Policies
    <3>2. PICK k \in DOMAIN block : block[k] = p /\ k \notin Held
      BY <3>1 DEF Owned
    <3> QED
      BY <3>2
  <2> QED
    BY <2>1, <2>2
<1> QED
  BY <1>5, <1>6 DEF Owned

\* A setting that is assigned leaves settings.
LEMMA Updated ==
    ASSUME NEW r \in Settings
    PROVE  /\ \A n \in Nat : [r EXCEPT !.block = n] \in Settings
           /\ \A v \in Values : [r EXCEPT !.value = v] \in Settings
           /\ \A k \in Caches : [r EXCEPT !.cache = k] \in Settings
  BY DEF Settings

\* Delete marks policies and changes nothing else of them.
LEMMA DeleteKeeps ==
    ASSUME NEW policies \in Seq(Policies), NEW gone, Delete(policies, gone)
    PROVE  /\ policy' \in Seq(Policies) /\ DOMAIN policy' = DOMAIN policies
           /\ \A p \in DOMAIN policies : policy'[p].go = policies[p].go /\ policy'[p].idx = policies[p].idx
           /\ fault' \in {"none", "nil", "dangling"}
<1> DEFINE dead == {block[k] : k \in gone}
           f == [p \in DOMAIN policies |-> [policies[p] EXCEPT !.deleted = @ \/ p \in dead]]
<1>1. ASSUME NEW p \in DOMAIN policies
      PROVE  /\ [policies[p] EXCEPT !.deleted = @ \/ p \in dead] \in Policies
             /\ [policies[p] EXCEPT !.deleted = @ \/ p \in dead].go = policies[p].go
             /\ [policies[p] EXCEPT !.deleted = @ \/ p \in dead].idx = policies[p].idx
  <2>1. policies[p] \in Policies
    OBVIOUS
  <2> HIDE DEF dead
  <2>2. (policies[p].deleted \/ p \in dead) \in BOOLEAN
    OBVIOUS
  <2> QED
    BY <2>1, <2>2 DEF Policies
<1>2. policy' = f
  BY DEF Delete
<1>3. DOMAIN policies = 1 .. Len(policies) /\ Len(policies) \in Nat
  OBVIOUS
<1>4. f \in [1 .. Len(policies) -> Policies]
  BY <1>1, <1>3
<1>5. \A p \in DOMAIN policies : f[p].go = policies[p].go /\ f[p].idx = policies[p].idx
  BY <1>1
<1> HIDE DEF f
<1>6. f \in Seq(Policies) /\ DOMAIN f = DOMAIN policies
  BY <1>3, <1>4
<1>7. fault' \in {"none", "nil", "dangling"}
  BY DEF Delete
<1> QED
  BY <1>2, <1>5, <1>6, <1>7

\* A call that makes no owner: no owner gets its first copy.
LEMMA NoNewOwner ==
    ASSUME Ownership, UNCHANGED <<block, shared>>,
           table' \in [Tables -> [c : BOOLEAN, rep : Settings]],
           factory' \in [Opts -> Settings], db' \in [DBs -> Settings \union {None}],
           Held' \subseteq Held,
           \/ Delete(policy, Held \ Held')
           \/ /\ UNCHANGED policy \/ \E r \in Policies : ~r.deleted /\ policy' = Append(policy, r)
              /\ ~shared => fault' # "dangling"
    PROVE  Ownership'
<1>0. policy \in Seq(Policies)
  BY DEF Ownership, Shape
<1>1. policy' \in Seq(Policies) /\ DOMAIN policy \subseteq DOMAIN policy'
  <2>1. CASE Delete(policy, Held \ Held')
    BY <1>0, <2>1, DeleteKeeps
  <2>2. CASE UNCHANGED policy
    BY <1>0, <2>2
  <2>3. CASE \E r \in Policies : policy' = Append(policy, r)
    BY <1>0, <2>3
  <2> QED
    BY <2>1, <2>2, <2>3
<1>2. Shape'
  BY <1>1 DEF Ownership, Shape
<1>3. CASE Delete(policy, Held \ Held')
  BY <1>2, <1>3, Dropped DEF Ownership, Owned, Shape
<1>4. CASE /\ UNCHANGED policy \/ \E r \in Policies : ~r.deleted /\ policy' = Append(policy, r)
           /\ ~shared => fault' # "dangling"
  <2>1. \A p \in DOMAIN policy' : policy'[p].deleted => p \in DOMAIN policy /\ policy[p].deleted
    <3>1. CASE UNCHANGED policy
      BY <3>1
    <3>2. ASSUME NEW r \in Policies, ~r.deleted, policy' = Append(policy, r)
          PROVE  \A p \in DOMAIN policy' : policy'[p].deleted => p \in DOMAIN policy /\ policy[p].deleted
      BY <1>0, <3>2
    <3> QED
      BY <1>4, <3>1, <3>2
  <2> QED
    BY <1>2, <1>4, <2>1 DEF Ownership, Owned
<1> QED
  BY <1>3, <1>4

\* filter_policy.reset makes one owner, of a policy that may have one already.
LEMMA NewOwner ==
    ASSUME Ownership, NEW b \in Tables, NEW policies \in Seq(Policies), NEW p \in DOMAIN policies,
           Reset(b, policies, p),
           DOMAIN policy \subseteq DOMAIN policies,
           \A q \in DOMAIN policy : policies[q] = policy[q],
           \A q \in DOMAIN policies : q \notin DOMAIN policy => ~policies[q].deleted,
           ~shared' => ~shared /\ \A k \in DOMAIN block : block[k] # p
    PROVE  Ownership'
<1> DEFINE n == Len(block)
<1>1. n \in Nat /\ block' = Append(block, p) /\ block' \in Seq(Nat) /\ p \in Nat
  BY DEF Ownership, Shape, Reset
<1>2. /\ Len(block') = n + 1 /\ DOMAIN block' = DOMAIN block \union {n + 1}
      /\ n + 1 \notin DOMAIN block /\ block'[n + 1] = p
      /\ \A k \in DOMAIN block : block'[k] = block[k]
  BY <1>1 DEF Ownership, Shape
<1>3. table' = [table EXCEPT ![b].rep.block = n + 1] /\ UNCHANGED <<factory, db>>
  BY <1>2 DEF Reset
<1>4. table' \in [Tables -> [c : BOOLEAN, rep : Settings]]
  <2>1. table[b] \in [c : BOOLEAN, rep : Settings] /\ table[b].rep \in Settings
    BY DEF Ownership, Shape
  <2>2. [table[b].rep EXCEPT !.block = n + 1] \in Settings
    <3>1. n + 1 \in Nat
      BY <1>1
    <3> HIDE DEF n
    <3> QED
      BY <2>1, <3>1, Updated
  <2>3. [table[b] EXCEPT !.rep = [table[b].rep EXCEPT !.block = n + 1]] \in [c : BOOLEAN, rep : Settings]
    BY <2>1, <2>2
  <2> QED
    BY <1>3, <2>3 DEF Ownership, Shape
<1>5. table'[b].rep.block = n + 1 /\ \A x \in Tables : x # b => table'[x] = table[x]
  BY <1>3 DEF Ownership, Shape, Settings
<1>6. Held' \subseteq Held \union {n + 1}
  BY <1>3, <1>5 DEF Held
<1>7. policy' \in Seq(Policies) /\ DOMAIN policy' = DOMAIN policies
  BY DeleteKeeps DEF Reset
<1>8. Shape'
  BY <1>1, <1>2, <1>3, <1>4, <1>6, <1>7 DEF Ownership, Shape
<1>9. ASSUME ~shared' PROVE Owned'
  <2>1. \A j, k \in DOMAIN block' : block'[j] = block'[k] => j = k
    BY <1>2, <1>9 DEF Ownership, Owned
  <2>2. Held' \subseteq Held \union (DOMAIN block' \ DOMAIN block)
    BY <1>2, <1>6
  <2>3. Delete(policies, Held \ Held')
    BY DEF Reset
  <2> QED
    BY <1>2, <1>8, <1>9, <2>1, <2>2, <2>3, Dropped DEF Ownership
<1> QED
  BY <1>8, <1>9 DEF Ownership

\* A plain setting or a cache that is assigned to table options, here to those of
\* b, leaves the owners they hold.
LEMMA SameOwner ==
    ASSUME Shape, NEW b \in Tables, NEW r \in Settings, r.block = table[b].rep.block,
           table' = [table EXCEPT ![b].rep = r], UNCHANGED <<factory, db>>
    PROVE  table' \in [Tables -> [c : BOOLEAN, rep : Settings]] /\ Held' = Held
<1>1. table[b] \in [c : BOOLEAN, rep : Settings]
  BY DEF Shape
<1>2. [table[b] EXCEPT !.rep = r] \in [c : BOOLEAN, rep : Settings]
  BY <1>1
<1>3. table' \in [Tables -> [c : BOOLEAN, rep : Settings]]
  BY <1>2 DEF Shape
<1>4. \A x \in Tables : table'[x].rep.block = table[x].rep.block
  BY <1>1 DEF Shape
<1> QED
  BY <1>3, <1>4 DEF Held

\* Init establishes the ownership invariant.
LEMMA OwnershipInit == Init => Ownership
<1> SUFFICES ASSUME Init PROVE Ownership
  OBVIOUS
<1>1. Default \in Settings /\ Default.block = 0
  BY DEF Default, Settings
<1>2. Held = {}
  BY <1>1 DEF Init, Held
<1>3. Shape
  BY <1>1, <1>2 DEF Init, Shape
<1> QED
  BY <1>3 DEF Init, Ownership, Owned

\* Every call of package rdb on options and every step of a database keeps it.
LEMMA OwnershipNext == Ownership /\ Registry /\ [Next]_vars => Ownership'
<1> SUFFICES ASSUME Ownership, Registry, [Next]_vars PROVE Ownership'
  OBVIOUS
<1>0. Shape /\ (~shared => fault # "dangling")
  BY DEF Ownership, Owned
<1>a. Default \in Settings /\ Default.block = 0
  BY DEF Default, Settings
<1>1. CASE UNCHANGED vars
  <2>1. Held' = Held /\ UNCHANGED <<policy, block, table, factory, db, fault, shared>>
    BY <1>1 DEF vars, Held
  <2> QED
    BY <1>0, <2>1, NoNewOwner DEF Shape
<1>2. CASE NewBloomFilter
  <2> DEFINE r == [go |-> None, idx |-> 0, deleted |-> FALSE]
  <2>1. r \in Policies /\ ~r.deleted
    BY DEF Policies
  <2>2. Held' = Held
    BY <1>2 DEF NewBloomFilter, Held
  <2>3. policy' = Append(policy, r)
    BY <1>2 DEF NewBloomFilter
  <2> HIDE DEF r
  <2> QED
    BY <1>0, <1>2, <2>1, <2>2, <2>3, NoNewOwner DEF NewBloomFilter, Shape
<1>3. ASSUME Nil PROVE Ownership'
  <2>1. Held' = Held
    BY <1>3 DEF Nil, Held
  <2> QED
    BY <1>0, <1>3, <2>1, NoNewOwner DEF Nil, Shape
<1>4. ASSUME NEW b \in Tables, NEW p \in DOMAIN policy, SetNative(b, p) PROVE Ownership'
  <2>1. policy \in Seq(Policies)
    BY <1>0 DEF Shape
  <2>2. Reset(b, policy, p) /\ (~shared' => ~shared /\ \A k \in DOMAIN block : block[k] # p)
    BY <1>4 DEF SetNative
  <2> QED
    BY <2>1, <2>2, NewOwner
<1>5. ASSUME NEW b \in Tables, NEW g \in GoPolicies, SetGo(b, g) PROVE Ownership'
  <2> DEFINE r == [go |-> g, idx |-> Registered, deleted |-> FALSE]
             q == Len(policy) + 1
  <2>1. policy \in Seq(Policies) /\ Len(policy) \in Nat /\ q \notin DOMAIN policy
    BY <1>0 DEF Shape
  <2>2. Reset(b, Append(policy, r), q) /\ UNCHANGED shared
    BY <1>5 DEF SetGo
  <2>3. \A k \in DOMAIN block : block[k] # q
    BY <1>0, <2>1 DEF Shape
  <2>4. r \in Policies /\ ~r.deleted
    <3>1. Registered \in Nat
      BY <1>5 DEF SetGo, Registered, Registry
    <3> QED
      BY <3>1 DEF Policies
  <2> HIDE DEF r
  <2>5. /\ Append(policy, r) \in Seq(Policies) /\ q \in DOMAIN Append(policy, r)
        /\ DOMAIN policy \subseteq DOMAIN Append(policy, r)
        /\ \A x \in DOMAIN policy : Append(policy, r)[x] = policy[x]
        /\ \A x \in DOMAIN Append(policy, r) : x \notin DOMAIN policy => ~Append(policy, r)[x].deleted
    BY <2>1, <2>4
  <2> HIDE DEF q
  <2> QED
    BY <2>2, <2>3, <2>5, NewOwner
<1>6. ASSUME NEW b \in Tables, SetFilterPolicy(b) PROVE Ownership'
  BY <1>3, <1>4, <1>5, <1>6 DEF SetFilterPolicy
<1>7. ASSUME NEW b \in Tables, TableDestroy(b) PROVE Ownership'
  <2> DEFINE r == [c |-> FALSE, rep |-> Default]
  <2>1. r \in [c : BOOLEAN, rep : Settings] /\ r.rep.block = 0
    BY <1>a
  <2>2. table' = [table EXCEPT ![b] = r]
    BY <1>7 DEF TableDestroy
  <2> HIDE DEF r
  <2>3. /\ table' \in [Tables -> [c : BOOLEAN, rep : Settings]]
        /\ table'[b].rep.block = 0 /\ \A x \in Tables : x # b => table'[x] = table[x]
    BY <1>0, <2>1, <2>2 DEF Shape
  <2>4. Held' \subseteq Held
    BY <1>7, <2>3 DEF TableDestroy, Held
  <2> QED
    BY <1>0, <1>7, <2>3, <2>4, NoNewOwner DEF TableDestroy, Drop, Shape
<1>8. ASSUME NEW b \in Tables, NEW v \in Values, SetValue(b, v) PROVE Ownership'
  <2>1. CASE ~table[b].c
    BY <1>3, <1>8, <2>1 DEF SetValue
  <2>2. CASE table[b].c
    <3> DEFINE r == [table[b].rep EXCEPT !.value = v]
    <3>1. table[b].rep \in Settings
      BY <1>0 DEF Shape
    <3>2. r \in Settings /\ r.block = table[b].rep.block
      BY <3>1, Updated DEF Settings
    <3>3. table' = [table EXCEPT ![b].rep = r] /\ UNCHANGED <<policy, block, factory, db, fault, shared>>
      BY <1>8, <2>2 DEF SetValue
    <3> HIDE DEF r
    <3>4. table' \in [Tables -> [c : BOOLEAN, rep : Settings]] /\ Held' = Held
      BY <1>0, <3>2, <3>3, SameOwner
    <3> QED
      BY <1>0, <3>3, <3>4, NoNewOwner DEF Shape
  <2> QED
    BY <2>1, <2>2
<1>9. ASSUME NEW b \in Tables, NEW k \in Caches, SetCache(b, k) PROVE Ownership'
  <2>1. CASE ~(table[b].c \/ ~cache[k])
    BY <1>3, <1>9, <2>1 DEF SetCache
  <2>2. CASE (table[b].c \/ ~cache[k]) /\ cache[k]
    <3> DEFINE r == [table[b].rep EXCEPT !.cache = k]
    <3>1. table[b].rep \in Settings
      BY <1>0 DEF Shape
    <3>2. r \in Settings /\ r.block = table[b].rep.block
      BY <3>1, Updated DEF Settings
    <3>3. table' = [table EXCEPT ![b].rep = r] /\ UNCHANGED <<policy, block, factory, db, fault, shared>>
      BY <1>9, <2>2 DEF SetCache
    <3> HIDE DEF r
    <3>4. table' \in [Tables -> [c : BOOLEAN, rep : Settings]] /\ Held' = Held
      BY <1>0, <3>2, <3>3, SameOwner
    <3> QED
      BY <1>0, <3>3, <3>4, NoNewOwner DEF Shape
  <2>3. CASE ~cache[k]
    <3>1. UNCHANGED <<policy, block, table, factory, db, fault, shared>>
      BY <1>9, <2>3 DEF SetCache
    <3>2. Held' = Held
      BY <3>1 DEF Held
    <3> QED
      BY <1>0, <3>1, <3>2, NoNewOwner DEF Shape
  <2> QED
    BY <2>1, <2>2, <2>3
<1>10. ASSUME NEW b \in Tables, NEW o \in Opts, SetBlockBasedTableFactory(o, b) PROVE Ownership'
  <2>1. table[b].rep \in Settings
    BY <1>0 DEF Shape
  <2>2. factory' \in [Opts -> Settings] /\ UNCHANGED <<table, db, block, shared>>
    BY <1>0, <1>10, <2>1 DEF SetBlockBasedTableFactory, Shape
  <2>3. \A x \in Opts : factory'[x] \in {factory[x], table[b].rep}
    BY <1>0, <1>10 DEF SetBlockBasedTableFactory, Shape
  <2>4. Held' \subseteq Held
    BY <2>2, <2>3 DEF Held
  <2> QED
    BY <1>0, <1>10, <2>2, <2>4, NoNewOwner DEF SetBlockBasedTableFactory, Drop, Shape
<1>11. ASSUME NEW k \in Caches, CacheDestroy(k) PROVE Ownership'
  <2>1. Held' = Held /\ UNCHANGED <<policy, block, table, factory, db, fault, shared>>
    BY <1>11 DEF CacheDestroy, Held
  <2> QED
    BY <1>0, <2>1, NoNewOwner DEF Shape
<1>12. ASSUME NEW d \in DBs, Close(d) PROVE Ownership'
  <2>1. db' \in [DBs -> Settings \union {None}]
    BY <1>0, <1>12 DEF Close, Shape
  <2>2. db'[d] = None /\ \A x \in DBs : x # d => db'[x] = db[x]
    BY <1>0, <1>12 DEF Close, Shape
  <2>3. Held' \subseteq Held
    BY <1>12, <2>2 DEF Close, Held
  <2> QED
    BY <1>0, <1>12, <2>1, <2>3, NoNewOwner DEF Close, Drop, Shape
<1>13. ASSUME NEW d \in DBs, NEW o \in Opts, OpenDb(d, o) PROVE Ownership'
  <2>1. db' \in [DBs -> Settings \union {None}] /\ \A x \in DBs : db'[x] \in {db[x], factory[o]}
    BY <1>0, <1>13 DEF OpenDb, Shape
  <2>2. Held' \subseteq Held
    BY <1>13, <2>1 DEF OpenDb, Held
  <2> QED
    BY <1>0, <1>13, <2>1, <2>2, NoNewOwner DEF OpenDb, Shape
<1>14. ASSUME NEW d \in DBs, UsesPolicy(d) PROVE Ownership'
  <2>1. Held' = Held /\ UNCHANGED <<policy, block, table, factory, db, shared>>
    BY <1>14 DEF UsesPolicy, Held
  <2>2. db[d].block \in Held
    BY <1>14 DEF UsesPolicy, Held
  <2>3. ~shared => ~policy[block[db[d].block]].deleted
    BY <1>0, <2>2 DEF Ownership, Owned, Shape
  <2>4. ~shared => fault' # "dangling"
    BY <1>14, <2>3 DEF UsesPolicy
  <2> QED
    BY <1>0, <2>1, <2>4, NoNewOwner DEF Shape
<1> QED
  BY <1>1, <1>2, <1>6, <1>7, <1>8, <1>9, <1>10, <1>11, <1>12, <1>13, <1>14 DEF Next

\* The registry only grows, and what Delete changes in a policy is not its index.
LEMMA RegistryNext == Shape /\ Registry /\ [Next]_vars => Registry'
<1> SUFFICES ASSUME Shape, Registry, [Next]_vars PROVE Registry'
  OBVIOUS
<1>1. ASSUME NEW policies \in Seq(Policies), NEW gone, Delete(policies, gone),
             UNCHANGED <<filterPolicies, cache>>, shared' \in BOOLEAN, policies = policy
      PROVE  Registry'
  <2>1. /\ DOMAIN policy' = DOMAIN policy /\ fault' \in {"none", "nil", "dangling"}
        /\ \A p \in DOMAIN policy : policy'[p].go = policy[p].go /\ policy'[p].idx = policy[p].idx
    BY <1>1, DeleteKeeps
  <2> QED
    BY <1>1, <2>1 DEF Registry, CallbacksReachTheirPolicy
<1>2. policy \in Seq(Policies)
  BY DEF Shape
<1>3. ASSUME NEW b \in Tables, NEW g \in GoPolicies, SetGo(b, g) PROVE Registry'
  <2> DEFINE r == [go |-> g, idx |-> Registered, deleted |-> FALSE]
             q == Len(policy) + 1
  <2>1. /\ filterPolicies' \in Seq(GoPolicies) /\ Registered \in DOMAIN filterPolicies'
        /\ filterPolicies'[Registered] = g /\ Registered \in Nat
        /\ \A i \in DOMAIN filterPolicies : i \in DOMAIN filterPolicies' /\ filterPolicies'[i] = filterPolicies[i]
    BY <1>3 DEF SetGo, Registered, Registry
  <2>2. r \in Policies /\ r.go = g /\ r.idx = Registered
    BY <2>1 DEF Policies
  <2>3. Delete(Append(policy, r), Held \ Held') /\ UNCHANGED <<cache, shared>>
    BY <1>3 DEF SetGo, Reset
  <2> HIDE DEF r
  <2>4. /\ Append(policy, r) \in Seq(Policies) /\ DOMAIN Append(policy, r) = DOMAIN policy \union {q}
        /\ Append(policy, r)[q] = r /\ \A p \in DOMAIN policy : Append(policy, r)[p] = policy[p]
    BY <1>2, <2>2
  <2> HIDE DEF q
  <2> DEFINE policies == Append(policy, r)
             gone == Held \ Held'
  <2>a. policies \in Seq(Policies) /\ Delete(policies, gone)
    BY <2>3, <2>4
  <2> HIDE DEF policies, gone
  <2>b. /\ DOMAIN policy' = DOMAIN policies /\ fault' \in {"none", "nil", "dangling"}
        /\ \A p \in DOMAIN policies : policy'[p].go = policies[p].go /\ policy'[p].idx = policies[p].idx
    BY <2>a, DeleteKeeps
  <2>5. /\ DOMAIN policy' = DOMAIN policy \union {q} /\ fault' \in {"none", "nil", "dangling"}
        /\ \A p \in DOMAIN policy \union {q} :
              policy'[p].go = Append(policy, r)[p].go /\ policy'[p].idx = Append(policy, r)[p].idx
    BY <2>4, <2>b DEF policies
  <2> QED
    <3>1. policy'[q].go = g /\ policy'[q].idx = Registered
      BY <2>2, <2>4, <2>5
    <3>2. \A p \in DOMAIN policy : policy'[p].go = policy[p].go /\ policy'[p].idx = policy[p].idx
      BY <2>4, <2>5
    <3>3. ASSUME NEW p \in DOMAIN policy', policy'[p].go # None
          PROVE  policy'[p].idx \in DOMAIN filterPolicies' /\ filterPolicies'[policy'[p].idx] = policy'[p].go
      <4>1. CASE p = q
        BY <2>1, <3>1, <4>1
      <4>2. CASE p \in DOMAIN policy
        BY <2>1, <3>2, <3>3, <4>2 DEF Registry, CallbacksReachTheirPolicy
      <4> QED
        BY <2>5, <3>3, <4>1, <4>2
    <3>4. CallbacksReachTheirPolicy'
      BY <3>3 DEF CallbacksReachTheirPolicy
    <3> QED
      BY <2>1, <2>3, <2>5, <3>4 DEF Registry
<1>4. ASSUME NEW b \in Tables, SetFilterPolicy(b) PROVE Registry'
  <2>1. CASE Nil
    BY <2>1 DEF Nil, Registry, CallbacksReachTheirPolicy
  <2>2. ASSUME NEW p \in DOMAIN policy, SetNative(b, p) PROVE Registry'
    BY <1>1, <1>2, <2>2 DEF SetNative, Reset, Registry
  <2> QED
    BY <1>3, <1>4, <2>1, <2>2 DEF SetFilterPolicy
<1>5. ASSUME NEW b \in Tables, TableDestroy(b) PROVE Registry'
  BY <1>1, <1>2, <1>5 DEF TableDestroy, Drop, Registry
<1>6. ASSUME NEW b \in Tables, NEW o \in Opts, SetBlockBasedTableFactory(o, b) PROVE Registry'
  BY <1>1, <1>2, <1>6 DEF SetBlockBasedTableFactory, Drop, Registry
<1>7. ASSUME NEW d \in DBs, Close(d) PROVE Registry'
  BY <1>1, <1>2, <1>7 DEF Close, Drop, Registry
<1>8. CASE NewBloomFilter
  BY <1>2, <1>8 DEF NewBloomFilter, Registry, CallbacksReachTheirPolicy
<1>9. ASSUME NEW b \in Tables, NEW v \in Values, SetValue(b, v) PROVE Registry'
  BY <1>9 DEF SetValue, Nil, Registry, CallbacksReachTheirPolicy
<1>10. ASSUME NEW b \in Tables, NEW k \in Caches, SetCache(b, k) PROVE Registry'
  BY <1>10 DEF SetCache, Nil, Registry, CallbacksReachTheirPolicy
<1>11. ASSUME NEW k \in Caches, CacheDestroy(k) PROVE Registry'
  BY <1>11 DEF CacheDestroy, Registry, CallbacksReachTheirPolicy
<1>12. ASSUME NEW d \in DBs, NEW o \in Opts, OpenDb(d, o) PROVE Registry'
  BY <1>12 DEF OpenDb, Registry, CallbacksReachTheirPolicy
<1>13. ASSUME NEW d \in DBs, UsesPolicy(d) PROVE Registry'
  BY <1>13 DEF UsesPolicy, Registry, CallbacksReachTheirPolicy
<1>14. CASE UNCHANGED vars
  BY <1>14 DEF vars, Registry, CallbacksReachTheirPolicy
<1> QED
  BY <1>4, <1>5, <1>6, <1>7, <1>8, <1>9, <1>10, <1>11, <1>12, <1>13, <1>14 DEF Next

\* Nothing is registered at the start.
LEMMA RegistryInit == Init => Registry
<1> SUFFICES ASSUME Init PROVE Registry
  OBVIOUS
<1>1. CallbacksReachTheirPolicy
  BY DEF Init, CallbacksReachTheirPolicy
<1>2. filterPolicies \in Seq(GoPolicies)
  BY DEF Init
<1> QED
  BY <1>1, <1>2 DEF Init, Registry

\* The inductive invariant holds in every state.
LEMMA Invariant == Spec => [](Ownership /\ Registry)
<1>1. Ownership => Shape
  BY DEF Ownership
<1> QED
  BY <1>1, RegistryInit, OwnershipInit, OwnershipNext, RegistryNext, PTL DEF Spec

\* The state keeps its types, and every copy of an owner is of one that was made.
THEOREM TypeCorrect == Spec => []TypeOK
<1>1. Ownership /\ Registry => TypeOK
  BY DEF Ownership, Registry, Shape, Policies, TypeOK
<1> QED
  BY <1>1, Invariant, PTL

\* Any number of calls of SetFilterPolicy, Destroy, SetBlockBasedTableFactory, OpenDb
\* and Close, in any order, leaves a policy in use allocated, as long as no native
\* policy is handed over twice.
THEOREM PoliciesOutliveTheirUse == Spec => []PolicyInUseIsLive
<1>1. Ownership => PolicyInUseIsLive
  BY DEF Ownership, Shape, Owned, PolicyInUseIsLive
<1> QED
  BY <1>1, Invariant, PTL

\* The index that registerFilterPolicy returned stays that of the same Go policy.
THEOREM IndexStaysRight == Spec => []CallbacksReachTheirPolicy
<1>1. Registry => CallbacksReachTheirPolicy
  BY DEF Registry
<1> QED
  BY <1>1, Invariant, PTL

\* No call on options reaches the settings of a database that is open.
THEOREM SettingsAreCopied == Spec => OpenDbKeepsItsSettings
<1> DEFINE Kept == \A d \in DBs : db[d] # None => db'[d] \in {db[d], None}
<1>1. ASSUME Shape, Next PROVE Kept
  <2>1. UNCHANGED db \/ \E d \in DBs : Close(d) \/ \E o \in Opts : OpenDb(d, o)
    BY <1>1 DEF Next, vars, NewBloomFilter, SetFilterPolicy, SetNative, SetGo, Reset, Nil, TableDestroy,
                SetValue, SetCache, SetBlockBasedTableFactory, CacheDestroy, UsesPolicy
  <2> QED
    BY <1>1, <2>1 DEF Shape, Close, OpenDb
<1>2. Ownership /\ [Next]_vars => [Kept]_vars
  BY <1>1 DEF Ownership
<1> QED
  BY <1>2, Invariant, PTL DEF Spec, OpenDbKeepsItsSettings

-----------------------------------------------------------------------------
(* The calls of a Store *)

\* Before each call of setOpts and of the constructors: the block options are
\* there, the options were given a copy of them that has no filter policy, and
\* the policy that is handed over is native and has no owner.
SetOptsOK ==
    /\ fault = "none" /\ shared = FALSE
    /\ table[blockopt].c
    /\ factory[opt].block = 0
    /\ IF pc \in {"open", "done"}
       THEN table[blockopt].rep.block # 0
       ELSE table[blockopt].rep.block = 0 /\ block = <<>>
    /\ pc = "policy" => policy # <<>> /\ policy[Len(policy)].go = None
    /\ pc = "done" => db[store].block = 0

\* A Store starts from options and block options that were just made.
LEMMA SetOptsOKInit ==
    ASSUME opt \in Opts, blockopt \in Tables, StoreInit
    PROVE  SetOptsOK
  BY DEF StoreInit, Init, Default, SetOptsOK

\* Each call of a Store is one that the options allow, and leads to the next.
LEMMA SetOptsOKNext ==
    ASSUME opt \in Opts, blockopt \in Tables, store \in DBs,
           Ownership, Registry, SetOptsOK, [StoreNext]_storeVars
    PROVE  [Next]_vars /\ SetOptsOK'
<1>0. policy \in Seq(Policies) /\ Shape
  BY DEF Ownership, Shape
<1>a. ASSUME NEW gone, Delete(policy, gone), Ownership', shared' = FALSE PROVE fault' = "none"
  BY <1>a DEF Delete, Ownership, Owned
<1>1. CASE UNCHANGED storeVars
  BY <1>1 DEF storeVars, vars, SetOptsOK
<1>2. CASE SetFactory
  <2>1. Next
    BY <1>2 DEF SetFactory, SetOptsOK, Next
  <2>2. Ownership'
    BY <2>1, OwnershipNext
  <2>3. /\ pc = "factory" /\ pc' = "bloom" /\ UNCHANGED <<block, table, shared>>
        /\ factory' = [factory EXCEPT ![opt] = table[blockopt].rep]
        /\ Delete(policy, Held \ Held')
    BY <1>2 DEF SetFactory, Step, SetBlockBasedTableFactory, Drop, SetOptsOK
  <2>4. fault' = "none"
    BY <1>a, <2>2, <2>3 DEF SetOptsOK
  <2>5. factory'[opt] = table[blockopt].rep
    BY <1>0, <2>3 DEF Shape
  <2> QED
    BY <2>1, <2>3, <2>4, <2>5 DEF SetOptsOK
<1>3. CASE MakeFilter
  <2> DEFINE r == [go |-> None, idx |-> 0, deleted |-> FALSE]
  <2>1. Next
    BY <1>3 DEF MakeFilter, SetOptsOK, Next
  <2>2. /\ pc = "bloom" /\ pc' = "policy" /\ UNCHANGED <<block, table, factory, fault, shared>>
        /\ policy' = Append(policy, r)
    BY <1>3 DEF MakeFilter, Step, NewBloomFilter
  <2>3. r \in Policies /\ r.go = None
    BY DEF Policies
  <2> HIDE DEF r
  <2>4. policy' # <<>> /\ policy'[Len(policy')] = r
    BY <1>0, <2>2, <2>3
  <2> QED
    BY <2>1, <2>2, <2>3, <2>4 DEF SetOptsOK
<1>4. CASE SetFilter
  <2>1. pc = "policy" /\ pc' = "open" /\ SetNative(blockopt, Len(policy))
    BY <1>4 DEF SetFilter, Step
  <2>2. Len(policy) \in DOMAIN policy /\ policy[Len(policy)].go = None
    BY <1>0, <2>1 DEF SetOptsOK
  <2>3. Next
    BY <2>1, <2>2 DEF SetOptsOK, SetFilterPolicy, Next
  <2>4. Ownership'
    BY <2>3, OwnershipNext
  <2>5. /\ block = <<>> /\ block' = Append(block, Len(policy)) /\ UNCHANGED factory
        /\ table' = [table EXCEPT ![blockopt].rep.block = Len(block')]
        /\ Delete(policy, Held \ Held')
    BY <2>1 DEF SetNative, Reset, SetOptsOK
  <2>6. shared' = FALSE
    <3>1. shared' = (shared \/ \E k \in DOMAIN block : block[k] = Len(policy))
      BY <2>1 DEF SetNative
    <3>2. DOMAIN block = {}
      BY <2>5
    <3>3. shared = FALSE
      BY DEF SetOptsOK
    <3> QED
      BY <3>1, <3>2, <3>3, Zenon
  <2>7. fault' = "none"
    BY <1>a, <2>4, <2>5, <2>6
  <2>8. Len(block') = 1
    BY <2>5
  <2>9. table[blockopt] \in [c : BOOLEAN, rep : Settings]
    BY <1>0 DEF Shape
  <2>10. table'[blockopt].c = table[blockopt].c /\ table'[blockopt].rep.block = 1
    BY <1>0, <2>5, <2>8, <2>9 DEF Shape, Settings
  <2> QED
    BY <2>1, <2>3, <2>5, <2>6, <2>7, <2>10 DEF SetOptsOK
<1>5. CASE Open
  <2>1. Next
    BY <1>5 DEF Open, SetOptsOK, Next
  <2>2. /\ pc = "open" /\ pc' = "done" /\ UNCHANGED <<block, table, factory, fault, shared>>
        /\ db' = [db EXCEPT ![store] = factory[opt]]
    BY <1>5 DEF Open, Step, OpenDb
  <2>3. db'[store] = factory[opt]
    BY <1>0, <2>2 DEF Shape
  <2> QED
    BY <2>1, <2>2, <2>3 DEF SetOptsOK
<1> QED
  BY <1>1, <1>2, <1>3, <1>4, <1>5 DEF StoreNext

\* The inductive invariant of a Store's calls.
LEMMA StoreInvariant ==
    ASSUME opt \in Opts, blockopt \in Tables, store \in DBs
    PROVE  /\ StoreInit => Init /\ Ownership /\ Registry /\ SetOptsOK
           /\ Ownership /\ Registry /\ SetOptsOK /\ [StoreNext]_storeVars
                => [Next]_vars /\ Ownership' /\ Registry' /\ SetOptsOK'
<1>1. StoreInit => Init /\ Ownership /\ Registry /\ SetOptsOK
  BY OwnershipInit, RegistryInit, SetOptsOKInit DEF StoreInit
<1>2. Ownership => Shape
  BY DEF Ownership
<1> QED
  BY <1>1, <1>2, SetOptsOKNext, OwnershipNext, RegistryNext

\* The calls of NewStore, NewSyncStore and NewReadOnlyStore are calls the options
\* allow, so that everything above holds of a Store: no policy it uses is deleted
\* and no call meets a nil pointer.
THEOREM StoresUseOptionsRightly ==
    ASSUME opt \in Opts, blockopt \in Tables, store \in DBs
    PROVE  StoreSpec => Spec /\ [](fault = "none")
<1>1. SetOptsOK => fault = "none"
  BY DEF SetOptsOK
<1> QED
  BY <1>1, StoreInvariant, PTL DEF StoreSpec, Spec

\* However many options, tables and policies there are, the database of a Store
\* never has the bloom filter that its block options end up with: setOpts copies
\* blockopt into the options (line 38) before it sets the filter (line 48).
THEOREM StoreLacksItsFilter ==
    ASSUME opt \in Opts, blockopt \in Tables, store \in DBs
    PROVE  StoreSpec =>
             [](pc = "done" => table[blockopt].rep.block # 0 /\ db[store].block = 0)
<1>1. SetOptsOK => (pc = "done" => table[blockopt].rep.block # 0 /\ db[store].block = 0)
  BY DEF SetOptsOK
<1> QED
  BY <1>1, StoreInvariant, PTL DEF StoreSpec
=============================================================================
