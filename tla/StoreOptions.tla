---------------------------- MODULE StoreOptions ----------------------------
(***************************************************************************)
(* The options of a Store, over RdbOptions: the calls of setOpts and of    *)
(* NewStore, NewSyncStore or NewReadOnlyStore, in their order. (The read   *)
(* and write options that setOpts makes last have no part in this.)        *)
(***************************************************************************)
EXTENDS RdbOptions

CONSTANTS opt, blockopt, store    \* Store.opt, Store.blockopt, Store.db

VARIABLE pc

storeVars == <<vars, pc>>

StoreInit == Init /\ pc = "factory"

Step(from, to) == pc = from /\ pc' = to

\* s.opt.SetBlockBasedTableFactory(s.blockopt)
SetFactory == Step("factory", "bloom") /\ SetBlockBasedTableFactory(opt, blockopt)

\* fp := rdb.NewBloomFilter(16)
MakeFilter == Step("bloom", "policy") /\ NewBloomFilter

\* s.blockopt.SetFilterPolicy(fp)
SetFilter == Step("policy", "open") /\ SetNative(blockopt, Len(policy))

\* s.db, err = rdb.OpenDb(s.opt, filepath)
Open == Step("open", "done") /\ OpenDb(store, opt)

StoreNext == SetFactory \/ MakeFilter \/ SetFilter \/ Open

StoreSpec == StoreInit /\ [][StoreNext]_storeVars

-----------------------------------------------------------------------------
\* The options a Store opens its database with contain its block options
\* ("Contains blockopt.", store/store.go:29): the database has the settings of
\* blockopt, the bloom filter included.
OptContainsBlockopt == db[store] # None => db[store] = table[blockopt].rep
=============================================================================
