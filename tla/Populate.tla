------------------------------ MODULE Populate ------------------------------
(***************************************************************************)
(* The loader, populate/main.go: main opens one engine, starts a reporter, *)
(* an HTTP server and N writer goroutines, waits for the writers, cancels  *)
(* the reporter, closes the engine and prints how many keys were written.  *)
(* Each writer commits batches of BatchLen random entries until it has     *)
(* written its share nw/N of the keys.                                     *)
(*                                                                         *)
(* A batch is identified by <<w, i>>, the i-th batch of writer w; its keys *)
(* and values are random data that no property here tells apart.           *)
(***************************************************************************)
EXTENDS Integers, FiniteSets

CONSTANTS
    Writers,    \* the N goroutines of the loop in main (32 in the code)
    BatchLen,   \* len(entries) (1000 in the code)
    NumKeys,    \* nw = keys_mil * 1e6
    Kinds       \* the values of --kv to consider

ASSUME WritersAssumption == IsFiniteSet(Writers) /\ Writers # {}
ASSUME BatchLenAssumption == BatchLen \in Nat \ {0}
ASSUME NumKeysAssumption == NumKeys \in Nat

VARIABLES
    which,      \* --kv
    proc,       \* "running", "exited", "fatal" (log.Fatal) or "crashed" (the machine)
    main,       \* where func main is
    stale,      \* the engine's directory holds data of an earlier run
    db,         \* the engine: "nil", "open" or "closed"
    committed,  \* the batches the engine holds
    synced,     \* the batches of committed that are on stable storage
    wg,         \* counter of the WaitGroup
    pc,         \* where each writer is
    batches,    \* written / BatchLen of each writer
    counter,    \* var counter int64, updated atomically
    rate,       \* what rc.Rate() returns
    cancelled,  \* ctx is done
    rpc,        \* where the reporter goroutine is
    rateSeen,   \* the rate it has read for the line it is printing
    shown       \* the last line it printed

engine == <<db, stale, committed, synced>>
writer == <<pc, batches>>
reporter == <<rpc, rateSeen, shown>>
vars == <<which, proc, main, engine, wg, writer, counter, rate, cancelled, reporter>>

N == Cardinality(Writers)

Engines == {"badger", "rocksdb", "bolt", "leveldb", "lmdb"}

\* Sync of the write options store.NewStore gives the RocksDB engine.
RocksSync == FALSE

\* A commit of this engine returns only once the batch is on stable storage.
Sync(kind) == kind # "rocksdb" \/ RocksSync

\* The batch writer w is filling or writing.
Current(w) == <<w, batches[w] + 1>>

Init ==
    /\ which \in Kinds
    /\ proc = "running"
    /\ main = "open"
    /\ stale \in BOOLEAN
    /\ db = "nil"
    /\ committed = {}
    /\ synced = {}
    /\ wg = 0
    /\ pc = [w \in Writers |-> "idle"]
    /\ batches = [w \in Writers |-> 0]
    /\ counter = 0
    /\ rate = 0
    /\ cancelled = FALSE
    /\ rpc = "none"
    /\ rateSeen = 0
    /\ shown = [rate |-> 0, total |-> 0]

\* log.Fatal, from any goroutine: the process is gone, nothing deferred runs.
Fatal ==
    /\ proc' = "fatal"
    /\ UNCHANGED <<which, main, wg, writer, counter, rate, cancelled, reporter>>

-----------------------------------------------------------------------------
(* func main *)

ChecksNothing(kind) == FALSE

\* The error of os.RemoveAll is looked at in badger's branch only.
ChecksRemoval(kind) == kind = "badger"

\* The directory is removed and made again, the engine is opened on it, and the
\* reporter goroutine starts.
OpenStore ==
    /\ main = "open"
    /\ which \in Engines
    /\ \E removed \in BOOLEAN : /\ ChecksRemoval(which) => removed
                                /\ stale' = (stale /\ ~removed)
    /\ db' = "open"
    /\ main' = "spawn"
    /\ rpc' = "select"
    /\ UNCHANGED <<which, proc, committed, synced, wg, writer, counter, rate,
                   cancelled, rateSeen, shown>>

\* y.Check on an error of RemoveAll (badger) or, with the old directory removed
\* or not, of opening the engine, or a value of --kv that names no engine.
OpenFails ==
    /\ main = "open"
    /\ stale' = stale \/ (which \in Engines /\ stale' = FALSE)
    /\ Fatal
    /\ UNCHANGED <<db, committed, synced>>

AddForgotten(delta) == wg' = wg

AddAfterGo(delta) == wg' = IF delta > 0 THEN wg ELSE wg + delta

DoneForgotten(delta) == wg' = IF delta > 0 THEN wg + delta ELSE wg

\* wg.Add(delta)
Add(delta) == wg' = wg + delta

\* wg.Add(1) and the go statement of one round of the loop.
Spawn(w) ==
    /\ main = "spawn"
    /\ pc[w] = "idle"
    /\ Add(1)
    /\ pc' = [pc EXCEPT ![w] = "loop"]
    /\ main' = IF \E v \in Writers \ {w} : pc[v] = "idle" THEN "spawn" ELSE "wait"
    /\ UNCHANGED <<which, proc, engine, batches, counter, rate, cancelled, reporter>>

\* wg.Wait returns.
Wait ==
    /\ main = "wait"
    /\ wg = 0
    /\ main' = "cancel"
    /\ UNCHANGED <<which, proc, engine, wg, writer, counter, rate, cancelled, reporter>>

Cancel ==
    /\ main = "cancel"
    /\ cancelled' = TRUE
    /\ main' = "close"
    /\ UNCHANGED <<which, proc, engine, wg, writer, counter, rate, reporter>>

CloseStore ==
    /\ main = "close"
    /\ db' = "closed"
    /\ main' = "print"
    /\ UNCHANGED <<which, proc, stale, committed, synced, wg, writer, counter,
                   rate, cancelled, reporter>>

\* WROTE counter KEYS; main returns and the process exits.
PrintWrote ==
    /\ main = "print"
    /\ proc' = "exited"
    /\ UNCHANGED <<which, main, engine, wg, writer, counter, rate, cancelled, reporter>>

-----------------------------------------------------------------------------
(* A writer goroutine *)

BelowShareNext(w) == (batches[w] + 1) * BatchLen * N <= NumKeys

\* written < nw/float64(N): exact in the code, where N is a power of two.
BelowShare(w) == batches[w] * BatchLen * N < NumKeys

\* The loop condition holds: the next batch is filled.
Enter(w) ==
    /\ pc[w] = "loop"
    /\ BelowShare(w)
    /\ pc' = [pc EXCEPT ![w] = "write"]
    /\ UNCHANGED <<which, proc, main, engine, wg, batches, counter, rate, cancelled, reporter>>

\* The loop is over: wg.Done().
Done(w) ==
    /\ pc[w] = "loop"
    /\ ~BelowShare(w)
    /\ Add(-1)
    /\ pc' = [pc EXCEPT ![w] = "done"]
    /\ UNCHANGED <<which, proc, main, engine, batches, counter, rate, cancelled, reporter>>

\* writeBatch returns: the open engine has committed the batch in one transaction.
Write(w) ==
    /\ pc[w] = "write"
    /\ db = "open"
    /\ committed' = committed \union {Current(w)}
    /\ synced' = IF Sync(which) THEN committed' ELSE synced
    /\ pc' = [pc EXCEPT ![w] = "count"]
    /\ UNCHANGED <<which, proc, main, db, stale, wg, batches, counter, rate,
                   cancelled, reporter>>

\* y.Check on an error of the engine. The batch may be in the store all the
\* same: an error of the final sync leaves that open.
WriteFails(w) ==
    /\ pc[w] = "write"
    /\ committed' \in {committed, committed \union {Current(w)}}
    /\ Fatal
    /\ UNCHANGED <<db, stale, synced>>

AddInt64Twice(delta) == counter' = counter + 2 * delta

AddInt64Racy(delta) == counter' \in {counter, counter + delta}

\* atomic.AddInt64(&counter, delta)
AddInt64(delta) == counter' = counter + delta

Count(w) ==
    /\ pc[w] = "count"
    /\ AddInt64(BatchLen)
    /\ pc' = [pc EXCEPT ![w] = "rate"]
    /\ UNCHANGED <<which, proc, main, engine, wg, batches, rate, cancelled, reporter>>

\* rc.Incr(wi), then written += wrote.
Incr(w) ==
    /\ pc[w] = "rate"
    /\ rate' = rate + BatchLen
    /\ batches' = [batches EXCEPT ![w] = @ + 1]
    /\ pc' = [pc EXCEPT ![w] = "loop"]
    /\ UNCHANGED <<which, proc, main, engine, wg, counter, cancelled, reporter>>

-----------------------------------------------------------------------------
(* The reporter goroutine *)

\* The ticker fires: rc.Rate(), the first of the two numbers of the line, is read.
Tick ==
    /\ rpc = "select"
    /\ rateSeen' = rate
    /\ rpc' = "print"
    /\ UNCHANGED <<which, proc, main, engine, wg, writer, counter, rate, cancelled, shown>>

\* atomic.LoadInt64(&counter), the second one, is read and the line printed.
PrintTotal ==
    /\ rpc = "print"
    /\ shown' = [rate |-> rateSeen, total |-> counter]
    /\ rpc' = "select"
    /\ UNCHANGED <<which, proc, main, engine, wg, writer, counter, rate,
                   cancelled, rateSeen>>

\* ctx.Done() is chosen by the select.
StopReporter ==
    /\ rpc = "select"
    /\ cancelled
    /\ rpc' = "returned"
    /\ UNCHANGED <<which, proc, main, engine, wg, writer, counter, rate,
                   cancelled, rateSeen, shown>>

-----------------------------------------------------------------------------
(* The surroundings *)

\* The rate counter forgets what is older than a minute.
RateExpires ==
    /\ \E old \in 1 .. rate : rate' = rate - old
    /\ UNCHANGED <<which, proc, main, engine, wg, writer, counter, cancelled, reporter>>

\* http.ListenAndServe returns an error (the port is taken): log.Fatalf.
HttpFails ==
    /\ main # "open"
    /\ Fatal
    /\ UNCHANGED engine

\* The operating system writes the engine's log back on its own.
WriteBack ==
    /\ synced # committed
    /\ synced' = committed
    /\ UNCHANGED <<which, proc, main, db, stale, committed, wg, writer, counter,
                   rate, cancelled, reporter>>

\* The machine fails: the store keeps what is on stable storage.
Crash ==
    /\ proc' = "crashed"
    /\ committed' = synced
    /\ UNCHANGED <<which, main, db, stale, synced, wg, writer, counter, rate,
                   cancelled, reporter>>

-----------------------------------------------------------------------------
Running == proc = "running"

MainStep ==
    Running /\ (OpenStore \/ (\E w \in Writers : Spawn(w)) \/ Wait \/ Cancel \/ CloseStore
                \/ PrintWrote)

WriterStep(w) ==
    Running /\ (Enter(w) \/ Done(w) \/ Write(w) \/ Count(w) \/ Incr(w))

ReporterStep == Running /\ (Tick \/ PrintTotal \/ StopReporter)

Failure ==
    Running /\ (OpenFails \/ (\E w \in Writers : WriteFails(w)) \/ HttpFails \/ Crash)

Environment == Running /\ (RateExpires \/ WriteBack)

\* The process is over.
Over == ~Running /\ UNCHANGED vars

Next ==
    \/ MainStep
    \/ \E w \in Writers : WriterStep(w)
    \/ ReporterStep
    \/ Failure
    \/ Environment
    \/ Over

Spec == Init /\ [][Next]_vars

\* The Go scheduler runs main and every writer, and an engine that is not
\* failing finishes its commits. Nothing is assumed of the reporter.
FairSpec ==
    /\ Spec
    /\ WF_vars(MainStep \/ (Running /\ OpenFails))
    /\ \A w \in Writers : WF_vars(WriterStep(w))

-----------------------------------------------------------------------------
(* Properties *)

TypeOK ==
    /\ which \in Kinds
    /\ proc \in {"running", "exited", "fatal", "crashed"}
    /\ main \in {"open", "spawn", "wait", "cancel", "close", "print"}
    /\ stale \in BOOLEAN
    /\ db \in {"nil", "open", "closed"}
    /\ committed \subseteq (Writers \X Nat)
    /\ synced \subseteq committed
    /\ wg \in Nat
    /\ pc \in [Writers -> {"idle", "loop", "write", "count", "rate", "done"}]
    /\ batches \in [Writers -> Nat]
    /\ counter \in Nat
    /\ rate \in Nat
    /\ cancelled \in BOOLEAN
    /\ rpc \in {"none", "select", "print", "returned"}
    /\ rateSeen \in Nat
    /\ shown \in [rate : Nat, total : Nat]

\* The engine is closed only after the last writer is done with it: the
\* WaitGroup of main covers every goroutine the loop has started.
ClosedAfterWriters ==
    db = "closed" => \A w \in Writers : pc[w] = "done"

\* WROTE tells the truth: when main returns, the number it prints counts
\* exactly the entries of the batches this run has left in the engine, reaches
\* the keys asked for and exceeds them by less than one batch per writer; and
\* badger, whose RemoveAll is checked, holds nothing else.
WroteIsExact ==
    proc = "exited" =>
        /\ counter = BatchLen * Cardinality(committed)
        /\ counter >= NumKeys
        /\ counter < NumKeys + N * BatchLen
        /\ which = "badger" => ~stale

\* Both numbers of a line of the reporter are read while the writers go on.
\* The rate is read first and every writer counts a batch before it adds it to
\* the rate, so no line shows a rate above its total.
RateWithinTotal == shown.rate <= shown.total

\* What the reporter has shown as written is in the store, also after a crash
\* of the machine, with the engines whose commits are synchronous.
ShownSurvivesSync ==
    Sync(which) => shown.total <= BatchLen * Cardinality(committed)

\* What the loader promises.
L == INSTANCE Loader
       WITH Excess <- N * BatchLen, checked <- ChecksRemoval(which), sync <- Sync(which),
            opened <- (db # "nil"), held <- committed, told <- shown.total,
            wrote <- IF proc = "exited" THEN counter ELSE 0

\* Every step of the goroutines is a step of Loader: whichever way they
\* interleave, the store grows by whole batches and loses none but in a crash,
\* the totals never go down or ahead of the store, and the last line is exact.
ImplementsLoader == L!Spec

\* The loader comes to an end: all writers reach their share and main gets
\* past wg.Wait, unless a failure ended the process before.
Terminates == <>(proc # "running")
=============================================================================
