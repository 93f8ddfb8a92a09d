------------------------------ MODULE RandRead ------------------------------
(***************************************************************************)
(* randread/main.go: random reads of a list of files until a timer sets    *)
(* the flag done, by one goroutine (Serial), by several that share one     *)
(* histogram (Conc2), or by several that submit asynchronous requests and  *)
(* collect them at the end (ConcAio).                                      *)
(***************************************************************************)
EXTENDS Integers, Sequences, FiniteSets

CONSTANTS
    Jobs,       \* goroutines (--jobs); Serial uses one of them
    Lists,      \* the lists of file sizes filepath.Walk may find
    ReadSize,   \* readSize
    Modes,      \* values of --mode: "serial", "conc", "aio" or another one
    QueueDepth, \* requests one AIO can hold (32 in the code)
    MaxReads    \* bound: reads made before a goroutine starts its last one

ASSUME JobsAssumption == IsFiniteSet(Jobs) /\ Jobs # {}
ASSUME ListsAssumption == Lists \subseteq Seq(Nat)
ASSUME ReadSizeAssumption == ReadSize \in Nat \ {0}
ASSUME QueueDepthAssumption == QueueDepth \in Nat

VARIABLES
    mode,       \* --mode
    sizes,      \* sizes of the files of flist
    proc,       \* "running", "exited", or how it died: "fatal", "eof", "panic"
    main,       \* where func main is
    done,       \* the flag, accessed atomically
    pc,         \* where each goroutine is
    loaded,     \* totalCount as read by its RecordValue
    reads,      \* ghost: the reads that have succeeded
    total,      \* hist.totalCount
    queue,      \* requests each AIO holds, submitted or finished
    drain,      \* the file whose AIO a goroutine is collecting from
    reporter,   \* the goroutine that prints once a second in Conc2
    printed     \* the number of reads reported at the end, or -1

input == <<mode, sizes>>
vars == <<mode, sizes, proc, main, done, pc, loaded, reads, total, queue, drain,
          reporter, printed>>

\* maxFileSize is overwritten by each file: the size of the last one.
maxFileSize == sizes[Len(sizes)]

TheJob == CHOOSE w \in Jobs : TRUE
Active == IF mode = "serial" THEN {TheJob} ELSE Jobs

Init ==
    /\ mode \in Modes
    /\ sizes \in Lists
    /\ proc = "running"
    /\ main = "walk"
    /\ done = FALSE
    /\ pc = [w \in Jobs |-> "idle"]
    /\ loaded = [w \in Jobs |-> 0]
    /\ reads = 0
    /\ total = 0
    /\ queue = [f \in DOMAIN sizes |-> 0]
    /\ drain = [w \in Jobs |-> 1]
    /\ reporter = "none"
    /\ printed = -1

Die(how) ==
    /\ proc' = how
    /\ UNCHANGED <<input, main, done, pc, loaded, reads, total, queue, drain, reporter, printed>>

-----------------------------------------------------------------------------
(* func main *)

\* The files are found, the timer and the goroutines of the mode are started.
Start ==
    /\ main = "walk"
    /\ sizes # <<>>
    /\ mode \in {"serial", "conc", "aio"}
    /\ main' = "wait"
    /\ pc' = [w \in Jobs |-> IF w \in Active THEN "loop" ELSE "done"]
    /\ reporter' = IF mode = "conc" THEN "tick" ELSE "none"
    /\ UNCHANGED <<input, proc, done, loaded, reads, total, queue, drain, printed>>

\* No files, an unknown mode, or a file that cannot be opened.
StartFails == main = "walk" /\ Die("fatal")

\* ConcAio returns when an AIO cannot be created.
NoAio == main = "walk" /\ mode = "aio" /\ sizes # <<>> /\ Die("exited")

\* wg.Wait returns (or the loop of Serial is over), the results are printed and
\* main returns. Conc2's reporter is not waited for.
Finish ==
    /\ main = "wait"
    /\ \A w \in Jobs : pc[w] = "done"
    /\ proc' = "exited"
    /\ printed' = CASE mode = "serial" -> reads
                    [] mode = "conc"   -> printed
                    [] mode = "aio"    -> total
    /\ UNCHANGED <<input, main, done, pc, loaded, reads, total, queue, drain, reporter>>

FlagNotStored == main = "wait" /\ ~done /\ UNCHANGED vars

\* The timer goroutine wakes up.
SetDone ==
    /\ main = "wait"
    /\ ~done
    /\ done' = TRUE
    /\ UNCHANGED <<input, proc, main, pc, loaded, reads, total, queue, drain, reporter, printed>>

-----------------------------------------------------------------------------
(* A goroutine *)

WholeFile == 0 .. maxFileSize - 1

\* The offsets r.Int63n(maxFileSize - readSize) can return.
Offsets == 0 .. maxFileSize - ReadSize - 1

\* done is not set: the goroutine goes on to its next read, which may come after
\* the flag is set.
Enter(w) ==
    /\ pc[w] = "loop"
    /\ ~done
    /\ reads < MaxReads
    /\ pc' = [pc EXCEPT ![w] = "read"]
    /\ UNCHANGED <<input, proc, main, done, loaded, reads, total, queue, drain, reporter, printed>>

\* done is seen. The asynchronous mode goes on to collect its requests.
Leave(w) ==
    /\ pc[w] = "loop"
    /\ done
    /\ pc' = [pc EXCEPT ![w] = IF mode = "aio" THEN "drain" ELSE "done"]
    /\ UNCHANGED <<input, proc, main, done, loaded, reads, total, queue, drain, reporter, printed>>

\* Int63n panics if its argument is not positive.
NoOffset(w) == pc[w] = "read" /\ Offsets = {} /\ Die("panic")

\* fd.ReadAt fills the buffer.
ReadAt(w) ==
    /\ pc[w] = "read"
    /\ mode # "aio"
    /\ \E f \in DOMAIN sizes, offset \in Offsets : offset + ReadSize <= sizes[f]
    /\ reads' = reads + 1
    /\ pc' = [pc EXCEPT ![w] = "load"]
    /\ UNCHANGED <<input, proc, main, done, loaded, total, queue, drain, reporter, printed>>

\* It meets the end of the file: log.Fatalf.
ReadFails(w) ==
    /\ pc[w] = "read"
    /\ mode # "aio"
    /\ \E f \in DOMAIN sizes, offset \in Offsets : offset + ReadSize > sizes[f]
    /\ Die("eof")

\* hist.RecordValue increments totalCount without synchronisation.
RecordLoad(w) ==
    /\ pc[w] = "load"
    /\ loaded' = [loaded EXCEPT ![w] = total]
    /\ pc' = [pc EXCEPT ![w] = "store"]
    /\ UNCHANGED <<input, proc, main, done, reads, total, queue, drain, reporter, printed>>

CountedTwice(w) == loaded[w] + 2

\* The new value of totalCount.
Recorded(w) == loaded[w] + 1

RecordStore(w) ==
    /\ pc[w] = "store"
    /\ total' = Recorded(w)
    /\ pc' = [pc EXCEPT ![w] = "loop"]
    /\ UNCHANGED <<input, proc, main, done, loaded, reads, queue, drain, reporter, printed>>

\* aio.ReadAt puts a request in the queue of one file.
Submit(w) ==
    /\ pc[w] = "read"
    /\ mode = "aio"
    /\ \E f \in DOMAIN sizes, offset \in Offsets :
          /\ queue[f] < QueueDepth
          /\ queue' = [queue EXCEPT ![f] = @ + 1]
    /\ reads' = reads + 1
    /\ pc' = [pc EXCEPT ![w] = "loop"]
    /\ UNCHANGED <<input, proc, main, done, loaded, total, drain, reporter, printed>>

\* With the queue full the library either makes room by itself or refuses, and
\* the check for Ready is commented out.
MakeRoom(w) ==
    /\ pc[w] = "read"
    /\ mode = "aio"
    /\ \E f \in DOMAIN sizes, n \in 1 .. QueueDepth :
          /\ queue[f] = QueueDepth
          /\ queue' = [queue EXCEPT ![f] = @ - n]
    /\ UNCHANGED <<input, proc, main, done, pc, loaded, reads, total, drain, reporter, printed>>

SubmitFails(w) ==
    /\ pc[w] = "read"
    /\ mode = "aio"
    /\ Die("fatal")

\* aio.WaitAny(ids) returns the number of requests it has collected.
Collect(w) ==
    /\ pc[w] = "drain"
    /\ \E n \in 1 .. queue[drain[w]] :
          queue' = [queue EXCEPT ![drain[w]] = @ - n]
    /\ UNCHANGED <<input, proc, main, done, pc, loaded, reads, total, drain, reporter, printed>>

OneCallIsEnough(w) == TRUE

\* WaitAny returns 0: no request is left.
NothingLeft(w) == queue[drain[w]] = 0

NotPastLast(w) == drain[w] <= Len(sizes)

\* for _, aio := range aioList
MoreFiles(w) == drain[w] < Len(sizes)

NextFile(w) ==
    /\ pc[w] = "drain"
    /\ NothingLeft(w)
    /\ IF MoreFiles(w)
       THEN /\ drain' = [drain EXCEPT ![w] = @ + 1]
            /\ UNCHANGED pc
       ELSE /\ pc' = [pc EXCEPT ![w] = "done"]
            /\ UNCHANGED drain
    /\ UNCHANGED <<input, proc, main, done, loaded, reads, total, queue, reporter, printed>>

CollectFails(w) == pc[w] = "drain" /\ Die("fatal")

\* The ticker of Conc2 after done: the count is printed and the reporter ends.
\* Its ticks before that change nothing.
FinalReport ==
    /\ reporter = "tick"
    /\ done
    /\ printed' = total
    /\ reporter' = "done"
    /\ UNCHANGED <<input, proc, main, done, pc, loaded, reads, total, queue, drain>>

-----------------------------------------------------------------------------
Running == proc = "running"

JobStep(w) ==
    \/ Enter(w) \/ Leave(w) \/ NoOffset(w) \/ ReadAt(w) \/ RecordLoad(w)
    \/ RecordStore(w) \/ Submit(w) \/ MakeRoom(w) \/ Collect(w) \/ NextFile(w)

Failure(w) == ReadFails(w) \/ SubmitFails(w) \/ CollectFails(w)

Next ==
    \/ Running /\ (Start \/ StartFails \/ NoAio \/ Finish \/ SetDone \/ FinalReport)
    \/ Running /\ \E w \in Jobs : JobStep(w) \/ Failure(w)
    \/ ~Running /\ UNCHANGED vars

Spec == Init /\ [][Next]_vars

\* main, the timer and the goroutines are scheduled; the kernel finishes the
\* requests it is given.
FairSpec ==
    /\ Spec
    /\ WF_vars(Running /\ (Start \/ StartFails \/ Finish))
    /\ WF_vars(Running /\ SetDone)
    /\ \A w \in Jobs : WF_vars(Running /\ (JobStep(w) \/ ReadFails(w)))

-----------------------------------------------------------------------------
(* Properties *)

TypeOK ==
    /\ mode \in Modes /\ sizes \in Lists
    /\ proc \in {"running", "exited", "fatal", "eof", "panic"}
    /\ main \in {"walk", "wait"}
    /\ done \in BOOLEAN
    /\ pc \in [Jobs -> {"idle", "loop", "read", "load", "store", "drain", "done"}]
    /\ loaded \in [Jobs -> Nat] /\ reads \in Nat
    /\ total \in Nat
    /\ queue \in [DOMAIN sizes -> 0 .. QueueDepth]
    /\ sizes # <<>> => drain \in [Jobs -> DOMAIN sizes]
    /\ reporter \in {"none", "tick", "done"}
    /\ printed \in Nat \cup {-1}

\* The goroutines whose read is not recorded yet.
Pending == {w \in Jobs : pc[w] \in {"load", "store"}}

\* The histogram is not safe for concurrent use and may lose reads (line 103),
\* but it never shows more reads than were made, and with one goroutine it shows
\* exactly those whose RecordValue is over.
HistogramNeverOvercounts ==
    /\ total + Cardinality(Pending) <= reads
    /\ mode = "serial" /\ proc = "exited" => total = reads

\* A read at an offset drawn for the last file's size (lines 32 and 226) meets the
\* end of a file only if that file is shorter than the last one.
EofNeedsAShorterFile ==
    proc = "eof" => \E f \in DOMAIN sizes : sizes[f] < maxFileSize

\* When ConcAio returns no request is outstanding in any queue, although a
\* goroutine may go on submitting to a file that another one has found empty.
AllCollected ==
    proc = "exited" /\ main = "wait" => \A f \in DOMAIN queue : queue[f] = 0

\* "Number of random reads per second", "Total count by hist" (lines 199 and 203):
\* the number the asynchronous mode reports is that of its reads.
AioReportsItsReads == mode = "aio" /\ proc = "exited" /\ printed # -1 => printed = reads

\* Once the timer has fired every goroutine sees the flag, collects what it must
\* and the program ends.
Ends == <>(proc # "running")
=============================================================================
