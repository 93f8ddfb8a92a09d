--------------------------- MODULE RandReadProofs ---------------------------
(***************************************************************************)
(* The safety properties of RandRead, for any number of goroutines, files, *)
(* reads and queue slots.                                                  *)
(***************************************************************************)
EXTENDS RandRead, FiniteSetTheorems, TLAPS

\* The types, with what a goroutine outside its collecting loop has in drain.
Types ==
    /\ TypeOK
    /\ main = "walk" => \A w \in Jobs : pc[w] = "idle"
    /\ main = "wait" => sizes # <<>> /\ mode \in {"serial", "conc", "aio"}
    /\ \A w \in Jobs : pc[w] \notin {"drain", "done"} => drain[w] = 1

\* Init, and every step, keep the types.
LEMMA TypesInit == Init => Types
<1> SUFFICES ASSUME Init PROVE Types
  OBVIOUS
<1>1. sizes \in Seq(Nat)
  BY ListsAssumption DEF Init
<1>2. sizes # <<>> => 1 \in DOMAIN sizes
  BY <1>1
<1>3. queue \in [DOMAIN sizes -> 0 .. QueueDepth]
  BY QueueDepthAssumption DEF Init
<1>4. pc \in [Jobs -> {"idle"}] /\ loaded \in [Jobs -> Nat] /\ drain \in [Jobs -> {1}]
  BY DEF Init
<1> QED
  BY <1>1, <1>2, <1>3, <1>4 DEF Init, Types, TypeOK

\* Every step of main, the timer, a goroutine or the kernel keeps the types.
LEMMA TypesNext == Types /\ [Next]_vars => Types'
<1> SUFFICES ASSUME Types, [Next]_vars PROVE Types'
  OBVIOUS
<1>0. sizes \in Seq(Nat)
  BY ListsAssumption DEF Types, TypeOK
<1> USE DEF Types, TypeOK, input
<1>1. CASE UNCHANGED vars
  BY <1>1 DEF vars
<1>2. CASE Start
  BY <1>2 DEF Start
<1>3. CASE StartFails \/ NoAio
  BY <1>3 DEF StartFails, NoAio, Die
<1>4. CASE Finish
  BY <1>4 DEF Finish
<1>5. CASE SetDone \/ FinalReport
  BY <1>5 DEF SetDone, FinalReport
<1>6. ASSUME NEW w \in Jobs, Enter(w) \/ Leave(w) PROVE Types'
  BY <1>6 DEF Enter, Leave
<1>7. ASSUME NEW w \in Jobs, NoOffset(w) \/ Failure(w) PROVE Types'
  BY <1>7 DEF NoOffset, Failure, ReadFails, SubmitFails, CollectFails, Die
<1>8. ASSUME NEW w \in Jobs, ReadAt(w) \/ RecordLoad(w) \/ RecordStore(w) PROVE Types'
  <2>1. CASE ReadAt(w)
    BY <2>1 DEF ReadAt
  <2>2. CASE RecordLoad(w)
    BY <2>2 DEF RecordLoad
  <2>3. CASE RecordStore(w)
    BY <2>3 DEF RecordStore, Recorded
  <2> QED
    BY <1>8, <2>1, <2>2, <2>3
<1>9. ASSUME NEW w \in Jobs, Submit(w) PROVE Types'
  <2>1. PICK f \in DOMAIN sizes : queue[f] < QueueDepth /\ queue' = [queue EXCEPT ![f] = @ + 1]
    BY <1>9 DEF Submit
  <2>2. queue' \in [DOMAIN sizes -> 0 .. QueueDepth]
    BY <2>1, QueueDepthAssumption
  <2> QED
    BY <1>9, <2>2 DEF Submit
<1>10. ASSUME NEW w \in Jobs, MakeRoom(w) PROVE Types'
  <2>1. PICK f \in DOMAIN sizes, n \in 1 .. QueueDepth :
          queue[f] = QueueDepth /\ queue' = [queue EXCEPT ![f] = @ - n]
    BY <1>10 DEF MakeRoom
  <2>2. queue' \in [DOMAIN sizes -> 0 .. QueueDepth]
    BY <2>1, QueueDepthAssumption
  <2> QED
    BY <1>10, <2>2 DEF MakeRoom
<1>11. ASSUME NEW w \in Jobs, Collect(w) PROVE Types'
  <2>1. PICK n \in 1 .. queue[drain[w]] : queue' = [queue EXCEPT ![drain[w]] = @ - n]
    BY <1>11 DEF Collect
  <2>2. main = "wait" /\ drain[w] \in DOMAIN sizes
    BY <1>11 DEF Collect
  <2>3. queue' \in [DOMAIN sizes -> 0 .. QueueDepth]
    BY <2>1, <2>2, QueueDepthAssumption
  <2> QED
    BY <1>11, <2>3 DEF Collect
<1>12. ASSUME NEW w \in Jobs, NextFile(w) PROVE Types'
  <2>1. main = "wait" /\ drain[w] \in DOMAIN sizes
    BY <1>12 DEF NextFile
  <2>2. MoreFiles(w) => drain[w] + 1 \in DOMAIN sizes
    BY <1>0, <2>1 DEF MoreFiles
  <2> QED
    BY <1>12, <2>1, <2>2 DEF NextFile
<1> QED
  BY <1>1, <1>2, <1>3, <1>4, <1>5, <1>6, <1>7, <1>8, <1>9, <1>10, <1>11, <1>12
     DEF Next, JobStep

\* Every variable keeps its type.
THEOREM TypeCorrect == Spec => []TypeOK
<1>1. Types => TypeOK
  BY DEF Types
<1> QED
  BY <1>1, TypesInit, TypesNext, PTL DEF Spec

-----------------------------------------------------------------------------
(* The histogram *)

\* What keeps the histogram from overcounting: a value that a goroutine has
\* loaded and is about to store is as far behind as totalCount itself.
Behind ==
    /\ total + Cardinality(Pending) <= reads
    /\ \A w \in Jobs : pc[w] = "store" => loaded[w] + Cardinality(Pending) <= reads

\* What makes Serial exact: nobody else takes part.
SerialExact ==
    mode = "serial" =>
        /\ \A w \in Jobs \ {TheJob} : pc[w] \in {"idle", "done"}
        /\ pc[TheJob] = "store" => loaded[TheJob] = total
        /\ reads = IF pc[TheJob] \in {"load", "store"} THEN total + 1 ELSE total
        /\ proc = "exited" => pc[TheJob] = "done"

\* The goroutines with an unrecorded read are finitely many, and one joins or
\* leaves them at a time.
LEMMA PendingFinite == IsFiniteSet(Pending) /\ Cardinality(Pending) \in Nat
<1>1. IsFiniteSet(Pending)
  BY JobsAssumption, FS_Subset DEF Pending
<1> QED
  BY <1>1, FS_CardinalityType

\* A goroutine whose read returned joins them.
LEMMA PendingJoin ==
    ASSUME NEW w \in Jobs, w \notin Pending, Pending' = Pending \union {w}
    PROVE  Cardinality(Pending') = Cardinality(Pending) + 1
  BY PendingFinite, FS_AddElement

\* A goroutine that recorded its read leaves them.
LEMMA PendingLeave ==
    ASSUME NEW w \in Jobs, w \in Pending, Pending' = Pending \ {w}
    PROVE  Cardinality(Pending') = Cardinality(Pending) - 1
  BY PendingFinite, FS_RemoveElement

\* Nothing is read at the start.
LEMMA BehindInit == Init => Behind
<1> SUFFICES ASSUME Init PROVE Behind
  OBVIOUS
<1>1. Pending = {}
  BY DEF Init, Pending
<1> QED
  BY <1>1, FS_EmptySet DEF Init, Behind

\* Every step keeps the histogram behind the reads made by at least the pending ones.
LEMMA BehindNext == Types /\ Behind /\ [Next]_vars => Behind'
<1> SUFFICES ASSUME Types, Behind, [Next]_vars PROVE Behind'
  OBVIOUS
<1> USE PendingFinite DEF Types, TypeOK, Behind
<1>1. ASSUME UNCHANGED <<loaded, reads, total>>, Pending' = Pending,
             \A w \in Jobs : pc'[w] = "store" => pc[w] = "store"
      PROVE  Behind'
  BY <1>1
<1>2. CASE UNCHANGED vars
  BY <1>1, <1>2 DEF vars, Pending
<1>3. CASE Start
  BY <1>1, <1>3 DEF Start, Pending
<1>4. CASE StartFails \/ NoAio \/ Finish \/ SetDone \/ FinalReport
  BY <1>1, <1>4 DEF StartFails, NoAio, Finish, SetDone, FinalReport, Die, Pending
<1>5. ASSUME NEW w \in Jobs, Enter(w) \/ Leave(w) PROVE Behind'
  BY <1>1, <1>5 DEF Enter, Leave, Pending
<1>6. ASSUME NEW w \in Jobs, NoOffset(w) \/ Failure(w) PROVE Behind'
  BY <1>1, <1>6 DEF NoOffset, Failure, ReadFails, SubmitFails, CollectFails, Die, Pending
<1>7. ASSUME NEW w \in Jobs, MakeRoom(w) \/ Collect(w) \/ NextFile(w) PROVE Behind'
  BY <1>1, <1>7 DEF MakeRoom, Collect, NextFile, Pending
<1>8. ASSUME NEW w \in Jobs, ReadAt(w) PROVE Behind'
  <2>1. w \notin Pending /\ Pending' = Pending \union {w}
    BY <1>8 DEF ReadAt, Pending
  <2>2. Cardinality(Pending') = Cardinality(Pending) + 1
    BY <2>1, PendingJoin
  <2> QED
    BY <1>8, <2>2 DEF ReadAt
<1>9. ASSUME NEW w \in Jobs, RecordLoad(w) PROVE Behind'
  <2>1. Pending' = Pending
    BY <1>9 DEF RecordLoad, Pending
  <2> QED
    BY <1>9, <2>1 DEF RecordLoad
<1>10. ASSUME NEW w \in Jobs, RecordStore(w) PROVE Behind'
  <2>1. w \in Pending /\ Pending' = Pending \ {w}
    BY <1>10 DEF RecordStore, Pending
  <2>2. Cardinality(Pending') = Cardinality(Pending) - 1
    BY <2>1, PendingLeave
  <2> QED
    BY <1>10, <2>2 DEF RecordStore, Recorded
<1>11. ASSUME NEW w \in Jobs, Submit(w) PROVE Behind'
  <2>1. Pending' = Pending
    BY <1>11 DEF Submit, Pending
  <2> QED
    BY <1>11, <2>1 DEF Submit
<1> QED
  BY <1>2, <1>3, <1>4, <1>5, <1>6, <1>7, <1>8, <1>9, <1>10, <1>11 DEF Next, JobStep

\* Serial runs in one of the goroutines.
LEMMA TheJobIsAJob == TheJob \in Jobs
  BY JobsAssumption DEF TheJob

\* Serial starts with nothing read and nothing counted.
LEMMA SerialInit == Init => SerialExact
  BY TheJobIsAJob DEF Init, SerialExact

\* Serial records each read before it makes the next one.
LEMMA SerialNext == Types /\ SerialExact /\ [Next]_vars => SerialExact'
<1> SUFFICES ASSUME Types, SerialExact, [Next]_vars PROVE SerialExact'
  OBVIOUS
<1> SUFFICES ASSUME mode' = "serial" PROVE SerialExact'
  BY DEF SerialExact
<1>0. mode = "serial"
  BY DEF Next, vars, input, Start, StartFails, NoAio, Finish, SetDone, FinalReport, Die,
         JobStep, Failure, Enter, Leave, NoOffset, ReadAt, RecordLoad, RecordStore, Submit,
         MakeRoom, Collect, NextFile, ReadFails, SubmitFails, CollectFails
<1> USE <1>0, TheJobIsAJob DEF Types, TypeOK, SerialExact
<1>1. CASE UNCHANGED vars
  BY <1>1 DEF vars
<1>2. CASE Running /\ Start
  BY <1>2 DEF Start, Active, Running
<1>3. CASE Running /\ (StartFails \/ NoAio)
  BY <1>3 DEF StartFails, NoAio, Die
<1>4. CASE Running /\ (Finish \/ SetDone \/ FinalReport)
  BY <1>4 DEF Finish, SetDone, FinalReport
<1>5. ASSUME Running, NEW w \in Jobs, JobStep(w) PROVE SerialExact'
  <2>1. w = TheJob
    BY <1>5 DEF JobStep, Enter, Leave, NoOffset, ReadAt, RecordLoad, RecordStore, Submit,
                MakeRoom, Collect, NextFile
  <2>2. CASE Enter(w) \/ Leave(w)
    BY <1>5, <2>1, <2>2 DEF Enter, Leave, Running
  <2>3. CASE NoOffset(w)
    BY <1>5, <2>1, <2>3 DEF NoOffset, Die
  <2>4. CASE ReadAt(w)
    BY <1>5, <2>1, <2>4 DEF ReadAt, Running
  <2>5. CASE RecordLoad(w)
    BY <1>5, <2>1, <2>5 DEF RecordLoad, Running
  <2>6. CASE RecordStore(w)
    BY <1>5, <2>1, <2>6 DEF RecordStore, Recorded, Running
  <2>7. CASE Submit(w) \/ MakeRoom(w)
    BY <2>7 DEF Submit, MakeRoom
  <2>8. CASE Collect(w) \/ NextFile(w)
    BY <1>5, <2>1, <2>8 DEF Collect, NextFile, Running
  <2> QED
    BY <1>5, <2>2, <2>3, <2>4, <2>5, <2>6, <2>7, <2>8 DEF JobStep
<1>6. ASSUME Running, NEW w \in Jobs, Failure(w) PROVE SerialExact'
  BY <1>6 DEF Failure, ReadFails, SubmitFails, CollectFails, Die
<1> QED
  BY <1>1, <1>2, <1>3, <1>4, <1>5, <1>6 DEF Next

\* The histogram of Conc2 never shows more reads than were made, however its
\* unsynchronised increments interleave, and that of Serial is exact.
THEOREM HistogramCorrect == Spec => []HistogramNeverOvercounts
<1>1. Types /\ Behind /\ SerialExact => HistogramNeverOvercounts
  BY DEF Behind, SerialExact, HistogramNeverOvercounts
<1> QED
  BY <1>1, TypesInit, TypesNext, BehindInit, BehindNext, SerialInit, SerialNext, PTL DEF Spec

-----------------------------------------------------------------------------
(* Files and queues *)

\* A read fails only in a file shorter than the last one, and then proc stays.
LEMMA EofNext == Types /\ EofNeedsAShorterFile /\ [Next]_vars => EofNeedsAShorterFile'
<1> SUFFICES ASSUME Types, EofNeedsAShorterFile, [Next]_vars, proc' = "eof"
             PROVE  EofNeedsAShorterFile'
  BY DEF EofNeedsAShorterFile
<1>1. sizes \in Seq(Nat)
  BY ListsAssumption DEF Types, TypeOK
<1>2. sizes' = sizes
  BY DEF Next, vars, input, Start, StartFails, NoAio, Finish, SetDone, FinalReport, Die,
         JobStep, Failure, Enter, Leave, NoOffset, ReadAt, RecordLoad, RecordStore, Submit,
         MakeRoom, Collect, NextFile, ReadFails, SubmitFails, CollectFails
<1>3. CASE proc = "eof"
  BY <1>2, <1>3 DEF EofNeedsAShorterFile, maxFileSize
<1>4. CASE proc # "eof"
  <2>1. PICK w \in Jobs : ReadFails(w)
    BY <1>4 DEF Next, vars, Start, StartFails, NoAio, Finish, SetDone, FinalReport, Die,
           JobStep, Failure, Enter, Leave, NoOffset, ReadAt, RecordLoad, RecordStore, Submit,
           MakeRoom, Collect, NextFile, ReadFails, SubmitFails, CollectFails
  <2>2. PICK f \in DOMAIN sizes, offset \in Offsets : offset + ReadSize > sizes[f]
    BY <2>1 DEF ReadFails
  <2>3. maxFileSize \in Nat /\ sizes[f] \in Nat
    BY <1>1, <2>2 DEF maxFileSize
  <2>4. sizes[f] < maxFileSize
    BY <2>2, <2>3, ReadSizeAssumption DEF Offsets
  <2> QED
    BY <1>2, <2>4 DEF EofNeedsAShorterFile, maxFileSize
<1> QED
  BY <1>3, <1>4

\* A read never meets the end of a file unless some file is shorter than the
\* one Walk found last, from whose size getIndices draws its offsets.
THEOREM EofOnlyInShorterFiles == Spec => []EofNeedsAShorterFile
<1>1. Init => EofNeedsAShorterFile
  BY DEF Init, EofNeedsAShorterFile
<1> QED
  BY <1>1, TypesInit, TypesNext, EofNext, PTL DEF Spec

\* Goroutine w will yet look into the queue of file f.
WillCollect(w, f) == pc[w] \in {"loop", "read"} \/ (pc[w] = "drain" /\ drain[w] <= f)

\* No queue is left to nobody: a goroutine that has found one empty may be
\* wrong about it later, but then the one that submitted has yet to collect.
Collectable ==
    /\ mode # "aio" \/ main = "walk" => \A f \in DOMAIN queue : queue[f] = 0
    /\ mode = "aio" => \A w \in Jobs : pc[w] \notin {"load", "store"}
    /\ \A f \in DOMAIN queue : queue[f] = 0 \/ \E w \in Jobs : WillCollect(w, f)
    /\ proc = "exited" /\ main = "wait" => \A w \in Jobs : pc[w] = "done"

\* No request is under way at the start.
LEMMA CollectableInit == Init => Collectable
  BY DEF Init, Collectable

\* A goroutine leaves a queue with requests only to others that will still visit it.
LEMMA CollectableNext == Types /\ Collectable /\ [Next]_vars => Collectable'
<1> SUFFICES ASSUME Types, Collectable, [Next]_vars PROVE Collectable'
  OBVIOUS
<1>0. sizes \in Seq(Nat) /\ DOMAIN queue = 1 .. Len(sizes)
  BY ListsAssumption DEF Types, TypeOK
<1> USE DEF Types, TypeOK, Collectable, WillCollect, input
<1>1. CASE UNCHANGED vars
  BY <1>1 DEF vars
<1>2. CASE Running /\ Start
  BY <1>2 DEF Start, Running
<1>3. CASE Running /\ (StartFails \/ NoAio)
  BY <1>3 DEF StartFails, NoAio, Die
<1>4. CASE Running /\ (Finish \/ SetDone \/ FinalReport)
  BY <1>4 DEF Finish, SetDone, FinalReport, Running
<1>5. ASSUME Running, NEW w \in Jobs, Enter(w) PROVE Collectable'
  BY <1>5 DEF Enter, Running
<1>6. ASSUME Running, NEW w \in Jobs, Leave(w) PROVE Collectable'
  <2>0. drain[w] = 1
    BY <1>6 DEF Leave
  <2>1. \A f \in DOMAIN queue : drain[w] <= f
    BY <1>0, <2>0
  <2> QED
    BY <1>6, <2>1 DEF Leave, Running
<1>7. ASSUME NEW w \in Jobs, NoOffset(w) \/ Failure(w) PROVE Collectable'
  BY <1>7 DEF NoOffset, Failure, ReadFails, SubmitFails, CollectFails, Die
<1>8. ASSUME Running, NEW w \in Jobs, ReadAt(w) \/ RecordLoad(w) \/ RecordStore(w)
      PROVE  Collectable'
  <2>1. mode # "aio"
    BY <1>8 DEF ReadAt, RecordLoad, RecordStore
  <2> QED
    BY <1>8, <2>1 DEF ReadAt, RecordLoad, RecordStore, Running
<1>9. ASSUME Running, NEW w \in Jobs, Submit(w) PROVE Collectable'
  <2>1. mode = "aio" /\ main = "wait" /\ UNCHANGED <<input, proc, main>>
    BY <1>9 DEF Submit
  <2>2. pc' = [pc EXCEPT ![w] = "loop"]
    BY <1>9 DEF Submit
  <2>3. \A f \in DOMAIN queue' : \E v \in Jobs : WillCollect(v, f)'
    BY <2>2
  <2> QED
    BY <1>9, <2>1, <2>2, <2>3 DEF Running
<1>10. ASSUME Running, NEW w \in Jobs, MakeRoom(w) PROVE Collectable'
  BY <1>10 DEF MakeRoom, Running
<1>11. ASSUME Running, NEW w \in Jobs, Collect(w) PROVE Collectable'
  <2>1. main = "wait" /\ drain[w] \in DOMAIN queue
    BY <1>11 DEF Collect
  <2>2. \A f \in DOMAIN queue : queue[f] = 0 => queue'[f] = 0
    BY <1>0, <1>11, <2>1 DEF Collect
  <2> QED
    BY <1>11, <2>1, <2>2 DEF Collect, Running
<1>12. ASSUME Running, NEW w \in Jobs, NextFile(w) PROVE Collectable'
  <2>1. main = "wait" /\ drain[w] \in 1 .. Len(sizes) /\ queue[drain[w]] = 0
    BY <1>0, <1>12 DEF NextFile, NothingLeft
  <2>2. ASSUME NEW f \in DOMAIN queue, queue[f] # 0 PROVE \E v \in Jobs : WillCollect(v, f)'
    <3>1. PICK v \in Jobs : WillCollect(v, f)
      BY <2>2
    <3>2. CASE v # w
      BY <1>12, <3>1, <3>2 DEF NextFile
    <3>3. CASE v = w
      <4>1. drain[w] < f /\ MoreFiles(w)
        BY <1>0, <1>12, <2>1, <2>2, <3>1, <3>3 DEF NextFile, MoreFiles
      <4>2. pc'[w] = "drain" /\ drain'[w] = drain[w] + 1
        BY <1>12, <4>1 DEF NextFile
      <4> QED
        BY <1>0, <2>1, <4>1, <4>2
    <3> QED
      BY <3>2, <3>3
  <2> QED
    BY <1>12, <2>1, <2>2 DEF NextFile, Running
<1> QED
  BY <1>1, <1>2, <1>3, <1>4, <1>5, <1>6, <1>7, <1>8, <1>9, <1>10, <1>11, <1>12
     DEF Next, JobStep

\* ConcAio returns with every request collected.
THEOREM NoRequestIsLeft == Spec => []AllCollected
<1>1. Types /\ Collectable => AllCollected
  BY DEF Types, TypeOK, Collectable, WillCollect, AllCollected
<1> QED
  BY <1>1, TypesInit, TypesNext, CollectableInit, CollectableNext, PTL DEF Spec

-----------------------------------------------------------------------------
(* The number reported at the end *)

\* A report is never above the reads made, and ConcAio, which never records in
\* its histogram, has only zero to report.
ReportOK ==
    /\ printed <= reads
    /\ mode = "aio" => total = 0 /\ printed \in {-1, 0}

\* No mode reports before it has counted.
LEMMA ReportInit == Init => ReportOK
  BY DEF Init, ReportOK

\* What is printed is reads, or a totalCount that is behind reads.
LEMMA ReportNext == Types /\ Behind /\ Collectable /\ ReportOK /\ [Next]_vars => ReportOK'
<1> SUFFICES ASSUME Types, Behind, Collectable, ReportOK, [Next]_vars PROVE ReportOK'
  OBVIOUS
<1>0. printed \in Nat \cup {-1} /\ reads \in Nat /\ total \in Nat /\ total <= reads
  BY PendingFinite DEF Types, TypeOK, Behind
<1>1. ASSUME UNCHANGED <<mode, total, printed>>, reads' \in {reads, reads + 1} PROVE ReportOK'
  BY <1>0, <1>1 DEF ReportOK
<1>2. CASE UNCHANGED vars
  BY <1>1, <1>2 DEF vars
<1>3. CASE Start \/ SetDone
  BY <1>1, <1>3 DEF Start, SetDone, input
<1>4. CASE StartFails \/ NoAio
  BY <1>1, <1>4 DEF StartFails, NoAio, Die, input
<1>5. CASE Finish
  <2>1. main = "wait" /\ mode' = mode /\ total' = total /\ reads' = reads
    BY <1>5 DEF Finish, input
  <2>2. mode \in {"serial", "conc", "aio"}
    BY <2>1 DEF Types
  <2>3. CASE mode = "serial"
    BY <1>0, <1>5, <2>1, <2>3 DEF Finish, ReportOK
  <2>4. CASE mode = "conc"
    BY <1>0, <1>5, <2>1, <2>4 DEF Finish, ReportOK
  <2>5. CASE mode = "aio"
    BY <1>0, <1>5, <2>1, <2>5 DEF Finish, ReportOK
  <2> QED
    BY <2>2, <2>3, <2>4, <2>5
<1>6. CASE FinalReport
  BY <1>0, <1>6 DEF FinalReport, ReportOK, input
<1>7. ASSUME NEW w \in Jobs, Enter(w) \/ Leave(w) \/ RecordLoad(w) PROVE ReportOK'
  BY <1>1, <1>7 DEF Enter, Leave, RecordLoad, input
<1>8. ASSUME NEW w \in Jobs, NoOffset(w) \/ Failure(w) PROVE ReportOK'
  BY <1>1, <1>8 DEF NoOffset, Failure, ReadFails, SubmitFails, CollectFails, Die, input
<1>9. ASSUME NEW w \in Jobs, ReadAt(w) \/ Submit(w) PROVE ReportOK'
  BY <1>1, <1>9 DEF ReadAt, Submit, input
<1>10. ASSUME NEW w \in Jobs, MakeRoom(w) \/ Collect(w) \/ NextFile(w) PROVE ReportOK'
  BY <1>1, <1>10 DEF MakeRoom, Collect, NextFile, input
<1>11. ASSUME NEW w \in Jobs, RecordStore(w) PROVE ReportOK'
  <2>1. mode # "aio"
    BY <1>11 DEF RecordStore, Collectable
  <2> QED
    BY <1>11, <2>1 DEF RecordStore, ReportOK, input
<1> QED
  BY <1>2, <1>3, <1>4, <1>5, <1>6, <1>7, <1>8, <1>9, <1>10, <1>11 DEF Next, JobStep

\* No mode ever reports more reads than were made; and whatever ConcAio has
\* read, the total it reports is zero.
THEOREM ReportsAreBehind ==
  Spec => [](printed <= reads /\ (mode = "aio" => printed <= 0))
<1>1. ReportOK => printed <= reads /\ (mode = "aio" => printed <= 0)
  BY DEF ReportOK
<1> QED
  BY <1>1, TypesInit, TypesNext, BehindInit, BehindNext, CollectableInit, CollectableNext,
     ReportInit, ReportNext, PTL DEF Spec
=============================================================================
