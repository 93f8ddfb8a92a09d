------------------------------- MODULE Loader -------------------------------
(***************************************************************************)
(* What populate promises to whoever reads its output and to the programs  *)
(* run on its directory: one process empties a store, fills it with whole  *)
(* batches, each once, and tells how many keys it holds.                   *)
(***************************************************************************)
EXTENDS Integers, FiniteSets

CONSTANTS
    BatchLen,   \* keys in a batch
    NumKeys,    \* keys asked for
    Excess      \* how many more there may be, at least one

VARIABLES
    checked,  \* an old store that cannot be removed ends the process
    sync,     \* a batch is on stable storage when it is in the store
    proc,     \* "running", "exited", "fatal" or "crashed"
    opened,   \* the store is open, or has been
    stale,    \* it holds data of an earlier process
    held,     \* the batches in it
    told,     \* the last total of the reporter
    wrote     \* the number in the last line, 0 before

vars == <<checked, sync, proc, opened, stale, held, told, wrote>>

Init ==
    /\ checked \in BOOLEAN /\ sync \in BOOLEAN /\ stale \in BOOLEAN
    /\ proc = "running" /\ opened = FALSE
    /\ held = {}
    /\ told = 0 /\ wrote = 0

Keys == BatchLen * Cardinality(held)

\* One more batch.
Grows == held \subseteq held' /\ Cardinality(held' \ held) = 1

Running == proc = "running" /\ UNCHANGED <<checked, sync>>

Open ==
    /\ ~opened /\ opened'
    /\ stale' \in {stale, FALSE} /\ (checked => ~stale')
    /\ UNCHANGED <<proc, held, told, wrote>>

Load == opened /\ Grows /\ UNCHANGED <<proc, opened, stale, told, wrote>>

\* The totals told never go down and are never above what the store holds.
Tell ==
    /\ told' \in told .. Keys
    /\ UNCHANGED <<proc, opened, stale, held, wrote>>

\* The last line is exact.
Finish ==
    /\ opened
    /\ proc' = "exited"
    /\ wrote' = Keys
    /\ Keys >= NumKeys /\ Keys < NumKeys + Excess
    /\ UNCHANGED <<opened, stale, held, told>>

\* An error: the removal may have been done, the last batch may be there.
Fail ==
    /\ proc' = "fatal"
    /\ stale' = stale \/ (~opened /\ stale' = FALSE)
    /\ held' = held \/ (opened /\ Grows)
    /\ UNCHANGED <<opened, told, wrote>>

Crash ==
    /\ proc' = "crashed"
    /\ held' \subseteq held /\ (sync => held' = held)
    /\ UNCHANGED <<opened, stale, told, wrote>>

Next == Running /\ (Open \/ Load \/ Tell \/ Finish \/ Fail \/ Crash)

Spec == Init /\ [][Next]_vars
=============================================================================
