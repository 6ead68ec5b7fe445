------------------------------ MODULE Metrics ------------------------------
(***************************************************************************)
(* A time series counter of the server, its checkpoint file, and restarts  *)
(* (pkg/metrics: counter.go, export.go, checkpoint.go).  Traffic adds to   *)
(* the counter, old buckets of its history are merged into coarser tiers,  *)
(* and the workers of the periodic metrics log write checkpoints, any step *)
(* of which may fail.  The process or the machine may crash at any moment; *)
(* the next process loads the checkpoint, normally before it serves: the   *)
(* management RPCs are up earlier, and a Start may let traffic in.  A quota *)
(* is enforced with DeltaBetween on such counters (checkQuota).            *)
(***************************************************************************)
EXTENDS Integers, Sequences, FiniteSets, FiniteSetsExt, SequencesExt

CONSTANTS
    Width,            \* tier -> width of a bucket, a divisor of the next one
    Retain,           \* tier -> how long a bucket stays; not for the last tier
    CompactInterval,  \* compactIntervalMs
    Workers,          \* goroutines in logMetricsLoop
    MaxTime,          \* bound: the clock
    MaxAdds,          \* bound: calls of Add
    MaxCrashes        \* bound: crashes

Tiers == DOMAIN Width

VARIABLES
    clock,          \* the wall clock
    steady,         \* history: the clock has never been moved backwards
    loaded,         \* the process has loaded the checkpoint
    early,          \* history: traffic was counted before the checkpoint was loaded
    value,          \* Counter.value
    history,        \* Counter.history: tier -> sequence of [start, delta]
    nextCompact,    \* Counter.nextCompact
    pc, snapshot,   \* Workers -> position in DumpMetricsNow, the bytes it writes
    synced,         \* the workers whose temporary file is on the disk
    dumpMutex,      \* the workers that hold dumpMutex
    visible,        \* what a reader of the checkpoint file finds
    durable,        \* what the checkpoint file may hold after the machine crashes
    adds,           \* history: [time, delta] of the Adds, none lost by a crash
    published,      \* history: largest value whose DumpMetricsNow returned nil
    crashes

counterVars == <<value, history, nextCompact>>
fileVars == <<visible, durable>>
vars == <<clock, steady, loaded, early, counterVars, pc, snapshot, synced, dumpMutex, fileVars, adds, published, crashes>>

NoHistory == [i \in Tiers |-> << >>]
Empty == [value |-> 0, history |-> NoHistory]
NoFile == [value |-> 0, history |-> << >>]
Torn == [value |-> -1, history |-> NoHistory]    \* bytes that do not unmarshal

Deltas(h) == FoldLeft(LAMBDA sum, b : sum + b.delta, 0, FoldLeft(LAMBDA all, t : all \o t, << >>, h))

TypeOK ==
    /\ clock \in 0 .. MaxTime /\ {steady, loaded, early} \subseteq BOOLEAN
    /\ value \in 0 .. MaxAdds
    /\ history \in [Tiers -> Seq([start : 0 .. MaxTime, delta : 1 .. MaxAdds])]
    /\ nextCompact \in 0 .. MaxTime + CompactInterval
    /\ pc \in [Workers -> {"idle", "write", "sync", "rename", "syncDir"}]
    /\ \A w \in Workers : snapshot[w].value \in 0 .. MaxAdds
    /\ dumpMutex \subseteq Workers /\ synced \subseteq Workers
    /\ visible \in durable
    /\ published \in 0 .. MaxAdds /\ crashes \in 0 .. MaxCrashes

Init ==
    /\ clock = 0 /\ steady = TRUE /\ loaded = FALSE /\ early = FALSE
    /\ value = 0 /\ history = NoHistory /\ nextCompact = 0
    /\ pc = [w \in Workers |-> "idle"] /\ snapshot = [w \in Workers |-> Empty]
    /\ dumpMutex = {} /\ synced = {}
    /\ visible = NoFile /\ durable = {NoFile}
    /\ adds = << >> /\ published = 0 /\ crashes = 0

-----------------------------------------------------------------------------
(* The history of a counter.                                               *)

FloorTo(ms, width) == ms - (ms % width)

\* A delta that is not later than the last bucket goes to the last bucket.
AddBucket(tier, start, delta) ==
    IF tier # << >> /\ start <= Last(tier).start
    THEN [tier EXCEPT ![Len(tier)].delta = @ + delta]
    ELSE Append(tier, [start |-> start, delta |-> delta])

RecordDelta(h, i, ms, delta) == [h EXCEPT ![i] = AddBucket(@, FloorTo(ms, Width[i]), delta)]

\* The number of buckets at the front of a tier that have expired.
ExpiredPrefix(tier, i, ms) ==
    CHOOSE n \in 0 .. Len(tier) :
        /\ \A k \in 1 .. n : ms - tier[k].start > Retain[i]
        /\ n < Len(tier) => ms - tier[n + 1].start <= Retain[i]

DropExpired(h, i, ms) == [h EXCEPT ![i] = SubSeq(@, ExpiredPrefix(@, i, ms) + 1, Len(@))]

CompactTier(h, i, ms) ==
    LET n == ExpiredPrefix(h[i], i, ms)
        moved == FoldLeft(LAMBDA g, b : RecordDelta(g, i + 1, b.start, b.delta), h, SubSeq(h[i], 1, n))
    IN [moved EXCEPT ![i] = SubSeq(h[i], n + 1, Len(h[i]))]

Compact(h, ms) == FoldLeft(LAMBDA g, i : CompactTier(g, i, ms), h, [i \in 1 .. Len(Retain) |-> i])

DeltaBetween(from, to) ==
    LET Count(tier) == FoldLeft(LAMBDA sum, b : sum + b.delta, 0,
                                SelectSeq(tier, LAMBDA b : b.start > from /\ b.start <= to))
    IN FoldLeft(LAMBDA sum, t : sum + Count(t), 0, history)

\* addWithTime, which holds mu.
Add ==
    LET recorded == RecordDelta(history, 1, clock, 1)
        due == clock >= nextCompact
    IN /\ Len(adds) < MaxAdds
       /\ early' = (early \/ ~loaded)
       /\ history' = IF due THEN Compact(recorded, clock) ELSE recorded
       /\ nextCompact' = IF due THEN clock + CompactInterval ELSE nextCompact
       /\ value' = value + 1
       /\ adds' = Append(adds, clock)
       /\ UNCHANGED <<clock, steady, loaded, pc, snapshot, synced, dumpMutex, fileVars, published, crashes>>

Tick ==
    /\ clock < MaxTime
    /\ clock' = clock + 1
    /\ UNCHANGED <<steady, loaded, early, counterVars, pc, snapshot, synced, dumpMutex, fileVars, adds, published, crashes>>

MoveClockBack ==
    /\ steady /\ clock > 0
    /\ clock' = clock - 1 /\ steady' = FALSE
    /\ UNCHANGED <<loaded, early, counterVars, pc, snapshot, synced, dumpMutex, fileVars, adds, published, crashes>>

-----------------------------------------------------------------------------
(* The checkpoint.  A worker holds dumpMutex from the collection of the    *)
(* metrics to the end of the publication.                                  *)

GotoHolding(w, place) ==
    /\ pc' = [pc EXCEPT ![w] = place]
    /\ UNCHANGED <<clock, steady, loaded, early, counterVars, adds, crashes>>

\* DumpMetricsNow returns, with an error or without.
Return(w) ==
    /\ GotoHolding(w, "idle")
    /\ snapshot' = [snapshot EXCEPT ![w] = Empty]
    /\ synced' = synced \ {w}
    /\ dumpMutex' = dumpMutex \ {w}

CollectUnlocked(w) ==
    /\ loaded /\ pc[w] = "idle"
    /\ snapshot' = [snapshot EXCEPT ![w] = [value |-> value, history |-> history]]
    /\ GotoHolding(w, "write")
    /\ UNCHANGED <<synced, dumpMutex, fileVars, published>>

Collect(w) ==
    /\ loaded /\ pc[w] = "idle" /\ dumpMutex = {}
    /\ snapshot' = [snapshot EXCEPT ![w] = [value |-> value, history |-> history]]
    /\ dumpMutex' = {w}
    /\ GotoHolding(w, "write")
    /\ UNCHANGED <<synced, fileVars, published>>

\* A temporary file is created, written and given its permissions.
WriteTemp(w) ==
    /\ pc[w] = "write"
    /\ GotoHolding(w, "sync")
    /\ UNCHANGED <<snapshot, synced, dumpMutex, fileVars, published>>

SyncTemp(w) ==
    /\ pc[w] = "sync"
    /\ synced' = synced \cup {w}
    /\ GotoHolding(w, "rename")
    /\ UNCHANGED <<snapshot, dumpMutex, fileVars, published>>

\* From here on the machine may keep the new directory entry.
RenameTemp(w) ==
    /\ pc[w] = "rename"
    /\ visible' = snapshot[w]
    /\ durable' = durable \cup {snapshot[w]} \cup (IF w \in synced THEN {} ELSE {Torn})
    /\ GotoHolding(w, "syncDir")
    /\ UNCHANGED <<snapshot, synced, dumpMutex, published>>

SyncDirectory(w) ==
    /\ pc[w] = "syncDir"
    /\ durable' = {visible}
    /\ published' = Max({published, snapshot[w].value})
    /\ Return(w)
    /\ UNCHANGED visible

\* A step fails: the temporary file is removed.  An error after the rename
\* leaves the new file in place.
StepFails(w) ==
    /\ pc[w] # "idle"
    /\ Return(w)
    /\ UNCHANGED <<fileVars, published>>

-----------------------------------------------------------------------------
(* Crash and restart.                                                      *)

\* The process dies; if the machine does too, the file is one of durable.
Crash ==
    /\ crashes < MaxCrashes
    /\ crashes' = crashes + 1
    /\ loaded' = FALSE
    /\ value' = 0 /\ history' = NoHistory /\ nextCompact' = 0
    /\ pc' = [w \in Workers |-> "idle"] /\ snapshot' = [w \in Workers |-> Empty]
    /\ dumpMutex' = {} /\ synced' = {}
    /\ \/ UNCHANGED fileVars
       \/ \E found \in durable : visible' = found /\ durable' = {found}
    /\ UNCHANGED <<clock, steady, early, adds, published>>

\* loadHistory: the records of each tier are recorded again, in order.
LoadHistory(records) ==
    LET Reload(h, i) == FoldLeft(LAMBDA g, b : RecordDelta(g, i, b.start, b.delta), h, records[i])
    IN FoldLeft(Reload, NoHistory, [i \in Tiers |-> i])

\* LoadMetricsFromDump.  It adds the difference of the values and then
\* replaces the history; it does so twice.
Load ==
    LET readable == visible \notin {Torn, NoFile}
    IN /\ ~loaded
       /\ loaded' = TRUE
       /\ value' = IF readable THEN Max({value, visible.value}) ELSE value
       /\ history' = IF readable THEN LoadHistory(visible.history) ELSE history
       /\ nextCompact' = IF readable THEN 0 ELSE nextCompact
       /\ UNCHANGED <<clock, steady, early, pc, snapshot, synced, dumpMutex, fileVars, adds, published, crashes>>

Next ==
    \/ Add \/ Tick \/ MoveClockBack \/ Crash \/ Load
    \/ \E w \in Workers :
          Collect(w) \/ WriteTemp(w) \/ SyncTemp(w) \/ RenameTemp(w) \/ SyncDirectory(w) \/ StepFails(w)

Spec == Init /\ [][Next]_vars

-----------------------------------------------------------------------------
(* Properties.                                                             *)

\* "so value matches history" (Counter.mu): through compaction, a clock that
\* moves backwards, checkpoints, crashes and loads.  A quota is checked
\* against the history.  Traffic counted before the checkpoint is loaded is
\* the exception: loadHistory replaces the history, not the value.
ValueMatchesHistory == ~early => value = Deltas(history)

\* Each tier is strictly ordered by start, which the binary search of
\* DeltaBetween relies on, also after the clock has moved backwards.
TiersOrdered ==
    \A i \in Tiers : \A k \in 1 .. Len(history[i]) - 1 : history[i][k].start < history[i][k + 1].start

\* Whatever step fails and whenever the machine crashes, the file is absent
\* or complete, and its value matches its history ("publishes a complete
\* file", writeCheckpointFile).
CheckpointComplete ==
    \A found \in durable : found # Torn /\ (~early => found.value = Deltas(found.history))

\* The file is never older than a checkpoint whose writing was reported as
\* successful, although several workers write it ("The caller serializes
\* snapshot collection and this entire operation").
CheckpointNeverRegresses == \A found \in durable \ {Torn} : found.value >= published

AddsAfter(time) == Cardinality({i \in DOMAIN adds : adds[i] > time})

\* While the clock moves forwards, the delta since an earlier time counts no
\* Add that is not later than that time and, unless a crash has lost some,
\* every Add that is later by the width of the coarsest bucket: merging
\* buckets loses no more precision than that (compact).
WindowIsExact ==
    steady /\ ~early => \A from \in 0 .. clock :
                 /\ DeltaBetween(from, clock) <= AddsAfter(from)
                 /\ crashes = 0 => DeltaBetween(from, clock) >= AddsAfter(from + Width[Len(Width)] - 1)
=============================================================================
