---------------------------- MODULE AdmissionLog ----------------------------
(* The persistence of admission's credit state: ledger events are logged,    *)
(* then applied to the cells of their parties (admission/events.go,          *)
(* state.go); the log is a file of frames that is synced in batches and      *)
(* rotated (tlog.go); snapshots of the cells are written beside it           *)
(* (snapshot.go); StartupReplay rebuilds the cells from the newest snapshot  *)
(* and the frames after it (replay.go).                                      *)
(*                                                                           *)
(* A cell is the sequence of what was applied to it, an event's consumer     *)
(* half or its seeder half: every bucket, the balance and the score are      *)
(* functions of it.  A crash keeps what was synced, any prefix of the frames *)
(* that were not, and perhaps a torn frame after them.                       *)
EXTENDS Integers, Sequences, FiniteSets, FiniteSetsExt, SequencesExt, Functions

CONSTANTS
    Events,         \* calls of OnLedgerEvent, and operator overrides
    Kind,           \* Kind[e]: see Kinds
    Consumer, Seeder, \* the cells an event touches; None for no seeder
    Cost,
    Parties,
    None,
    RotateAt,       \* frames in the active file that make the writer rotate it
    SnapshotsRetained,
    MaxSnapshots,   \* bound: snapshots emitted
    MaxStops,       \* bound: crashes and shutdowns
    StarterGrant, FlowScale \* StarterGrantCredits, NetFlowNormalizationConstant

EventKinds == {"clean", "unsigned", "in", "out", "grant", "filed", "upheld", "override"}
Disputes == {"filed", "upheld"}
Settlements == {"clean", "unsigned"}
Mark == "mark"
Torn == "torn"

ASSUME AdmissionLogAssumption ==
    /\ Kind \in [Events -> EventKinds]
    /\ Consumer \in [Events -> Parties \cup {None}] /\ Seeder \in [Events -> Parties \cup {None}]
    /\ \A e \in Events : Consumer[e] = None <=> Kind[e] = "override"
    /\ \A e \in Events : Seeder[e] # None => Kind[e] \in Settlements
    /\ None \notin Parties
    /\ Mark \notin Events /\ Torn \notin Events
    /\ Cost \in [Events -> Nat]
    /\ RotateAt \in Nat \ {0} /\ SnapshotsRetained \in Nat \ {0}
    /\ MaxSnapshots \in Nat /\ MaxStops \in Nat
    /\ StarterGrant \in Nat \ {0} /\ FlowScale \in Nat \ {0}

VARIABLES
    up,         \* "run", "down" (stopped or crashed), "failed" (startup refused)
    cell,       \* cell[p]: the halves applied to a party's credit state, in order
    phase,      \* phase[e]: progress of the call for e
    seqOf,      \* seqOf[e]: the sequence number the call drew and has not logged yet
    nextSeq,    \* the subsystem's counter
    lastSeq,    \* the writer's lastSeqInFile
    rotated,    \* rotated[n]: frames of the file <path>.n
    active,     \* frames of the active file
    synced,     \* how many of them are on stable storage
    snaps,      \* snaps[n]: what the file <prefix>.n holds
    emit,       \* the snapshot emitter
    stops, emitted,
    acked,      \* history: disputes whose call has returned
    calm,       \* history: no call was under way while a snapshot was taken
    replaced    \* history: a rotation has replaced an older rotated file

logVars == <<rotated, active, synced, lastSeq, replaced>>
persistVars == <<up, cell, phase, seqOf, nextSeq, logVars, snaps, emit, stops, emitted, acked,
                 calm>>

Frame(n, e) == [seq |-> n, ev |-> e]
NotEmitting == [at |-> "idle", seq |-> 0, cells |-> [p \in Parties |-> <<>>], left |-> {}]
InFlight == {e \in Events : phase[e] \in {"drawn", "logged", "half"}}

\* A settlement has a half for each of its parties, who may be the same; the others have one.
Halves == Events \X {"consumer", "seeder"}
PartyOf(h) == IF h[2] = "consumer" THEN Consumer[h[1]] ELSE Seeder[h[1]]

\* What the call for e applies to p's cell.
Share(p, e) == (IF Consumer[e] = p THEN << <<e, "consumer">> >> ELSE <<>>)
               \o (IF Seeder[e] = p THEN << <<e, "seeder">> >> ELSE <<>>)

\* A file written under the number n, over any that had it.
Put(files, n, x) == [m \in DOMAIN files \cup {n} |-> IF m = n THEN x ELSE files[m]]

LogInit ==
    /\ up = "run"
    /\ cell = [p \in Parties |-> <<>>]
    /\ phase = [e \in Events |-> "new"]
    /\ seqOf = [e \in Events |-> 0]
    /\ nextSeq = 0 /\ lastSeq = 0
    /\ rotated = <<>> /\ active = <<>> /\ synced = 0
    /\ snaps = <<>>
    /\ emit = NotEmitting
    /\ stops = 0 /\ emitted = 0
    /\ acked = {} /\ calm = TRUE /\ replaced = FALSE

\* Calls, frames, files and snapshots have the shapes the code gives them.
LogTypeOK ==
    /\ up \in {"run", "down", "failed"}
    /\ cell \in [Parties -> Seq(Halves)]
    /\ phase \in [Events -> {"new", "drawn", "logged", "half", "done", "lost"}]
    /\ seqOf \in [Events -> Nat] /\ nextSeq \in Nat /\ lastSeq \in Nat
    /\ \A n \in DOMAIN rotated : rotated[n] \in Seq([seq : Nat, ev : Events \cup {Mark, Torn}])
    /\ active \in Seq([seq : Nat, ev : Events \cup {Mark, Torn}])
    /\ synced \in 0..Len(active)
    /\ DOMAIN snaps \subseteq Nat
    /\ \A n \in DOMAIN snaps : snaps[n].cells \in [Parties -> Seq(Halves)]
    /\ emit.at \in {"idle", "copy", "write", "rename", "prune"}
    /\ emit.left \in SUBSET Parties
    /\ stops \in 0..MaxStops /\ emitted \in 0..MaxSnapshots
    /\ acked \in SUBSET Events /\ calm \in BOOLEAN /\ replaced \in BOOLEAN

-----------------------------------------------------------------------------
(* tlogWriter. *)

AppendFrameUnsynced(f, sync) ==
    /\ lastSeq' = IF f.seq > lastSeq THEN f.seq ELSE lastSeq
    /\ active' = Append(active, f)
    /\ UNCHANGED <<rotated, synced, replaced>>

\* Append, then an inline sync for a dispute, then rotation when the file is full.
AppendFrame(f, sync) ==
    LET file == Append(active, f)
        last == IF f.seq > lastSeq THEN f.seq ELSE lastSeq
    IN  /\ lastSeq' = last
        /\ IF Len(file) >= RotateAt
           THEN /\ rotated' = Put(rotated, last, file)
                /\ active' = <<>> /\ synced' = 0
                /\ replaced' = (replaced \/ last \in DOMAIN rotated)
           ELSE /\ UNCHANGED <<rotated, replaced>>
                /\ active' = file
                /\ synced' = IF sync THEN Len(file) ELSE synced

\* Append with the sync of a dispute, or the rotation of a full file, failing: the error is
\* returned, the frame stays in the active file.
AppendHalfway(f, sync) ==
    /\ sync \/ Len(active) + 1 >= RotateAt
    /\ lastSeq' = IF f.seq > lastSeq THEN f.seq ELSE lastSeq
    /\ active' = Append(active, f)
    /\ UNCHANGED <<rotated, synced, replaced>>

\* flushLoop.
Flush ==
    /\ up = "run" /\ synced < Len(active)
    /\ synced' = Len(active)
    /\ UNCHANGED <<up, cell, phase, seqOf, nextSeq, rotated, active, lastSeq, snaps, emit, stops,
                   emitted, acked, calm, replaced>>

-----------------------------------------------------------------------------
(* OnLedgerEvent. *)

DrawSeq(e) ==
    /\ up = "run" /\ phase[e] = "new"
    /\ nextSeq' = nextSeq + 1
    /\ seqOf' = [seqOf EXCEPT ![e] = nextSeq + 1]
    /\ phase' = [phase EXCEPT ![e] = "drawn"]
    /\ calm' = (calm /\ emit.at \notin {"copy"})
    /\ UNCHANGED <<up, cell, logVars, snaps, emit, stops, emitted, acked>>

\* persistEvent: the frame is written before anything is applied.
Persist(e) ==
    /\ up = "run" /\ phase[e] = "drawn"
    /\ AppendFrame(Frame(seqOf[e], e), Kind[e] \in Disputes)
    /\ phase' = [phase EXCEPT ![e] = IF Kind[e] = "override" THEN "done" ELSE "logged"]
    /\ seqOf' = [seqOf EXCEPT ![e] = 0]
    /\ UNCHANGED <<up, cell, nextSeq, snaps, emit, stops, emitted, acked, calm>>

\* A failed write aborts the call, which may leave its frame behind.
PersistFails(e) ==
    /\ up = "run" /\ phase[e] = "drawn"
    /\ \/ UNCHANGED logVars
       \/ AppendHalfway(Frame(seqOf[e], e), Kind[e] \in Disputes)
    /\ phase' = [phase EXCEPT ![e] = "lost"]
    /\ seqOf' = [seqOf EXCEPT ![e] = 0]
    /\ UNCHANGED <<up, cell, nextSeq, snaps, emit, stops, emitted, acked, calm>>

\* applySettlement, applyTransfer, applyStarterGrant, applyDispute on the consumer's cell.
Apply(e) ==
    /\ up = "run" /\ phase[e] = "logged"
    /\ cell' = [cell EXCEPT ![Consumer[e]] = Append(@, <<e, "consumer">>)]
    /\ phase' = [phase EXCEPT ![e] = IF Seeder[e] # None THEN "half" ELSE "done"]
    /\ acked' = IF Kind[e] \in Disputes THEN acked \cup {e} ELSE acked
    /\ UNCHANGED <<up, seqOf, nextSeq, logVars, snaps, emit, stops, emitted, calm>>

\* applySettlement's second half, on the seeder's cell in another shard.
ApplySeeder(e) ==
    /\ up = "run" /\ phase[e] = "half"
    /\ cell' = [cell EXCEPT ![Seeder[e]] = Append(@, <<e, "seeder">>)]
    /\ phase' = [phase EXCEPT ![e] = "done"]
    /\ UNCHANGED <<up, seqOf, nextSeq, logVars, snaps, emit, stops, emitted, acked, calm>>

-----------------------------------------------------------------------------
(* runSnapshotEmitOnce. *)

\* The writer's last sequence number is read first, the cells are copied afterwards.
SnapStart ==
    /\ up = "run" /\ emit.at = "idle" /\ emitted < MaxSnapshots
    /\ emit' = [NotEmitting EXCEPT !.at = "copy", !.seq = lastSeq, !.left = Parties]
    /\ emitted' = emitted + 1
    /\ calm' = (calm /\ InFlight = {})
    /\ UNCHANGED <<up, cell, phase, seqOf, nextSeq, logVars, snaps, stops, acked>>

\* snapshotState, one shard at a time.
SnapCopy(p) ==
    /\ up = "run" /\ emit.at = "copy" /\ p \in emit.left
    /\ emit' = [emit EXCEPT !.cells[p] = cell[p], !.left = @ \ {p},
                            !.at = IF emit.left = {p} THEN "write" ELSE "copy"]
    /\ UNCHANGED <<up, cell, phase, seqOf, nextSeq, logVars, snaps, stops, emitted, acked, calm>>

\* writeSnapshot: a temporary file, which no reader looks at ...
SnapWrite ==
    /\ up = "run" /\ emit.at = "write"
    /\ emit' = [emit EXCEPT !.at = "rename"]
    /\ UNCHANGED <<up, cell, phase, seqOf, nextSeq, logVars, snaps, stops, emitted, acked, calm>>

\* ... renamed once it is synced.
SnapRename ==
    /\ up = "run" /\ emit.at = "rename"
    /\ snaps' = Put(snaps, emit.seq, [cells |-> emit.cells, whole |-> TRUE])
    /\ emit' = [emit EXCEPT !.at = "prune"]
    /\ UNCHANGED <<up, cell, phase, seqOf, nextSeq, logVars, stops, emitted, acked, calm>>

Newest(n) == {m \in DOMAIN snaps : Cardinality({k \in DOMAIN snaps : k > m}) < n}

\* pruneSnapshots, then the mark in the log.
SnapPrune ==
    /\ up = "run" /\ emit.at = "prune"
    /\ snaps' = Restrict(snaps, Newest(SnapshotsRetained))
    /\ AppendFrame(Frame(0, Mark), FALSE)
    /\ emit' = NotEmitting
    /\ UNCHANGED <<up, cell, phase, seqOf, nextSeq, stops, emitted, acked, calm>>

\* An I/O error ends the cycle where it is; a temporary file may stay behind.
SnapFails ==
    /\ up = "run" /\ emit.at \in {"write", "rename", "prune"}
    /\ emit' = NotEmitting
    /\ UNCHANGED <<up, cell, phase, seqOf, nextSeq, logVars, snaps, stops, emitted, acked, calm>>

-----------------------------------------------------------------------------
(* Stopping and StartupReplay. *)

Halt ==
    /\ up' = "down"
    /\ cell' = [p \in Parties |-> <<>>]
    /\ phase' = [e \in Events |-> IF e \in InFlight THEN "lost" ELSE phase[e]]
    /\ emit' = NotEmitting
    /\ nextSeq' = 0 /\ lastSeq' = 0
    /\ seqOf' = [e \in Events |-> 0]
    /\ stops' = stops + 1

\* A crash keeps any number of the frames that were not synced and may tear the next one.
CrashProcess ==
    /\ up = "run" /\ stops < MaxStops
    /\ Halt
    /\ \E kept \in synced..Len(active), torn \in BOOLEAN :
          /\ torn => kept < Len(active)
          /\ active' = SubSeq(active, 1, kept) \o (IF torn THEN <<Frame(0, Torn)>> ELSE <<>>)
          /\ synced' = Len(active')
    /\ UNCHANGED <<rotated, snaps, emitted, acked, calm, replaced>>

\* Close waits for the goroutines and flushes the log.
Close ==
    /\ up = "run" /\ stops < MaxStops /\ InFlight = {} /\ emit.at = "idle"
    /\ Halt
    /\ synced' = Len(active)
    /\ UNCHANGED <<rotated, active, snaps, emitted, acked, calm, replaced>>

\* readTLogFile: a torn frame at the end is skipped.  With frames behind it, its declared length
\* either reaches past them, and they are skipped too, or its checksum fails.
Whole(file) ==
    LET bad == {k \in DOMAIN file : file[k].ev = Torn}
    IN  IF bad = {} THEN file ELSE SubSeq(file, 1, Min(bad) - 1)
Corrupt(file) == \E k \in DOMAIN file : file[k].ev = Torn /\ k < Len(file)

\* enumerateTLogFiles: rotated files by their number (an unused number is an empty file), then
\* the active one.
LogFiles ==
    [k \in 1..(Max(DOMAIN rotated \cup {0}) + 1) |->
        IF k - 1 \in DOMAIN rotated THEN rotated[k - 1] ELSE <<>>] \o <<active>>

LogFrames == FlattenSeq([k \in DOMAIN LogFiles |-> Whole(LogFiles[k])])

NotCoveredInclusive(f, start) == f.seq >= start /\ f.seq > 0

\* Replay skips the frames the snapshot is numbered to cover.
NotCovered(f, start) == f.seq > start

\* loadNewestUsableSnapshot, applySnapshot and replayTLog.
StartupReplay ==
    LET usable == {n \in DOMAIN snaps : snaps[n].whole}
        start == IF usable = {} THEN 0 ELSE Max(usable)
        calls == {k \in DOMAIN LogFrames : /\ NotCovered(LogFrames[k], start)
                                           /\ Kind[LogFrames[k].ev] # "override"}
        replay(p) == FlattenSeq([k \in DOMAIN LogFrames |->
                                    IF k \in calls THEN Share(p, LogFrames[k].ev) ELSE <<>>])
    IN  /\ up = "down"
        /\ \/ /\ up' = "run"
              /\ cell' = [p \in Parties |-> (IF usable = {} THEN <<>> ELSE snaps[start].cells[p])
                                             \o replay(p)]
              /\ nextSeq' = Cardinality(calls)
           \/ /\ \E k \in DOMAIN LogFiles : Corrupt(LogFiles[k])
              /\ up' = "failed"
              /\ UNCHANGED <<cell, nextSeq>>
        /\ UNCHANGED <<phase, seqOf, logVars, snaps, emit, stops, emitted, acked, calm>>

-----------------------------------------------------------------------------
LogNext ==
    \/ \E e \in Events : \/ DrawSeq(e) \/ Persist(e) \/ PersistFails(e)
                         \/ Apply(e) \/ ApplySeeder(e)
    \/ Flush
    \/ SnapStart \/ (\E p \in Parties : SnapCopy(p)) \/ SnapWrite \/ SnapRename \/ SnapPrune
    \/ SnapFails
    \/ CrashProcess \/ Close \/ StartupReplay

LogSpec == LogInit /\ [][LogNext]_persistVars

-----------------------------------------------------------------------------
(* ComputeLocalScore over a cell, in percent. *)

Count(p, kinds) ==
    Cardinality({k \in DOMAIN cell[p] : cell[p][k][2] = "consumer" /\ Kind[cell[p][k][1]] \in kinds})

Settled(p) == Count(p, Settlements)
Clean(p) == Count(p, {"clean"})

\* FlowBuckets: what the settlements moved into or out of the cell.
Flow(p, role) ==
    FoldLeft(LAMBDA t, h : t + IF h[2] = role /\ Kind[h[1]] \in Settlements THEN Cost[h[1]] ELSE 0,
             0, cell[p])
Earned(p) == Flow(p, "seeder")
Spent(p) == Flow(p, "consumer")

\* LastBalanceSeen: a grant sets it, the other kinds move it.
Balance(p) ==
    FoldLeft(LAMBDA b, h : CASE Kind[h[1]] = "grant" -> Cost[h[1]]
                             [] h[2] = "seeder" \/ Kind[h[1]] = "in" -> b + Cost[h[1]]
                             [] Kind[h[1]] \in Settlements \cup {"out"} -> b - Cost[h[1]]
                             [] OTHER -> b,
             0, cell[p])

DisputeRateUnclamped(p) ==
    (100 * (Count(p, {"filed"}) - Count(p, {"upheld"}))) \div Settled(p)

\* Disputes filed and not upheld, per settlement, clamped to [0, 1].
DisputeRate(p) ==
    LET net == Count(p, {"filed"}) - Count(p, {"upheld"})
        rate == (100 * (IF net < 0 THEN 0 ELSE net)) \div Settled(p)
    IN  IF rate > 100 THEN 100 ELSE rate

Reliability(p) == (100 * Clean(p)) \div Settled(p)

\* The sigmoid of the net flow, by its sign and size; the cushion by how the balance compares
\* with the starter grant.
NetFlowNorm(p) ==
    LET flow == Earned(p) - Spent(p)
    IN  IF flow = 0 THEN 50 ELSE IF flow >= FlowScale THEN 100 ELSE IF flow > 0 THEN 75
        ELSE IF flow <= -FlowScale THEN 0 ELSE 25
CushionNorm(p) ==
    IF Balance(p) <= 0 THEN 0 ELSE IF Balance(p) < StarterGrant THEN 45
    ELSE IF Balance(p) < 2 * StarterGrant THEN 50 ELSE 60

\* The weights of the five signals are those of the default configuration; without settlements
\* those of the first two are spread over the other three.  A new consumer has no tenure.
LocalScore(p) ==
    LET base == 30 * NetFlowNorm(p) + 10 * CushionNorm(p)
    IN  IF Settled(p) = 0 THEN (base * 100) \div (60 * 100)
        ELSE (30 * Reliability(p) + 10 * (100 - DisputeRate(p)) + base) \div 100

-----------------------------------------------------------------------------
(* Properties. *)

Logged == {f.ev : f \in (UNION {Range(rotated[n]) : n \in DOMAIN rotated}) \cup Range(active)}
Snapshotted(p) == UNION {Range(snaps[n].cells[p]) : n \in DOMAIN snaps}

\* Write-ahead: whatever the cells hold can be read back from the log or a snapshot, up to the
\* frames a crash may still lose (OnLedgerEvent logs before it applies).  It ends with the first
\* rotation onto a name that an earlier life of the process has used: numbering restarts at 0.
WriteAhead ==
    up = "run" /\ ~replaced =>
        \A p \in Parties : \A h \in Range(cell[p]) : h[1] \in Logged \/ h \in Snapshotted(p)

OnDisk(e) == e \in {active[k].ev : k \in 1..synced}
                   \cup UNION {{f.ev : f \in Range(rotated[n])} : n \in DOMAIN rotated}

\* A dispute whose call returned survives any crash: its frame is on stable storage (Append
\* syncs disputes inline), until a rotation replaces an older file.
DisputesDurable == ~replaced => \A e \in acked : OnDisk(e)

\* Crashes alone never leave an unreadable snapshot under a snapshot's name, so they never put
\* admission in degraded mode.
SnapshotsWhole == up = "down" => \A n \in DOMAIN snaps : snaps[n].whole

\* Replay is exact after the first stop, when no call ran while a snapshot was taken: every event
\* that is in the log or in the snapshot is counted once in each of its cells.
RecoveryExact ==
    up = "run" /\ stops <= 1 /\ calm =>
        /\ \A p \in Parties : \A i, j \in DOMAIN cell[p] : cell[p][i] = cell[p][j] => i = j
        /\ \A e \in Events : phase[e] = "done" /\ e \in {f.ev : f \in Range(LogFrames)} =>
               \A p \in Parties : Range(Share(p, e)) \subseteq Range(cell[p])

\* The signals an attestation carries stay in [0, 1] whatever mixture of settlements, disputes
\* and replays a cell holds, and so does the score.
ScoreInRange ==
    \A p \in Parties :
        /\ LocalScore(p) \in 0..100
        /\ Settled(p) > 0 => Reliability(p) \in 0..100 /\ DisputeRate(p) \in 0..100

\* The disk holds what a crash must not take: the cells' events, acknowledged disputes, and
\* snapshots that can be read (OnLedgerEvent, Append, writeSnapshot).
LogInv == LogTypeOK /\ WriteAhead /\ DisputesDurable /\ SnapshotsWhole
=============================================================================
