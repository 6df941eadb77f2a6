----------------------------- MODULE Reputation -----------------------------
(* The tracker's reputation subsystem (tracker/internal/reputation): signals *)
(* recorded by the broker and the admission gate, categorical breaches and   *)
(* the operator's Freeze and Unfreeze under breachMu, and the evaluator      *)
(* goroutine, which takes no lock but the storage's write mutex.  The broker *)
(* reads none of the tables: it reads the cache both sides publish.          *)
(*                                                                           *)
(* Time is counted in days.  A score is a whole percentage.                  *)
EXTENDS Integers, Sequences, FiniteSets, FiniteSetsExt, SequencesExt

CONSTANTS
    Ids,
    NoRow,          \* an identity without a rep_state row
    Targets,        \* bound: the identities breaches and operators act on
    Signals,        \* bound: the signals that are recorded
    History,        \* History[i]: the broker requests i has made when the run starts
    MinPopulation, Threshold, Window, Retention, \* the configuration
    Cooldown,       \* days without an audit reason before an audit is cleared
    Recent,         \* days an audit reason counts towards a freeze
    Repeats,        \* audit reasons that freeze
    DefaultScore,
    LongevityCurve, RecencyCurve, \* the bonus and the penalty after so many days, in percent
    MaxTime,        \* bound: days
    MaxEvents,      \* bound: signals, calls under breachMu, days, restarts and failed cycles together
    MaxFaults       \* bound: restarts and failed cycles

States == {"OK", "AUDIT", "FROZEN"}
AuditKinds == {"zscore", "breach"}
ReasonKinds == AuditKinds \cup {"freeze", "unfreeze", "freeze_repeat", "audit_cleared"}

\* A rep_state row.
StateRow == [state : States, firstSeen : Nat, reasons : Seq([kind : ReasonKinds, at : Nat])]

ASSUME ReputationAssumption ==
    /\ Targets \subseteq Ids /\ NoRow \notin Ids \cup StateRow \cup Int
    /\ Signals \subseteq {"broker_request", "proof_fidelity", "offer", "settlement"}
    /\ History \in [Ids -> Nat]
    /\ {MinPopulation, Threshold, Repeats, Window, Retention, Cooldown, Recent} \subseteq Nat \ {0}
    /\ DefaultScore \in 0 .. 100
    /\ {MaxTime, MaxEvents, MaxFaults} \subseteq Nat
    /\ LongevityCurve \in [1 .. MaxTime -> 0 .. 100] /\ RecencyCurve \in [0 .. MaxTime -> 0 .. 100]

VARIABLES
    now,
    events,     \* the rep_events rows
    row,        \* row[i]: the rep_state row
    score,      \* score[i]: the rep_scores row
    cache,      \* cache[i]: what Score and IsFrozen read
    op,         \* the call that holds breachMu
    eval,       \* the evaluator goroutine
    freezes,    \* freezes[i]: how often i became FROZEN
    notices,    \* notices[i]: how often the federation was told
    unheard,    \* unheard[i]: freezes whose notice died with the process
    happened, faults

vars == <<now, events, row, score, cache, op, eval, freezes, notices, unheard, happened, faults>>

\* One more event, within its bound.
Event == happened < MaxEvents /\ happened' = happened + 1

Reason(kind, at) == [kind |-> kind, at |-> at]
NoOp == [kind |-> "none", id |-> NoRow, pc |-> "none", cur |-> "OK", view |-> <<>>]
Idle == [pc |-> "idle", at |-> 0, flagged |-> {}, snap |-> <<>>, todo |-> {}, who |-> NoRow]

\* Broker requests and proof fidelity count for the consumer population; offer outcomes and
\* settlements for the seeders'.  Of what the program records only the requests are primary.
Role(s) == IF s \in {"broker_request", "proof_fidelity", "breach"} THEN "consumer" ELSE "seeder"
PrimarySignals == {"broker_request"}

\* Mutant: FROZEN is left like any other state.
CanTransitionAlways(from, to) == from # to

CanTransition(from, to) == from # to /\ from # "FROZEN"

-----------------------------------------------------------------------------
\* Scores.

\* A cycle may judge an identity first seen, or audited, after the cycle has read its clock.
Longevity(days) == IF days <= 0 THEN 0 ELSE LongevityCurve[days]
Recency(days) == RecencyCurve[IF days < 0 THEN 0 ELSE days]

AuditTimes(reasons) == {reasons[k].at : k \in {j \in DOMAIN reasons : reasons[j].kind \in AuditKinds}}

Clamp(x) == Max({0, Min({100, x})})

ComputeScore(r, t) ==
    LET audits == AuditTimes(r.reasons)
        penalty == IF audits = {} THEN 0 ELSE Recency(t - Max(audits))
    IN  Clamp(30 + 30 + 20 + (20 * Longevity(t - r.firstSeen) - 40 * penalty) \div 100)

Entry(state, sc) == [state |-> state, score |-> sc, frozen |-> state = "FROZEN"]

IsFrozen(i) == i \in DOMAIN cache /\ cache[i].frozen
Score(i) == IF i \in DOMAIN cache THEN cache[i].score ELSE DefaultScore

Stored == {i \in Ids : row[i] # NoRow}

-----------------------------------------------------------------------------
\* Storage: each of these runs under writeMu.

Fresh == [state |-> "OK", firstSeen |-> now, reasons |-> <<>>]
Ensured(i) == IF row[i] = NoRow THEN Fresh ELSE row[i]

\* Mutant: the row is written back from the snapshot the evaluator decided on.
MovedFromSnapshot(i, to, kind, at) ==
    [(IF i \in DOMAIN eval.snap THEN eval.snap[i] ELSE Ensured(i))
        EXCEPT !.state = to, !.reasons = Append(@, Reason(kind, at))]

\* The row after a transition that is legal in the row as it is now.
Moved(i, to, kind, at) ==
    [Ensured(i) EXCEPT !.state = to, !.reasons = Append(@, Reason(kind, at))]

AppendEvent(i, s) ==
    LET n == Cardinality({e \in events : e.id = i /\ e.signal = s /\ e.at = now})
    IN  events' = events \cup {[id |-> i, signal |-> s, at |-> now, n |-> n + 1]}

\* pruneEventsBefore.
PruneEvents(cutoff) == events' = {e \in events : e.at >= cutoff}

CountFreeze(i) == freezes' = [freezes EXCEPT ![i] = @ + 1]

-----------------------------------------------------------------------------
\* Signals.

\* RecordBrokerRequest, RecordProofFidelity, RecordOfferOutcome and OnLedgerEvent: the identity
\* gets a row and the signal is counted.
Record(i, s) ==
    /\ Event
    /\ row' = [row EXCEPT ![i] = Ensured(i)]
    /\ AppendEvent(i, s)
    /\ UNCHANGED <<now, score, cache, op, eval, freezes, notices, unheard, faults>>

-----------------------------------------------------------------------------
\* Calls under breachMu.

Return == op' = NoOp
Goto(pc) == op' = [op EXCEPT !.pc = pc]
NoEval == UNCHANGED <<now, score, eval, faults>>

\* RecordCategoricalBreach: an event of no signal, kept for the audit trail.
BreachBegin(i) ==
    /\ op = NoOp /\ Event
    /\ op' = [NoOp EXCEPT !.kind = "breach", !.id = i, !.pc = "read"]
    /\ row' = [row EXCEPT ![i] = Ensured(i)]
    /\ AppendEvent(i, "breach")
    /\ UNCHANGED <<cache, freezes, notices, unheard>> /\ NoEval

BreachRead ==
    /\ op.pc = "read"
    /\ IF row[op.id].state = "FROZEN"
         THEN Return
         ELSE op' = [op EXCEPT !.pc = "write", !.cur = row[op.id].state]
    /\ UNCHANGED <<events, row, cache, freezes, notices, unheard, happened>> /\ NoEval

\* An identity read in AUDIT only gets the reason; any other is moved, unless that became
\* illegal since it was read, in which case the call returns without a reason.
BreachWrite ==
    /\ op.pc = "write"
    /\ \/ /\ op.cur = "AUDIT"
          /\ row' = [row EXCEPT ![op.id].reasons = Append(@, Reason("breach", now))]
          /\ Goto("refresh")
       \/ /\ op.cur = "OK" /\ CanTransition(row[op.id].state, "AUDIT")
          /\ row' = [row EXCEPT ![op.id] = Moved(op.id, "AUDIT", "breach", now)]
          /\ Goto("refresh")
       \/ /\ op.cur = "OK" /\ ~CanTransition(row[op.id].state, "AUDIT")
          /\ Return
          /\ UNCHANGED row
    /\ UNCHANGED <<events, cache, freezes, notices, unheard, happened>> /\ NoEval

Freeze(i) ==
    /\ op = NoOp /\ Event
    /\ IF CanTransition(Ensured(i).state, "FROZEN")
         THEN /\ row' = [row EXCEPT ![i] = Moved(i, "FROZEN", "freeze", now)]
              /\ CountFreeze(i)
              /\ op' = [NoOp EXCEPT !.kind = "freeze", !.id = i, !.pc = "refresh"]
         ELSE UNCHANGED <<row, freezes, op>>
    /\ UNCHANGED <<events, cache, notices, unheard>> /\ NoEval

\* clearFrozen: an identity that is not FROZEN is left alone, and its cache entry is refreshed
\* all the same; one without a row is an error.
Unfreeze(i) ==
    /\ op = NoOp /\ Event
    /\ IF row[i] = NoRow
         THEN UNCHANGED <<row, op>>
         ELSE /\ op' = [NoOp EXCEPT !.kind = "unfreeze", !.id = i, !.pc = "refresh"]
              /\ row' = IF row[i].state = "FROZEN"
                          THEN [row EXCEPT ![i] = Moved(i, "OK", "unfreeze", now)]
                          ELSE row
    /\ UNCHANGED <<events, cache, freezes, notices, unheard>> /\ NoEval

\* refreshOne: the row and the scores are read, then the published cache, and a copy of it with
\* the new entry is published.
RefreshRead ==
    /\ op.pc = "refresh"
    /\ op' = [op EXCEPT !.pc = "load", !.cur = row[op.id].state]
    /\ UNCHANGED <<events, row, cache, freezes, notices, unheard, happened>> /\ NoEval

RefreshLoad ==
    /\ op.pc = "load"
    /\ LET sc == IF score[op.id] # NoRow THEN score[op.id] ELSE Score(op.id)
       IN  op' = [op EXCEPT !.pc = "store", !.view = [i \in DOMAIN cache \cup {op.id} |->
                                                  IF i = op.id THEN Entry(op.cur, sc) ELSE cache[i]]]
    /\ UNCHANGED <<events, row, cache, freezes, notices, unheard, happened>> /\ NoEval

RefreshStore ==
    /\ op.pc = "store"
    /\ cache' = op.view
    /\ IF op.kind = "freeze" THEN op' = [op EXCEPT !.pc = "notify", !.view = <<>>] ELSE Return
    /\ UNCHANGED <<events, row, freezes, notices, unheard, happened>> /\ NoEval

\* notifyFreeze of the operator's freeze.
FreezeNotify ==
    /\ op.pc = "notify"
    /\ notices' = [notices EXCEPT ![op.id] = @ + 1]
    /\ Return
    /\ UNCHANGED <<events, row, cache, freezes, unheard, happened>> /\ NoEval

-----------------------------------------------------------------------------
\* The evaluator.  It reads the clock once per cycle, at its start.

Count(i, s, t) ==
    Cardinality({e \in events : e.id = i /\ e.signal = s /\ e.at \in t - Window .. t})

\* One row per identity; twice the median of their values.
Row(i, x) == [id |-> i, value |-> x]
Kth(rows, k) ==
    CHOOSE x \in {r.value : r \in rows} : /\ Cardinality({r \in rows : r.value < x}) < k
                                          /\ Cardinality({r \in rows : r.value <= x}) >= k
Median2(rows) ==
    LET n == Cardinality(rows)
    IN  Kth(rows, (n + 1) \div 2) + Kth(rows, n \div 2 + 1)

Abs(x) == IF x < 0 THEN -x ELSE x

\* Twice the deviations of rows from their median.
Deviations(rows) ==
    UNION {{Row(r.id, Abs(2 * r.value - med2)) : r \in rows} : med2 \in {Median2(rows)}}

\* |z| is above the threshold, where z = (value - median) / MAD and the MAD is not 0; dev is
\* twice the deviation of one row, mad4 four times the MAD.
Outlying(dev, mad4) == mad4 # 0 /\ 2 * dev > Threshold * mad4

\* The outliers of signal s, if the population of its role is large enough.  (The singletons
\* name values that TLC would otherwise compute again at each use.)
Outliers(s, t) ==
    LET sampled == {i \in Ids : Count(i, s, t) > 0}
        population == {i \in Ids : \E e \in events : e.id = i /\ Role(e.signal) = Role(s) /\ e.at \in t - Window .. t}
    IN  {i \in sampled :
           /\ Cardinality(population) >= MinPopulation
           /\ \E rows \in {{Row(j, Count(j, s, t)) : j \in sampled}} :
                \E devs \in {Deviations(rows)} :
                  \E d \in devs : d.id = i /\ Outlying(d.value, Median2(devs))}

\* The audit reasons of the last days before the cycle.
Strikes(r, t) ==
    {k \in DOMAIN r.reasons : r.reasons[k].kind \in AuditKinds /\ r.reasons[k].at > t - Recent}

\* Mutant: one reason too many is needed.
FreezeDueLate(r, t) == r.state = "AUDIT" /\ Cardinality(Strikes(r, t)) > Repeats

FreezeDue(r, t) == r.state = "AUDIT" /\ Cardinality(Strikes(r, t)) >= Repeats

\* An audit ends when its last recent reason is older than the cooldown.
ClearDue(r, t) ==
    /\ r.state = "AUDIT" /\ ~FreezeDue(r, t)
    /\ Strikes(r, t) # {}
    /\ \A k \in Strikes(r, t) : r.reasons[k].at < t - Cooldown

Snapshot == [i \in Stored |-> row[i]]
NoCall == UNCHANGED <<now, op, unheard, happened, faults>>

\* Aggregates and the first load of the states: a flagged identity that is OK there is audited.
EvalFlag ==
    /\ eval.pc = "idle"
    /\ LET flagged == UNION {Outliers(s, now) : s \in PrimarySignals}
       IN  eval' = [Idle EXCEPT !.pc = "flag", !.at = now, !.flagged = flagged,
                                !.todo = {i \in flagged : row[i] = NoRow \/ row[i].state = "OK"}]
    /\ UNCHANGED <<events, row, score, cache, freezes, notices>> /\ NoCall

EvalAudit(i) ==
    /\ eval.pc = "flag" /\ i \in eval.todo
    /\ eval' = [eval EXCEPT !.todo = @ \ {i}]
    /\ row' = IF CanTransition(Ensured(i).state, "AUDIT")
                THEN [row EXCEPT ![i] = Moved(i, "AUDIT", "zscore", eval.at)]
                ELSE row
    /\ UNCHANGED <<events, score, cache, freezes, notices>> /\ NoCall

\* The second load: what the audits are judged on.
EvalReload ==
    /\ eval.pc = "flag" /\ eval.todo = {}
    /\ eval' = [eval EXCEPT !.pc = "judge", !.snap = Snapshot,
                  !.todo = {i \in Stored : FreezeDue(row[i], eval.at)
                                             \/ (ClearDue(row[i], eval.at) /\ i \notin eval.flagged)}]
    /\ UNCHANGED <<events, row, score, cache, freezes, notices>> /\ NoCall

EvalFreeze(i) ==
    /\ eval.pc = "judge" /\ i \in eval.todo /\ FreezeDue(eval.snap[i], eval.at)
    /\ IF CanTransition(row[i].state, "FROZEN")
         THEN /\ row' = [row EXCEPT ![i] = Moved(i, "FROZEN", "freeze_repeat", eval.at)]
              /\ CountFreeze(i)
              /\ eval' = [eval EXCEPT !.pc = "notify", !.who = i, !.todo = @ \ {i}]
         ELSE /\ eval' = [eval EXCEPT !.todo = @ \ {i}]
              /\ UNCHANGED <<row, freezes>>
    /\ UNCHANGED <<events, score, cache, notices>> /\ NoCall

\* notifyFreeze of the evaluator: the identity it has just frozen.
EvalNotify ==
    /\ eval.pc = "notify"
    /\ notices' = [notices EXCEPT ![eval.who] = @ + 1]
    /\ eval' = [eval EXCEPT !.pc = "judge", !.who = NoRow]
    /\ UNCHANGED <<events, row, score, cache, freezes>> /\ NoCall

EvalClear(i) ==
    /\ eval.pc = "judge" /\ i \in eval.todo /\ ~FreezeDue(eval.snap[i], eval.at)
    /\ eval' = [eval EXCEPT !.todo = @ \ {i}]
    /\ row' = IF CanTransition(row[i].state, "OK")
                THEN [row EXCEPT ![i] = Moved(i, "OK", "audit_cleared", eval.at)]
                ELSE row
    /\ UNCHANGED <<events, score, cache, freezes, notices>> /\ NoCall

\* recomputeScoresAndPublish loads the states a third time ...
EvalRecompute ==
    /\ eval.pc = "judge" /\ eval.todo = {}
    /\ eval' = [eval EXCEPT !.pc = "publish", !.snap = Snapshot, !.flagged = {}]
    /\ UNCHANGED <<events, row, score, cache, freezes, notices>> /\ NoCall

\* Mutant: entries that are published stay as they are.
EvalPublishNew ==
    /\ eval.pc = "publish"
    /\ cache' = [i \in DOMAIN cache \cup DOMAIN eval.snap |->
                   IF i \in DOMAIN cache THEN cache[i]
                   ELSE Entry(eval.snap[i].state, ComputeScore(eval.snap[i], eval.at))]
    /\ eval' = Idle
    /\ UNCHANGED <<events, row, score, freezes, notices>> /\ NoCall

\* ... stores the scores, publishes a cache made of that snapshot, and old events are pruned.
EvalPublish ==
    /\ eval.pc = "publish"
    /\ LET fresh == [i \in DOMAIN eval.snap |-> ComputeScore(eval.snap[i], eval.at)]
       IN  /\ score' = [i \in Ids |-> IF i \in DOMAIN fresh THEN fresh[i] ELSE score[i]]
           /\ cache' = [i \in DOMAIN fresh |-> Entry(eval.snap[i].state, fresh[i])]
    /\ PruneEvents(eval.at - Retention)
    /\ eval' = Idle
    /\ UNCHANGED <<row, freezes, notices>> /\ NoCall

\* A query fails or the cycle's deadline passes: the cycle ends where it is.
EvalFails ==
    /\ eval.pc \notin {"idle", "notify"} /\ faults < MaxFaults /\ Event
    /\ faults' = faults + 1
    /\ eval' = Idle
    /\ UNCHANGED <<now, events, row, score, cache, op, freezes, notices, unheard>>

\* The process stops and Open reloads the cache from the tables.
Restart ==
    /\ faults < MaxFaults /\ Event
    /\ faults' = faults + 1
    /\ op' = NoOp /\ eval' = Idle
    /\ unheard' = [i \in Ids |-> freezes[i] - notices[i]]
    /\ cache' = [i \in Stored |-> Entry(row[i].state, IF score[i] # NoRow THEN score[i] ELSE DefaultScore)]
    /\ UNCHANGED <<now, events, row, score, freezes, notices>>

DayPasses ==
    /\ now < MaxTime /\ Event
    /\ now' = now + 1
    /\ UNCHANGED <<events, row, score, cache, op, eval, freezes, notices, unheard, faults>>

-----------------------------------------------------------------------------

Init ==
    /\ now = 0
    /\ events = UNION {{[id |-> i, signal |-> "broker_request", at |-> 0, n |-> k] : k \in 1 .. History[i]} : i \in Ids}
    /\ row = [i \in Ids |-> IF History[i] > 0
                              THEN [state |-> "OK", firstSeen |-> 0, reasons |-> <<>>] ELSE NoRow]
    /\ score = [i \in Ids |-> NoRow]
    /\ cache = <<>>
    /\ op = NoOp /\ eval = Idle
    /\ freezes = [i \in Ids |-> 0] /\ notices = freezes /\ unheard = freezes
    /\ happened = 0 /\ faults = 0

CallStep == BreachRead \/ BreachWrite \/ RefreshRead \/ RefreshLoad \/ RefreshStore \/ FreezeNotify

EvalStep ==
    \/ EvalFlag \/ EvalReload \/ EvalNotify \/ EvalRecompute \/ EvalPublish
    \/ \E i \in Ids : EvalAudit(i) \/ EvalFreeze(i) \/ EvalClear(i)

Next ==
    \/ \E i \in Targets, s \in Signals : Record(i, s)
    \/ \E i \in Targets : BreachBegin(i) \/ Freeze(i) \/ Unfreeze(i)
    \/ CallStep \/ EvalStep
    \/ EvalFails \/ Restart \/ DayPasses

Spec == Init /\ [][Next]_vars

\* A call that holds the mutex goes on; the evaluator's timer fires and its cycles go on.
FairSpec == Spec /\ WF_vars(CallStep) /\ WF_vars(EvalStep)

-----------------------------------------------------------------------------
\* Properties.

\* No row, score or entry is dated after today or out of its range.
Dated(r) == r.firstSeen <= now /\ \A k \in DOMAIN r.reasons : r.reasons[k].at <= now

\* The tables, the cache, the evaluator and the call that holds breachMu have their shapes.
TypeOK ==
    /\ now \in 0 .. MaxTime
    /\ row \in [Ids -> StateRow \cup {NoRow}] /\ \A i \in Stored : Dated(row[i])
    /\ score \in [Ids -> 0 .. 100 \cup {NoRow}]
    /\ DOMAIN cache \subseteq Stored
    /\ \A i \in DOMAIN cache : cache[i] \in [state : States, score : 0 .. 100, frozen : BOOLEAN]
    /\ op.kind \in {"none", "breach", "freeze", "unfreeze"}
    /\ eval.pc \in {"idle", "flag", "judge", "notify", "publish"} /\ eval.todo \subseteq Ids

\* The last reason of r whose kind is among kinds, or 0.
LastAmong(r, kinds) == Max({0} \cup {k \in DOMAIN r.reasons : r.reasons[k].kind \in kinds})

\* The reasons of a row explain its state, whatever the evaluator decided on an old snapshot:
\* an identity is FROZEN exactly when nothing but an Unfreeze could have followed its last
\* freeze, and in AUDIT only on an audit reason newer than its last acquittal (transition's
\* check under writeMu, clearFrozen).
StateExplained ==
    \A i \in Stored :
        LET frozenAt == LastAmong(row[i], {"freeze", "freeze_repeat"})
        IN  /\ row[i].state = "FROZEN" <=> frozenAt > LastAmong(row[i], {"unfreeze"})
            /\ row[i].state = "AUDIT" =>
                 LastAmong(row[i], AuditKinds) > LastAmong(row[i], {"unfreeze", "audit_cleared"})

\* A freeze the evaluator decides rests on enough recent audit reasons (runOneCycle), also when
\* breaches, days and the operator's calls fall between its reads and its writes.
FreezeEarned ==
    \A i \in Stored : \A k \in DOMAIN row[i].reasons :
        LET r == row[i].reasons
        IN  r[k].kind = "freeze_repeat" =>
              Cardinality({j \in 1 .. k - 1 : /\ r[j].kind \in AuditKinds
                                              /\ r[j].at > r[k].at - Recent}) >= Repeats

\* Freezes of i that are on their way to the federation.
Pending(i) ==
    Cardinality({p \in {<<"call", op.kind, op.id>>, <<"eval", "freeze", eval.who>>} :
                   p[2] = "freeze" /\ p[3] = i})

\* Every freeze is announced to the federation once and no other identity ever is, whoever
\* freezes it and however the operator and the evaluator race; only a process that stops in
\* between loses an announcement (Freeze, notifyFreeze).
EachFreezeTold ==
    \A i \in Ids : freezes[i] = notices[i] + unheard[i] + Pending(i)

\* The audit trail is append-only: no write, from whatever snapshot, drops a reason another
\* goroutine has added (transition, appendReason, clearFrozen).
ReasonsAppendOnly ==
    [][\A i \in Stored : row'[i] # NoRow /\ IsPrefix(row[i].reasons, row'[i].reasons)]_vars

\* However often stale entries were published over fresh ones, the cache the broker reads keeps
\* returning to what the table says of every frozen identity (recomputeScoresAndPublish).
CacheCatchesUp == []<>(\A i \in Stored : row[i].state = "FROZEN" <=> IsFrozen(i))

\* An identity with enough recent audit reasons does not stay in AUDIT (runOneCycle).
RepeatersFrozen ==
    []<>(\A i \in Stored : row[i].state = "AUDIT" => Cardinality(Strikes(row[i], now)) < Repeats)

\* Reputation's verdicts are justified and published once, however the evaluator, breaches and
\* the operator interleave (transition, runOneCycle, Freeze, Unfreeze).
ReputationInv == TypeOK /\ StateExplained /\ FreezeEarned /\ EachFreezeTold
=============================================================================
