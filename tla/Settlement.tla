----------------------------- MODULE Settlement -----------------------------
(***************************************************************************)
(* The life of a brokered request in the tracker (tracker/internal/broker, *)
(* session and registry load): Submit reserves credits and runs the offer  *)
(* loop, the seeder's usage_report starts a goroutine that waits for the   *)
(* consumer's counter-signature and appends the USAGE entry, and the TTL   *)
(* reaper, the operator and a shutdown act on the same request at any time.*)
(*                                                                         *)
(* Reservations, Inflight, the pending settlements, the ledger and each    *)
(* registry shard have locks of their own and no lock covers two of them:  *)
(* a step below is what runs under one lock, or a run of such sections     *)
(* that no other goroutine can tell apart from one.  A request id is random *)
(* and is submitted once.                                                  *)
(***************************************************************************)
EXTENDS Brokerage, Integers, FiniteSets, FiniteSetsExt

CONSTANTS
    Consumers,
    ConsumerOf,       \* the consumer that submits each request
    NoSeeder,         \* the zero AssignedSeeder
    NoRequest,
    Costs,            \* Pricing.MaxCost of an envelope
    Credits,          \* credits of the balance proofs envelopes carry
    LoadThreshold,    \* broker.load_threshold, 0 for none
    MaxOfferAttempts,
    Reporters,        \* usage_report handlers, each with its awaitSettle goroutine
    Settlers,         \* settle handlers
    Faults            \* which of "expire", "admin", "append", "report", "stop" occur

ASSUME SettlementAssumption ==
    /\ IsFiniteSet(Requests) /\ ConsumerOf \in [Requests -> Consumers]
    /\ NoSeeder \notin Seeders
    /\ NoRequest \notin Requests
    /\ Costs \subseteq Nat \ {0}
    /\ Credits \subseteq Nat
    /\ LoadThreshold \in Nat
    /\ MaxOfferAttempts \in Nat

VARIABLES
    state,     \* Inflight.byID: the request's lifecycle state
    seeder,    \* Inflight.byID: AssignedSeeder
    slot,      \* Reservations.byReq: the amount reserved, 0 for no slot
    reserved,  \* Reservations.byID: the consumer's reserved total
    load,      \* Registry: the seeder's in-flight load
    submit,    \* per request: where its Submit call is, and the seeder it offers to
    tried,     \* per request: seeders that declined or did not answer
    report,    \* per reporter: its step, its request, ConsumerSigMissing
    pending,   \* Settlement.pending: the verdict on the counter-signature
    sig,       \* Request.SettleSig: "nil", "empty" or "full" (capacity 1)
    settle,    \* per settler: its step and request, and whether the sig verified
    entry,     \* the ledger: the request's USAGE entry
    reaper,    \* the TTL reaper: swept slots, and the one it is failing
    admin,     \* an operator's force-fail call
    stopping,  \* Close was called: stop and the server context are done
    verified,  \* history: a counter-sig of the request was verified
    calm       \* history: no TTL has passed, nobody intervened, no append failed

requestVars == <<state, seeder, slot, reserved, load>>
submitVars == <<submit, tried>>
settleVars == <<pending, sig, settle, verified>>
vars == <<requestVars, submitVars, report, settleVars, entry, reaper, admin, stopping, calm>>

NoPending == [verified |-> FALSE, refused |-> FALSE, open |-> FALSE]
Fresh == [verified |-> FALSE, refused |-> FALSE, open |-> TRUE]
IdleReport == [pc |-> "idle", req |-> NoRequest, missing |-> FALSE]
IdleSettle == [pc |-> "idle", req |-> NoRequest, verified |-> FALSE]
IdleReaper == [todo |-> {}, pc |-> "idle", req |-> NoRequest, prior |-> "None", from |-> "None"]
IdleAdmin == [pc |-> "idle", req |-> NoRequest, holder |-> NoSeeder]

-----------------------------------------------------------------------------
(* session.Reservations, session.Inflight and registry load.               *)

Amount(S) == MapThenSumSet(LAMBDA r : slot[r], S)

\* Both maps change under one lock; releasing a missing slot does nothing.
Release(r) ==
    /\ slot' = [slot EXCEPT ![r] = 0]
    /\ reserved' = [reserved EXCEPT ![ConsumerOf[r]] = @ - slot[r]]

\* Compare-and-swap on the lifecycle state; a loser changes nothing.
Transition(r, from, to) ==
    state' = [state EXCEPT ![r] = IF @ = from THEN to ELSE @]

IncLoad(s) == load' = [load EXCEPT ![s] = @ + 1]
\* ErrLoadUnderflow leaves the load at 0; the zero identity is nobody's.
DecLoad(s) == load' = [t \in Seeders |-> IF t = s /\ load[t] > 0 THEN load[t] - 1 ELSE load[t]]

-----------------------------------------------------------------------------
(* Broker.Submit.                                                          *)

Submit(r) ==
    /\ submit[r].pc = "new"
    /\ ~stopping
    /\ \E cost \in Costs, creds \in Credits :
          IF reserved[ConsumerOf[r]] + cost > creds
          THEN /\ submit' = [submit EXCEPT ![r].pc = "done"]
               /\ UNCHANGED <<state, slot, reserved>>
          ELSE /\ submit' = [submit EXCEPT ![r].pc = "select"]
               /\ state' = [state EXCEPT ![r] = "Selecting"]
               /\ slot' = [slot EXCEPT ![r] = cost]
               /\ reserved' = [reserved EXCEPT ![ConsumerOf[r]] = @ + cost]
    /\ UNCHANGED <<seeder, load, tried, report, settleVars, entry, reaper, admin, stopping, calm>>

\* Registry.Match and Pick: who may still be offered the request.
Pick(r) ==
    {s \in Seeders : s \notin tried[r] /\ (LoadThreshold = 0 \/ load[s] < LoadThreshold)}

FailAndRelease(r) == Release(r) /\ Transition(r, "Selecting", "Failed")

\* The candidate is picked on a snapshot; its load is taken in a later step.
Match(r) ==
    /\ submit[r].pc = "select"
    /\ Cardinality(tried[r]) < MaxOfferAttempts
    /\ \E s \in Pick(r) : submit' = [submit EXCEPT ![r] = [pc |-> "load", cand |-> s]]
    /\ UNCHANGED <<requestVars, tried, report, settleVars, entry, reaper, admin, stopping, calm>>

NoCapacity(r) ==
    /\ submit[r].pc = "select"
    /\ Cardinality(tried[r]) >= MaxOfferAttempts \/ Pick(r) = {}
    /\ FailAndRelease(r)
    /\ submit' = [submit EXCEPT ![r].pc = "done"]
    /\ UNCHANGED <<seeder, load, tried, report, settleVars, entry, reaper, admin, stopping, calm>>

Offer(r) ==
    /\ submit[r].pc = "load"
    /\ IncLoad(submit[r].cand)
    /\ submit' = [submit EXCEPT ![r].pc = "offer"]
    /\ UNCHANGED <<state, seeder, slot, reserved, tried, report, settleVars, entry, reaper,
                   admin, stopping, calm>>

\* Mutant: a declined offer keeps the load unit.
OfferReject_KeepsLoad(r) ==
    /\ submit[r].pc = "offer"
    /\ tried' = [tried EXCEPT ![r] = @ \cup {submit[r].cand}]
    /\ submit' = [submit EXCEPT ![r] = [pc |-> "select", cand |-> NoSeeder]]
    /\ UNCHANGED <<requestVars, report, settleVars, entry, reaper, admin, stopping, calm>>
\* A reject, an unreachable seeder or the offer timeout.
OfferReject(r) ==
    /\ submit[r].pc = "offer"
    /\ DecLoad(submit[r].cand)
    /\ tried' = [tried EXCEPT ![r] = @ \cup {submit[r].cand}]
    /\ submit' = [submit EXCEPT ![r] = [pc |-> "select", cand |-> NoSeeder]]
    /\ UNCHANGED <<state, seeder, slot, reserved, report, settleVars, entry, reaper, admin,
                   stopping, calm>>

\* MarkSeeder, then the CAS to Assigned; it loses when the request was failed
\* while the offer was out.
OfferAccept(r) ==
    /\ submit[r].pc = "offer"
    /\ seeder' = [seeder EXCEPT ![r] = submit[r].cand]
    /\ IF state[r] = "Selecting"
       THEN /\ Transition(r, "Selecting", "Assigned")
            /\ UNCHANGED <<slot, reserved, load>>
       ELSE FailAndRelease(r) /\ DecLoad(submit[r].cand)
    /\ submit' = [submit EXCEPT ![r].pc = "done"]
    /\ UNCHANGED <<tried, report, settleVars, entry, reaper, admin, stopping, calm>>

OfferCancel(r) ==
    /\ submit[r].pc = "offer"
    /\ stopping
    /\ FailAndRelease(r)
    /\ DecLoad(submit[r].cand)
    /\ submit' = [submit EXCEPT ![r].pc = "done"]
    /\ UNCHANGED <<seeder, tried, report, settleVars, entry, reaper, admin, stopping, calm>>

-----------------------------------------------------------------------------
(* Settlement.HandleUsageReport, and the awaitSettle goroutine it spawns.  *)

Goto(t, pc) == report' = [report EXCEPT ![t].pc = pc]

ReportGuard(t, r) ==
    /\ report[t].pc = "idle"
    /\ ~stopping
    /\ state[r] \in {"Assigned", "Serving"}
    /\ report' = [report EXCEPT ![t] = [pc |-> "serve", req |-> r, missing |-> FALSE]]
    /\ UNCHANGED <<requestVars, submitVars, settleVars, entry, reaper, admin, stopping, calm>>

\* A lost CAS is ignored: "may already be SERVING from a racing call".
ReportServe(t) ==
    /\ report[t].pc = "serve"
    /\ Transition(report[t].req, "Assigned", "Serving")
    /\ Goto(t, "index")
    /\ UNCHANGED <<seeder, slot, reserved, load, submitVars, settleVars, entry, reaper, admin,
                   stopping, calm>>

\* The ledger tip cannot be read, or the seeder's signature is invalid.
ReportReject(t) ==
    /\ "report" \in Faults
    /\ report[t].pc = "index"
    /\ report' = [report EXCEPT ![t] = IdleReport]
    /\ UNCHANGED <<requestVars, submitVars, settleVars, entry, reaper, admin, stopping, calm>>

\* EnsureSettleSig and IndexByHash: from here on settle calls find the request.
ReportIndex(t) ==
    /\ report[t].pc = "index"
    /\ sig' = [sig EXCEPT ![report[t].req] = IF @ = "nil" THEN "empty" ELSE @]
    /\ Goto(t, "gate")
    /\ UNCHANGED <<requestVars, submitVars, pending, settle, verified, entry, reaper,
                   admin, stopping, calm>>

\* Mutant: the pending entry is overwritten and a second goroutine waits.
ReportPending_Overwrites(t) ==
    /\ report[t].pc = "gate"
    /\ Goto(t, "wait")
    /\ pending' = [pending EXCEPT ![report[t].req] = Fresh]
    /\ UNCHANGED <<requestVars, submitVars, sig, settle, verified, entry, reaper,
                   admin, stopping, calm>>
\* putPending: a second report of a settlement in flight is turned away.
ReportPending(t) ==
    LET r == report[t].req IN
    /\ report[t].pc = "gate"
    /\ IF pending[r].open
       THEN report' = [report EXCEPT ![t] = IdleReport] /\ UNCHANGED pending
       ELSE Goto(t, "wait") /\ pending' = [pending EXCEPT ![r] = Fresh]
    /\ UNCHANGED <<requestVars, submitVars, sig, settle, verified, entry, reaper, admin,
                   stopping, calm>>

\* Mutant: any token in the channel counts as a verified signature.
WaitSig_AnySig(t) ==
    LET r == report[t].req IN
    /\ report[t].pc = "wait"
    /\ sig[r] = "full"
    /\ sig' = [sig EXCEPT ![r] = "empty"]
    /\ report' = [report EXCEPT ![t].pc = IF pending[r].refused THEN "drop" ELSE "append",
                                ![t].missing = FALSE]
    /\ UNCHANGED <<requestVars, submitVars, pending, settle, verified, entry,
                   reaper, admin, stopping, calm>>
\* The counter-signature arrives: append with the verdict, or nothing when refused.
WaitSig(t) ==
    LET r == report[t].req IN
    /\ report[t].pc = "wait"
    /\ sig[r] = "full"
    /\ sig' = [sig EXCEPT ![r] = "empty"]
    /\ report' = [report EXCEPT
                    ![t].pc = IF pending[r].refused THEN "drop" ELSE "append",
                    ![t].missing = ~pending[r].verified]
    /\ UNCHANGED <<requestVars, submitVars, pending, settle, verified, entry, reaper,
                   admin, stopping, calm>>

\* Mutant: the timer does not end a settlement whose signature was refused.
WaitTimer_NotRefused(t) ==
    /\ report[t].pc = "wait"
    /\ ~pending[report[t].req].refused
    /\ report' = [report EXCEPT ![t].pc = "append", ![t].missing = TRUE]
    /\ UNCHANGED <<requestVars, submitVars, settleVars, entry, reaper, admin, stopping, calm>>
\* select picks any ready case: the timer may win over a signature.
WaitTimer(t) ==
    /\ report[t].pc = "wait"
    /\ report' = [report EXCEPT
                    ![t].pc = IF pending[report[t].req].refused THEN "drop" ELSE "append",
                    ![t].missing = TRUE]
    /\ UNCHANGED <<requestVars, submitVars, settleVars, entry, reaper, admin, stopping, calm>>

WaitStop(t) ==
    /\ report[t].pc = "wait"
    /\ stopping
    /\ Goto(t, "drop")
    /\ UNCHANGED <<requestVars, submitVars, settleVars, entry, reaper, admin, stopping, calm>>

\* Ledger.AppendUsage, retries included: one entry per request id.
AppendUsage(t) ==
    LET r == report[t].req IN
    /\ report[t].pc = "append"
    /\ entry[r] = "none"
    /\ entry' = [entry EXCEPT ![r] = IF report[t].missing THEN "unsigned" ELSE "signed"]
    /\ Goto(t, "finish")
    /\ UNCHANGED <<requestVars, submitVars, settleVars, reaper, admin, stopping, calm>>

\* ErrUsageRequestExists, or any other refusal of the ledger: the reservation
\* and the load stay as they are.
AppendFailed(t) ==
    LET r == report[t].req IN
    /\ report[t].pc = "append"
    /\ entry[r] # "none" \/ "append" \in Faults
    /\ Transition(r, "Serving", "Failed")
    /\ Goto(t, "drop")
    /\ calm' = (calm /\ entry[r] # "none")
    /\ UNCHANGED <<seeder, slot, reserved, load, submitVars, settleVars, entry, reaper, admin,
                   stopping>>

Finish(t) ==
    LET r == report[t].req IN
    /\ report[t].pc = "finish"
    /\ Release(r)
    /\ DecLoad(seeder[r])
    /\ Transition(r, "Serving", "Completed")
    /\ Goto(t, "drop")
    /\ UNCHANGED <<seeder, submitVars, settleVars, entry, reaper, admin, stopping, calm>>

DropPending(t) ==
    /\ report[t].pc = "drop"
    /\ pending' = [pending EXCEPT ![report[t].req] = NoPending]
    /\ report' = [report EXCEPT ![t] = IdleReport]
    /\ UNCHANGED <<requestVars, submitVars, sig, settle, verified, entry, reaper, admin,
                   stopping, calm>>

-----------------------------------------------------------------------------
(* Settlement.HandleSettle.                                                *)

\* No pending settlement or no known public key: unverifiable, sent on anyway.
SettleUnverifiable(h, r) ==
    /\ settle[h].pc = "idle"
    /\ sig[r] # "nil"
    /\ settle' = [settle EXCEPT ![h] = [pc |-> "send", req |-> r, verified |-> FALSE]]
    /\ UNCHANGED <<requestVars, submitVars, report, pending, sig, verified, entry, reaper,
                   admin, stopping, calm>>

SettleVerified(h, r) ==
    /\ settle[h].pc = "idle"
    /\ pending[r].open
    /\ pending' = [pending EXCEPT ![r].verified = TRUE]
    /\ settle' = [settle EXCEPT ![h] = [pc |-> "send", req |-> r, verified |-> TRUE]]
    /\ verified' = verified \cup {r}
    /\ UNCHANGED <<requestVars, submitVars, report, sig, entry, reaper, admin,
                   stopping, calm>>

SettleRefused(h, r) ==
    /\ settle[h].pc = "idle"
    /\ pending[r].open
    /\ pending' = [pending EXCEPT ![r].refused = TRUE]
    /\ UNCHANGED <<requestVars, submitVars, report, sig, settle, verified, entry, reaper, admin,
                   stopping, calm>>

\* The dispatch never blocks: a full channel is ErrDuplicateSettle.
SettleSend(h) ==
    LET r == settle[h].req IN
    /\ settle[h].pc = "send"
    /\ sig' = [sig EXCEPT ![r] = "full"]
    /\ settle' = [settle EXCEPT ![h] = IdleSettle]
    /\ UNCHANGED <<requestVars, submitVars, report, pending, verified, entry, reaper, admin,
                   stopping, calm>>

-----------------------------------------------------------------------------
(* The TTL reaper, the operator, shutdown.                                 *)

\* Mutant: the slots go, the consumer's total stays.
SweepExpired_SlotsOnly(S) ==
    /\ "expire" \in Faults
    /\ reaper.pc = "idle"
    /\ ~stopping
    /\ S # {}
    /\ \A r \in S : slot[r] > 0
    /\ slot' = [r \in Requests |-> IF r \in S THEN 0 ELSE slot[r]]
    /\ reaper' = [reaper EXCEPT !.todo = S, !.pc = "read"]
    /\ calm' = FALSE
    /\ UNCHANGED <<state, seeder, reserved, load, submitVars, report, settleVars, entry, admin,
                   stopping>>
SweepExpired(S) ==
    /\ "expire" \in Faults
    /\ reaper.pc = "idle"
    /\ ~stopping
    /\ S # {}
    /\ \A r \in S : slot[r] > 0
    /\ slot' = [r \in Requests |-> IF r \in S THEN 0 ELSE slot[r]]
    /\ reserved' = [c \in Consumers |->
                      reserved[c] - Amount({r \in S : ConsumerOf[r] = c})]
    /\ reaper' = [reaper EXCEPT !.todo = S, !.pc = "read"]
    /\ calm' = FALSE
    /\ UNCHANGED <<state, seeder, load, submitVars, report, settleVars, entry, admin, stopping>>

\* PriorState, read with no lock through the *Request.
ReapRead(r) ==
    /\ reaper.pc = "read"
    /\ r \in reaper.todo
    /\ reaper' = [reaper EXCEPT !.pc = "switch", !.req = r, !.prior = state[r]]
    /\ UNCHANGED <<requestVars, submitVars, report, settleVars, entry, admin, stopping, calm>>

\* The state is read again to choose the transition.
ReapSwitch ==
    /\ reaper.pc = "switch"
    /\ reaper' = [reaper EXCEPT !.pc = "fail", !.from = state[reaper.req]]
    /\ UNCHANGED <<requestVars, submitVars, report, settleVars, entry, admin, stopping, calm>>

\* The CAS to Failed, and runReap's DecLoad for a PriorState of Assigned.
ReapFail ==
    LET r == reaper.req IN
    /\ reaper.pc = "fail"
    /\ IF reaper.from \in {"Selecting", "Assigned"}
       THEN Transition(r, reaper.from, "Failed") ELSE UNCHANGED state
    /\ IF reaper.prior = "Assigned" THEN DecLoad(seeder[r]) ELSE UNCHANGED load
    /\ reaper' = IF reaper.todo = {r} THEN IdleReaper
                 ELSE [IdleReaper EXCEPT !.todo = reaper.todo \ {r}, !.pc = "read"]
    /\ UNCHANGED <<seeder, slot, reserved, submitVars, report, settleVars, entry, admin, stopping, calm>>

\* POST /broker/reservations/release
ForceRelease(r) ==
    /\ "admin" \in Faults
    /\ slot[r] > 0
    /\ Release(r)
    /\ calm' = FALSE
    /\ UNCHANGED <<state, seeder, load, submitVars, report, settleVars, entry, reaper, admin,
                   stopping>>

\* POST /broker/inflight/fail looks the assignment up first ...
ForceFailLookup(r) ==
    /\ "admin" \in Faults
    /\ admin.pc = "idle"
    /\ state[r] # "None"
    /\ admin' = [pc |-> "fail", req |-> r, holder |-> seeder[r]]
    /\ UNCHANGED <<requestVars, submitVars, report, settleVars, entry, reaper, stopping, calm>>

\* ... and then fails the request whatever its state is.
ForceFail ==
    LET r == admin.req IN
    /\ admin.pc = "fail"
    /\ state' = [state EXCEPT ![r] = "Failed"]
    /\ IF state[r] = "Assigned" THEN DecLoad(admin.holder) ELSE UNCHANGED load
    /\ admin' = IdleAdmin
    /\ calm' = FALSE
    /\ UNCHANGED <<seeder, slot, reserved, submitVars, report, settleVars, entry, reaper, stopping>>

Close ==
    /\ "stop" \in Faults
    /\ ~stopping
    /\ stopping' = TRUE
    /\ calm' = FALSE
    /\ UNCHANGED <<requestVars, submitVars, report, settleVars, entry, reaper, admin>>

-----------------------------------------------------------------------------

Init ==
    /\ state = [r \in Requests |-> "None"]
    /\ seeder = [r \in Requests |-> NoSeeder]
    /\ slot = [r \in Requests |-> 0]
    /\ reserved = [c \in Consumers |-> 0]
    /\ load = [s \in Seeders |-> 0]
    /\ submit = [r \in Requests |-> [pc |-> "new", cand |-> NoSeeder]]
    /\ tried = [r \in Requests |-> {}]
    /\ report = [t \in Reporters |-> IdleReport]
    /\ pending = [r \in Requests |-> NoPending]
    /\ sig = [r \in Requests |-> "nil"]
    /\ settle = [h \in Settlers |-> IdleSettle]
    /\ entry = [r \in Requests |-> "none"]
    /\ reaper = IdleReaper
    /\ admin = IdleAdmin
    /\ stopping = FALSE
    /\ verified = {}
    /\ calm = TRUE

SubmitStep(r) ==
    Match(r) \/ NoCapacity(r) \/ Offer(r) \/ OfferReject(r) \/ OfferAccept(r) \/ OfferCancel(r)

\* What a report's goroutine does by itself once the guards let it in.
ReportStep(t) ==
    \/ ReportServe(t) \/ ReportIndex(t) \/ ReportPending(t)
    \/ WaitTimer(t) \/ AppendUsage(t) \/ AppendFailed(t) \/ Finish(t) \/ DropPending(t)

ReaperStep == (\E r \in Requests : ReapRead(r)) \/ ReapSwitch \/ ReapFail

Next ==
    \/ \E r \in Requests : Submit(r) \/ SubmitStep(r)
    \/ \E t \in Reporters : ReportStep(t) \/ ReportReject(t) \/ WaitSig(t) \/ WaitStop(t)
    \/ \E t \in Reporters, r \in Requests : ReportGuard(t, r)
    \/ \E h \in Settlers, r \in Requests :
          SettleUnverifiable(h, r) \/ SettleVerified(h, r) \/ SettleRefused(h, r)
    \/ \E h \in Settlers : SettleSend(h)
    \/ \E S \in SUBSET Requests : SweepExpired(S)
    \/ ReaperStep
    \/ \E r \in Requests : ForceRelease(r) \/ ForceFailLookup(r)
    \/ ForceFail
    \/ Close

Spec == Init /\ [][Next]_vars
-----------------------------------------------------------------------------
(* What makes the request lifecycle correct.                               *)

States == {"None", "Selecting", "Assigned", "Serving", "Completed", "Failed"}
Steps == {"idle", "serve", "index", "gate", "wait", "append", "finish", "drop"}

RequestType ==
    /\ state \in [Requests -> States]
    /\ seeder \in [Requests -> Seeders \cup {NoSeeder}]
    /\ slot \in [Requests -> Nat]
    /\ DOMAIN reserved = Consumers \* ReservedIsSum says what it holds
    /\ load \in [Seeders -> Nat]
SubmitType ==
    /\ submit \in [Requests -> [pc : {"new", "select", "load", "offer", "done"},
                                cand : Seeders \cup {NoSeeder}]]
    /\ \A r \in Requests : submit[r].pc \in {"load", "offer"} => submit[r].cand \in Seeders
    /\ tried \in [Requests -> SUBSET Seeders]
ReportType ==
    /\ report \in [Reporters -> [pc : Steps, req : Requests \cup {NoRequest}, missing : BOOLEAN]]
    /\ \A t \in Reporters : report[t].pc # "idle" => report[t].req \in Requests
SettleType ==
    /\ pending \in [Requests -> [verified : BOOLEAN, refused : BOOLEAN, open : BOOLEAN]]
    /\ sig \in [Requests -> {"nil", "empty", "full"}]
    /\ settle \in [Settlers -> [pc : {"idle", "send"}, req : Requests \cup {NoRequest},
                                verified : BOOLEAN]]
    /\ \A h \in Settlers : settle[h].pc = "send" => settle[h].req \in Requests
    /\ verified \subseteq Requests
OtherType ==
    /\ entry \in [Requests -> {"none", "signed", "unsigned"}]
    /\ reaper \in [todo : SUBSET Requests, pc : {"idle", "read", "switch", "fail"},
                   req : Requests \cup {NoRequest}, prior : States, from : States]
    /\ reaper.pc \in {"switch", "fail"} => reaper.req \in Requests
    /\ admin \in [pc : {"idle", "fail"}, req : Requests \cup {NoRequest},
                  holder : Seeders \cup {NoSeeder}]
    /\ admin.pc = "fail" => admin.req \in Requests
    /\ stopping \in BOOLEAN /\ calm \in BOOLEAN

\* Every variable has its type.
TypeOK == RequestType /\ SubmitType /\ ReportType /\ SettleType /\ OtherType

Awaits(t, r) == report[t].req = r /\ report[t].pc \in {"wait", "append", "finish", "drop"}

\* A consumer's reserved total is the sum of its slots whoever releases them
\* and however often: Submit, settlement, the reaper and the operator race
\* (Reservations keeps byID and byReq apart).
ReservedIsSum ==
    \A c \in Consumers :
        reserved[c] = Amount({r \in Requests : ConsumerOf[r] = c})

\* A request has one goroutine between putPending and dropPending when its
\* pending entry is there, and none otherwise, although a report may pass the
\* state guard before another one finishes and reach the gate after it.
OneAwaiter ==
    /\ \A r \in Requests : pending[r].open <=> \E t \in Reporters : Awaits(t, r)
    /\ \A r \in Requests, t, u \in Reporters : Awaits(t, r) /\ Awaits(u, r) => t = u

\* A request is Completed only with its entry on the ledger and its credits
\* released, whatever reaped, force-failed or re-reported it (appendUsageEntry).
CompletedIsPaid ==
    \A r \in Requests : state[r] = "Completed" => entry[r] # "none" /\ slot[r] = 0

\* An entry is recorded as counter-signed only if a signature of this request
\* was verified: a stale token in the channel, an unverifiable signature or an
\* earlier settlement of the request never stands in for it (awaitSettle).
SignedWasVerified == \A r \in Requests : entry[r] = "signed" => r \in verified

\* What settlement records was earned: a Completed request has its entry and holds no credits,
\* a signed entry has its verified signature (HandleUsageReport against HandleSettle and timers).
SettledIsEarned == CompletedIsPaid /\ SignedWasVerified

\* The requests that hold one unit of seeder s's load.
Holds(r, s) ==
    \/ submit[r] = [pc |-> "offer", cand |-> s]
    \/ state[r] \in {"Assigned", "Serving"} /\ seeder[r] = s

\* Until a TTL passes, somebody intervenes or an append fails, a seeder's load
\* counts exactly the offers out to it and the requests it is serving: each
\* path that ends one gives its unit back, once (Submit, Finish).
LoadIsLive == calm => \A s \in Seeders : load[s] = Cardinality({r \in Requests : Holds(r, s)})

\* Until then credits are reserved exactly while the request is live.
ReservedWhileLive ==
    calm => \A r \in Requests : slot[r] > 0 <=> state[r] \in {"Selecting", "Assigned", "Serving"}

\* Reservations are exact: the total is the sum of the slots, always, and while nothing
\* intervenes a slot is held exactly by a live request (Reserve, Release, SweepExpired).
ReservationsSound == ReservedIsSum /\ ReservedWhileLive

\* Every Submit call returns: offers time out and attempts are counted.
SubmitsReturn == \A r \in Requests : submit[r].pc # "new" ~> submit[r].pc = "done"

\* No reservation outlives its TTL: it is released by settlement, by a failed
\* selection, or by the reaper, unless the tracker is shutting down.
ReservationsEnd == \A r \in Requests : slot[r] > 0 ~> slot[r] = 0 \/ stopping

\* Every settlement in flight is decided and its pending entry dropped.
SettlementsEnd == \A r \in Requests : pending[r].open ~> ~pending[r].open

\* Nothing a request started stays for ever: not its Submit, its credits or its settlement.
RequestsEnd == SubmitsReturn /\ ReservationsEnd /\ SettlementsEnd

\* Goroutines run, offers and settlements time out, TTLs pass.
FairSpec ==
    /\ Spec
    /\ \A r \in Requests : /\ WF_vars(SubmitStep(r))
                           /\ WF_vars(\E S \in SUBSET Requests : r \in S /\ SweepExpired(S))
    /\ \A t \in Reporters : WF_vars(ReportStep(t))
    /\ WF_vars(ReaperStep)

\* HandleUsageReport: "if the state is truly wrong, the next step will catch it".
FailedIsNotBilled == \A r \in Requests : state[r] = "Failed" => entry[r] = "none"
=============================================================================
