----------------------------- MODULE Admission -----------------------------
(* Admission control of broker requests: the supply aggregator and the       *)
(* demand rate (admission/supply.go), the decision and the priority queue    *)
(* (decide.go, queue.go), the block-then-deliver path of the broker_request  *)
(* handler (api/broker_request.go) and the queue-drain goroutine of the      *)
(* broker (broker/queue_drain.go).                                           *)
(*                                                                           *)
(* Scores, pressures and weights are integers in units of 1/One.  Time is    *)
(* relative: every instant the code keeps is modelled by its age, which a    *)
(* tick raises up to a bound, so that behaviours are not cut off by the end  *)
(* of a clock.                                                               *)
EXTENDS Brokerage, Integers, Sequences, FiniteSets, FiniteSetsExt, SequencesExt

CONSTANTS
    Abandoned,      \* the requests that gave up while queued, before the behaviour starts
    DemandBefore,   \* the demand rate that earlier requests have left
    Score,          \* Score[r]: the credit score resolveCreditScore gives for its consumer
    Headroom,       \* Headroom[s]: headroom estimate times reputation of a seeder
    One,            \* the score 1.0
    PressureAdmitThreshold, PressureRejectThreshold,
    QueueCap,
    AgingAlpha,     \* priority gained per unit of waiting time
    QueueTimeout,
    FreshAge, DecayAge, \* heartbeat age up to which a seeder counts fully, and from which not
    MaxAge          \* bound: the waiting time past which the model stops telling instants apart

ASSUME AdmissionAssumption ==
    /\ One \in Nat \ {0}
    /\ Abandoned \subseteq Requests /\ IsFiniteSet(Requests) /\ IsFiniteSet(Seeders)
    /\ Cardinality(Abandoned) <= QueueCap /\ DemandBefore \in Nat
    /\ Score \in [Requests -> 0..One]
    /\ Headroom \in [Seeders -> Nat]
    /\ PressureAdmitThreshold \in Nat /\ PressureRejectThreshold \in Nat
    /\ PressureAdmitThreshold < PressureRejectThreshold
    /\ QueueCap \in Nat \ {0}
    /\ AgingAlpha \in Nat
    /\ FreshAge \in Nat /\ DecayAge \in Nat /\ FreshAge < DecayAge
    /\ QueueTimeout \in Nat /\ MaxAge \in Nat

None == "none"
Unset == -1

VARIABLES
    supply,     \* the published pressure, or Unset before the first aggregation
    demand, demandAge,
    beat,       \* beat[s]: age of the seeder's last heartbeat
    heap,       \* admission's queue
    reading,    \* age of the clock reading the heap has cached
    pc,         \* pc[r]: where the handler of r is
    reqAge,     \* reqAge[r]: age of the clock reading the request carries
    timer,      \* timer[r]: age of the handler's timer
    waiting,    \* the broker's pendingQueued
    deliver,    \* deliver[r]: the delivery channel RegisterQueued makes
    forward,    \* forward[r]: the goroutine that forwards from it
    inbox,      \* inbox[r]: the handler's one-slot channel
    answer,     \* answer[r]: what the caller was told
    drain,      \* the queue-drain goroutine
    submits, closes, \* histories: calls of Submit, closings of deliver[r]
    cancelled   \* history: requests whose pending entry CancelQueued removed

handlerVars == <<pc, reqAge, timer, inbox, answer>>
supplyVars == <<supply, demand, demandAge, beat>>
queueVars == <<heap, reading>>
channelVars == <<waiting, deliver, forward>>
historyVars == <<submits, closes, cancelled>>
admissionVars == <<supplyVars, queueVars, handlerVars, channelVars, drain, historyVars>>

Ages == 0..MaxAge
\* What Submit returns, an assignment or no capacity, is the matter of the module Settlement.
Results == {"result"}
Entry == [id : Requests, score : 0..One, age : Ages]
Idle == [at |-> "idle", now |-> 0, min |-> 0, id |-> None, result |-> None]

Max2(a, b) == IF a > b THEN a ELSE b
Older(a, bound) == IF a < bound THEN a + 1 ELSE a

-----------------------------------------------------------------------------
(* The heap of container/heap over queueHeap, an array indexed from 1. *)

\* n is the age of the clock reading the priority is computed at.
EffectivePriority(e, n) == e.score + AgingAlpha * Max2(0, e.age - n)

Less(a, b, n) == EffectivePriority(a, n) > EffectivePriority(b, n)

HeapPushUnsorted(h, e, n) == Append(h, e)

\* heap.Push: the new entry rises from the last place past every parent it precedes; path[k] is
\* what it passes from k on.
HeapPush(h, e, n) ==
    LET last == Len(h) + 1
        rises(k) == k > 1 /\ Less(e, h[k \div 2], n)
        path[k \in 1..last] == {k} \cup IF rises(k) THEN path[k \div 2] ELSE {}
    IN  [k \in 1..last |-> IF k \notin path[last] THEN h[k]
                           ELSE IF rises(k) THEN h[k \div 2] ELSE e]

\* heap's down: the entry at i sinks below every preferred child that precedes it.
HeapDown(h, i, n) ==
    LET size == Len(h)
        child(k) == IF 2*k + 1 <= size /\ Less(h[2*k + 1], h[2*k], n) THEN 2*k + 1 ELSE 2*k
        sinks(k) == 2*k <= size /\ Less(h[child(k)], h[i], n)
        path[k \in 1..size] == {k} \cup IF sinks(k) THEN path[child(k)] ELSE {}
    IN  [k \in 1..size |-> IF k \notin path[i] THEN h[k]
                           ELSE IF sinks(k) THEN h[child(k)] ELSE h[i]]

\* heap.Pop: the last entry takes the root's place and sinks.
HeapPop(h, n) ==
    LET size == Len(h)
    IN  IF size = 1 THEN <<>>
        ELSE HeapDown([k \in 1..(size - 1) |-> IF k = 1 THEN h[size] ELSE h[k]], 1, n)

\* heap.Init: sinks every inner position, the last one first.
Reheapify(h, n) ==
    LET inner == Len(h) \div 2
        sunk[k \in 0..inner] == IF k = 0 THEN h ELSE HeapDown(sunk[k - 1], inner + 1 - k, n)
    IN  sunk[inner]

\* The order the heap keeps, by a priority that no clock reading cuts off: for a reading no
\* older than the two arrivals, Less compares these keys.
Key(e) == e.score + AgingAlpha * e.age

HeapOrdered(h) == \A k \in DOMAIN h : k > 1 => Key(h[k \div 2]) >= Key(h[k])

NewEntry(r, age) == [id |-> r, score |-> Score[r], age |-> age]

Queued == {heap[k].id : k \in DOMAIN heap}

-----------------------------------------------------------------------------
\* The tracker has been serving: abandoned requests have left their queue entry behind.
AdmissionInit ==
    /\ supply = Unset /\ demand = DemandBefore /\ demandAge = 0
    /\ beat = [s \in Seeders |-> 0]
    /\ heap \in {h \in [1..Cardinality(Abandoned) -> {NewEntry(r, 0) : r \in Abandoned}] :
                  IsInjective(h) /\ HeapOrdered(h)}
    /\ reading = 0
    /\ pc = [r \in Requests |-> IF r \in Abandoned THEN "done" ELSE "new"]
    /\ reqAge = [r \in Requests |-> 0]
    /\ timer = [r \in Requests |-> 0]
    /\ waiting = {}
    /\ deliver = [r \in Requests |-> [open |-> FALSE, val |-> None]]
    /\ forward = [r \in Requests |-> "none"]
    /\ inbox = [r \in Requests |-> None]
    /\ answer = [r \in Requests |-> IF r \in Abandoned THEN "ctx_done" ELSE None]
    /\ drain = Idle
    /\ submits = [r \in Requests |-> 0]
    /\ closes = [r \in Requests |-> IF r \in Abandoned THEN 1 ELSE 0]
    /\ cancelled = Abandoned

\* Heap entries, channels, timers and the drain have the shapes the code gives them.
AdmissionTypeOK ==
    /\ supply \in Nat \cup {Unset} /\ demand \in Nat /\ demandAge \in Ages
    /\ beat \in [Seeders -> 0..DecayAge]
    /\ heap \in Seq(Entry) /\ reading \in Ages
    /\ pc \in [Requests -> {"new", "decide", "push", "submit", "register", "wait", "done"}]
    /\ reqAge \in [Requests -> Ages] /\ timer \in [Requests -> 0..QueueTimeout]
    /\ waiting \in SUBSET Requests
    /\ deliver \in [Requests -> [open : BOOLEAN, val : Results \cup {None}]]
    /\ forward \in [Requests -> {"none", "waiting", "gone"}]
    /\ inbox \in [Requests -> Results \cup {None}]
    /\ answer \in [Requests -> Results \cup {None, "error", "overloaded",
                                            "queue_timeout", "ctx_done"}]
    /\ drain \in [at : {"idle", "loop", "look", "submit", "send"}, now : Ages,
                  min : Nat, id : Requests \cup {None}, result : Results \cup {None}]
    /\ submits \in [Requests -> Nat] /\ closes \in [Requests -> Nat]
    /\ cancelled \in SUBSET Requests

-----------------------------------------------------------------------------
(* Time, heartbeats and the aggregator. *)

Tick ==
    /\ beat' = [s \in Seeders |-> Older(beat[s], DecayAge)]
    /\ demandAge' = Older(demandAge, MaxAge)
    /\ heap' = [k \in DOMAIN heap |-> [heap[k] EXCEPT !.age = Older(@, MaxAge)]]
    /\ reading' = Older(reading, MaxAge)
    /\ reqAge' = [r \in Requests |-> IF pc[r] \in {"decide", "push"}
                                     THEN Older(reqAge[r], MaxAge) ELSE reqAge[r]]
    /\ timer' = [r \in Requests |-> IF pc[r] = "wait"
                                    THEN Older(timer[r], QueueTimeout) ELSE timer[r]]
    /\ drain' = IF drain.at = "idle" THEN drain ELSE [drain EXCEPT !.now = Older(@, MaxAge)]
    /\ UNCHANGED <<supply, demand, pc, inbox, answer, channelVars, historyVars>>

Heartbeat(s) ==
    /\ beat' = [beat EXCEPT ![s] = 0]
    /\ UNCHANGED <<supply, demand, demandAge, queueVars, handlerVars, channelVars, drain,
                   historyVars>>

\* Freshness of a seeder, in units of 1/One: full, linearly decaying, then nothing.
Freshness(age) ==
    IF age <= FreshAge THEN One
    ELSE IF age >= DecayAge THEN 0
    ELSE (One * (DecayAge - age)) \div (DecayAge - FreshAge)

TotalHeadroom ==
    LET share[s \in Seeders] == Headroom[s] * Freshness(beat[s])
    IN  MapThenSumSet(LAMBDA s : share[s], Seeders)

\* exp(-dt/halflife) is modelled by halving once per unit of time.
Decayed ==
    LET halved[k \in 0..demandAge] == IF k = 0 THEN demand ELSE halved[k - 1] \div 2
    IN  halved[demandAge]

\* runAggregatorOnce; without any supply the pressure is published as zero.
Aggregate ==
    /\ demand' = Decayed
    /\ demandAge' = 0
    /\ supply' = IF TotalHeadroom > 0 THEN (Decayed * One * One) \div TotalHeadroom ELSE 0
    /\ UNCHANGED <<beat, queueVars, handlerVars, channelVars, drain, historyVars>>

-----------------------------------------------------------------------------
(* The broker_request handler. *)

Answer(r, a) ==
    /\ pc' = [pc EXCEPT ![r] = "done"]
    /\ answer' = [answer EXCEPT ![r] = a]

\* The request arrives with a clock reading; a malformed envelope, a bad signature or a
\* stale balance proof is refused before admission sees it.
Arrive(r) ==
    /\ pc[r] = "new"
    /\ \/ Answer(r, "error") /\ UNCHANGED reqAge
       \/ /\ pc' = [pc EXCEPT ![r] = "decide"]
          /\ reqAge' = [reqAge EXCEPT ![r] = 0]
          /\ UNCHANGED answer
    /\ UNCHANGED <<supplyVars, queueVars, timer, inbox, channelVars, drain, historyVars>>

\* Decide up to the queue lock: the demand tick and the branch on the published pressure.
Decide(r) ==
    /\ pc[r] = "decide"
    /\ demand' = demand + 1
    /\ demandAge' = reqAge[r]
    /\ \/ /\ supply = Unset \/ supply < PressureAdmitThreshold
          /\ pc' = [pc EXCEPT ![r] = "submit"]
          /\ reqAge' = [reqAge EXCEPT ![r] = 0]
          /\ UNCHANGED answer
       \/ /\ supply \in PressureAdmitThreshold..(PressureRejectThreshold - 1)
          /\ pc' = [pc EXCEPT ![r] = "push"]
          /\ UNCHANGED <<reqAge, answer>>
       \/ /\ supply >= PressureRejectThreshold
          /\ Answer(r, "overloaded")
          /\ reqAge' = [reqAge EXCEPT ![r] = 0]
    /\ UNCHANGED <<supply, beat, queueVars, timer, inbox, channelVars, drain, historyVars>>

EnqueueOverCap(r) ==
    /\ pc[r] = "push"
    /\ IF Len(heap) <= QueueCap
       THEN /\ heap' = HeapPush(heap, NewEntry(r, reqAge[r]), reqAge[r])
            /\ reading' = reqAge[r]
            /\ pc' = [pc EXCEPT ![r] = "register"]
            /\ UNCHANGED answer
       ELSE Answer(r, "overloaded") /\ UNCHANGED queueVars
    /\ reqAge' = [reqAge EXCEPT ![r] = 0]
    /\ UNCHANGED <<supplyVars, timer, inbox, channelVars, drain, historyVars>>

\* Decide's queue branch, under the queue lock; a full queue is rejected.
Enqueue(r) ==
    /\ pc[r] = "push"
    /\ IF Len(heap) < QueueCap
       THEN /\ heap' = HeapPush(heap, NewEntry(r, reqAge[r]), reqAge[r])
            /\ reading' = reqAge[r]
            /\ pc' = [pc EXCEPT ![r] = "register"]
            /\ UNCHANGED answer
       ELSE Answer(r, "overloaded") /\ UNCHANGED queueVars
    /\ reqAge' = [reqAge EXCEPT ![r] = 0]
    /\ UNCHANGED <<supplyVars, timer, inbox, channelVars, drain, historyVars>>

\* An admitted request goes to Submit at once; what Submit does is the module Settlement.
SubmitNow(r) ==
    /\ pc[r] = "submit"
    /\ submits' = [submits EXCEPT ![r] = @ + 1]
    /\ \E a \in Results \cup {"error"} : Answer(r, a)
    /\ UNCHANGED <<supplyVars, queueVars, reqAge, timer, inbox, channelVars, drain,
                   closes, cancelled>>

\* serveQueued registers the envelope and starts its timer.
RegisterQueued(r) ==
    /\ pc[r] = "register"
    /\ waiting' = waiting \cup {r}
    /\ deliver' = [deliver EXCEPT ![r] = [open |-> TRUE, val |-> None]]
    /\ forward' = [forward EXCEPT ![r] = "waiting"]
    /\ timer' = [timer EXCEPT ![r] = 0]
    /\ pc' = [pc EXCEPT ![r] = "wait"]
    /\ UNCHANGED <<supplyVars, queueVars, reqAge, inbox, answer, drain, historyVars>>

Delivered(r) ==
    /\ pc[r] = "wait" /\ inbox[r] # None
    /\ Answer(r, inbox[r])
    /\ timer' = [timer EXCEPT ![r] = 0] /\ inbox' = [inbox EXCEPT ![r] = None]
    /\ UNCHANGED <<supplyVars, queueVars, reqAge, channelVars, drain,
                   historyVars>>

CancelQueuedBlindly(r) ==
    /\ waiting' = waiting \ {r}
    /\ deliver' = [deliver EXCEPT ![r].open = FALSE]
    /\ closes' = [closes EXCEPT ![r] = @ + 1]
    /\ cancelled' = IF r \in waiting THEN cancelled \cup {r} ELSE cancelled

\* CancelQueued: whoever removes the pending entry closes its channel.
CancelQueued(r) ==
    IF r \in waiting
    THEN /\ waiting' = waiting \ {r}
         /\ deliver' = [deliver EXCEPT ![r].open = FALSE]
         /\ closes' = [closes EXCEPT ![r] = @ + 1]
         /\ cancelled' = cancelled \cup {r}
    ELSE UNCHANGED <<waiting, deliver, closes, cancelled>>

GiveUpIfQueued(r) ==
    /\ pc[r] = "wait" /\ r \in Queued
    /\ \/ timer[r] >= QueueTimeout /\ Answer(r, "queue_timeout")
       \/ Answer(r, "ctx_done")
    /\ CancelQueued(r)
    /\ timer' = [timer EXCEPT ![r] = 0]
    /\ UNCHANGED <<supplyVars, queueVars, reqAge, inbox, forward, drain, submits>>

\* The queue timeout or the caller's context ends the wait.
GiveUp(r) ==
    /\ pc[r] = "wait"
    /\ \/ timer[r] >= QueueTimeout /\ Answer(r, "queue_timeout")
       \/ Answer(r, "ctx_done")
    /\ CancelQueued(r)
    /\ timer' = [timer EXCEPT ![r] = 0]
    /\ UNCHANGED <<supplyVars, queueVars, reqAge, inbox, forward, drain, submits>>

\* The goroutine of RegisterQueued: forwards a value, or ends on a closed channel.
Forward(r) ==
    /\ forward[r] = "waiting"
    /\ deliver[r].val # None \/ ~deliver[r].open
    /\ forward' = [forward EXCEPT ![r] = "gone"]
    /\ inbox' = IF inbox[r] = None THEN [inbox EXCEPT ![r] = deliver[r].val] ELSE inbox
    /\ deliver' = [deliver EXCEPT ![r].val = None]
    /\ UNCHANGED <<supplyVars, queueVars, pc, reqAge, timer, answer, waiting, drain,
                   historyVars>>

-----------------------------------------------------------------------------
(* The queue-drain goroutine of the broker. *)

PressureGauge == IF supply = Unset THEN 0 ELSE supply

MinPriority == IF PressureGauge > One THEN (PressureGauge - One) \div 2 ELSE 0

\* A tick or TriggerQueueDrain starts drainOnce: it reads the pressure and the clock once.
DrainStart ==
    /\ drain.at = "idle"
    /\ drain' = [Idle EXCEPT !.at = "loop", !.min = MinPriority]
    /\ UNCHANGED <<supplyVars, queueVars, handlerVars, channelVars, historyVars>>

\* PopReadyForBroker: the head of the heap, if it is urgent enough; the heap keeps the reading.
DrainPop ==
    /\ drain.at = "loop"
    /\ IF heap # <<>> /\ EffectivePriority(heap[1], drain.now) >= drain.min
       THEN /\ drain' = [drain EXCEPT !.at = "look", !.id = heap[1].id]
            /\ heap' = HeapPop(heap, drain.now)
       ELSE drain' = Idle /\ UNCHANGED heap
    /\ reading' = drain.now
    /\ UNCHANGED <<supplyVars, handlerVars, channelVars, historyVars>>

\* The pending entry is taken; without one the popped entry is dropped.
DrainTake ==
    /\ drain.at = "look"
    /\ waiting' = waiting \ {drain.id}
    /\ drain' = IF drain.id \in waiting THEN [drain EXCEPT !.at = "submit"]
                ELSE [drain EXCEPT !.at = "loop", !.id = None]
    /\ UNCHANGED <<supplyVars, queueVars, handlerVars, deliver, forward, historyVars>>

\* Submit; an error becomes a no-capacity result.
DrainSubmit ==
    /\ drain.at = "submit"
    /\ submits' = [submits EXCEPT ![drain.id] = @ + 1]
    /\ \E a \in Results : drain' = [drain EXCEPT !.at = "send", !.result = a]
    /\ UNCHANGED <<supplyVars, queueVars, handlerVars, channelVars, closes, cancelled>>

\* A non-blocking send on the one-slot channel, then its closing.
DrainDeliver ==
    /\ drain.at = "send"
    /\ deliver' = [deliver EXCEPT ![drain.id] =
                     [open |-> FALSE, val |-> IF @.val = None THEN drain.result ELSE @.val]]
    /\ closes' = [closes EXCEPT ![drain.id] = @ + 1]
    /\ drain' = [drain EXCEPT !.at = "loop", !.id = None, !.result = None]
    /\ UNCHANGED <<supplyVars, queueVars, handlerVars, waiting, forward, submits, cancelled>>

-----------------------------------------------------------------------------
(* The operator's endpoints on the queue. *)

\* drainTopN pops and discards up to n entries, at the reading the last push or pop has left.
AdminDrain(n) ==
    LET popped[k \in 0..n] == IF k = 0 THEN heap
                              ELSE IF popped[k - 1] = <<>> THEN <<>>
                              ELSE HeapPop(popped[k - 1], reading)
    IN  /\ heap' = popped[n]
        /\ UNCHANGED <<supplyVars, reading, handlerVars, channelVars, drain, historyVars>>

\* ejectQueue removes the entry of one request, if there is one, and reorders the rest either way.
AdminEject(r) ==
    /\ heap' = Reheapify(RemoveFirstMatch(heap, LAMBDA e : e.id = r), reading)
    /\ UNCHANGED <<supplyVars, reading, handlerVars, channelVars, drain, historyVars>>

-----------------------------------------------------------------------------
Drain == DrainPop \/ DrainTake \/ DrainSubmit \/ DrainDeliver

Handler(r) ==
    Decide(r) \/ Enqueue(r) \/ SubmitNow(r) \/ RegisterQueued(r) \/ Delivered(r)

AdmissionNext ==
    \/ Tick
    \/ \E s \in Seeders : Heartbeat(s)
    \/ Aggregate
    \/ \E r \in Requests : Arrive(r) \/ Handler(r) \/ GiveUp(r) \/ Forward(r)
    \/ DrainStart \/ Drain
    \/ \E n \in 1..QueueCap : AdminDrain(n)
    \/ \E r \in Requests : AdminEject(r)

AdmissionSpec == AdmissionInit /\ [][AdmissionNext]_admissionVars

\* Goroutines that are not blocked run, time passes, the tickers of the aggregator and of the
\* drain fire; the timer of a wait that has expired is noticed.
AdmissionFairSpec ==
    /\ AdmissionSpec
    /\ WF_admissionVars(Tick) /\ WF_admissionVars(Aggregate)
    /\ WF_admissionVars(DrainStart \/ Drain)
    /\ \A r \in Requests \ Abandoned :
            /\ WF_admissionVars(Handler(r) \/ Forward(r))
            /\ WF_admissionVars(timer[r] >= QueueTimeout /\ GiveUp(r))

-----------------------------------------------------------------------------
(* Properties. *)

\* The two goroutines that may close a delivery channel never both do: a second close would
\* panic the tracker (CancelQueued against drainOnce).
CloseOnce == \A r \in Requests : closes[r] <= 1

\* A request is handed to Submit at most once, and never after CancelQueued found and removed
\* its pending entry: a caller that gave up in time costs no reservation.
NoServiceAfterCancel ==
    \A r \in Requests : submits[r] <= 1 /\ (r \in cancelled => submits[r] = 0)

\* The pending map holds only requests whose handler still waits, so it cannot leak.
PendingIsWaited == \A r \in waiting : pc[r] = "wait"

\* What the caller is told is what Submit returned for it.
AnswerIsResult ==
    \A r \in Requests :
        /\ answer[r] \in Results => submits[r] = 1
        /\ answer[r] = "overloaded" => submits[r] = 0 /\ r \notin Queued

\* The handler, CancelQueued and drainOnce hand a queued request over exactly once, however they
\* race: one close, one Submit, no leaked entry, and an answer that is true.
AdmissionInv ==
    AdmissionTypeOK /\ CloseOnce /\ NoServiceAfterCancel /\ PendingIsWaited /\ AnswerIsResult

\* Whatever pushes, pops and ejections interleave, the queue stays within its cap and holds no
\* request twice, so that none is served from two entries (Decide, container/heap).
QueueSound ==
    /\ Len(heap) <= QueueCap
    /\ \A j, k \in DOMAIN heap : heap[j].id = heap[k].id => j = k

\* A reading no older than any arrival; ages at MaxAge lose their order to the model's bound.
ReadingIsCurrent ==
    \A k \in DOMAIN heap : reading' <= heap[k].age /\ (Tick => heap[k].age < MaxAge)

\* Pushes, pops and ejections keep the heap's order, although each compares at a clock reading of
\* its own: only a reading older than an entry's arrival, which cuts that entry's wait off at
\* zero, may break it (AdvanceTime, which does not reorder).
QueueKeepsOrder ==
    [][HeapOrdered(heap) /\ ReadingIsCurrent => HeapOrdered(heap')]_admissionVars

\* Every request that arrives is answered, whatever becomes of its queue entry.
Answered == []<>(\A r \in Requests : pc[r] \in {"new", "done"})

\* Aging and the decay of demand empty the queue: no entry, abandoned or not, holds its place
\* for ever.
QueueDrains == []<>(heap = <<>>)

\* Waiting ends, for the caller and in the queue (the handler's timer, drainOnce, ageing).
WaitingEnds == Answered /\ QueueDrains
=============================================================================
