# TLA+ models of Token-Bay

Token-Bay lets a consumer whose Claude rate limit is exhausted borrow another
participant's quota.  A regional *tracker* matches consumers with seeders,
reserves and settles credits on a hash-chained ledger, and federates with other
trackers.  A *plugin* on each participant's machine talks to the tracker and
carries the traffic.  This directory models both: the tracker's money path, its
admission, reputation and federation, and the plugin's connections, its seeder
side and its consumer side.

## 1. Inventory

| Component | State it keeps | Operations | Hard behaviour | Module |
|---|---|---|---|---|
| `tracker/internal/ledger` (+ `entry`, `storage`) | tables `entries`, `balances`, `merkle_roots`; the tip; `Ledger.mu` | AppendUsage, AppendTransferOut/In, IssueStarterGrant, SignedBalance, RunRollupOnce | callers read the tip without the lock and retry on ErrStaleTip; the rollup takes no lock; crashes; int64 balances | `Ledger` |
| `broker` + `session` + `registry` load | reservations, in-flight requests, pending settlements, one signature channel per request, seeder load | Submit (offer loop), HandleUsageReport, awaitSettle, HandleSettle, TTL reaper, operator overrides, Close | every map has a lock of its own and no lock covers two; timer against signature; reaper against report; append failures | `Settlement` |
| `federation/transfer.go` | issued, pending and completed maps; replay filter; two ledgers | StartTransfer, OnRequest, OnProof, OnReject | loss, reordering, retries, restart of either tracker, cache eviction, two recv loops | `AtomicTransfer`, `Transfer` |
| `admission` decision and queue, `broker/queue_drain.go`, `api/broker_request.go` | supply snapshot, demand rate, priority heap, delivery channels | Decide, PopReadyForBroker, RegisterQueued, CancelQueued, drainOnce, aggregator, operator drain and eject | pop before registration, cancel against deliver, clock readings out of order, queue at its cap | `Admission` |
| `admission` persistence | credit cells, log files, snapshots | OnLedgerEvent, Append, rotate, emit snapshot, prune, StartupReplay | batched syncs, torn tails, snapshot against log, stop and restart | `AdmissionLog` |
| `reputation` | OK/AUDIT/FROZEN rows with reasons, events, published cache | Record, RecordCategoricalBreach, Freeze, Unfreeze, evaluator cycle | evaluator takes no lock the operator takes; two publishers of one cache | `Reputation` |
| federation gossip, equivocation, revocation, peer exchange | root archive, revocations, known peers, replay filter, flags | Apply, OnLocalConflict, OnIncomingEvidence, OnFreeze, OnIncoming, EmitNow, merge, prune | forwarding storms, conflicting roots, broken links, a full filter | `Gossip` |
| federation peering | map of live peers, registry, receive loops, dialers, hooks | dial, handshake, attach, Depeer, AddPeer, health watcher, reconnect hook, Close | two links at once, Stop waits for a loop that may want the lock | `Peering` |
| `server`, `registry` rows, plugin `trackerclient` | connections by peer, rows, the client's holder and candidates | connect, heartbeat, RPC streams, disconnect, sweep, shutdown; dial, set, clear, call | a peer is back before its old connection is cleaned up; waiters against close | `Connections` |
| plugin `seederflow`, `tunnel`, `ccbridge` janitor; server's offer push; `stunturn` sessions | reservations, listeners, tunnels, active clients, client folders, relay sessions | HandleOffer, Bind, Accept, Serve, reportUsage, Scan, Allocate, Sweep | overlapping Binds, two tunnels of one offer, deadline against accept | `Seeder` |
| plugin `consumerflow`, `settingsjson`, `ccproxy` modes, balance cache, sidecar | active sessions, pending settlements, settings file, rollback journal, session modes | OnStopFailure, handleRateLimit, exitNetworkMode, reapExpired, HandleSettlement | two sessions over one file, crash between journal and redirect, failing writes | `Fallback` |
| `stunturn` packets, `ssetranslate`, `auditlog`, `bootstrap`, `identity`, `config`, `admin`, `metrics`, `shared` | - | parsing, formatting, I/O | - | none, see section 6 |

What makes each part correct: the ledger moves exactly what it records, once,
and never overdraws; a brokered request is settled by one goroutine, is paid
when it is completed, holds credits and load exactly while it is live; a
transfer credits one region only what the other debited, once; a queued request
is answered, served at most once and never after it was withdrawn; what was
logged is recovered; nobody is frozen or flagged without cause and everybody
learns of it; links, calls and network mode come back or end by themselves; an
offer is billed at most once; the user's settings are restored.  `PROJECT.json`
lists every component with its status and, under `hazards`, what is hard to
test in this code and which property watches it.

## 2. Plan

| Order | Modules | State |
|---|---|---|
| 1 | `Ledger`, `Settlement`, `AtomicTransfer`, `Transfer` with their proofs | done |
| 2 | `Admission`, `AdmissionLog` with their proofs | done |
| 3 | `Reputation`, `Peering`, `Gossip` with their proofs | done |
| 4 | `Connections`, `Seeder`, `Fallback` with their proofs | done |

Each component has one run that asks all its questions at once, so that the
suite stays short.  Invariants that tell one story are named parts of one
conjunction (`AdmissionInv == AdmissionTypeOK /\ CloseOnce /\ ...`), which is
also the form the proofs start from.  No module declares a RECURSIVE operator, so
that theorems can be stated about each.

## 3. The modules

### Ledger

`entries`, `balances` and `roots` are the tables of `schema_v1.sql`.  A hash is
collision-free: the hash of an entry is the sequence of bodies up to it, so
equal hashes mean equal histories.  Each caller goroutine is a small program
`idle -> read -> append`: `ReadTip` is the unlocked tip read (`nextTip`, and the
broker's tip refresh), and the append is one of `AppendStale` (ErrStaleTip:
retry or give up after `Attempts`), `AppendRefused` (ErrUsageRequestExists,
ErrTransferRefExists, ErrInsufficientBalance) and `AppendCommit`, which writes
row and balances in one transaction; `StoreError` is a rolled-back transaction
at either step.  `IssueStarterGrant` builds its entry inside the lock and never
retries.  `ApplyDeltas` adds each delta to the *stored* balance in order, as
`applyDeltas` does, and `Wrap` is int64 addition at width `MaxInt64`.  The
rollup is two steps, `RollupRead` and `PutMerkleRoot`, with appends in between.
`Crash` loses the goroutines and keeps the tables.  `hist` and `base` are
history variables.  Signatures are abstract: an operation that fails a
signature check never starts.

### Settlement

One action is what runs under one lock.  `Submit`, `Match`, `Offer`,
`OfferReject`, `OfferAccept`, `OfferCancel`, `NoCapacity` are `Broker.Submit`
and its offer loop; the candidate is picked on a snapshot and its load is taken
in a later step.  A reporter is a `usage_report` handler and then the
`awaitSettle` goroutine it spawns: `serve -> index -> gate -> wait -> append ->
finish -> drop`.  A settler is a `settle` handler: it verifies, then sends on a
channel of capacity 1 without blocking.  `SweepExpired`, `ReapRead`,
`ReapSwitch` and `ReapFail` are the reaper, which reads the state twice without
the lock.  `ForceRelease`, `ForceFailLookup` and `ForceFail` are the operator.
`Close` ends the waits: RPC streams run under the server's context, so
`ctx.Done()` in `awaitSettle` means shutdown as well.  `Faults` chooses which
disturbances an instance has.  The ledger is the set of requests with an entry,
with the single-use rule proved in `LedgerProofs`; the wait for a consumer that
does not answer is the timer, which may fire at any time.  `verified` and
`calm` are history; `calm` is FALSE from the first expiry, operator override,
shutdown or failed append on, and the two exactness properties of load and
reservations are claimed while it is TRUE.

### AtomicTransfer and Transfer

`AtomicTransfer` says what a transfer promises: under a nonce one debit in the
home region, then at most one credit of the same amount, never repeated.
`Transfer` is the protocol of `federation/transfer.go` between one destination
and one source, and `Promise` instantiates the abstract module with the books
of both regions.  A call is `new -> open -> wait -> credit -> record -> ok`, or
ends as `rejected` or `failed`.  A handler is a recv loop of the source, which
checks the issued cache, unlocks, appends and then caches and sends the proof:
two loops may do this at once.  `DropReplayedRequest` and `DropReplayedProof` are
the dispatcher's replay filter, which keys on the hash of the payload and runs
before the handlers; `Forget` is its TTL or its capacity.  A frame is consumed
when it is delivered; `Lose` drops it; frames overtake each other.  Two
identical frames in flight count as one.  A reject carries the source's clock
and is not filtered.  Which cache entry is the oldest is not tracked: any may
be evicted.  `TRANSFER_APPLIED` and the operator's reversal only count at the
receiver and are left out, and so is other spending of the same balance.  The
rate limiter's drop is a loss.  A refusal of StartTransfer before the cache is
looked up equals not calling it.

### Admission

`Brokerage` declares the requests and the seeders, which `Settlement` has too.
Scores, pressures and weights are integers in units of 1/`One`; an instant is
modelled by its age, which `Tick` raises up to a bound.  A request runs through
the `broker_request` handler: `Arrive`, `Decide` up to the queue lock, `Enqueue`
under it, then either `SubmitNow` or `RegisterQueued` and the wait, which
`Delivered` or `GiveUp` ends; `CancelQueued` removes the pending entry and
closes its channel.  `Forward` is the goroutine that RegisterQueued starts.  The
drain reads pressure and clock once (`DrainStart`) and then pops, takes,
submits and delivers one entry after the other.  `HeapPush`, `HeapPop` and
`Reheapify` are container/heap over `Less` at the heap's cached clock, which
may run backwards because handlers read the clock before they take the lock.
`reading` is that cached clock: pushes and pops set it, `AdminDrain` and
`AdminEject` use whatever the last of them left, and an ejection reorders the
heap even when it finds nothing to eject.  The queue starts with entries that
their callers have abandoned, in any order a heap may have.
`Aggregate` publishes the pressure from the headroom of seeders by the age of
their heartbeat and from decaying demand.  What Submit does is `Settlement`.

### AdmissionLog

A cell is the sequence of halves of events applied to it, the consumer's half or
the seeder's, so that a consumer that is its own seeder counts both; every
bucket, the balance and the score are functions of it.  A ledger event is drawn a
number, logged, applied to its consumer's cell and then to its seeder's.
`AppendFrame` syncs disputes inline and rotates a full file; `AppendHalfway` is an
append whose sync or rotation fails after the write, `SnapFails` a snapshot that
ends with an error; `Flush` is the flush loop.  A snapshot
reads the log's number, copies shard by shard, writes a temporary file, renames
it, prunes and leaves a mark in the log.  `CrashProcess` keeps what was synced, any
prefix of the rest and perhaps a torn frame; `Close` flushes.  `StartupReplay`
loads the newest whole snapshot and the frames it does not cover.  `LocalScore`
and its signals are in percent.

### Gossip

Every link is an ordered stream with a recv loop at each end, so a tracker
handles one frame per link at a time.  `DispatchGossip` is the replay filter and the
rate limit in front of the handlers; `Forward` sends to all active peers, the
one a frame came from included, whose filter then ends it.  `Apply` archives a
root, `OnLocalConflict` turns a second root into evidence, depeers and forwards,
`OnIncomingEvidence` believes it, `OnFreeze` and `OnIncoming` are revocations,
`EmitNow`, `MergeExchange` and `Prune` the table of known peers.  `Drop`,
`Reconnect`, `Restart` and `ArchiveFails` are the faults (a restart seeds the
allowlisted peers through the same `Upsert` as a merge); a payload is identified
with its hash and one hour is modelled.

### Reputation

One operator or broker call at a time (`breachMu`) runs beside the evaluator,
which holds nothing between its reads and its writes: `EvalFlag`, `EvalAudit`,
`EvalReload`, `EvalFreeze` or `EvalClear`, `EvalNotify`, `EvalRecompute`,
`EvalPublish`.  `Moved` is the storage's transition, which checks the row as it
is now; `RefreshRead`, `RefreshLoad` and `RefreshStore` copy, change and store the
cache.  Time is in days, and `ComputeScore` is a whole percentage; its bonus for
longevity and its penalty for recent audits are curves over days, given as
constants.  An identity may be first seen after the cycle read its clock; it has
no bonus then (`longevityBonus` returns 0 for a negative age).

### Peering

`Dial`, `AcceptInbound`, `SendAccept`, `RecvAccept` and `HandshakeFails` bring a
link up; `AttachPeer` puts it in the map and the registry, `StartPeer` starts
the receive loop.  Depeer is `RemovePeer`, `StopPeer` and `StopWaits`, called by the
operator, the watcher or the reconnect hook; an equivocation only takes the peer
out of the registry and closes its connection; Close is `CloseBegins`,
`CloseDrains`, its stops and `CloseReturns`.  `LockedSteps` names the steps of
Close that hold the lock across a wait: none.  The operator acts only before
Close, because the daemon shuts the admin server down first.

### Connections

A connection has two ends that notice its loss in their own time.  The
supervisor dials, opens the heartbeat stream, sets the holder and watches;
calls get a connection or wait for one.  The tracker's goroutine maps the peer,
registers it, accepts streams, and on its way out unmaps and deregisters.
`GoStale` and `Sweep` are the registry's, `Shutdown` and `Restart` the tracker's.

### Seeder

An offer is pushed, handled (`StartBind`, `InstallListener`, `ClosePrevious`,
`RegisterReservation`, `AcceptOffer`) and perhaps abandoned by the broker
(`OfferTimeout`).  Tunnels are dialled to the listener whose key was assigned,
directly or over a relay session; the accept loop peeks at the reservations and
dispatches; `Serve` is `ConsumeReservation`, `RegisterActive`, `ReadRequest`,
`PrepareRun`, the bridge, `ReportUsage` and `UnregisterActive`.  The janitor scans
and removes in two steps.

### Fallback

A fallback is named by its reservation token.  A hook passes the preflight, the
gate, the balance cache, the broker and then `EnterSettings` (journal) and
`WriteSettings` (redirect) under the file's lock, and `Activate`.  An exit is
`ExitStore`, `Deactivate`, `RestoreSettings`, `DeleteJournal`, `StripSettings`.
`Stop` and `Start` are the sidecar, with or without an orderly shutdown;
`orphaned` and `overlap` are history variables that name the cases below in
which the code does not restore the file.

## 4. The runs

The parts each run checks, by the property that joins them:

| Property | Parts |
|---|---|
| `BooksSound`, `ReadsSound` | `MovesExactly`, `NoOverdraft`, `SettledOnce`; `SnapshotAtTip`, `RootIsPrefix` |
| `SettledIsEarned`, `ReservationsSound`, `RequestsEnd` | `CompletedIsPaid`, `SignedWasVerified`; `ReservedIsSum`, `ReservedWhileLive`; `SubmitsReturn`, `ReservationsEnd`, `SettlementsEnd` |
| `BooksAgree` | `CreditMatchesDebit`, `SuccessIsBooked` |
| `AdmissionInv`, `QueueSound`, `WaitingEnds` | `AdmissionTypeOK`, `CloseOnce`, `NoServiceAfterCancel`, `PendingIsWaited`, `AnswerIsResult`; the cap, no request twice; `Answered`, `QueueDrains` |
| `QueueKeepsOrder` | `HeapOrdered` under `ReadingIsCurrent` |
| `LogInv` | `LogTypeOK`, `WriteAhead`, `DisputesDurable`, `SnapshotsWhole` |
| `GossipInv`, `ArchivesOnlyImprove` | `GossipTypeOK`, `FlagIsEarned`, `RevocationReachesAll`, `EvidenceReachesAll`; `FirstRootStays`, `KnownPeersOnlyImprove` |
| `ReputationInv` | `TypeOK`, `StateExplained`, `FreezeEarned`, `EachFreezeTold` |
| `ConnectionsInv`, `BackInService` | `TypeOK`, `NoGhosts`, `HeartbeatFirst`, `NoLostWaiter`, `HolderIsCurrent`; `Reconnects`, `Readvertised` |
| `SeederInv` | `TypeOK`, `BilledOnce`, `CurrentIsOpen`, `AcceptedIsReserved`, `ActiveIsServing` |
| `FallbackInv` | `TypeOK`, `PendingIsActive`, `RedirectIsJournaled` |
| `PeeringInv` | `TypeOK`, `RegistryShowsPeer`, `CloseFindsNoAttach`, `StoppedOnce` |

The types of `Ledger`, `Settlement` and `Transfer` are proved, and no run
repeats them.

| Run | Instance | Shows |
|---|---|---|
| `ledger` | 2 identities, 1 caller against starter grants, 2 requests, 1 transfer ref, 3 entries, 2 hours, amounts 2 of at most 3 | chain, movements, overdraft, single use, stale tips, roots and snapshots; appends return |
| `settlement` | 1 request, 1 seeder, 2 reports, 1 settler, every fault | one awaiting goroutine, completed means paid, signed means verified, totals are sums, load and reservations exact while calm; submits return, reservations end, settlements are decided |
| `transfer` | 2 calls, 2 nonces (one signed twice with two amounts), 2 recv loops, caches of one entry, failing appends, 2 crashes | no credit without its debit, success is booked, pending entries have owners, AtomicTransfer is implemented (so credits are neither made nor repeated), calls return |
| `admission` | 3 requests (one abandoned), 1 seeder, queue of 2 | no double close, no service after a withdrawal, no leak, answers are results, the cap and the heap's order hold; requests are answered, the queue drains |
| `admission_log` | a settlement and an upheld dispute, rotation at 2 frames, 2 snapshots, 2 stops | write-ahead, durable disputes, whole snapshots, exact recovery, signals in range |
| `gossip` | 3 trackers in a triangle, 2 roots, a revocation, an exchange, filter of 4, 1 fault | flags are earned, first root stays, revocations and evidence reach every trusted peer of a tracker that knows them, known peers only improve, gossip dies out |
| `reputation` | 4 identities, one of them without history, 3 events, 2 days, 1 failing cycle | reasons explain states, freezes are earned and told once, reasons are append-only; the cache catches up, repeaters are frozen |
| `connections` | 2 trackers, 2 callers, 2 fault units | nothing is left behind, heartbeat is first, no lost waiter, holder is current; calls return, the client reconnects, seeders are readvertised |
| `seeder` | 2 offers of one consumer, one dialled twice, 1 fault | billed once, current listener open, accepted is reserved, active is serving; everything ends and is reaped |
| `fallback` | 2 sessions, 2 fallbacks, 2 sidecar lives, 1 fault | pending is active, settings are restored, redirects are journaled; network mode ends |
| `peering` | 2 trackers, 2 links, 2 dialers, 1 event | registry and map agree, Close meets no attach, one stop per peer; Depeer and Close return, links come back |
| `settlement_failed_billed` | 1 request, 1 report, expiry | expects a violation, below |

Bounds.  Starter grants and crashes make a caller's tip stale, and three entries
show a retry that loses; `Amounts = {2}` with `MaxInt64 = 3` makes the second
credit wrap; the proofs cover any number of callers.  Two reports of one request
reach every order of guard, gate and finish.  Two calls for a nonce are a call
and its retry, and the second nonce evicts the first from caches of one entry.
Three requests over a queue of two reach the full queue, and one abandoned entry
stays behind; the order of longer heaps is proved, and was checked apart from the
runs with five entries.  One rotation and two snapshots with one retained reach pruning
and renumbering after a restart.  A triangle has a relay and a direct way for
every payload.  Two sessions show every overlap of one entry with one exit; a
case that takes three fallbacks was found by the proof (section 5) and is marked
by `orphaned`.  Two links are a link and the one that replaces it.  Events that
come from outside share a budget (`MaxEvents`, `MaxGossip`, `MaxFaults`), so that each run
stays within minutes.  `CHECK_DEADLOCK FALSE` is set where every request, call
or event may be over; in `Admission` time goes on.

Fairness.  Goroutines that can run do run (weak fairness of their steps), and
timers and tickers in the code fire.  `Ledger` also assumes that an append on a
full disk returns its error.  `Settlement` assumes that offers, settlement timers
and reservation TTLs run out.  `Transfer` assumes only that a started call runs
until its deadline.  `Admission` assumes that time passes and that the tickers of
aggregator and drain fire, `Reputation` that cycles go on after a failed one,
`Gossip` that recv loops handle what was delivered, `Connections` and `Peering`
that loss is noticed (idle timeouts) and dialling is retried.  No fairness is
assumed of seeders, consumers, operators, hooks or the network.

One run expects a violation.  `settlement_failed_billed`: a report passes the
guard, the reaper fails the request, the report goes on and bills it, and the
state stays Failed, although `broker/settlement.go:177` says the next step
will catch it.

Further disagreements, met while modelling and visible in the actions named,
without a run of their own:

*Money path*
- a usage entry whose consumer is its own seeder credits without debiting: the
  credit row overwrites the debit row (`ApplyDeltas`; `UsagePairs` of the run
  excludes it, and `CreditsMoveExactly` assumes it away), while
  `ledger/usage.go:68` speaks of an atomic debit and credit;
- a refused append fails the request and keeps the seeder's load unit
  (`AppendFailed`), while `broker/broker.go:267` says settlement releases it;
- a refused signature is remembered in the pending entry only, so a second
  report bills the request (`SettleRefused`, `DropPending`), while
  `broker/settlement.go:437` says the append is suppressed;
- a signature verified while the timer fires is recorded as missing (`WaitTimer`),
  while `broker/settlement.go:435` says it is appended;
- the reaper compensates load by a state it read before the transition
  (`ReapRead`, `ReapFail`), although `session/manager.go:37` says "atomically per
  slot";
- a byte-identical retry of a transfer request is dropped by the replay filter
  before the issued cache can answer it, and a late proof makes the filter drop
  the identical one of the retry (`DropReplayedRequest`, `DropReplayedProof`); the
  transfer design promises the cached proof;
- after a source restart a retried request of a debited transfer is answered
  with a reject (`AppendOutRefused` with `debit # 0`);
- an entry stamped in hour h that commits after h was rolled up is in no root
  (`RollupRead`); a TRANSFER_IN row names no identity (`Body`), so its payee's
  balance cannot be rebuilt from the chain;
- the transfer design says a retry in flight "rides the same delivery channel";
  the code refuses it as a duplicate (`Open`).

*Admission and reputation*
- a snapshot's number is read before the cells are copied, so an event in flight
  may be in the copy and above the number and is replayed twice (`SnapStart`);
- numbering restarts at the number of replayed calls, below the snapshot's, and
  rotations may replace older files (`StartupReplay`, `AppendFrame`);
- a torn tail is never cut off; frames written behind it are lost or the next
  start is refused (`Corrupt`);
- the heap's clock is set without reordering (`AdvanceTime`), and a reading older
  than an arrival cuts that entry's wait off at zero, so that the heap may be out
  of order afterwards, and a later pop not the entry of the highest priority
  (`ReadingIsCurrent`);
- a popped entry whose handler has not registered yet is dropped and its caller
  waits for the timeout (`DrainTake`);
- evaluator and operator publish the cache over each other, so a frozen identity
  may look free until the next cycle (`RefreshStore`, `EvalPublish`); an Unfreeze
  between the evaluator's reload and its write is undone, and a fresh breach
  there is cleared (`EvalFreeze`, `EvalClear`); Unfreeze of an unknown identity is
  an error although its comment calls it a no-op; the announcement of a freeze is
  lost if the process stops before it;
- the admin blocklist is never consulted, and nothing in the program issues an
  attestation or reports a categorical breach.

*Federation*
- a relay signs what it forwards, so a forwarded attestation is refused
  (`ApplyRelayed`); evidence is sent back to its source; a pruned row is
  resurrected by an older exchange; a filter at its cap lets payloads recirculate;
- Depeer does not stop the dialer: the peer is redialled and attached again
  without a registry entry; AddPeer afterwards leaves two dialers; an attach
  replaces the map's entry without stopping the older link, whose loop Depeer and
  Close then leave running (`AttachPeer`, `RemovePeer`); a drop leaves the registry at
  "steady"; redialling after a drop has no backoff although the comments say so;
  the comment of attachPeerLocked that Close holds the lock while it stops peers
  contradicts Close.

*Connections and seeder*
- the cleanup of an old connection removes the entry and the record of the peer's
  new one (`UnmapPeer`, `Deregister`); a reconnecting seeder is registered with
  load 0; the sweep may remove a connected peer; streams are counted into the
  server's wait group inside their own goroutine;
- a reservation never expires: after a deadline or an abandoned offer
  `peekReservation` finds two and refuses (`OfferTimeout`, `RefuseTunnel`); Bind
  closes a listener with its tunnels in flight; of two overlapping Binds one
  listener is closed by nobody; the janitor may remove a folder a serve has just
  begun to use (`RemoveFolder`); a lost usage report is only logged.

*Fallback*
- a session that enters twice journals the sidecar's own URL, so its exit
  restores the redirect; a failed entry removes another session's journal; an
  exit overwrites the user's edit; after a crash the redirect points at a dead
  URL and entry is refused; when both ways of restoring fail nothing tries again
  (`EnterSettings`, `WriteSettings`, `RestoreSettings`, `StripSettings`);
- an exit without a journal restores and strips under two separate locks
  (`consumerflow/coordinator.go:362-384`): a third entry in between journals the
  redirect as the user's own endpoint, the strip removes it, and that entry's
  exit puts it back, although every write succeeded and the design
  (`docs/superpowers/specs/plugin/2026-04-22-plugin-design.md:476`) has exit
  restore the prior settings; the shortest such behaviour has 36 states;
- the sidecar builds its tracker client without a settlement handler, so pushes
  are dropped; the envelope of a rate limit carries no ephemeral key, which the
  seeder's offer handler requires; one assignment serves one request though its
  TTL is 15 minutes.

## 5. The proofs

`tlapm` checks the eight proof modules for every value of the constants under
the named assumptions of the modules (identities are not the zero id, amounts
fit the column, caps are positive, the set of requests is finite, and so on; TLC
evaluates them in every run).  Each theorem of the form `Spec => []Inv` rests on
an inductive invariant `IInv`, which TLC checked on the run's instance before it
was proved; a lemma per action shows that a step keeps it.  `LedgerProofs`,
`SettlementProofs` and `FederationProofs` extend two components each, whose
names are disjoint for that reason (`AdmissionSpec`, `LogSpec` and `GossipSpec` beside
`Spec`).

*LedgerProofs.*  The inductive invariant has two halves.  `Store` is what every
database satisfies: types, chain integrity, a history that follows the chain,
exact movements, no overdraft, single use.  `Local(c)` is what a caller knows:
the sequence number it holds lies above the chain length at its start plus the
attempts it lost and at most one past the end, and if it is one past the end
then the hash it holds is the tip's.  Without `Local` a stale caller could not
be told from an unlucky one; without chain integrity the last row's number would
not be its position, and the tip check would say nothing.  From it:
`ChainStaysIntact`, `NobodyOverdrawn`, `NothingSettledTwice`,
`StaleOnlyUnderProgress`, `SnapshotsAreConsistent`, `RootsCommitToPrefixes` (with
a further invariant for what the rollup goroutine holds between its two steps),
and `CreditsMoveExactly`, which assumes that no usage pair pays itself;
`BooksStaySound` and `ReadersSeeTheChain` join them into what the run checks.

The second half is about `AdmissionLog`.  `LogIsSound` needs, besides types and
where calls, emitter and process can be together (`Phases`), that an event has one
frame at most (`OneFrame`), that cells and snapshots hold only what was applied
(`OnlyApplied`), and `Ahead`: what a cell holds is in the log or in the newest
snapshot, and what a cell already copied holds is in the log or in the copy, since
the snapshot being written is about to be the newest and older files are about to
be pruned.  `Durable` says the same of synced disputes from the moment of the append.
`RecoveryIsExact` needs `Exact` (cells count each half once and miss nothing that is
logged) and `FirstLife`: until the first replay a snapshot's cells hold the frames
up to its number and no others.  Both are claimed up to the second stop and while
`calm` (no call ran while a snapshot was copied), because after that the
numbering restarts (section 4) and the code keeps neither.  `ScoresStayInRange` is
arithmetic over the weights.  The flattened log is reasoned about through what it
contains and in which order, proved by the smallest counterexample over its length.

*SettlementProofs.*  The invariant joins types, the gate of the pending map
(exactly one goroutine between put and drop), that a goroutine about to finish
has its entry, that a Completed request is paid, and that a verdict read from
the pending entry was given by a verification.  The gate is needed for the
others: two goroutines of one request could finish each other's work.
`SettlementIsEarned` joins the last two results.

`ReservationsAreSound` and `LoadCountsLive` are about a sum and a count over all
requests.  `Sum` is a fold of the community modules; the lemmas say that the fold
exists, what it returns for a set with one element more and for a function changed
at one argument, and are proved by the smallest counterexample (the least
cardinality at which one would fail, which exists because the naturals are well
founded).  The invariant `LiveInv` adds that a request that is not yet
submitted has no slot, that the reserved total is the sum of the slots, and
`Calm`: as long as `calm` holds, each goroutine is at a point at which the
request's state, slot and load unit are the ones it left.  Every action that
breaks this (an expiry, an override, a refused append) sets `calm` to FALSE in
the same step, so the exactness is proved up to the first of them and no further,
which is all the code does.

The second half is about `Admission`.  `HandOverIsSafe` is a protocol of one request:
`Stage(r)` says for each stage (unregistered, pending, in the drain's hands,
cancelled, answered) how often Submit was called and the channel closed and who may
still do either.  Whoever removes the pending entry closes the channel, and the
entry is removed under its lock once; the queue's entry, which another goroutine may
pop at any time, says nothing about it, and so `Stage` barely mentions the queue.

`QueueIsSound` and `QueueStaysOrdered` are about container/heap for a queue of any
length.  The place an entry takes as it rises or sinks is a walk: a function from
places to the next place along which a weight falls (`Walk`), and the places it
passes are a chain (`Chain`).  An operation moves each entry of the chain one step,
so every entry is somewhere once (`Shuffled`), which gives the cap and that no
request is there twice; and it keeps or repairs the order of parents and children at
the clock it compares at.  At a reading no older than any arrival, `Less` compares a
key that does not depend on the reading (`LessIsKey`), which is what carries the order
from one operation's clock to the next one's.  The first form of the property, without
`ReadingIsCurrent`, and the statement that a popped entry dominates all that wait,
turned out false: both fail at a stale reading, the second in heaps of five entries
and more, and section 4 lists it.

*TransferProofs.*  The invariant joins types, ownership of pending entries, the
fact that every proof anywhere (in a frame, a cache, a channel, a call or a
handler about to issue one) tells a booked debit and its amount, that credits
match debits, and that a finished call or a completed nonce is credited.  Proofs
survive crashes in frames and channels while the caches do not, so each place a
proof can be is a conjunct of its own.  `RegionsAgree` joins credits and
successes.  `TransferImplementsPromise` follows:
every step books one debit, books one credit, or leaves the books alone.

*FallbackProofs.*  Hooks and exits have sessions, what is pending is active, and
the settings lock is held by one step sequence, which knows what it has written
so far.  `RedirectIsOwned` is the strengthening: a redirect in the file belongs to
an entry whose exit is still to come, or `orphaned` says why not; `JournalIsCurrent`
ties what the journal would restore to it.  The attempt to prove
`RestoredAtRest` without the third case of `orphaned` failed at `StripSettings`
when the journal holds the redirect; TLC with three fallbacks and no faults then
showed the behaviour listed in section 4, which two fallbacks cannot reach.

*FederationProofs.*  A peer in the map is attached (`PeerIsAttached`), one that is
being stopped was, so its link is not dialled anew under the call that stops it
(`StoppedWasAttached`, needed for `StoppedOnce`), and the hook whose Depeer is under
way is one of those Close waits for (`HookIsCounted`, needed for
`CloseFindsNoAttach` and for the counter to stay a natural number).

The second half is about `Gossip`.  `Truth`: everything on a link, in a
handler's hands or in an archive was really published, and a flag names another
tracker that has published two roots.  `Calm` is what makes gossip complete as
long as there was no fault: a peer leaves the registry and a link goes down for
a flag only, whatever the replay filter holds was acted upon, and a revocation
or the evidence for a flag is archived at a peer, still under way on the link to
it, or one of the two has flagged the other.  At rest nothing is under way, and
`GossipIsSound` follows for every mesh, filter size and order of frames.  It is
stated for the direct peers of a tracker; evidence then passes along any path of
trusted trackers, while a relayed revocation is refused (`ApplyRelayed`).
`ArchivesImprove` needs `Tables`: allowlisted peers keep their rows.  Its proof
failed for a restart that reset the rows of allowlisted peers, which the code
does not do; `Restart` was corrected.

*SeederProofs.*  A listener is installed once, and no Bind is about to close the
current one (`BindsInOrder`), however Bind calls overlap; a reservation is
registered, held by one serve, or reported: one of them (`HeldOnce`), which is what
makes billing single; a serve under way has its reservation.  The count of active
clients is the cardinality of the set of serves that registered, which stays finite.

*ReputationProofs.*  Every step writes the table in one of three ways: not at
all, a fresh OK row, or one more reason with its cause.  What the evaluator holds
is a past of the table (`SnapshotIsPast`): each row it read is a prefix of the row
as it is.  Strikes a freeze was decided on are therefore still there when it is
written, and `transition` checks the state it writes over.  Announcements are
counted as a sum over the identities.  `AuditTrailGrows` is the action property
that follows from the three forms.

*ConnectionsProofs.*  The supervisor runs the connection it dialled last, and no
other is up (`RunsTheLast`); streams are in the order they were opened, the
heartbeat's first, because no call has a connection before it is set up
(`StreamsInOrder`, `CallsAfterSetup`); a tracker that is down has no connection left
(`LeftBehind`), and an entry of the table is under its own tracker
(`TableMatches`), without which a cleanup could leave the entry of another.  The
number of connections is bounded by a payment: whatever ends one (a break, a
stop of either end) is an event, and one that is paid for and not yet replaced is
`Doomed` (`EventsPaid`).  That the configured and the learned endpoints are trackers
is an assumption on the constants, since `SelectSeq` cannot be reasoned about.

Only model-checked: liveness under fairness (`AppendsReturn`, `RequestsEnd`,
`Answered`, `QueueDrains`, `GossipDiesOut`, `BackInService` and the other
properties that need a fair specification), which the prover does not do.  Every
invariant and every action property that a passing run checks is also a theorem.

Induction over data is possible where the statement quantifies over a number (a
cardinality, a length) and the smallest counterexample can be taken, as for the
sums, the heap and the log above; the library's induction rules themselves, which
take a predicate as a parameter, cannot be used.  A recursive function is shown to
exist first (as the least solution of its equation) before its equation is used.

## 6. Not modelled

Signatures, canonical bytes, wire formats, TLS and HTTP are abstract or absent.
`SweepTerminal`, `IssueAttestation`, `RecordRateLimit` and `OnSessionStart` have no
caller in the program.  Seeders that vanish from the registry between Match and
IncLoad behave as a declined offer in `Settlement`; load and registration are in
different modules, so a load reset by a reconnect is not checked.  The TURN
packet path with its token buckets (wall-clock floats), the health score's
formula, the stream translation (JSON content), the audit log, the one-shot
commands, bootstrap lists, key files, configuration, the admin views and the
metrics keep no state that the protocols depend on, or are arithmetic that TLC
cannot represent; `PROJECT.json` gives the reason for each.
