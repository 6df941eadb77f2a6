------------------------------ MODULE Fallback ------------------------------
(***************************************************************************)
(* The consumer's fallback: the hook that reports a rate limit, the        *)
(* coordinator that brokers a seeder and turns a Claude Code session over  *)
(* to the network (consumerflow), the redirect of ~/.claude/settings.json  *)
(* and its rollback journal (settingsjson), the proxy that routes the      *)
(* redirected requests (ccproxy), the cached balance proof and the         *)
(* settlement that is countersigned (trackerclient, settlement.go), in one *)
(* sidecar process that may stop and start (sidecar, discovery.go).        *)
(*                                                                         *)
(* A fallback is named by its reservation token.  Hooks run concurrently,  *)
(* also for one session (its subagents share it); the reaper and the       *)
(* session-end hooks exit beside them.  An action is one critical section  *)
(* or one file operation.  Every start of the sidecar binds a fresh port,  *)
(* so its URL is the number of the start.  Failures, refusals, stops and   *)
(* the user's own edits draw on one budget of events.                      *)
(***************************************************************************)
EXTENDS Integers, FiniteSets

CONSTANTS Sessions,   \* Claude Code sessions
          MaxFallbacks, \* bound: fallbacks, one reservation token each
          MaxStarts,  \* bound: starts of the sidecar
          MaxEvents,  \* bound: failures, refusals, stops and user edits
          Unset,      \* settings.json has no ANTHROPIC_BASE_URL
          UserURL,    \* it has one the user put there
          None        \* no token, no journal, no discovery file

ASSUME FallbackAssumption ==
    /\ MaxStarts \in Nat \ {0} /\ MaxEvents \in Nat /\ MaxFallbacks \in Nat
    /\ {Unset, UserURL, None} \cap (Nat \cup Sessions) = {}
    /\ Cardinality({Unset, UserURL, None}) = 3

VARIABLES
  up,        \* the sidecar runs
  url,       \* the URL of its proxy: the number of this start
  found,     \* the discovery file sidecar.url
  hook,      \* each StopFailure handler: its session and the step it is about to take
  snapshot,  \* the balance cache holds a proof that is fresh enough
  store,     \* SessionModeStore: the fallback each session is routed by
  active,    \* Coordinator.activeSessions: the fallback of each entry
  expired,   \* fallbacks whose network-mode TTL has passed
  pending,   \* Coordinator.pendingSettlements
  base,      \* ANTHROPIC_BASE_URL in settings.json
  journal,   \* the rollback journal: the base URL to restore
  exit,      \* each exitNetworkMode under way: its session and next step
  reaping,   \* sessions the reaper has still to exit in this sweep
  settle,    \* each fallback's request: served by its seeder, its settlement handled
  orphaned,  \* history: an entry lost the exit, or its exit the prior state, that would undo it
  overlap,   \* history: an entry took the redirect itself for the prior state
  events

vars == <<up, url, found, hook, snapshot, store, active, expired, pending, base,
          journal, exit, reaping, settle, orphaned, overlap, events>>

Urls == 1..MaxStarts

Tokens == 1..MaxFallbacks

\* exitNetworkMode is called by the reaper and by each session's end hook.
Reaper == "reaper"
Exiters == Sessions \cup {Reaper}

HookSteps == {"none", "probing", "balance", "brokering", "journaling", "writing",
              "activating", "done"}
ExitSteps == {"idle", "store", "deactivate", "restore", "unlink", "strip"}

IdleExit == [step |-> "idle", session |-> None]

Shapes ==
  /\ up \in BOOLEAN /\ url \in Urls /\ found \in Urls \cup {None}
  /\ hook \in [Tokens -> [step : HookSteps, session : Sessions \cup {None}]]
  /\ snapshot \in BOOLEAN
  /\ store \in [Sessions -> Tokens \cup {None}]
  /\ active \in [Sessions -> Tokens \cup {None}]
  /\ expired \subseteq Tokens /\ pending \subseteq Tokens
  /\ base \in Urls \cup {Unset, UserURL}
  /\ journal \in Urls \cup {Unset, None}
  /\ exit \in [Exiters -> [step : ExitSteps, session : Sessions \cup {None}]]
  /\ reaping \subseteq Sessions
  /\ settle \in [Tokens -> {"none", "served", "signing", "done"}]
  /\ orphaned \in BOOLEAN /\ overlap \in BOOLEAN

\* Hooks, exits, the tables of the coordinator and settings.json have their shapes.
TypeOK == Shapes /\ events \in 0..MaxEvents

Init ==
  /\ up = TRUE /\ url = 1 /\ found = None
  /\ hook = [t \in Tokens |-> [step |-> "none", session |-> None]]
  /\ snapshot = FALSE
  /\ store = [s \in Sessions |-> None]
  /\ active = [s \in Sessions |-> None]
  /\ expired = {} /\ pending = {}
  /\ base \in {Unset, UserURL} /\ journal = None
  /\ exit = [e \in Exiters |-> IdleExit] /\ reaping = {}
  /\ settle = [t \in Tokens |-> "none"]
  /\ orphaned = FALSE /\ overlap = FALSE /\ events = 0

Event == events < MaxEvents /\ events' = events + 1

procVars == <<up, url, found>>
fileVars == <<base, journal>>
modeVars == <<store, active, expired, pending>>
exitVars == <<exit, reaping>>
historyVars == <<orphaned, overlap>>

Session(t) == hook[t].session

At(t, step) == hook[t].step = step

Goto(t, step) == hook' = [hook EXCEPT ![t].step = step]

\* A hook subprocess finds the sidecar through the discovery file; whatever
\* goes wrong on that way is reported as an empty response.
Reachable == up /\ found = url

\* What preflightSettings and EnterNetworkMode accept.  Providers, comments and
\* unreadable files are refused as a foreign redirect is, and are not told apart.
Compatible == base \in {Unset, url}

\* Store.mu of settingsjson: held from the journal's write to the settings'
\* write, and from the restore to the journal's removal.
SettingsFree ==
  /\ \A t \in Tokens : ~At(t, "writing")
  /\ \A e \in Exiters : exit[e].step # "unlink"

-----------------------------------------------------------------------------
(* The process: run_cmd.go, discovery.go, sidecar.go.                      *)

\* The supervisor publishes its URL once the proxy is bound.
WriteDiscovery ==
  /\ up /\ found # url
  /\ found' = url
  /\ UNCHANGED <<up, url, hook, snapshot, modeVars, fileVars, exitVars, settle,
                 historyVars, events>>

\* The sidecar stops: in order, when it removes the discovery file, or not.
\* Neither way leaves network mode, and memory is gone.
Stop ==
  /\ up /\ Event
  /\ up' = FALSE
  /\ found' \in {found, None}
  /\ hook' = [t \in Tokens |-> IF At(t, "none") THEN hook[t]
                               ELSE [step |-> "done", session |-> None]]
  /\ snapshot' = FALSE
  /\ store' = [s \in Sessions |-> None]
  /\ active' = [s \in Sessions |-> None]
  /\ expired' = {} /\ pending' = {}
  /\ exit' = [e \in Exiters |-> IdleExit] /\ reaping' = {}
  /\ settle' = [t \in Tokens |-> IF settle[t] = "none" THEN "none" ELSE "done"]
  /\ orphaned' = (orphaned \/ base \in Urls)
  /\ UNCHANGED <<url, fileVars, overlap>>

Start ==
  /\ ~up /\ url < MaxStarts
  /\ up' = TRUE /\ url' = url + 1
  /\ UNCHANGED <<found, hook, snapshot, modeVars, fileVars, exitVars, settle,
                 historyVars, events>>

\* The user, or another tool, edits settings.json.
EditSettings ==
  /\ Event
  /\ base' \in {Unset, UserURL} \ {base}
  /\ UNCHANGED <<procVars, hook, snapshot, modeVars, journal, exitVars, settle,
                 historyVars>>

-----------------------------------------------------------------------------
(* Entering network mode: OnStopFailure, handleRateLimit.                  *)

\* A rate_limit StopFailure of session s that passes the settings preflight.
StopFailure(t, s) ==
  /\ Reachable /\ Compatible
  /\ At(t, "none") /\ \A u \in Tokens : u < t => ~At(u, "none")
  /\ hook' = [hook EXCEPT ![t] = [step |-> "probing", session |-> s]]
  /\ UNCHANGED <<procVars, snapshot, modeVars, fileVars, exitVars, settle,
                 historyVars, events>>

\* What the probe's output is taken for.
Verdicts == {"exhausted", "headroom", "uncertain"}

\* The gate of a hook: a real rate limit outweighs an unclear probe.
ApplyVerdictMatrix(u) == u \in {"exhausted", "uncertain"}

\* The usage probe fails or shows headroom, or the exhaustion proof cannot be
\* built from it: audited, and nothing else.
GateRefuses(t) ==
  /\ up /\ At(t, "probing") /\ Event
  /\ \E u \in Verdicts \cup {"error"} : ~ApplyVerdictMatrix(u)
  /\ Goto(t, "done")
  /\ UNCHANGED <<procVars, snapshot, modeVars, fileVars, exitVars, settle, historyVars>>

\* The envelope cannot be built, the broker rejects or queues it, has no seeder
\* for it or does not answer: audited, and nothing else.
BrokerRefuses(t) ==
  /\ up /\ At(t, "brokering") /\ Event
  /\ Goto(t, "done")
  /\ UNCHANGED <<procVars, snapshot, modeVars, fileVars, exitVars, settle, historyVars>>

\* The gate lets the request pass and asks for the balance: a fresh cached
\* proof is used, otherwise the handler joins the one fetch in flight.
BalanceCached(t) ==
  /\ up /\ At(t, "probing") /\ \E u \in Verdicts : ApplyVerdictMatrix(u)
  /\ Goto(t, IF snapshot THEN "brokering" ELSE "balance")
  /\ UNCHANGED <<procVars, snapshot, modeVars, fileVars, exitVars, settle,
                 historyVars, events>>

\* The fetch returns, to everyone who joined it: the first caller's context
\* bounds it, so its timeout refuses the others as well.
FetchReturns ==
  /\ up /\ \E t \in Tokens : At(t, "balance")
  /\ \E ok \in BOOLEAN :
       /\ IF ok THEN UNCHANGED events ELSE Event
       /\ snapshot' = ok
       /\ hook' = [t \in Tokens |->
            IF At(t, "balance")
            THEN [hook[t] EXCEPT !.step = IF ok THEN "brokering" ELSE "done"]
            ELSE hook[t]]
  /\ UNCHANGED <<procVars, modeVars, fileVars, exitVars, settle, historyVars>>

\* The cached proof comes within the headroom of its expiry.
SnapshotAges ==
  /\ snapshot /\ Event
  /\ snapshot' = FALSE
  /\ UNCHANGED <<procVars, hook, modeVars, fileVars, exitVars, settle, historyVars>>

\* A seeder is assigned: the session's requests are routed to it from now on,
\* whichever fallback they were routed by before.
BrokerRequest(t) ==
  /\ up /\ At(t, "brokering")
  /\ Goto(t, "journaling")
  /\ store' = [store EXCEPT ![Session(t)] = t]
  /\ UNCHANGED <<procVars, snapshot, active, expired, pending, fileVars, exitVars,
                 settle, historyVars, events>>

\* The settings could not be pivoted: the session's store entry goes, also the
\* one an earlier fallback of the session had put there.
RollBack(t) ==
  /\ Goto(t, "done")
  /\ store' = [store EXCEPT ![Session(t)] = None]

\* A plausible slip: the redirect is written before the journal.
EnterSettingsFirst(t) ==
  /\ up /\ At(t, "journaling") /\ SettingsFree /\ Compatible
  /\ base' = url
  /\ Goto(t, "writing")
  /\ UNCHANGED <<procVars, snapshot, modeVars, journal, exitVars, settle,
                 historyVars, events>>

\* EnterNetworkMode up to the journal: settings.json is read and checked again,
\* under the lock, and its base URL is recorded before it is replaced.
EnterSettings(t) ==
  /\ up /\ At(t, "journaling") /\ SettingsFree
  /\ \/ /\ Compatible
        /\ journal' = base
        /\ overlap' = (overlap \/ base = url)
        /\ Goto(t, "writing")
        /\ UNCHANGED <<store, events>>
     \/ /\ IF Compatible THEN Event ELSE UNCHANGED events
        /\ RollBack(t)
        /\ UNCHANGED <<journal, overlap>>
  /\ UNCHANGED <<procVars, snapshot, active, expired, pending, base, exitVars,
                 settle, orphaned>>

\* EnterNetworkMode, its end: the redirect is renamed into place, or that
\* fails and the journal is removed again, whoever's prior state it held.
WriteSettings(t) ==
  /\ up /\ At(t, "writing")
  /\ \/ /\ base' = url
        /\ Goto(t, "activating")
        /\ UNCHANGED <<journal, store, events>>
     \/ /\ Event
        /\ journal' = None
        /\ RollBack(t)
        /\ UNCHANGED base
  /\ UNCHANGED <<procVars, snapshot, active, expired, pending, exitVars, settle,
                 historyVars>>

\* The entry becomes the session's: a previous one is replaced, and with it
\* the one exit that both of them will get.
Activate(t) ==
  /\ up /\ At(t, "activating")
  /\ Goto(t, "done")
  /\ active' = [active EXCEPT ![Session(t)] = t]
  /\ pending' = pending \cup {t}
  /\ orphaned' = (orphaned \/ active[Session(t)] # None)
  /\ UNCHANGED <<procVars, snapshot, store, expired, fileVars, exitVars, settle,
                 overlap, events>>

-----------------------------------------------------------------------------
(* Routing and settling: ccproxy, HandleSettlement.                        *)

\* SessionModeStore.GetMode.
InNetworkMode(s) == store[s] # None /\ store[s] \notin expired

\* The seeder of the session's fallback can be dialled and serves: it has not
\* served the fallback's request before, which used the reservation up.
Dialable(s) == InNetworkMode(s) /\ settle[store[s]] = "none"

\* A redirected request of session s is served by its seeder.  The requests
\* that pass through or are turned away change nothing here.
Route(s) ==
  /\ up /\ base = url /\ Dialable(s)
  /\ settle' = [settle EXCEPT ![store[s]] = "served"]
  /\ UNCHANGED <<procVars, hook, snapshot, modeVars, fileVars, exitVars, historyVars,
                 events>>

\* HandleSettlement looks the request up: one it does not know, or over the
\* ceiling of output tokens, is refused and gets no acknowledgement.
HandleSettlement(t) ==
  /\ up /\ settle[t] = "served"
  /\ \/ t \in pending /\ settle' = [settle EXCEPT ![t] = "signing"] /\ UNCHANGED events
     \/ /\ IF t \in pending THEN Event ELSE UNCHANGED events
        /\ settle' = [settle EXCEPT ![t] = "done"]
  /\ UNCHANGED <<procVars, hook, snapshot, modeVars, fileVars, exitVars, historyVars>>

\* The countersignature is sent; once the tracker has taken it the pending
\* entry is consumed, otherwise it stays.
Settle(t) ==
  /\ up /\ settle[t] = "signing"
  /\ settle' = [settle EXCEPT ![t] = "done"]
  /\ \/ pending' = pending \ {t} /\ UNCHANGED events
     \/ Event /\ UNCHANGED pending
  /\ UNCHANGED <<procVars, hook, snapshot, store, active, expired, fileVars, exitVars,
                 historyVars>>

-----------------------------------------------------------------------------
(* Leaving network mode: OnSessionEnd, reapExpired, exitNetworkMode.       *)

ExitAt(e, step) == exit[e].step = step

ExitGoto(e, step) ==
  exit' = [exit EXCEPT ![e] = IF step = "idle" THEN IdleExit
                              ELSE [@ EXCEPT !.step = step]]

\* A network-mode TTL passes.
Expire(t) ==
  /\ t \notin expired /\ \E s \in Sessions : t \in {active[s], store[s]}
  /\ expired' = expired \cup {t}
  /\ UNCHANGED <<procVars, hook, snapshot, store, active, pending, fileVars, exitVars,
                 settle, historyVars, events>>

\* OnSessionEnd: an active session exits; of any other nothing is known.
SessionEnd(s) ==
  /\ Reachable /\ ExitAt(s, "idle") /\ active[s] # None
  /\ exit' = [exit EXCEPT ![s] = [step |-> "store", session |-> s]]
  /\ UNCHANGED <<procVars, hook, snapshot, modeVars, fileVars, reaping, settle,
                 historyVars, events>>

\* A plausible slip: the sweep looks for expired entries where requests are
\* routed, and a session whose store entry was rolled back is never found.
ReapExpiredStored ==
  /\ up /\ ExitAt(Reaper, "idle") /\ reaping = {}
  /\ reaping' = {s \in Sessions : store[s] \in expired}
  /\ reaping' # {}
  /\ UNCHANGED <<procVars, hook, snapshot, modeVars, fileVars, exit, settle,
                 historyVars, events>>

\* reapExpired collects the sessions under the lock ...
ReapExpired ==
  /\ up /\ ExitAt(Reaper, "idle") /\ reaping = {}
  /\ reaping' = {s \in Sessions : active[s] \in expired}
  /\ reaping' # {}
  /\ UNCHANGED <<procVars, hook, snapshot, modeVars, fileVars, exit, settle,
                 historyVars, events>>

\* ... and exits them one after the other, without it.
ReapNext(s) ==
  /\ up /\ ExitAt(Reaper, "idle") /\ s \in reaping
  /\ reaping' = reaping \ {s}
  /\ exit' = [exit EXCEPT ![Reaper] = [step |-> "store", session |-> s]]
  /\ UNCHANGED <<procVars, hook, snapshot, modeVars, fileVars, settle,
                 historyVars, events>>

\* exitNetworkMode: the session's requests pass through again.
ExitStore(e) ==
  /\ up /\ ExitAt(e, "store")
  /\ store' = [store EXCEPT ![exit[e].session] = None]
  /\ ExitGoto(e, "deactivate")
  /\ UNCHANGED <<procVars, hook, snapshot, active, expired, pending, fileVars, reaping,
                 settle, historyVars, events>>

\* exitNetworkMode: the entry and every pending settlement of the session go.
\* The settings are only touched when there was an entry.
Deactivate(e) ==
  LET s == exit[e].session IN
  /\ up /\ ExitAt(e, "deactivate")
  /\ active' = [active EXCEPT ![s] = None]
  /\ pending' = {t \in pending : Session(t) # s}
  /\ ExitGoto(e, IF active[s] # None THEN "restore" ELSE "idle")
  /\ UNCHANGED <<procVars, hook, snapshot, store, expired, fileVars, reaping,
                 settle, historyVars, events>>

\* A plausible slip: an exit that finds no journal takes the settings for restored.
RestoreSettingsIfJournaled(e) ==
  /\ up /\ ExitAt(e, "restore") /\ SettingsFree
  /\ base' = IF journal = None THEN base ELSE journal
  /\ ExitGoto(e, IF journal = None THEN "idle" ELSE "unlink")
  /\ UNCHANGED <<procVars, hook, snapshot, modeVars, journal, reaping, settle,
                 historyVars, events>>

\* ExitNetworkMode: the journaled base URL is put back, whatever is there now.
\* Without a journal, or when the file cannot be written, the exit falls back
\* to stripping.
RestoreSettings(e) ==
  /\ up /\ ExitAt(e, "restore") /\ SettingsFree
  /\ \/ /\ journal # None
        /\ base' = journal
        /\ ExitGoto(e, "unlink")
        /\ UNCHANGED <<orphaned, events>>
     \/ /\ IF journal = None THEN UNCHANGED <<orphaned, events>>
                             ELSE Event /\ orphaned' = TRUE
        /\ ExitGoto(e, "strip")
        /\ UNCHANGED base
  /\ UNCHANGED <<procVars, hook, snapshot, modeVars, journal, reaping, settle,
                 overlap>>

\* ExitNetworkMode, its end: the journal is removed, or stays and the settings
\* are stripped as well.
DeleteJournal(e) ==
  /\ up /\ ExitAt(e, "unlink")
  /\ \/ /\ journal' = None
        /\ ExitGoto(e, "idle")
        /\ UNCHANGED <<orphaned, events>>
     \/ /\ Event
        /\ orphaned' = TRUE
        /\ ExitGoto(e, "strip")
        /\ UNCHANGED journal
  /\ UNCHANGED <<procVars, hook, snapshot, modeVars, base, reaping, settle, overlap>>

\* ExitNetworkModeBestEffort removes the base URL if it is the sidecar's own.
\* Its failure is reported and nothing tries again.  The journal is not looked
\* at: one that holds the redirect will put it back when its entry exits.
StripSettings(e) ==
  /\ up /\ ExitAt(e, "strip") /\ SettingsFree
  /\ ExitGoto(e, "idle")
  /\ \/ /\ base' = IF base = url THEN Unset ELSE base
        /\ orphaned' = (orphaned \/ journal = url)
        /\ UNCHANGED events
     \/ /\ Event
        /\ orphaned' = TRUE
        /\ UNCHANGED base
  /\ UNCHANGED <<procVars, hook, snapshot, modeVars, journal, reaping, settle, overlap>>

-----------------------------------------------------------------------------
HookStep(t) ==
  \/ GateRefuses(t) \/ BrokerRefuses(t) \/ BalanceCached(t) \/ BrokerRequest(t) \/ EnterSettings(t)
  \/ WriteSettings(t) \/ Activate(t)

ExitStep(e) ==
  \/ ExitStore(e) \/ Deactivate(e) \/ RestoreSettings(e) \/ DeleteJournal(e)
  \/ StripSettings(e)

\* What runs of itself: handlers, exits, the reaper's timer and the clock.
Progress ==
  \/ WriteDiscovery \/ FetchReturns \/ ReapExpired
  \/ \E t \in Tokens : HookStep(t) \/ Expire(t) \/ Settle(t)
  \/ \E e \in Exiters : ExitStep(e)
  \/ \E s \in Sessions : ReapNext(s)

Next ==
  \/ Progress
  \/ Stop \/ Start \/ EditSettings \/ SnapshotAges
  \/ \E t \in Tokens, s \in Sessions : StopFailure(t, s)
  \/ \E t \in Tokens : HandleSettlement(t)
  \/ \E s \in Sessions : Route(s) \/ SessionEnd(s)

Spec == Init /\ [][Next]_vars

\* Handlers return and timers fire; neither hooks, requests nor settlements
\* need ever arrive.
FairSpec == Spec /\ WF_vars(Progress)

-----------------------------------------------------------------------------
(* Properties.                                                             *)

\* No settlement is pending for a session that has left network mode, also
\* when it had entered more than once: what the consumer would countersign
\* belongs to an entry the reaper still knows (exitNetworkMode).
PendingIsActive == \A t \in pending : active[Session(t)] # None

\* No handler and no exit is under way and no session is in network mode.
AtRest ==
  /\ up /\ active = [s \in Sessions |-> None]
  /\ \A t \in Tokens : hook[t].step \in {"none", "done"}
  /\ \A e \in Exiters : ExitAt(e, "idle")

\* However entries and exits of several sessions overlap, the last exit leaves
\* settings.json without the sidecar's redirect - unless an entry lost its exit
\* (its session entered again, the sidecar stopped, or an exit's write failed),
\* or an exit without a journal stripped the redirect that a third entry had
\* meanwhile journaled as the prior state, which that entry then restores.
RestoredAtRest == AtRest /\ ~orphaned => base \notin Urls

\* A redirect can be undone from the files alone, whatever step a crash hits:
\* it is in settings.json only while the journal that undoes it is on disk,
\* as long as no entry recorded the redirect itself (EnterNetworkMode's order).
RedirectIsJournaled == base \in Urls /\ ~overlap => journal # None

\* Network mode ends by itself: in the end no session is active or routed to
\* the network, session-end hook or none (Coordinator.Run's reaper, the TTL).
NetworkModeEnds ==
  <>[](\A s \in Sessions : active[s] = None /\ ~InNetworkMode(s))

\* Memory and disk can always be cleaned up: pending settlements have their session, a redirect
\* has its journal (Coordinator, EnterNetworkMode).
FallbackInv == TypeOK /\ PendingIsActive /\ RedirectIsJournaled
=============================================================================
