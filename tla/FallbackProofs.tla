--------------------------- MODULE FallbackProofs ---------------------------
(***************************************************************************)
(* Safety of the consumer's fallback for any number of sessions, fallbacks *)
(* and starts of the sidecar, and any failures, stops and user edits:      *)
(* nothing stays pending for a session that has left network mode, the     *)
(* redirect of settings.json can always be undone from its journal, and    *)
(* the last exit does undo it.                                             *)
(***************************************************************************)
EXTENDS Fallback, FiniteSetTheorems, TLAPS

\* A hook under way, and one whose settlement is pending, knows its session.
HooksHaveSessions ==
  /\ \A t \in Tokens : hook[t].step \notin {"none", "done"} => Session(t) \in Sessions
  /\ \A t \in pending : At(t, "done") /\ Session(t) \in Sessions

\* An exit under way knows its session.
ExitsHaveSessions ==
  \A e \in Exiters : exit[e].step # "idle" => exit[e].session \in Sessions

\* Store.mu is held by one call at most.
LockExclusive ==
  /\ \A t, u \in Tokens : At(t, "writing") /\ At(u, "writing") => t = u
  /\ \A e, f \in Exiters : ExitAt(e, "unlink") /\ ExitAt(f, "unlink") => e = f
  /\ \A t \in Tokens, e \in Exiters : ~(At(t, "writing") /\ ExitAt(e, "unlink"))

\* While the lock is held the journal is on disk, and a redirect that is in
\* settings.json then was journaled, or would be, as the prior state.
LockJournals ==
  /\ journal \in Urls => overlap
  /\ \A t \in Tokens : At(t, "writing") => journal # None
  /\ ~SettingsFree /\ base \in Urls => overlap

\* Who will undo a redirect: entries, hooks about to make one, exits under way.
Owners ==
  {<<"entry", s>> : s \in {r \in Sessions : active[r] # None}}
    \cup {<<"hook", t>> : t \in {u \in Tokens : At(u, "activating")}}
    \cup {<<"exit", e>> : e \in {f \in Exiters : ExitAt(f, "restore") \/ ExitAt(f, "strip")}}

Several(S) == \E x, y \in S : x # y

\* A sidecar that is down has no memory.
DownForgets == ~up => Owners = {} /\ SettingsFree

\* URLs on disk are of this or an earlier start, and the journal an exit will
\* restore from is this start's.
JournalIsCurrent ==
  /\ journal \in Urls => journal <= url
  /\ journal \in Urls /\ (Owners # {} \/ ~SettingsFree) => journal = url

\* The redirect in settings.json has someone to undo it, and one that was
\* taken for the prior state has someone else besides who restores it.
RedirectIsOwned ==
  ~orphaned =>
    /\ base \in Urls => up /\ base = url /\ Owners # {}
    /\ up /\ journal = url => Owners # {} /\ (SettingsFree => Several(Owners))

IInv ==
  /\ TypeOK /\ HooksHaveSessions /\ ExitsHaveSessions /\ PendingIsActive
  /\ LockExclusive /\ LockJournals /\ RedirectIsJournaled
  /\ DownForgets /\ JournalIsCurrent /\ RedirectIsOwned

\* The missing values are no URLs, tokens or sessions, and differ.
LEMMA Distinct ==
  /\ Unset # UserURL /\ Unset # None /\ UserURL # None
  /\ Unset \notin Nat /\ UserURL \notin Nat /\ None \notin Nat
  /\ None \notin Sessions /\ Urls \subseteq Nat /\ Tokens \subseteq Nat
  /\ 1 \in Urls /\ MaxEvents \in Nat /\ MaxStarts \in Nat
<1>1. ASSUME NEW x, NEW y PROVE Cardinality({x, y}) # 3
  <2>1. IsFiniteSet({x}) /\ Cardinality({x}) = 1 BY FS_Singleton
  <2>2. Cardinality({x} \cup {y}) \in {1, 2} BY <2>1, FS_AddElement
  <2>3. {x} \cup {y} = {x, y} OBVIOUS
  <2>4. QED BY <2>2, <2>3
<1>2. Unset # UserURL
  <2> SUFFICES ASSUME Unset = UserURL PROVE FALSE OBVIOUS
  <2>1. {Unset, UserURL, None} = {Unset, None} OBVIOUS
  <2>2. QED BY <2>1, <1>1, FallbackAssumption
<1>3. Unset # None
  <2> SUFFICES ASSUME Unset = None PROVE FALSE OBVIOUS
  <2>1. {Unset, UserURL, None} = {Unset, UserURL} OBVIOUS
  <2>2. QED BY <2>1, <1>1, FallbackAssumption
<1>4. UserURL # None
  <2> SUFFICES ASSUME UserURL = None PROVE FALSE OBVIOUS
  <2>1. {Unset, UserURL, None} = {Unset, UserURL} OBVIOUS
  <2>2. QED BY <2>1, <1>1, FallbackAssumption
<1>5. QED BY <1>2, <1>3, <1>4, FallbackAssumption DEF Urls, Tokens

\* The inductive invariant holds when the sidecar starts for the first time.
LEMMA InitIInv == Init => IInv
<1> SUFFICES ASSUME Init PROVE IInv OBVIOUS
<1>1. TypeOK
  <2>1. Shapes
    BY Distinct DEF Init, Shapes, HookSteps, ExitSteps, IdleExit
  <2>2. QED BY <2>1, Distinct DEF Init, TypeOK
<1>2. HooksHaveSessions /\ ExitsHaveSessions /\ PendingIsActive
  BY DEF Init, HooksHaveSessions, ExitsHaveSessions, PendingIsActive, IdleExit
<1>3. SettingsFree /\ LockExclusive
  BY DEF Init, SettingsFree, LockExclusive, At, ExitAt, IdleExit
<1>4. LockJournals /\ RedirectIsJournaled
  BY <1>3, Distinct DEF Init, LockJournals, RedirectIsJournaled, At
<1>5. Owners = {}
  BY DEF Init, Owners, At, ExitAt, IdleExit
<1>6. DownForgets /\ JournalIsCurrent /\ RedirectIsOwned
  BY <1>3, <1>5, Distinct DEF Init, DownForgets, JournalIsCurrent, RedirectIsOwned
<1>7. QED BY <1>1, <1>2, <1>3, <1>4, <1>6 DEF IInv

-----------------------------------------------------------------------------
(* Types.                                                                  *)

\* Failures, refusals, stops and user edits stay within their budget.
LEMMA NextEvents == events \in 0..MaxEvents /\ [Next]_vars => events' \in 0..MaxEvents
<1> SUFFICES ASSUME events \in 0..MaxEvents, [Next]_vars PROVE events' \in 0..MaxEvents OBVIOUS
<1>1. (Event \/ UNCHANGED events) => events' \in 0..MaxEvents
  BY Distinct DEF Event
<1>2. ASSUME NEW t \in Tokens, HookStep(t) \/ Expire(t) \/ Settle(t) \/ HandleSettlement(t)
      PROVE  Event \/ UNCHANGED events
  BY <1>2 DEF HookStep, GateRefuses, BrokerRefuses, BalanceCached, BrokerRequest, EnterSettings,
     WriteSettings, Activate, Expire, Settle, HandleSettlement
<1>3. ASSUME NEW e \in Exiters, ExitStep(e) PROVE Event \/ UNCHANGED events
  BY <1>3 DEF ExitStep, ExitStore, Deactivate, RestoreSettings, DeleteJournal, StripSettings
<1>4. ASSUME NEW s \in Sessions, ReapNext(s) \/ Route(s) \/ SessionEnd(s)
      PROVE  Event \/ UNCHANGED events
  BY <1>4 DEF ReapNext, Route, SessionEnd
<1>5. ASSUME NEW t \in Tokens, NEW s \in Sessions, StopFailure(t, s) PROVE UNCHANGED events
  BY <1>5 DEF StopFailure
<1>6. CASE WriteDiscovery \/ FetchReturns \/ ReapExpired \/ Stop \/ Start \/ EditSettings
           \/ SnapshotAges \/ UNCHANGED vars
  BY <1>1, <1>6 DEF WriteDiscovery, FetchReturns, ReapExpired, Stop, Start, EditSettings,
     SnapshotAges, vars
<1>7. QED BY <1>1, <1>2, <1>3, <1>4, <1>5, <1>6 DEF Next, Progress

\* Every step keeps the shapes of the tables and files.
LEMMA NextShapes == Shapes /\ [Next]_vars => Shapes'
<1> SUFFICES ASSUME Shapes, [Next]_vars PROVE Shapes' OBVIOUS
<1> USE Distinct
<1>1. CASE WriteDiscovery
  BY <1>1 DEF Shapes, WriteDiscovery, modeVars, fileVars, exitVars, historyVars
<1>2. CASE FetchReturns
  BY <1>2 DEF Shapes, FetchReturns, procVars, modeVars, fileVars, exitVars, historyVars,
     At, HookSteps
<1>3. CASE ReapExpired
  BY <1>3 DEF Shapes, ReapExpired, procVars, modeVars, fileVars, historyVars
<1>4. ASSUME NEW t \in Tokens, HookStep(t) PROVE Shapes'
  <2>0. hook' \in [Tokens -> [step : HookSteps, session : Sessions \cup {None}]]
    BY <1>4 DEF HookStep, GateRefuses, BrokerRefuses, BalanceCached, BrokerRequest, EnterSettings,
       WriteSettings, Activate, RollBack, Goto, HookSteps, Shapes
  <2>1. CASE GateRefuses(t) \/ BrokerRefuses(t) \/ BalanceCached(t)
    BY <2>0, <2>1 DEF Shapes, GateRefuses, BrokerRefuses, BalanceCached, procVars, modeVars,
       fileVars, exitVars, historyVars
  <2>2. CASE BrokerRequest(t)
    BY <2>0, <2>2 DEF Shapes, BrokerRequest, procVars, fileVars, exitVars, historyVars
  <2>3. CASE EnterSettings(t)
    <3>1. store' \in [Sessions -> Tokens \cup {None}]
      BY <2>3 DEF Shapes, EnterSettings, RollBack
    <3>2. journal' \in Urls \cup {Unset, None}
      BY <2>3 DEF Shapes, EnterSettings, Compatible
    <3>3. overlap' \in BOOLEAN
      BY <2>3 DEF Shapes, EnterSettings
    <3>4. QED BY <2>0, <2>3, <3>1, <3>2, <3>3 DEF Shapes, EnterSettings, procVars, exitVars
  <2>4. CASE WriteSettings(t)
    <3>1. store' \in [Sessions -> Tokens \cup {None}]
      BY <2>4 DEF Shapes, WriteSettings, RollBack
    <3>2. QED BY <2>0, <2>4, <3>1 DEF Shapes, WriteSettings, procVars, exitVars, historyVars
  <2>5. CASE Activate(t)
    <3>1. orphaned' \in BOOLEAN BY <2>5 DEF Activate
    <3>2. QED BY <2>0, <2>5, <3>1 DEF Shapes, Activate, procVars, fileVars, exitVars
  <2>6. QED BY <1>4, <2>1, <2>2, <2>3, <2>4, <2>5 DEF HookStep
<1>5. ASSUME NEW t \in Tokens, Expire(t) \/ Settle(t) \/ HandleSettlement(t) PROVE Shapes'
  BY <1>5 DEF Shapes, Expire, Settle, HandleSettlement, procVars, modeVars, fileVars,
     exitVars, historyVars
<1>6. ASSUME NEW e \in Exiters, ExitStep(e) PROVE Shapes'
  <2>0. exit' \in [Exiters -> [step : ExitSteps, session : Sessions \cup {None}]]
    BY <1>6, SMTT(60) DEF ExitStep, ExitStore, Deactivate, RestoreSettings, DeleteJournal, StripSettings,
       ExitGoto, IdleExit, ExitSteps, Shapes
  <2>1. CASE ExitStore(e)
    BY <2>0, <2>1 DEF Shapes, ExitStore, procVars, fileVars, historyVars
  <2>2. CASE Deactivate(e)
    BY <2>0, <2>2 DEF Shapes, Deactivate, procVars, fileVars, historyVars
  <2>3. CASE RestoreSettings(e)
    BY <2>0, <2>3 DEF Shapes, RestoreSettings, procVars, modeVars
  <2>4. CASE DeleteJournal(e)
    BY <2>0, <2>4 DEF Shapes, DeleteJournal, procVars, modeVars
  <2>5. CASE StripSettings(e)
    BY <2>0, <2>5 DEF Shapes, StripSettings, procVars, modeVars
  <2>6. QED BY <1>6, <2>1, <2>2, <2>3, <2>4, <2>5 DEF ExitStep
<1>7. ASSUME NEW s \in Sessions, ReapNext(s) \/ SessionEnd(s) PROVE Shapes'
  <2>1. exit' \in [Exiters -> [step : ExitSteps, session : Sessions \cup {None}]]
    BY <1>7 DEF Shapes, ReapNext, SessionEnd, ExitSteps
  <2>2. QED
    BY <1>7, <2>1 DEF Shapes, ReapNext, SessionEnd, procVars, modeVars, fileVars, historyVars
<1>8. CASE Stop
  BY <1>8 DEF Shapes, Stop, fileVars, IdleExit, HookSteps, ExitSteps
<1>9. CASE Start
  BY <1>9 DEF Shapes, Start, Urls, modeVars, fileVars, exitVars, historyVars
<1>10. CASE EditSettings \/ SnapshotAges
  BY <1>10 DEF Shapes, EditSettings, SnapshotAges, procVars, modeVars, fileVars, exitVars,
     historyVars
<1>11. ASSUME NEW t \in Tokens, NEW s \in Sessions, StopFailure(t, s) PROVE Shapes'
  BY <1>11 DEF Shapes, StopFailure, procVars, modeVars, fileVars, exitVars, historyVars, HookSteps
<1>12. ASSUME NEW s \in Sessions, Route(s) PROVE Shapes'
  BY <1>12 DEF Shapes, Route, procVars, modeVars, fileVars, exitVars, historyVars
<1>13. CASE UNCHANGED vars
  BY <1>13 DEF Shapes, vars
<1>14. QED
  BY <1>1, <1>2, <1>3, <1>4, <1>5, <1>6, <1>7, <1>8, <1>9, <1>10, <1>11, <1>12, <1>13
     DEF Next, Progress

-----------------------------------------------------------------------------
(* Hooks, their sessions and their pending settlements.                    *)

\* A hook keeps its session, and a settlement becomes pending with its entry
\* and goes with it.
LEMMA NextPending ==
  TypeOK /\ HooksHaveSessions /\ PendingIsActive /\ [Next]_vars
    => HooksHaveSessions' /\ PendingIsActive'
<1> SUFFICES ASSUME TypeOK, HooksHaveSessions, PendingIsActive, [Next]_vars
             PROVE  HooksHaveSessions' /\ PendingIsActive'
  OBVIOUS
<1> USE Distinct DEF TypeOK, HooksHaveSessions, PendingIsActive, Session, At
<1>1. CASE UNCHANGED <<hook, pending, active>>
  BY <1>1
<1>2. CASE FetchReturns
  BY <1>2 DEF FetchReturns, modeVars, Shapes
<1>3. ASSUME NEW t \in Tokens, HookStep(t) PROVE HooksHaveSessions' /\ PendingIsActive'
  <2>1. CASE \E step \in HookSteps : Goto(t, step) /\ hook[t].step \notin {"none", "done"}
                                   /\ UNCHANGED <<pending, active>>
    BY <2>1 DEF Goto, Shapes
  <2>2. CASE Activate(t)
    BY <2>2 DEF Activate, Goto, Shapes
  <2>3. QED
    BY <1>3, <2>1, <2>2 DEF HookStep, GateRefuses, BrokerRefuses, BalanceCached, BrokerRequest,
       EnterSettings, WriteSettings, RollBack, HookSteps, modeVars
<1>4. ASSUME NEW t \in Tokens, Settle(t) PROVE HooksHaveSessions' /\ PendingIsActive'
  BY <1>4 DEF Settle
<1>5. ASSUME NEW e \in Exiters, Deactivate(e) PROVE HooksHaveSessions' /\ PendingIsActive'
  BY <1>5 DEF Deactivate, Shapes
<1>6. CASE Stop
  BY <1>6 DEF Stop, Shapes
<1>7. ASSUME NEW t \in Tokens, NEW s \in Sessions, StopFailure(t, s)
      PROVE  HooksHaveSessions' /\ PendingIsActive'
  BY <1>7 DEF StopFailure, modeVars, Shapes
<1>8. QED
  BY <1>1, <1>2, <1>3, <1>4, <1>5, <1>6, <1>7
     DEF Next, Progress, WriteDiscovery, ReapExpired, Expire, ExitStep, ExitStore, RestoreSettings,
         DeleteJournal, StripSettings, ReapNext, Start, EditSettings, SnapshotAges,
         HandleSettlement, Route, SessionEnd, modeVars, vars

\* An exit is started for a session and keeps it until it ends.
LEMMA NextExitSessions ==
  ASSUME TypeOK, ExitsHaveSessions, [Next]_vars PROVE ExitsHaveSessions'
<1> USE DEF TypeOK, Shapes, ExitsHaveSessions
<1>1. CASE UNCHANGED exit
  BY <1>1
<1>2. ASSUME NEW e \in Exiters, NEW step, ExitGoto(e, step), exit[e].step # "idle"
      PROVE  ExitsHaveSessions'
  BY <1>2 DEF ExitGoto, IdleExit
<1>3. ASSUME NEW e \in Exiters, ExitStep(e) PROVE ExitsHaveSessions'
  BY <1>2, <1>3, SMTT(60) DEF ExitStep, ExitStore, Deactivate, RestoreSettings, DeleteJournal, StripSettings,
     ExitAt
<1>4. ASSUME NEW s \in Sessions, ReapNext(s) \/ SessionEnd(s) PROVE ExitsHaveSessions'
  BY <1>4, SMTT(60) DEF ReapNext, SessionEnd
<1>5. CASE Stop
  BY <1>5 DEF Stop, IdleExit
<1>6. QED
  BY <1>1, <1>3, <1>4, <1>5
     DEF Next, Progress, HookStep, WriteDiscovery, FetchReturns, ReapExpired, GateRefuses,
         BrokerRefuses, BalanceCached, BrokerRequest, EnterSettings, WriteSettings, Activate,
         Expire, Settle, Start, EditSettings, SnapshotAges, StopFailure, HandleSettlement, Route,
         exitVars, vars

-----------------------------------------------------------------------------
(* The lock of settings.json and its journal.                              *)

\* What a step may do to the lock, the files and the exits: take or release
\* the lock for one call, or leave all of them alone.
QuietStep ==
  /\ UNCHANGED <<fileVars, overlap>>
  /\ \A t \in Tokens : At(t, "writing")' <=> At(t, "writing")
  /\ \A e \in Exiters : ExitAt(e, "unlink")' <=> ExitAt(e, "unlink")

\* All steps but those of EnterNetworkMode and ExitNetworkMode, a stop and the
\* user's edits are quiet.
LEMMA QuietSteps ==
  ASSUME TypeOK, [Next]_vars
  PROVE  \/ QuietStep
         \/ Stop \/ EditSettings
         \/ \E t \in Tokens : EnterSettings(t) \/ WriteSettings(t)
         \/ \E e \in Exiters : RestoreSettings(e) \/ DeleteJournal(e) \/ StripSettings(e)
<1> USE DEF QuietStep, At, ExitAt, TypeOK, Shapes
<1>1. CASE FetchReturns
  BY <1>1 DEF FetchReturns, fileVars, exitVars, historyVars
<1>2. ASSUME NEW t \in Tokens,
             \/ GateRefuses(t) \/ BrokerRefuses(t) \/ BalanceCached(t) \/ BrokerRequest(t)
             \/ Activate(t)
      PROVE  QuietStep
  BY <1>2 DEF GateRefuses, BrokerRefuses, BalanceCached, BrokerRequest, Activate, Goto, fileVars,
     exitVars, historyVars
<1>3. ASSUME NEW e \in Exiters, ExitStore(e) \/ Deactivate(e) PROVE QuietStep
  BY <1>3 DEF ExitStore, Deactivate, ExitGoto, IdleExit, fileVars, historyVars
<1>4. ASSUME NEW s \in Sessions, ReapNext(s) \/ SessionEnd(s) PROVE QuietStep
  BY <1>4 DEF ReapNext, SessionEnd, Exiters, fileVars, historyVars
<1>5. ASSUME NEW t \in Tokens, NEW s \in Sessions, StopFailure(t, s) PROVE QuietStep
  BY <1>5 DEF StopFailure, fileVars, exitVars, historyVars
<1>6. CASE UNCHANGED <<hook, exit, fileVars, overlap>>
  BY <1>6
<1>7. QED
  BY <1>1, <1>2, <1>3, <1>4, <1>5, <1>6
     DEF Next, Progress, HookStep, ExitStep, WriteDiscovery, ReapExpired, Expire, Settle, Start,
         SnapshotAges, HandleSettlement, Route, modeVars, fileVars, exitVars, historyVars, vars

\* A hook goes to its next step and leaves the others where they are.
LEMMA GotoMoves ==
  ASSUME TypeOK, NEW t \in Tokens, NEW step, Goto(t, step)
  PROVE  \A u \in Tokens : hook'[u].step = IF u = t THEN step ELSE hook[u].step
BY DEF TypeOK, Shapes, Goto

\* An exit goes to its next step and leaves the others where they are.
LEMMA ExitGotoMoves ==
  ASSUME TypeOK, NEW e \in Exiters, NEW step, ExitGoto(e, step)
  PROVE  \A f \in Exiters : exit'[f].step = IF f = e THEN step ELSE exit[f].step
BY DEF TypeOK, Shapes, ExitGoto, IdleExit

\* One call at a time holds the lock, and what it is about to do to the files
\* leaves no redirect without its journal.
LEMMA NextLock ==
  ASSUME TypeOK, LockExclusive, LockJournals, RedirectIsJournaled, [Next]_vars
  PROVE  LockExclusive' /\ LockJournals' /\ RedirectIsJournaled'
<1> USE Distinct DEF LockExclusive, LockJournals, RedirectIsJournaled, SettingsFree, At, ExitAt
<1>1. CASE QuietStep
  BY <1>1 DEF QuietStep, fileVars
<1>2. CASE Stop
  BY <1>2 DEF Stop, IdleExit, fileVars, TypeOK, Shapes
<1>3. CASE EditSettings
  BY <1>3 DEF EditSettings, exitVars, historyVars
<1>4. ASSUME NEW t \in Tokens, EnterSettings(t)
      PROVE  LockExclusive' /\ LockJournals' /\ RedirectIsJournaled'
  <2>1. CASE Compatible /\ journal' = base /\ overlap' = (overlap \/ base = url)
             /\ Goto(t, "writing")
    <3>1. \A u \in Tokens : hook'[u].step = IF u = t THEN "writing" ELSE hook[u].step
      BY <2>1, GotoMoves, SMTT(60)
    <3>2. journal' # None /\ (base \in Urls => overlap')
      BY <2>1 DEF Compatible, TypeOK, Shapes
    <3>3. QED BY <1>4, <2>1, <3>1, <3>2, SMTT(60) DEF EnterSettings, exitVars
  <2>2. CASE Goto(t, "done") /\ UNCHANGED <<journal, overlap>>
    <3>1. \A u \in Tokens : hook'[u].step = IF u = t THEN "done" ELSE hook[u].step
      BY <2>2, GotoMoves, ZenonT(60)
    <3>2. QED BY <1>4, <2>2, <3>1, SMTT(60) DEF EnterSettings, exitVars
  <2>3. QED BY <1>4, <2>1, <2>2 DEF EnterSettings, RollBack
<1>5. ASSUME NEW t \in Tokens, WriteSettings(t)
      PROVE  LockExclusive' /\ LockJournals' /\ RedirectIsJournaled'
  <2>1. PICK step \in {"activating", "done"} : Goto(t, step)
    BY <1>5 DEF WriteSettings, RollBack
  <2>2. \A u \in Tokens : hook'[u].step = IF u = t THEN step ELSE hook[u].step
    BY <2>1, GotoMoves
  <2>3. SettingsFree'
    BY <1>5, <2>1, <2>2 DEF WriteSettings, exitVars
  <2>4. LockExclusive'
    BY <2>3
  <2>5. QED BY <1>5, <2>3, <2>4 DEF WriteSettings, historyVars
<1>6. ASSUME NEW e \in Exiters, RestoreSettings(e)
      PROVE  LockExclusive' /\ LockJournals' /\ RedirectIsJournaled'
  <2>1. CASE journal # None /\ base' = journal /\ ExitGoto(e, "unlink")
    <3>1. \A f \in Exiters : exit'[f].step = IF f = e THEN "unlink" ELSE exit[f].step
      BY <2>1, ExitGotoMoves
    <3>2. QED BY <1>6, <2>1, <3>1 DEF RestoreSettings
  <2>2. CASE ExitGoto(e, "strip") /\ UNCHANGED base
    <3>1. \A f \in Exiters : exit'[f].step = IF f = e THEN "strip" ELSE exit[f].step
      BY <2>2, ExitGotoMoves
    <3>2. QED BY <1>6, <2>2, <3>1 DEF RestoreSettings
  <2>3. QED BY <1>6, <2>1, <2>2 DEF RestoreSettings
<1>7. ASSUME NEW e \in Exiters, DeleteJournal(e)
      PROVE  LockExclusive' /\ LockJournals' /\ RedirectIsJournaled'
  <2>1. PICK step \in {"idle", "strip"} : ExitGoto(e, step)
    BY <1>7 DEF DeleteJournal
  <2>2. \A f \in Exiters : exit'[f].step = IF f = e THEN step ELSE exit[f].step
    BY <2>1, ExitGotoMoves
  <2>3. QED BY <1>7, <2>1, <2>2 DEF DeleteJournal
<1>8. ASSUME NEW e \in Exiters, StripSettings(e)
      PROVE  LockExclusive' /\ LockJournals' /\ RedirectIsJournaled'
  BY <1>8 DEF StripSettings, ExitGoto, IdleExit, TypeOK, Shapes
<1>9. QED BY QuietSteps, <1>1, <1>2, <1>3, <1>4, <1>5, <1>6, <1>7, <1>8

-----------------------------------------------------------------------------
(* Who undoes the redirect.                                                *)

\* What the steps do to the owners of the redirect.
SameOwners == Owners' = Owners
OwnerMoves(x, y) == x \in Owners /\ y \notin Owners /\ Owners' = (Owners \ {x}) \cup {y}

\* An owner that is replaced by a new one leaves as many.
LEMMA OwnersMove ==
  ASSUME NEW S, NEW T, NEW x \in S, NEW y, y \notin S, T = (S \ {x}) \cup {y}
  PROVE  T # {} /\ (Several(S) => Several(T))
BY DEF Several

\* Of several owners one may go.
LEMMA OwnersLeave ==
  ASSUME NEW S, NEW x, Several(S) PROVE S \ {x} # {}
BY DEF Several

\* Who owns, by kind.
LEMMA OwnerKinds ==
  /\ \A s : <<"entry", s>> \in Owners <=> s \in Sessions /\ active[s] # None
  /\ \A t : <<"hook", t>> \in Owners <=> t \in Tokens /\ At(t, "activating")
  /\ \A e : <<"exit", e>> \in Owners <=> e \in Exiters /\ (ExitAt(e, "restore") \/ ExitAt(e, "strip"))
BY DEF Owners

\* The owners follow the entries, hooks and exits.
LEMMA OwnersSame ==
  ASSUME \A s \in Sessions : (active[s] # None)' <=> active[s] # None,
         \A t \in Tokens : At(t, "activating")' <=> At(t, "activating"),
         \A e \in Exiters : (ExitAt(e, "restore") \/ ExitAt(e, "strip"))'
                            <=> ExitAt(e, "restore") \/ ExitAt(e, "strip")
  PROVE  SameOwners
BY DEF SameOwners, Owners

\* A step that leaves the owners, the files and the lock alone.
StandStill == SameOwners /\ UNCHANGED <<up, url, fileVars, orphaned>> /\ (SettingsFree' <=> SettingsFree)

\* All steps but those of entering and leaving network mode, the sidecar's
\* start and stop and the user's edits stand still.
LEMMA StandingStill ==
  ASSUME TypeOK, [Next]_vars
  PROVE  \/ StandStill
         \/ Stop \/ Start \/ EditSettings
         \/ \E t \in Tokens : EnterSettings(t) \/ WriteSettings(t) \/ Activate(t)
         \/ \E e \in Exiters : Deactivate(e) \/ RestoreSettings(e) \/ DeleteJournal(e)
                               \/ StripSettings(e)
<1> USE DEF StandStill, SettingsFree, At, ExitAt
<1>1. CASE FetchReturns
  <2>1. SameOwners
    BY <1>1, OwnersSame DEF FetchReturns, modeVars, exitVars, TypeOK, Shapes
  <2>2. QED
    BY <1>1, <2>1 DEF FetchReturns, procVars, fileVars, exitVars, historyVars, TypeOK, Shapes
<1>2. ASSUME NEW t \in Tokens,
             GateRefuses(t) \/ BrokerRefuses(t) \/ BalanceCached(t) \/ BrokerRequest(t)
      PROVE  StandStill
  <2>1. PICK step \in {"done", "brokering", "balance", "journaling"} :
           Goto(t, step) /\ hook[t].step \in {"probing", "brokering"}
    BY <1>2 DEF GateRefuses, BrokerRefuses, BalanceCached, BrokerRequest
  <2>2. \A u \in Tokens : hook'[u].step = IF u = t THEN step ELSE hook[u].step
    BY <2>1, GotoMoves
  <2>3. UNCHANGED <<up, url, active, fileVars, exit, orphaned>>
    BY <1>2 DEF GateRefuses, BrokerRefuses, BalanceCached, BrokerRequest, procVars, modeVars,
       exitVars, historyVars
  <2>4. SameOwners
    BY <2>1, <2>2, <2>3, OwnersSame
  <2>5. QED BY <2>1, <2>2, <2>3, <2>4
<1>3. ASSUME NEW e \in Exiters, ExitStore(e) PROVE StandStill
  <2>1. \A f \in Exiters : exit'[f].step = IF f = e THEN "deactivate" ELSE exit[f].step
    BY <1>3, ExitGotoMoves DEF ExitStore
  <2>2. SameOwners
    BY <1>3, <2>1, OwnersSame DEF ExitStore
  <2>3. QED BY <1>3, <2>1, <2>2 DEF ExitStore, procVars, historyVars
<1>4. ASSUME NEW s \in Sessions, ReapNext(s) \/ SessionEnd(s) PROVE StandStill
  <2>1. PICK e \in Exiters : /\ ExitAt(e, "idle")
                             /\ exit' = [exit EXCEPT ![e] = [step |-> "store", session |-> s]]
    BY <1>4 DEF ReapNext, SessionEnd, Exiters
  <2>2. \A f \in Exiters : exit'[f].step = IF f = e THEN "store" ELSE exit[f].step
    BY <2>1 DEF TypeOK, Shapes
  <2>3. UNCHANGED <<up, url, active, fileVars, hook, orphaned>>
    BY <1>4 DEF ReapNext, SessionEnd, procVars, modeVars, historyVars
  <2>4. SameOwners
    BY <2>1, <2>2, <2>3, OwnersSame
  <2>5. QED BY <2>1, <2>2, <2>3, <2>4
<1>5. ASSUME NEW t \in Tokens, NEW s \in Sessions, StopFailure(t, s) PROVE StandStill
  <2>1. \A u \in Tokens : hook'[u].step = IF u = t THEN "probing" ELSE hook[u].step
    BY <1>5 DEF StopFailure, TypeOK, Shapes
  <2>2. SameOwners
    BY <1>5, <2>1, OwnersSame DEF StopFailure, modeVars, exitVars
  <2>3. QED BY <1>5, <2>1, <2>2 DEF StopFailure, procVars, exitVars, historyVars
<1>6. CASE UNCHANGED <<up, url, hook, active, exit, fileVars, orphaned>>
  <2>1. SameOwners BY <1>6, OwnersSame
  <2>2. QED BY <1>6, <2>1
<1>7. QED
  BY <1>1, <1>2, <1>3, <1>4, <1>5, <1>6
     DEF Next, Progress, HookStep, ExitStep, WriteDiscovery, ReapExpired, Expire, Settle,
         SnapshotAges, HandleSettlement, Route, procVars, modeVars, fileVars, exitVars,
         historyVars, vars

\* The part of the invariant that is about who undoes the redirect.
Owned == DownForgets /\ JournalIsCurrent /\ RedirectIsOwned

\* Whoever writes or restores a redirect leaves someone who will undo it.
LEMMA NextOwned ==
  ASSUME TypeOK, HooksHaveSessions, ExitsHaveSessions, LockExclusive, LockJournals, Owned,
         [Next]_vars
  PROVE  Owned'
<1> USE Distinct DEF Owned, DownForgets, JournalIsCurrent, RedirectIsOwned
<1>0. url \in Urls /\ (base \in Urls \/ base \in {Unset, UserURL})
      /\ (journal \in Urls \/ journal \in {Unset, None}) /\ url \in Nat
  BY DEF TypeOK, Shapes
<1>1. CASE StandStill
  BY <1>0, <1>1 DEF StandStill, SameOwners, fileVars
<1>2. CASE Stop
  <2>1. Owners' = {} /\ SettingsFree'
    BY <1>2 DEF Stop, Owners, SettingsFree, At, ExitAt, IdleExit, TypeOK, Shapes
  <2>2. QED BY <1>0, <1>2, <2>1 DEF Stop, fileVars
<1>3. CASE Start
  <2>1. SameOwners
    BY <1>3, OwnersSame DEF Start, modeVars, exitVars, At, ExitAt
  <2>2. SettingsFree' <=> SettingsFree
    BY <1>3 DEF Start, SettingsFree, exitVars, At
  <2>3. url' = url + 1 /\ UNCHANGED <<base, journal, orphaned>> /\ ~up
    BY <1>3 DEF Start, fileVars, historyVars
  <2>4. Owners' = {} /\ SettingsFree' /\ ~(base \in Urls /\ ~orphaned)
    BY <2>1, <2>2, <2>3 DEF SameOwners
  <2>5. journal' = url' => FALSE
    BY <1>0, <2>3
  <2>6. journal' \in Urls => journal' <= url'
    BY <1>0, <2>3
  <2>7. QED BY <1>3, <2>3, <2>4, <2>5, <2>6 DEF Start
<1>4. CASE EditSettings
  <2>1. SameOwners
    BY <1>4, OwnersSame DEF EditSettings, modeVars, exitVars, At, ExitAt
  <2>2. SettingsFree' <=> SettingsFree
    BY <1>4 DEF EditSettings, SettingsFree, exitVars, At
  <2>3. QED BY <1>0, <1>4, <2>1, <2>2 DEF EditSettings, SameOwners, procVars, historyVars
<1>5. ASSUME NEW t \in Tokens, EnterSettings(t) PROVE Owned'
  <2>1. UNCHANGED <<up, url, active, base, exit, orphaned>> /\ up /\ SettingsFree
        /\ At(t, "journaling")
    BY <1>5 DEF EnterSettings, procVars, exitVars
  <2>2. CASE Compatible /\ journal' = base /\ Goto(t, "writing")
    <3>1. \A u \in Tokens : hook'[u].step = IF u = t THEN "writing" ELSE hook[u].step
      BY <2>2, GotoMoves
    <3>2. SameOwners BY <2>1, <3>1, OwnersSame DEF At, ExitAt
    <3>3. ~SettingsFree' BY <3>1 DEF SettingsFree, At
    <3>4. base \in Urls => base = url /\ base <= url
      BY <1>0, <2>2 DEF Compatible
    <3>5. DownForgets' /\ JournalIsCurrent'
      BY <2>1, <2>2, <3>4
    <3>6. RedirectIsOwned'
      BY <1>0, <2>1, <2>2, <3>2, <3>3 DEF SameOwners
    <3>7. QED BY <3>5, <3>6
  <2>3. CASE Goto(t, "done") /\ UNCHANGED journal
    <3>1. \A u \in Tokens : hook'[u].step = IF u = t THEN "done" ELSE hook[u].step
      BY <2>3, GotoMoves
    <3>2. SameOwners BY <2>1, <3>1, OwnersSame DEF At, ExitAt
    <3>3. SettingsFree' BY <2>1, <3>1 DEF SettingsFree, At
    <3>4. QED BY <1>0, <2>1, <2>3, <3>2, <3>3 DEF SameOwners
  <2>4. QED BY <1>5, <2>2, <2>3 DEF EnterSettings, RollBack
<1>6. ASSUME NEW t \in Tokens, WriteSettings(t) PROVE Owned'
  <2>1. UNCHANGED <<up, url, active, exit, orphaned>> /\ up /\ At(t, "writing")
    BY <1>6 DEF WriteSettings, procVars, exitVars, historyVars
  <2>2. CASE base' = url /\ Goto(t, "activating") /\ UNCHANGED journal
    <3>1. \A u \in Tokens : hook'[u].step = IF u = t THEN "activating" ELSE hook[u].step
      BY <2>2, GotoMoves
    <3>2. Owners' = Owners \cup {<<"hook", t>>} /\ <<"hook", t>> \notin Owners
      BY <2>1, <3>1 DEF Owners, At, ExitAt
    <3>3. Owners # {} => Several(Owners')
      BY <3>2 DEF Several
    <3>4. ~SettingsFree BY <2>1 DEF SettingsFree
    <3>5. Owners' # {} BY <3>2
    <3>6. QED BY <1>0, <2>1, <2>2, <3>3, <3>4, <3>5
  <2>3. CASE journal' = None /\ Goto(t, "done") /\ UNCHANGED base
    <3>1. \A u \in Tokens : hook'[u].step = IF u = t THEN "done" ELSE hook[u].step
      BY <2>3, GotoMoves
    <3>2. SameOwners BY <2>1, <3>1, OwnersSame DEF At, ExitAt
    <3>3. QED BY <1>0, <2>1, <2>3, <3>2 DEF SameOwners
  <2>4. QED BY <1>6, <2>2, <2>3 DEF WriteSettings, RollBack
<1>7. ASSUME NEW t \in Tokens, Activate(t) PROVE Owned'
  <2> DEFINE s == Session(t)
  <2>1. UNCHANGED <<up, url, base, journal, exit>> /\ up /\ At(t, "activating")
    BY <1>7 DEF Activate, procVars, fileVars, exitVars
  <2>2. s \in Sessions
    BY <2>1 DEF HooksHaveSessions, At
  <2>3. \A u \in Tokens : hook'[u].step = IF u = t THEN "done" ELSE hook[u].step
    BY <1>7, GotoMoves DEF Activate
  <2>4. \A r \in Sessions : active'[r] = IF r = s THEN t ELSE active[r]
    BY <1>7 DEF Activate, TypeOK, Shapes
  <2>5. t # None OBVIOUS
  <2>6. Owners' = (Owners \ {<<"hook", t>>}) \cup {<<"entry", s>>} /\ <<"hook", t>> \in Owners
    BY <2>1, <2>2, <2>3, <2>4, <2>5 DEF Owners, At, ExitAt
  <2>7. SettingsFree' <=> SettingsFree
    BY <2>1, <2>3 DEF SettingsFree, At
  <2>8. Owners # {} /\ Owners' # {}
    BY <2>6
  <2>9. ~orphaned' => ~orphaned /\ active[s] = None
    BY <1>7 DEF Activate
  <2>10. active[s] = None => <<"entry", s>> \notin Owners
    BY OwnerKinds
  <2>11. ~orphaned' => (Several(Owners) => Several(Owners'))
    BY <2>6, <2>9, <2>10, OwnersMove
  <2>12. QED BY <1>0, <2>1, <2>7, <2>8, <2>9, <2>11
<1>8. ASSUME NEW e \in Exiters, Deactivate(e) PROVE Owned'
  <2> DEFINE s == exit[e].session
  <2>1. UNCHANGED <<up, url, base, journal, hook, orphaned>> /\ up /\ ExitAt(e, "deactivate")
    BY <1>8 DEF Deactivate, procVars, fileVars, historyVars
  <2>2. s \in Sessions
    BY <2>1 DEF ExitsHaveSessions, ExitAt
  <2>3. \A r \in Sessions : active'[r] = IF r = s THEN None ELSE active[r]
    BY <1>8 DEF Deactivate, TypeOK, Shapes
  <2>4. CASE active[s] # None
    <3>1. \A f \in Exiters : exit'[f].step = IF f = e THEN "restore" ELSE exit[f].step
      BY <1>8, <2>4, ExitGotoMoves DEF Deactivate
    <3>2. Owners' = (Owners \ {<<"entry", s>>}) \cup {<<"exit", e>>}
      BY <2>1, <2>2, <2>3, <3>1 DEF Owners, At, ExitAt
    <3>3. <<"entry", s>> \in Owners /\ <<"exit", e>> \notin Owners
      BY <2>1, <2>2, <2>4, OwnerKinds DEF ExitAt
    <3>4. Owners # {} /\ Owners' # {} /\ (Several(Owners) => Several(Owners'))
      BY <3>2, <3>3, OwnersMove
    <3>5. SettingsFree' <=> SettingsFree
      BY <2>1, <3>1 DEF SettingsFree, At, ExitAt
    <3>6. QED BY <1>0, <2>1, <3>4, <3>5
  <2>5. CASE active[s] = None
    <3>1. \A f \in Exiters : exit'[f].step = IF f = e THEN "idle" ELSE exit[f].step
      BY <1>8, <2>5, ExitGotoMoves DEF Deactivate
    <3>2. SameOwners
      BY <2>1, <2>3, <2>5, <3>1, OwnersSame DEF At, ExitAt
    <3>3. SettingsFree' <=> SettingsFree
      BY <2>1, <3>1 DEF SettingsFree, At, ExitAt
    <3>4. QED BY <1>0, <2>1, <3>2, <3>3 DEF SameOwners
  <2>6. QED BY <2>4, <2>5
<1>9. ASSUME NEW e \in Exiters, RestoreSettings(e) PROVE Owned'
  <2>1. /\ UNCHANGED <<up, url, active, journal, hook>> /\ up /\ ExitAt(e, "restore")
        /\ SettingsFree
    BY <1>9 DEF RestoreSettings, procVars, modeVars
  <2>2. <<"exit", e>> \in Owners
    BY <2>1, OwnerKinds
  <2>3. CASE base' = journal /\ ExitGoto(e, "unlink") /\ UNCHANGED orphaned /\ journal # None
    <3>1. \A f \in Exiters : exit'[f].step = IF f = e THEN "unlink" ELSE exit[f].step
      BY <2>3, ExitGotoMoves
    <3>2. Owners' = Owners \ {<<"exit", e>>}
      BY <2>1, <3>1 DEF Owners, At, ExitAt
    <3>3. Owners # {} /\ (Several(Owners) => Owners' # {})
      BY <2>2, <3>2, OwnersLeave
    <3>4. ~SettingsFree'
      BY <3>1 DEF SettingsFree
    <3>5. QED BY <1>0, <2>1, <2>3, <3>3, <3>4
  <2>4. CASE ExitGoto(e, "strip") /\ UNCHANGED base /\ (UNCHANGED orphaned \/ orphaned')
    <3>1. \A f \in Exiters : exit'[f].step = IF f = e THEN "strip" ELSE exit[f].step
      BY <2>4, ExitGotoMoves
    <3>2. SameOwners
      BY <2>1, <3>1, OwnersSame DEF At, ExitAt
    <3>3. SettingsFree'
      BY <2>1, <3>1 DEF SettingsFree, At
    <3>4. QED BY <1>0, <2>1, <2>4, <3>2, <3>3 DEF SameOwners
  <2>5. QED BY <1>9, <2>3, <2>4 DEF RestoreSettings
<1>10. ASSUME NEW e \in Exiters, DeleteJournal(e) PROVE Owned'
  <2>1. UNCHANGED <<up, url, active, base, hook>> /\ up /\ ExitAt(e, "unlink")
    BY <1>10 DEF DeleteJournal, procVars, modeVars
  <2>2. CASE journal' = None /\ ExitGoto(e, "idle") /\ UNCHANGED orphaned
    <3>1. \A f \in Exiters : exit'[f].step = IF f = e THEN "idle" ELSE exit[f].step
      BY <2>2, ExitGotoMoves
    <3>2. SameOwners
      BY <2>1, <3>1, OwnersSame DEF At, ExitAt
    <3>3. QED BY <1>0, <2>1, <2>2, <3>2 DEF SameOwners
  <2>3. CASE orphaned' /\ UNCHANGED journal
    <3>1. ~SettingsFree
      BY <2>1 DEF SettingsFree, ExitAt
    <3>2. QED BY <1>0, <2>1, <2>3, <3>1
  <2>4. QED BY <1>10, <2>2, <2>3 DEF DeleteJournal
<1>11. ASSUME NEW e \in Exiters, StripSettings(e) PROVE Owned'
  <2>1. UNCHANGED <<up, url, active, journal, hook>> /\ up /\ ExitAt(e, "strip")
    BY <1>11 DEF StripSettings, procVars, modeVars
  <2>2. Owners # {}
    BY <2>1, OwnerKinds
  <2>3. CASE base' = (IF base = url THEN Unset ELSE base) /\ orphaned' = (orphaned \/ journal = url)
    BY <1>0, <2>1, <2>2, <2>3
  <2>4. CASE orphaned'
    BY <1>0, <2>1, <2>2, <2>4
  <2>5. QED BY <1>11, <2>3, <2>4 DEF StripSettings
<1>12. QED
  BY StandingStill, <1>1, <1>2, <1>3, <1>4, <1>5, <1>6, <1>7, <1>8, <1>9, <1>10, <1>11

-----------------------------------------------------------------------------
(* The theorems.                                                           *)

\* The inductive invariant holds in every state of every run.
LEMMA Invariance == Spec => []IInv
<1>1. IInv /\ [Next]_vars => IInv'
  <2> SUFFICES ASSUME IInv, [Next]_vars PROVE IInv' OBVIOUS
  <2>1. TypeOK' BY NextShapes, NextEvents DEF IInv, TypeOK
  <2>2. HooksHaveSessions' /\ PendingIsActive' BY NextPending DEF IInv
  <2>3. ExitsHaveSessions' BY NextExitSessions DEF IInv
  <2>4. LockExclusive' /\ LockJournals' /\ RedirectIsJournaled' BY NextLock DEF IInv
  <2>5. Owned' BY NextOwned DEF IInv, Owned
  <2>6. QED BY <2>1, <2>2, <2>3, <2>4, <2>5 DEF IInv, Owned
<1>2. QED BY InitIInv, <1>1, PTL DEF Spec

\* Whatever sessions enter, enter again, exit or are reaped, and wherever the
\* sidecar stops: no settlement is pending for a session that has left network
\* mode, and a redirect is in settings.json only while its journal is on disk
\* (exitNetworkMode, EnterNetworkMode).
THEOREM FallbackIsSafe == Spec => []FallbackInv
<1>1. IInv => FallbackInv BY DEF IInv, FallbackInv
<1>2. QED BY <1>1, Invariance, PTL

\* However many entries and exits overlap, the last exit leaves settings.json
\* without the sidecar's redirect, unless an entry lost its exit or its prior
\* state (exitNetworkMode, ExitNetworkMode, ExitNetworkModeBestEffort).
THEOREM LastExitRestores == Spec => []RestoredAtRest
<1>1. IInv => RestoredAtRest
  <2> SUFFICES ASSUME IInv, AtRest, ~orphaned PROVE base \notin Urls BY DEF RestoredAtRest
  <2>1. Owners = {}
    BY DEF AtRest, Owners, At, ExitAt
  <2>2. QED BY <2>1 DEF IInv, RedirectIsOwned
<1>2. QED BY <1>1, Invariance, PTL
=============================================================================
