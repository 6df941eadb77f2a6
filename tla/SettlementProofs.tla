-------------------------- MODULE SettlementProofs --------------------------
(***************************************************************************)
(* Safety of the request lifecycle for any number of requests, consumers,  *)
(* seeders and handler goroutines, and under every fault.                  *)
(*                                                                         *)
(* The second half is about Admission, the way a request takes before its  *)
(* Submit: for any number of requests and seeders, any queue size and any  *)
(* thresholds, a queued request is handed over once, the queue holds no    *)
(* request twice, and its heap stays in order.                             *)
(***************************************************************************)
EXTENDS Settlement, Admission, FiniteSetTheorems, WellFoundedInduction, TLAPS

\* The awaiter that releases and completes has written the entry.
FinishHasEntry ==
    \A t \in Reporters : report[t].pc = "finish" => entry[report[t].req] # "none"

\* A verdict of "verified" comes from a verified signature of this request.
VerdictIsTrue ==
    /\ \A r \in Requests : pending[r].verified => r \in verified
    /\ \A t \in Reporters :
          report[t].pc = "append" /\ ~report[t].missing => report[t].req \in verified

IInv ==
    /\ TypeOK
    /\ OneAwaiter
    /\ FinishHasEntry
    /\ CompletedIsPaid
    /\ VerdictIsTrue
    /\ SignedWasVerified

\* The inductive invariant holds when the tracker starts.
LEMMA InitIInv == Init => IInv
<1> SUFFICES ASSUME Init PROVE IInv OBVIOUS
<1>1. RequestType /\ SubmitType /\ ReportType
  BY DEF Init, RequestType, SubmitType, ReportType, States, Steps, IdleReport
<1>2. SettleType /\ OtherType
  BY DEF Init, SettleType, OtherType, States, NoPending, IdleSettle, IdleReaper, IdleAdmin
<1>3. QED
  BY <1>1, <1>2 DEF TypeOK, Init, IInv, OneAwaiter, Awaits, FinishHasEntry,
     CompletedIsPaid, VerdictIsTrue, SignedWasVerified, IdleReport, IdleSettle, NoPending

-----------------------------------------------------------------------------
(* Types.                                                                  *)

\* Reservations.Release keeps both maps well typed.
LEMMA ReleaseType ==
    ASSUME NEW r \in Requests, RequestType, Release(r)
    PROVE  slot' \in [Requests -> Nat] /\ DOMAIN reserved' = Consumers
BY DEF Release, RequestType

\* A CAS leaves every state a lifecycle state.
LEMMA TransitionType ==
    ASSUME NEW r, NEW from, NEW to \in States, RequestType, Transition(r, from, to)
    PROVE  state' \in [Requests -> States]
BY DEF Transition, RequestType

\* DecLoad stops at 0.
LEMMA DecLoadType ==
    ASSUME NEW s, RequestType, DecLoad(s)
    PROVE  load' \in [Seeders -> Nat]
BY DEF DecLoad, RequestType

\* IncLoad of a registered seeder.
LEMMA IncLoadType ==
    ASSUME NEW s \in Seeders, RequestType, IncLoad(s)
    PROVE  load' \in [Seeders -> Nat]
BY DEF IncLoad, RequestType

\* Submit moves on with the candidate it has.
LEMMA SubmitMove ==
    ASSUME NEW r \in Requests, NEW p \in {"new", "select", "load", "offer", "done"}, SubmitType,
           p \in {"load", "offer"} => submit[r].cand \in Seeders,
           submit' = [submit EXCEPT ![r].pc = p], tried' = tried
    PROVE  SubmitType'
BY DEF SubmitType

\* A handler past its guards keeps its request.
LEMMA GotoType ==
    ASSUME NEW t \in Reporters, NEW p \in Steps, ReportType, report[t].pc # "idle", Goto(t, p)
    PROVE  ReportType'
BY DEF Goto, ReportType

\* awaitSettle's decision.
LEMMA DecideType ==
    ASSUME NEW t \in Reporters, NEW p \in Steps, NEW m \in BOOLEAN, ReportType, report[t].pc # "idle",
           report' = [report EXCEPT ![t].pc = p, ![t].missing = m]
    PROVE  ReportType'
BY DEF ReportType

\* Every step keeps the types, action by action.
LEMMA NextType == TypeOK /\ [Next]_vars => TypeOK'
<1> SUFFICES ASSUME TypeOK, [Next]_vars PROVE TypeOK' OBVIOUS
<1> USE DEF TypeOK, requestVars, submitVars, settleVars
<1>1. ASSUME NEW r \in Requests, Submit(r) PROVE TypeOK'
  <2>1. RequestType'
    BY <1>1, SettlementAssumption DEF Submit, RequestType, States
  <2>2. SubmitType'
    BY <1>1, SubmitMove DEF Submit, SubmitType
  <2>3. ReportType' /\ SettleType' /\ OtherType'
    BY <1>1 DEF Submit, ReportType, SettleType, OtherType
  <2>4. QED BY <2>1, <2>2, <2>3
<1>2. ASSUME NEW r \in Requests, Match(r) PROVE TypeOK'
  <2>1. SubmitType'
    BY <1>2 DEF Match, SubmitType, Pick
  <2>2. RequestType' /\ ReportType' /\ SettleType' /\ OtherType'
    BY <1>2 DEF Match, RequestType, ReportType, SettleType, OtherType
  <2>3. QED BY <2>1, <2>2
<1>3. ASSUME NEW r \in Requests, NoCapacity(r) PROVE TypeOK'
  <2>1. RequestType'
    BY <1>3, ReleaseType, TransitionType DEF NoCapacity, RequestType, FailAndRelease, States
  <2>2. SubmitType'
    BY <1>3, SubmitMove DEF NoCapacity, SubmitType
  <2>3. ReportType' /\ SettleType' /\ OtherType'
    BY <1>3 DEF NoCapacity, ReportType, SettleType, OtherType
  <2>4. QED BY <2>1, <2>2, <2>3
<1>4. ASSUME NEW r \in Requests, Offer(r) PROVE TypeOK'
  <2>1. RequestType'
    BY <1>4, IncLoadType DEF Offer, RequestType, SubmitType
  <2>2. SubmitType'
    BY <1>4, SubmitMove DEF Offer, SubmitType
  <2>3. ReportType' /\ SettleType' /\ OtherType'
    BY <1>4 DEF Offer, ReportType, SettleType, OtherType
  <2>4. QED BY <2>1, <2>2, <2>3
<1>5. ASSUME NEW r \in Requests, OfferReject(r) PROVE TypeOK'
  <2>1. RequestType'
    BY <1>5, DecLoadType DEF OfferReject, RequestType
  <2>2. SubmitType'
    BY <1>5 DEF OfferReject, SubmitType
  <2>3. ReportType' /\ SettleType' /\ OtherType'
    BY <1>5 DEF OfferReject, ReportType, SettleType, OtherType
  <2>4. QED BY <2>1, <2>2, <2>3
<1>6. ASSUME NEW r \in Requests, OfferAccept(r) PROVE TypeOK'
  <2>1. RequestType'
    BY <1>6, ReleaseType, TransitionType, DecLoadType DEF OfferAccept, RequestType,
       FailAndRelease, States, SubmitType
  <2>2. SubmitType'
    BY <1>6, SubmitMove DEF OfferAccept, SubmitType
  <2>3. ReportType' /\ SettleType' /\ OtherType'
    BY <1>6 DEF OfferAccept, ReportType, SettleType, OtherType
  <2>4. QED BY <2>1, <2>2, <2>3
<1>7. ASSUME NEW r \in Requests, OfferCancel(r) PROVE TypeOK'
  <2>1. RequestType'
    BY <1>7, ReleaseType, TransitionType, DecLoadType DEF OfferCancel, RequestType,
       FailAndRelease, States
  <2>2. SubmitType'
    BY <1>7, SubmitMove DEF OfferCancel, SubmitType
  <2>3. ReportType' /\ SettleType' /\ OtherType'
    BY <1>7 DEF OfferCancel, ReportType, SettleType, OtherType
  <2>4. QED BY <2>1, <2>2, <2>3
<1>8. ASSUME NEW t \in Reporters, ReportServe(t) PROVE TypeOK'
  <2>1. RequestType'
    BY <1>8, TransitionType DEF ReportServe, RequestType, States
  <2>2. ReportType'
    BY <1>8, GotoType DEF ReportServe, ReportType, Steps
  <2>3. SubmitType' /\ SettleType' /\ OtherType'
    BY <1>8 DEF ReportServe, SubmitType, SettleType, OtherType
  <2>4. QED BY <2>1, <2>2, <2>3
<1>9. ASSUME NEW t \in Reporters, ReportIndex(t) PROVE TypeOK'
  <2>1. ReportType'
    BY <1>9, GotoType DEF ReportIndex, ReportType, Steps
  <2>2. SettleType'
    BY <1>9 DEF ReportIndex, SettleType
  <2>3. RequestType' /\ SubmitType' /\ OtherType'
    BY <1>9 DEF ReportIndex, RequestType, SubmitType, OtherType
  <2>4. QED BY <2>1, <2>2, <2>3
<1>10. ASSUME NEW t \in Reporters, ReportPending(t) PROVE TypeOK'
  <2>1. ReportType'
    <3>1. CASE pending[report[t].req].open
      <4>1. report' = [report EXCEPT ![t] = IdleReport]
        BY <1>10, <3>1 DEF ReportPending
      <4>2. QED BY <4>1 DEF ReportType, Steps, IdleReport
    <3>2. CASE ~pending[report[t].req].open
      <4>1. report[t].pc = "gate" /\ Goto(t, "wait") /\ "wait" \in Steps
        BY <1>10, <3>2 DEF ReportPending, Steps
      <4>2. QED BY <4>1, GotoType
    <3>3. QED BY <3>1, <3>2
  <2>2. SettleType'
    <3>1. CASE pending[report[t].req].open
      BY <1>10, <3>1 DEF ReportPending, SettleType
    <3>2. CASE ~pending[report[t].req].open
      <4>1. pending' = [pending EXCEPT ![report[t].req] = Fresh]
        BY <1>10, <3>2 DEF ReportPending
      <4>2. UNCHANGED <<sig, settle, verified>>
        BY <1>10 DEF ReportPending
      <4>3. QED BY <4>1, <4>2 DEF SettleType, Fresh
    <3>3. QED BY <3>1, <3>2
  <2>3. RequestType' /\ SubmitType' /\ OtherType'
    BY <1>10 DEF ReportPending, RequestType, SubmitType, OtherType
  <2>4. QED BY <2>1, <2>2, <2>3
<1>11. ASSUME NEW t \in Reporters, WaitTimer(t) PROVE TypeOK'
  <2>1. ReportType'
    BY <1>11, DecideType DEF WaitTimer, ReportType, Steps
  <2>2. RequestType' /\ SubmitType' /\ SettleType' /\ OtherType'
    BY <1>11 DEF WaitTimer, RequestType, SubmitType, SettleType, OtherType
  <2>3. QED BY <2>1, <2>2
<1>12. ASSUME NEW t \in Reporters, AppendUsage(t) PROVE TypeOK'
  <2>1. ReportType'
    BY <1>12, GotoType DEF AppendUsage, ReportType, Steps
  <2>2. OtherType'
    BY <1>12 DEF AppendUsage, OtherType
  <2>3. RequestType' /\ SubmitType' /\ SettleType'
    BY <1>12 DEF AppendUsage, RequestType, SubmitType, SettleType
  <2>4. QED BY <2>1, <2>2, <2>3
<1>13. ASSUME NEW t \in Reporters, AppendFailed(t) PROVE TypeOK'
  <2>1. RequestType'
    BY <1>13, TransitionType DEF AppendFailed, RequestType, States
  <2>2. ReportType'
    BY <1>13, GotoType DEF AppendFailed, ReportType, Steps
  <2>3. SubmitType' /\ SettleType' /\ OtherType'
    BY <1>13 DEF AppendFailed, SubmitType, SettleType, OtherType
  <2>4. QED BY <2>1, <2>2, <2>3
<1>14. ASSUME NEW t \in Reporters, Finish(t) PROVE TypeOK'
  <2>1. RequestType'
    <3>1. report[t].req \in Requests
      BY <1>14 DEF Finish, ReportType
    <3>2. slot' \in [Requests -> Nat] /\ DOMAIN reserved' = Consumers
      BY <1>14, <3>1, ReleaseType DEF Finish
    <3>3. state' \in [Requests -> States]
      BY <1>14, TransitionType DEF Finish, States
    <3>4. load' \in [Seeders -> Nat]
      BY <1>14, DecLoadType DEF Finish
    <3>5. QED BY <1>14, <3>2, <3>3, <3>4 DEF Finish, RequestType
  <2>2. ReportType'
    BY <1>14, GotoType DEF Finish, ReportType, Steps
  <2>3. SubmitType' /\ SettleType' /\ OtherType'
    BY <1>14 DEF Finish, SubmitType, SettleType, OtherType
  <2>4. QED BY <2>1, <2>2, <2>3
<1>15. ASSUME NEW t \in Reporters, DropPending(t) PROVE TypeOK'
  <2>1. ReportType'
    BY <1>15 DEF DropPending, ReportType, IdleReport, Steps
  <2>2. SettleType'
    BY <1>15 DEF DropPending, SettleType, NoPending
  <2>3. RequestType' /\ SubmitType' /\ OtherType'
    BY <1>15 DEF DropPending, RequestType, SubmitType, OtherType
  <2>4. QED BY <2>1, <2>2, <2>3
<1>16. ASSUME NEW t \in Reporters, ReportReject(t) PROVE TypeOK'
  <2>1. ReportType'
    BY <1>16 DEF ReportReject, ReportType, IdleReport, Steps
  <2>2. RequestType' /\ SubmitType' /\ SettleType' /\ OtherType'
    BY <1>16 DEF ReportReject, RequestType, SubmitType, SettleType, OtherType
  <2>3. QED BY <2>1, <2>2
<1>17. ASSUME NEW t \in Reporters, WaitSig(t) PROVE TypeOK'
  <2>1. ReportType'
    BY <1>17, DecideType DEF WaitSig, ReportType, SettleType, Steps
  <2>2. SettleType'
    BY <1>17 DEF WaitSig, SettleType
  <2>3. RequestType' /\ SubmitType' /\ OtherType'
    BY <1>17 DEF WaitSig, RequestType, SubmitType, OtherType
  <2>4. QED BY <2>1, <2>2, <2>3
<1>18. ASSUME NEW t \in Reporters, WaitStop(t) PROVE TypeOK'
  <2>1. ReportType'
    BY <1>18, GotoType DEF WaitStop, ReportType, Steps
  <2>2. RequestType' /\ SubmitType' /\ SettleType' /\ OtherType'
    BY <1>18 DEF WaitStop, RequestType, SubmitType, SettleType, OtherType
  <2>3. QED BY <2>1, <2>2
<1>19. ASSUME NEW t \in Reporters, NEW r \in Requests, ReportGuard(t, r) PROVE TypeOK'
  <2>1. ReportType'
    BY <1>19 DEF ReportGuard, ReportType, Steps
  <2>2. RequestType' /\ SubmitType' /\ SettleType' /\ OtherType'
    BY <1>19 DEF ReportGuard, RequestType, SubmitType, SettleType, OtherType
  <2>3. QED BY <2>1, <2>2
<1>20. ASSUME NEW h \in Settlers, NEW r \in Requests, SettleUnverifiable(h, r) PROVE TypeOK'
  <2>1. SettleType'
    BY <1>20 DEF SettleUnverifiable, SettleType
  <2>2. RequestType' /\ SubmitType' /\ ReportType' /\ OtherType'
    BY <1>20 DEF SettleUnverifiable, RequestType, SubmitType, ReportType, OtherType
  <2>3. QED BY <2>1, <2>2
<1>21. ASSUME NEW h \in Settlers, NEW r \in Requests, SettleVerified(h, r) PROVE TypeOK'
  <2>1. SettleType'
    BY <1>21, ZenonT(60) DEF SettleVerified, SettleType
  <2>2. RequestType' /\ SubmitType' /\ ReportType' /\ OtherType'
    BY <1>21 DEF SettleVerified, RequestType, SubmitType, ReportType, OtherType
  <2>3. QED BY <2>1, <2>2
<1>22. ASSUME NEW h \in Settlers, NEW r \in Requests, SettleRefused(h, r) PROVE TypeOK'
  <2>1. SettleType'
    BY <1>22, ZenonT(60) DEF SettleRefused, SettleType
  <2>2. RequestType' /\ SubmitType' /\ ReportType' /\ OtherType'
    BY <1>22 DEF SettleRefused, RequestType, SubmitType, ReportType, OtherType
  <2>3. QED BY <2>1, <2>2
<1>23. ASSUME NEW h \in Settlers, SettleSend(h) PROVE TypeOK'
  <2>1. SettleType'
    BY <1>23 DEF SettleSend, SettleType, IdleSettle
  <2>2. RequestType' /\ SubmitType' /\ ReportType' /\ OtherType'
    BY <1>23 DEF SettleSend, RequestType, SubmitType, ReportType, OtherType
  <2>3. QED BY <2>1, <2>2
<1>24. ASSUME NEW S \in SUBSET Requests, SweepExpired(S) PROVE TypeOK'
  <2>1. RequestType'
    BY <1>24 DEF SweepExpired, RequestType
  <2>2. OtherType'
    BY <1>24 DEF SweepExpired, OtherType, States
  <2>3. SubmitType' /\ ReportType' /\ SettleType'
    BY <1>24 DEF SweepExpired, SubmitType, ReportType, SettleType
  <2>4. QED BY <2>1, <2>2, <2>3
<1>25. ASSUME NEW r \in Requests, ReapRead(r) PROVE TypeOK'
  <2>1. OtherType'
    BY <1>25 DEF ReapRead, OtherType, RequestType
  <2>2. RequestType' /\ SubmitType' /\ ReportType' /\ SettleType'
    BY <1>25 DEF ReapRead, RequestType, SubmitType, ReportType, SettleType
  <2>3. QED BY <2>1, <2>2
<1>26. ASSUME ReapSwitch PROVE TypeOK'
  <2>1. OtherType'
    BY <1>26 DEF ReapSwitch, OtherType, RequestType
  <2>2. RequestType' /\ SubmitType' /\ ReportType' /\ SettleType'
    BY <1>26 DEF ReapSwitch, RequestType, SubmitType, ReportType, SettleType
  <2>3. QED BY <2>1, <2>2
<1>27. ASSUME ReapFail PROVE TypeOK'
  <2>1. RequestType'
    BY <1>27, TransitionType, DecLoadType DEF ReapFail, RequestType, States
  <2>2. OtherType'
    BY <1>27 DEF ReapFail, OtherType, IdleReaper, States
  <2>3. SubmitType' /\ ReportType' /\ SettleType'
    BY <1>27 DEF ReapFail, SubmitType, ReportType, SettleType
  <2>4. QED BY <2>1, <2>2, <2>3
<1>28. ASSUME NEW r \in Requests, ForceRelease(r) PROVE TypeOK'
  <2>1. RequestType'
    BY <1>28, ReleaseType DEF ForceRelease, RequestType
  <2>2. SubmitType' /\ ReportType' /\ SettleType' /\ OtherType'
    BY <1>28 DEF ForceRelease, SubmitType, ReportType, SettleType, OtherType
  <2>3. QED BY <2>1, <2>2
<1>29. ASSUME NEW r \in Requests, ForceFailLookup(r) PROVE TypeOK'
  <2>1. OtherType'
    BY <1>29 DEF ForceFailLookup, OtherType, RequestType
  <2>2. RequestType' /\ SubmitType' /\ ReportType' /\ SettleType'
    BY <1>29 DEF ForceFailLookup, RequestType, SubmitType, ReportType, SettleType
  <2>3. QED BY <2>1, <2>2
<1>30. ASSUME ForceFail PROVE TypeOK'
  <2>1. RequestType'
    BY <1>30, DecLoadType DEF ForceFail, RequestType, States
  <2>2. OtherType'
    BY <1>30 DEF ForceFail, OtherType, IdleAdmin
  <2>3. SubmitType' /\ ReportType' /\ SettleType'
    BY <1>30 DEF ForceFail, SubmitType, ReportType, SettleType
  <2>4. QED BY <2>1, <2>2, <2>3
<1>31. ASSUME Close PROVE TypeOK'
  <2>1. OtherType'
    BY <1>31 DEF Close, OtherType
  <2>2. RequestType' /\ SubmitType' /\ ReportType' /\ SettleType'
    BY <1>31 DEF Close, RequestType, SubmitType, ReportType, SettleType
  <2>3. QED BY <2>1, <2>2
<1>32. CASE UNCHANGED vars
  BY <1>32 DEF vars, RequestType, SubmitType, ReportType, SettleType, OtherType
<1>33. QED
  BY <1>1, <1>2, <1>3, <1>4, <1>5, <1>6, <1>7, <1>8, <1>9, <1>10, <1>11, <1>12, <1>13, <1>14,
     <1>15, <1>16, <1>17, <1>18, <1>19, <1>20, <1>21, <1>22, <1>23, <1>24, <1>25, <1>26, <1>27,
     <1>28, <1>29, <1>30, <1>31, <1>32
     DEF Next, SubmitStep, ReportStep, ReaperStep

-----------------------------------------------------------------------------
(* The inductive step.                                                     *)

\* A step that neither opens nor closes a settlement keeps OneAwaiter.
LEMMA AwaitFrame ==
    ASSUME OneAwaiter,
           \A r \in Requests : pending'[r].open <=> pending[r].open,
           \A r \in Requests, t \in Reporters : Awaits(t, r)' <=> Awaits(t, r)
    PROVE  OneAwaiter'
BY DEF OneAwaiter

\* A request that enters no terminal state and gets no slot stays as paid as it was.
LEMMA PaidFrame ==
    ASSUME CompletedIsPaid, entry' = entry,
           \A r \in Requests : state'[r] = "Completed" => state[r] = "Completed" /\ slot'[r] \in {0, slot[r]}
    PROVE  CompletedIsPaid'
BY DEF CompletedIsPaid

\* Every step keeps the inductive invariant, action by action.
LEMMA NextIInv == IInv /\ [Next]_vars => IInv'
<1> SUFFICES ASSUME IInv, [Next]_vars PROVE IInv' OBVIOUS
<1> USE DEF IInv, requestVars, submitVars, settleVars
<1>0. TypeOK /\ TypeOK' /\ RequestType /\ ReportType /\ SettleType
  BY NextType DEF TypeOK
<1>1. ASSUME NEW r \in Requests, Submit(r) PROVE IInv'
  <2>1. CompletedIsPaid'
    BY <1>1, <1>0, PaidFrame DEF Submit, RequestType
  <2>2. OneAwaiter' /\ FinishHasEntry' /\ VerdictIsTrue' /\ SignedWasVerified'
    BY <1>1 DEF Submit, OneAwaiter, FinishHasEntry, VerdictIsTrue, SignedWasVerified, Awaits
  <2>3. QED BY <1>0, <2>1, <2>2
<1>2. ASSUME NEW r \in Requests, Match(r) PROVE IInv'
  BY <1>2, <1>0 DEF Match, OneAwaiter, Awaits, FinishHasEntry, CompletedIsPaid,
     VerdictIsTrue, SignedWasVerified
<1>3. ASSUME NEW r \in Requests, NoCapacity(r) PROVE IInv'
  <2>1. CompletedIsPaid'
    BY <1>3, <1>0, PaidFrame DEF NoCapacity, FailAndRelease, Release, Transition, RequestType
  <2>2. OneAwaiter' /\ FinishHasEntry' /\ VerdictIsTrue' /\ SignedWasVerified'
    BY <1>3 DEF NoCapacity, OneAwaiter, FinishHasEntry, VerdictIsTrue, SignedWasVerified, Awaits
  <2>3. QED BY <1>0, <2>1, <2>2
<1>4. ASSUME NEW r \in Requests, Offer(r) PROVE IInv'
  BY <1>4, <1>0 DEF Offer, OneAwaiter, Awaits, FinishHasEntry, CompletedIsPaid,
     VerdictIsTrue, SignedWasVerified
<1>5. ASSUME NEW r \in Requests, OfferReject(r) PROVE IInv'
  BY <1>5, <1>0 DEF OfferReject, OneAwaiter, Awaits, FinishHasEntry, CompletedIsPaid,
     VerdictIsTrue, SignedWasVerified
<1>6. ASSUME NEW r \in Requests, OfferAccept(r) PROVE IInv'
  <2>1. CompletedIsPaid'
    BY <1>6, <1>0, PaidFrame DEF OfferAccept, FailAndRelease, Release, Transition, RequestType
  <2>2. OneAwaiter' /\ FinishHasEntry' /\ VerdictIsTrue' /\ SignedWasVerified'
    BY <1>6 DEF OfferAccept, OneAwaiter, FinishHasEntry, VerdictIsTrue, SignedWasVerified, Awaits
  <2>3. QED BY <1>0, <2>1, <2>2
<1>7. ASSUME NEW r \in Requests, OfferCancel(r) PROVE IInv'
  <2>1. CompletedIsPaid'
    BY <1>7, <1>0, PaidFrame DEF OfferCancel, FailAndRelease, Release, Transition, RequestType
  <2>2. OneAwaiter' /\ FinishHasEntry' /\ VerdictIsTrue' /\ SignedWasVerified'
    BY <1>7 DEF OfferCancel, OneAwaiter, FinishHasEntry, VerdictIsTrue, SignedWasVerified, Awaits
  <2>3. QED BY <1>0, <2>1, <2>2
<1>8. ASSUME NEW t \in Reporters, ReportServe(t) PROVE IInv'
  <2>1. OneAwaiter'
    BY <1>8, <1>0, AwaitFrame DEF ReportServe, Goto, Awaits, ReportType, SettleType
  <2>2. FinishHasEntry'
    BY <1>8, <1>0 DEF ReportServe, Goto, FinishHasEntry, ReportType
  <2>3. VerdictIsTrue'
    BY <1>8, <1>0 DEF ReportServe, Goto, VerdictIsTrue, ReportType, SettleType
  <2>4. CompletedIsPaid'
    BY <1>8, <1>0, PaidFrame DEF ReportServe, Transition, RequestType
  <2>5. SignedWasVerified'
    BY <1>8 DEF ReportServe, SignedWasVerified
  <2>6. QED BY <1>0, <2>1, <2>2, <2>3, <2>4, <2>5
<1>9. ASSUME NEW t \in Reporters, ReportIndex(t) PROVE IInv'
  <2>1. OneAwaiter'
    BY <1>9, <1>0, AwaitFrame DEF ReportIndex, Goto, Awaits, ReportType, SettleType
  <2>2. FinishHasEntry'
    BY <1>9, <1>0 DEF ReportIndex, Goto, FinishHasEntry, ReportType
  <2>3. VerdictIsTrue'
    BY <1>9, <1>0 DEF ReportIndex, Goto, VerdictIsTrue, ReportType, SettleType
  <2>4. CompletedIsPaid' /\ SignedWasVerified'
    BY <1>9 DEF ReportIndex, CompletedIsPaid, SignedWasVerified
  <2>5. QED BY <1>0, <2>1, <2>2, <2>3, <2>4
<1>10. ASSUME NEW t \in Reporters, ReportPending(t) PROVE IInv'
  <2>1. OneAwaiter'
    <3>1. CASE pending[report[t].req].open
      <4>1. report' = [report EXCEPT ![t] = IdleReport] /\ pending' = pending /\ report[t].pc = "gate"
        BY <1>10, <3>1 DEF ReportPending
      <4>2. QED BY <4>1, <1>0, AwaitFrame DEF Awaits, ReportType, IdleReport
    <3>2. CASE ~pending[report[t].req].open
      <4>1. /\ report' = [report EXCEPT ![t].pc = "wait"]
            /\ pending' = [pending EXCEPT ![report[t].req] = Fresh]
            /\ report[t].pc = "gate" /\ report[t].req \in Requests
        BY <1>10, <3>2, <1>0 DEF ReportPending, Goto, ReportType
      <4>2. \A u \in Reporters : ~Awaits(u, report[t].req)
        BY <4>1, <3>2 DEF OneAwaiter
      <4>3. \A r \in Requests, u \in Reporters :
               Awaits(u, r)' <=> (Awaits(u, r) \/ (u = t /\ r = report[t].req))
        BY <4>1, <1>0 DEF Awaits, ReportType
      <4>4. \A r \in Requests : pending'[r].open <=> (pending[r].open \/ r = report[t].req)
        BY <4>1, <1>0 DEF Fresh, SettleType
      <4>5. QED BY <4>1, <4>2, <4>3, <4>4 DEF OneAwaiter
    <3>3. QED BY <3>1, <3>2
  <2>2. FinishHasEntry'
    BY <1>10, <1>0 DEF ReportPending, Goto, IdleReport, Fresh, FinishHasEntry, ReportType
  <2>3. VerdictIsTrue'
    BY <1>10, <1>0, SMTT(60) DEF ReportPending, Goto, IdleReport, Fresh, VerdictIsTrue, ReportType, SettleType
  <2>4. CompletedIsPaid' /\ SignedWasVerified'
    BY <1>10 DEF ReportPending, CompletedIsPaid, SignedWasVerified
  <2>5. QED BY <1>0, <2>1, <2>2, <2>3, <2>4
<1>11. ASSUME NEW t \in Reporters, WaitTimer(t) PROVE IInv'
  <2>1. OneAwaiter'
    BY <1>11, <1>0, AwaitFrame DEF WaitTimer, Awaits, ReportType, SettleType
  <2>2. FinishHasEntry'
    BY <1>11, <1>0 DEF WaitTimer, FinishHasEntry, ReportType
  <2>3. VerdictIsTrue'
    BY <1>11, <1>0 DEF WaitTimer, VerdictIsTrue, ReportType, SettleType
  <2>4. CompletedIsPaid' /\ SignedWasVerified'
    BY <1>11 DEF WaitTimer, CompletedIsPaid, SignedWasVerified
  <2>5. QED BY <1>0, <2>1, <2>2, <2>3, <2>4
<1>12. ASSUME NEW t \in Reporters, AppendUsage(t) PROVE IInv'
  <2>1. OneAwaiter'
    BY <1>12, <1>0, AwaitFrame DEF AppendUsage, Goto, Awaits, ReportType, SettleType
  <2>2. FinishHasEntry'
    BY <1>12, <1>0 DEF AppendUsage, Goto, FinishHasEntry, ReportType, TypeOK, OtherType
  <2>3. VerdictIsTrue'
    BY <1>12, <1>0 DEF AppendUsage, Goto, VerdictIsTrue, ReportType, SettleType
  <2>4. SignedWasVerified'
    BY <1>12, <1>0 DEF AppendUsage, SignedWasVerified, VerdictIsTrue, ReportType, TypeOK, OtherType
  <2>5. CompletedIsPaid'
    BY <1>12, <1>0 DEF AppendUsage, CompletedIsPaid, TypeOK, OtherType
  <2>6. QED BY <1>0, <2>1, <2>2, <2>3, <2>4, <2>5
<1>13. ASSUME NEW t \in Reporters, AppendFailed(t) PROVE IInv'
  <2>1. OneAwaiter'
    BY <1>13, <1>0, AwaitFrame DEF AppendFailed, Goto, Awaits, ReportType, SettleType
  <2>2. FinishHasEntry'
    BY <1>13, <1>0 DEF AppendFailed, Goto, FinishHasEntry, ReportType
  <2>3. VerdictIsTrue'
    BY <1>13, <1>0 DEF AppendFailed, Goto, VerdictIsTrue, ReportType, SettleType
  <2>4. CompletedIsPaid'
    BY <1>13, <1>0, PaidFrame DEF AppendFailed, Transition, RequestType
  <2>5. SignedWasVerified'
    BY <1>13 DEF AppendFailed, SignedWasVerified
  <2>6. QED BY <1>0, <2>1, <2>2, <2>3, <2>4, <2>5
<1>14. ASSUME NEW t \in Reporters, Finish(t) PROVE IInv'
  <2>1. OneAwaiter'
    BY <1>14, <1>0, AwaitFrame DEF Finish, Goto, Awaits, ReportType, SettleType
  <2>2. FinishHasEntry'
    BY <1>14, <1>0 DEF Finish, Goto, FinishHasEntry, ReportType
  <2>3. VerdictIsTrue'
    BY <1>14, <1>0 DEF Finish, Goto, VerdictIsTrue, ReportType, SettleType
  <2>4. CompletedIsPaid'
    BY <1>14, <1>0 DEF Finish, Release, Transition, CompletedIsPaid, FinishHasEntry,
       RequestType, ReportType
  <2>5. SignedWasVerified'
    BY <1>14 DEF Finish, SignedWasVerified
  <2>6. QED BY <1>0, <2>1, <2>2, <2>3, <2>4, <2>5
<1>15. ASSUME NEW t \in Reporters, DropPending(t) PROVE IInv'
  <2>1. OneAwaiter'
    <3>1. Awaits(t, report[t].req) /\ report[t].req \in Requests
      BY <1>15, <1>0 DEF DropPending, Awaits, ReportType
    <3>2. \A r \in Requests, u \in Reporters : Awaits(u, r)' <=> (Awaits(u, r) /\ u # t)
      BY <1>15, <1>0 DEF DropPending, Awaits, ReportType, IdleReport
    <3>3. \A r \in Requests : pending'[r].open <=> (pending[r].open /\ r # report[t].req)
      BY <1>15, <1>0, <3>1 DEF DropPending, NoPending, SettleType
    <3>4. \A r \in Requests : Awaits(t, r) <=> r = report[t].req
      BY <3>1 DEF Awaits
    <3>5. QED BY <3>1, <3>2, <3>3, <3>4 DEF OneAwaiter
  <2>2. FinishHasEntry'
    BY <1>15, <1>0 DEF DropPending, IdleReport, NoPending, FinishHasEntry, ReportType
  <2>3. VerdictIsTrue'
    BY <1>15, <1>0 DEF DropPending, IdleReport, NoPending, VerdictIsTrue, ReportType, SettleType
  <2>4. CompletedIsPaid' /\ SignedWasVerified'
    BY <1>15 DEF DropPending, CompletedIsPaid, SignedWasVerified
  <2>5. QED BY <1>0, <2>1, <2>2, <2>3, <2>4
<1>16. ASSUME NEW t \in Reporters, ReportReject(t) PROVE IInv'
  <2>1. OneAwaiter'
    BY <1>16, <1>0, AwaitFrame DEF ReportReject, IdleReport, Awaits, ReportType, SettleType
  <2>2. FinishHasEntry'
    BY <1>16, <1>0 DEF ReportReject, IdleReport, FinishHasEntry, ReportType
  <2>3. VerdictIsTrue'
    BY <1>16, <1>0 DEF ReportReject, IdleReport, VerdictIsTrue, ReportType, SettleType
  <2>4. CompletedIsPaid' /\ SignedWasVerified'
    BY <1>16 DEF ReportReject, CompletedIsPaid, SignedWasVerified
  <2>5. QED BY <1>0, <2>1, <2>2, <2>3, <2>4
<1>17. ASSUME NEW t \in Reporters, WaitSig(t) PROVE IInv'
  <2>1. OneAwaiter'
    BY <1>17, <1>0, AwaitFrame DEF WaitSig, Awaits, ReportType, SettleType
  <2>2. FinishHasEntry'
    BY <1>17, <1>0 DEF WaitSig, FinishHasEntry, ReportType
  <2>3. VerdictIsTrue'
    BY <1>17, <1>0 DEF WaitSig, VerdictIsTrue, ReportType, SettleType
  <2>4. CompletedIsPaid' /\ SignedWasVerified'
    BY <1>17 DEF WaitSig, CompletedIsPaid, SignedWasVerified
  <2>5. QED BY <1>0, <2>1, <2>2, <2>3, <2>4
<1>18. ASSUME NEW t \in Reporters, WaitStop(t) PROVE IInv'
  <2>1. OneAwaiter'
    BY <1>18, <1>0, AwaitFrame DEF WaitStop, Goto, Awaits, ReportType, SettleType
  <2>2. FinishHasEntry'
    BY <1>18, <1>0 DEF WaitStop, Goto, FinishHasEntry, ReportType
  <2>3. VerdictIsTrue'
    BY <1>18, <1>0 DEF WaitStop, Goto, VerdictIsTrue, ReportType, SettleType
  <2>4. CompletedIsPaid' /\ SignedWasVerified'
    BY <1>18 DEF WaitStop, CompletedIsPaid, SignedWasVerified
  <2>5. QED BY <1>0, <2>1, <2>2, <2>3, <2>4
<1>19. ASSUME NEW t \in Reporters, NEW r \in Requests, ReportGuard(t, r) PROVE IInv'
  <2>1. OneAwaiter'
    BY <1>19, <1>0, AwaitFrame DEF ReportGuard, Awaits, ReportType, SettleType
  <2>2. FinishHasEntry'
    BY <1>19, <1>0 DEF ReportGuard, FinishHasEntry, ReportType
  <2>3. VerdictIsTrue'
    BY <1>19, <1>0 DEF ReportGuard, VerdictIsTrue, ReportType, SettleType
  <2>4. CompletedIsPaid' /\ SignedWasVerified'
    BY <1>19 DEF ReportGuard, CompletedIsPaid, SignedWasVerified
  <2>5. QED BY <1>0, <2>1, <2>2, <2>3, <2>4
<1>20. ASSUME NEW h \in Settlers, NEW r \in Requests, SettleUnverifiable(h, r) PROVE IInv'
  BY <1>20, <1>0 DEF SettleUnverifiable, OneAwaiter, Awaits, FinishHasEntry, CompletedIsPaid,
     VerdictIsTrue, SignedWasVerified
<1>21. ASSUME NEW h \in Settlers, NEW r \in Requests, SettleVerified(h, r) PROVE IInv'
  <2>1. OneAwaiter'
    BY <1>21, <1>0, AwaitFrame DEF SettleVerified, Awaits, ReportType, SettleType
  <2>2. VerdictIsTrue'
    BY <1>21, <1>0 DEF SettleVerified, VerdictIsTrue, ReportType, SettleType
  <2>3. SignedWasVerified'
    BY <1>21 DEF SettleVerified, SignedWasVerified
  <2>4. FinishHasEntry' /\ CompletedIsPaid'
    BY <1>21 DEF SettleVerified, FinishHasEntry, CompletedIsPaid
  <2>5. QED BY <1>0, <2>1, <2>2, <2>3, <2>4
<1>22. ASSUME NEW h \in Settlers, NEW r \in Requests, SettleRefused(h, r) PROVE IInv'
  <2>1. OneAwaiter'
    BY <1>22, <1>0, AwaitFrame DEF SettleRefused, Awaits, ReportType, SettleType
  <2>2. VerdictIsTrue'
    BY <1>22, <1>0 DEF SettleRefused, VerdictIsTrue, ReportType, SettleType
  <2>3. FinishHasEntry' /\ CompletedIsPaid' /\ SignedWasVerified'
    BY <1>22 DEF SettleRefused, FinishHasEntry, CompletedIsPaid, SignedWasVerified
  <2>4. QED BY <1>0, <2>1, <2>2, <2>3
<1>23. ASSUME NEW h \in Settlers, SettleSend(h) PROVE IInv'
  BY <1>23, <1>0 DEF SettleSend, OneAwaiter, Awaits, FinishHasEntry, CompletedIsPaid,
     VerdictIsTrue, SignedWasVerified
<1>24. ASSUME NEW S \in SUBSET Requests, SweepExpired(S) PROVE IInv'
  <2>1. CompletedIsPaid'
    BY <1>24, <1>0, PaidFrame DEF SweepExpired, RequestType
  <2>2. OneAwaiter' /\ FinishHasEntry' /\ VerdictIsTrue' /\ SignedWasVerified'
    BY <1>24 DEF SweepExpired, OneAwaiter, FinishHasEntry, VerdictIsTrue, SignedWasVerified, Awaits
  <2>3. QED BY <1>0, <2>1, <2>2
<1>25. ASSUME NEW r \in Requests, ReapRead(r) PROVE IInv'
  BY <1>25, <1>0 DEF ReapRead, OneAwaiter, Awaits, FinishHasEntry, CompletedIsPaid,
     VerdictIsTrue, SignedWasVerified
<1>26. ASSUME ReapSwitch PROVE IInv'
  BY <1>26, <1>0 DEF ReapSwitch, OneAwaiter, Awaits, FinishHasEntry, CompletedIsPaid,
     VerdictIsTrue, SignedWasVerified
<1>27. ASSUME ReapFail PROVE IInv'
  <2>1. CompletedIsPaid'
    BY <1>27, <1>0, PaidFrame DEF ReapFail, Transition, RequestType
  <2>2. OneAwaiter' /\ FinishHasEntry' /\ VerdictIsTrue' /\ SignedWasVerified'
    BY <1>27 DEF ReapFail, OneAwaiter, FinishHasEntry, VerdictIsTrue, SignedWasVerified, Awaits
  <2>3. QED BY <1>0, <2>1, <2>2
<1>28. ASSUME NEW r \in Requests, ForceRelease(r) PROVE IInv'
  <2>1. CompletedIsPaid'
    BY <1>28, <1>0, PaidFrame DEF ForceRelease, Release, RequestType
  <2>2. OneAwaiter' /\ FinishHasEntry' /\ VerdictIsTrue' /\ SignedWasVerified'
    BY <1>28 DEF ForceRelease, OneAwaiter, FinishHasEntry, VerdictIsTrue, SignedWasVerified, Awaits
  <2>3. QED BY <1>0, <2>1, <2>2
<1>29. ASSUME NEW r \in Requests, ForceFailLookup(r) PROVE IInv'
  BY <1>29, <1>0 DEF ForceFailLookup, OneAwaiter, Awaits, FinishHasEntry, CompletedIsPaid,
     VerdictIsTrue, SignedWasVerified
<1>30. ASSUME ForceFail PROVE IInv'
  <2>1. CompletedIsPaid'
    BY <1>30, <1>0, PaidFrame DEF ForceFail, RequestType
  <2>2. OneAwaiter' /\ FinishHasEntry' /\ VerdictIsTrue' /\ SignedWasVerified'
    BY <1>30 DEF ForceFail, OneAwaiter, FinishHasEntry, VerdictIsTrue, SignedWasVerified, Awaits
  <2>3. QED BY <1>0, <2>1, <2>2
<1>31. ASSUME Close PROVE IInv'
  BY <1>31, <1>0 DEF Close, OneAwaiter, Awaits, FinishHasEntry, CompletedIsPaid,
     VerdictIsTrue, SignedWasVerified
<1>32. CASE UNCHANGED vars
  BY <1>32, <1>0 DEF vars, OneAwaiter, Awaits, FinishHasEntry, CompletedIsPaid, VerdictIsTrue,
     SignedWasVerified
<1>33. QED
  BY <1>1, <1>2, <1>3, <1>4, <1>5, <1>6, <1>7, <1>8, <1>9, <1>10, <1>11, <1>12, <1>13, <1>14,
     <1>15, <1>16, <1>17, <1>18, <1>19, <1>20, <1>21, <1>22, <1>23, <1>24, <1>25, <1>26, <1>27,
     <1>28, <1>29, <1>30, <1>31, <1>32
     DEF Next, SubmitStep, ReportStep, ReaperStep

-----------------------------------------------------------------------------
(* Sums over finite sets.  Induction goes by the smallest counterexample.  *)

\* A non-empty set of naturals has a least element.
LEMMA NatMin ==
  ASSUME NEW S \in SUBSET Nat, S # {}
  PROVE  \E x \in S : \A y \in S : x <= y
<1> DEFINE R == {ss \in Nat \X Nat : ss[1] < ss[2]}
<1>1. IsWellFoundedOn(R, Nat)
  BY NatLessThanWellFounded, Zenon DEF OpToRel
<1> HIDE DEF R
<1>2. PICK x \in S : \A y \in S : ~ (<<y, x>> \in R)
  BY <1>1, WFMin, Zenon
<1>3. \A y \in S : x <= y
  <2> TAKE y \in S
  <2>1. x \in Nat /\ y \in Nat OBVIOUS
  <2>2. <<y, x>> \in Nat \X Nat /\ <<y, x>>[1] = y /\ <<y, x>>[2] = x BY <2>1
  <2>3. y < x => <<y, x>> \in R BY <2>2 DEF R
  <2>4. ~ (y < x) BY <1>2, <2>3
  <2>5. QED BY <2>1, <2>4
<1>4. QED BY <1>3

\* Induction over the subsets of a finite set: a non-empty set of them has one
\* that leaves it when any element is taken away.
LEMMA SetMin ==
  ASSUME NEW S, IsFiniteSet(S), NEW B \in SUBSET (SUBSET S), B # {}
  PROVE  \E s \in B : IsFiniteSet(s) /\ \A x \in s : s \ {x} \notin B
<1> DEFINE N == {Cardinality(s) : s \in B}
<1>1. \A s \in B : IsFiniteSet(s) /\ Cardinality(s) \in Nat
  BY FS_Subset, FS_CardinalityType
<1>2. N \in SUBSET Nat /\ N # {} BY <1>1
<1>3. PICK n \in N : \A m \in N : n <= m BY <1>2, NatMin
<1>4. PICK s \in B : n = Cardinality(s) BY <1>3
<1>5. ASSUME NEW x \in s, s \ {x} \in B PROVE FALSE
  <2>1. Cardinality(s \ {x}) = Cardinality(s) - 1 BY <1>1, <1>5, FS_RemoveElement
  <2>2. n <= Cardinality(s \ {x}) BY <1>3, <1>5
  <2>3. QED BY <1>1, <1>4, <2>1, <2>2
<1>6. QED BY <1>1, <1>5

\* What MapThenSumSet folds with.
First(s) == CHOOSE x \in s : TRUE
Sum(f, S) == MapThenSumSet(LAMBDA x : f[x], S)

Folded(f, S, g) ==
    g = [s \in SUBSET S |-> IF s = {} THEN 0 ELSE f[First(s)] + g[s \ {First(s)}]]

\* MapThenSumSet is such a fold, if there is one.
LEMMA SumIsFold ==
  ASSUME NEW f, NEW S, \E g : Folded(f, S, g)
  PROVE  \E g : Folded(f, S, g) /\ Sum(f, S) = g[S]
BY DEF Sum, MapThenSumSet, MapThenFoldSet, Folded, First

\* The element a fold takes is one of the set.
LEMMA FirstIn == ASSUME NEW s, s # {} PROVE First(s) \in s
BY DEF First

\* There is one: what folds the smaller sets folds the next larger ones as well.
LEMMA FoldExists ==
  ASSUME NEW S, IsFiniteSet(S), NEW f, \A x \in S : f[x] \in Int
  PROVE  \E g : g \in [SUBSET S -> Int] /\ Folded(f, S, g)
<1> DEFINE RHS(g, s) == IF s = {} THEN 0 ELSE f[First(s)] + g[s \ {First(s)}]
           Upto(g, n) == \A s \in SUBSET S : Cardinality(s) <= n => g[s] = RHS(g, s)
           Bad == {n \in Nat : \A g \in [SUBSET S -> Int] : ~ Upto(g, n)}
<1>1. \A s \in SUBSET S : IsFiniteSet(s) /\ Cardinality(s) \in Nat /\ Cardinality(s) <= Cardinality(S)
  BY FS_Subset, FS_CardinalityType
<1>2. Cardinality(S) \in Nat BY FS_CardinalityType
<1>3. ASSUME NEW g \in [SUBSET S -> Int], NEW s \in SUBSET S PROVE RHS(g, s) \in Int
  BY FirstIn
<1>4. Bad = {}
  <2> SUFFICES ASSUME Bad # {} PROVE FALSE OBVIOUS
  <2>1. PICK n \in Bad : \A m \in Bad : n <= m
    <3>1. Bad \in SUBSET Nat OBVIOUS
    <3> HIDE DEF Bad
    <3>2. QED BY <3>1, NatMin
  <2>2. CASE n = 0
    <3> DEFINE g == [s \in SUBSET S |-> 0]
    <3>1. g \in [SUBSET S -> Int] OBVIOUS
    <3>2. \A s \in SUBSET S : Cardinality(s) <= 0 => s = {}
      BY <1>1, FS_EmptySet
    <3>3. Upto(g, 0) BY <3>2
    <3>4. QED BY <2>1, <2>2, <3>1, <3>3
  <2>3. CASE n # 0
    <3>1. n \in Nat OBVIOUS
    <3>2. n - 1 \in Nat /\ n - 1 \notin Bad
      <4> HIDE DEF Bad
      <4>1. QED BY <2>1, <2>3, <3>1
    <3>3. PICK g \in [SUBSET S -> Int] : Upto(g, n - 1) BY <3>2
    <3> DEFINE h == [s \in SUBSET S |-> RHS(g, s)]
    <3>4. h \in [SUBSET S -> Int] BY <1>3
    <3>5. ASSUME NEW s \in SUBSET S, Cardinality(s) <= n PROVE h[s] = RHS(h, s)
      <4>1. CASE s = {} BY <4>1
      <4>2. CASE s # {}
        <5> DEFINE x == First(s)
        <5>1. x \in s BY <4>2, FirstIn
        <5>2. Cardinality(s \ {x}) = Cardinality(s) - 1 BY <1>1, <5>1, FS_RemoveElement
        <5>3. s \ {x} \in SUBSET S /\ Cardinality(s \ {x}) <= n - 1 BY <1>1, <3>2, <3>5, <5>2
        <5>4. g[s \ {x}] = RHS(g, s \ {x}) BY <3>3, <5>3
        <5>5. h[s \ {x}] = g[s \ {x}] BY <5>3, <5>4
        <5>6. QED BY <4>2, <5>5
      <4>3. QED BY <4>1, <4>2
    <3> HIDE DEF h
    <3>6. QED BY <2>1, <3>4, <3>5
  <2>4. QED BY <2>2, <2>3
<1>5. PICK g \in [SUBSET S -> Int] : Upto(g, Cardinality(S)) BY <1>2, <1>4
<1>6. \A s \in SUBSET S : g[s] = RHS(g, s) BY <1>1, <1>5
<1>7. g = [s \in SUBSET S |-> RHS(g, s)] BY <1>6
<1>8. QED BY <1>7 DEF Folded

\* A fold at the subsets of S.
LEMMA FoldStep ==
  ASSUME NEW S, NEW f, NEW g, Folded(f, S, g), NEW s \in SUBSET S
  PROVE  g[s] = IF s = {} THEN 0 ELSE f[First(s)] + g[s \ {First(s)}]
BY DEF Folded

\* Folds of functions that agree have the same value wherever both are defined.
LEMMA FoldUnique ==
  ASSUME NEW S, NEW T, IsFiniteSet(S), S \subseteq T, NEW f, NEW e, \A x \in S : f[x] = e[x],
         NEW g, NEW h, Folded(f, S, g), Folded(e, T, h)
  PROVE  g[S] = h[S]
<1> DEFINE Bad == {s \in SUBSET S : g[s] # h[s]}
<1> SUFFICES ASSUME Bad # {} PROVE FALSE OBVIOUS
<1>1. PICK s \in Bad : \A x \in s : s \ {x} \notin Bad
  <2>1. Bad \in SUBSET (SUBSET S) OBVIOUS
  <2> HIDE DEF Bad
  <2>2. QED BY <2>1, SetMin
<1>2. CASE s = {} BY <1>2, <1>1, FoldStep
<1>3. CASE s # {}
  <2> DEFINE x == First(s)
  <2>1. x \in s BY <1>3, FirstIn
  <2>2. g[s \ {x}] = h[s \ {x}] BY <1>1, <2>1
  <2>3. g[s] = f[x] + g[s \ {x}] /\ h[s] = e[x] + h[s \ {x}]
    <3>1. s \in SUBSET S /\ s \in SUBSET T OBVIOUS
    <3> HIDE DEF Bad
    <3>2. g[s] = f[x] + g[s \ {x}] BY <1>3, <3>1 DEF Folded
    <3>3. h[s] = e[x] + h[s \ {x}] BY <1>3, <3>1 DEF Folded
    <3>4. QED BY <3>2, <3>3
  <2>4. QED BY <1>1, <2>1, <2>2, <2>3
<1>4. QED BY <1>2, <1>3

\* The order in which a fold takes the elements does not matter.
AnyOrder(f, S, g) == \A y \in S : g[S] = f[y] + g[S \ {y}]
IntFold(f, S, g) == /\ IsFiniteSet(S) /\ (\A x \in S : f[x] \in Int) /\ g \in [SUBSET S -> Int]
                    /\ Folded(f, S, g)

\* Taking any element first gives the same value.
LEMMA FoldAny == ASSUME NEW S, NEW f, NEW g, IntFold(f, S, g) PROVE AnyOrder(f, S, g)
<1> USE DEF IntFold
<1> DEFINE Bad == {s \in SUBSET S : \E x \in s : g[s] # f[x] + g[s \ {x}]}
<1> SUFFICES ASSUME Bad # {} PROVE FALSE BY DEF AnyOrder
<1>1. PICK s \in Bad : \A x \in s : s \ {x} \notin Bad
  <2>1. Bad \in SUBSET (SUBSET S) OBVIOUS
  <2> HIDE DEF Bad
  <2>2. QED BY <2>1, SetMin
<1>2. PICK x \in s : g[s] # f[x] + g[s \ {x}] BY <1>1
<1> DEFINE c == First(s)
<1>3. c \in s BY <1>2, FirstIn
<1>4. g[s] = f[c] + g[s \ {c}] BY <1>1, <1>2, FoldStep
<1>5. x # c BY <1>2, <1>4
<1>6. g[s \ {c}] = f[x] + g[(s \ {c}) \ {x}] BY <1>1, <1>2, <1>3, <1>5
<1>7. g[s \ {x}] = f[c] + g[(s \ {x}) \ {c}] BY <1>1, <1>2, <1>3, <1>5
<1>8. (s \ {c}) \ {x} = (s \ {x}) \ {c} OBVIOUS
<1>9. f[c] \in Int /\ f[x] \in Int /\ g[(s \ {c}) \ {x}] \in Int BY <1>1, <1>2, <1>3
<1> DEFINE a == g[(s \ {c}) \ {x}]
<1>10. g[s] = f[c] + (f[x] + a) BY <1>4, <1>6
<1>11. g[s \ {x}] = f[c] + a BY <1>7, <1>8
<1> HIDE DEF a, c
<1>12. f[c] + (f[x] + a) = f[x] + (f[c] + a) BY <1>9 DEF a
<1>13. QED BY <1>2, <1>10, <1>11, <1>12

\* The sum is what every such fold comes to, on S and on the subsets of S.
LEMMA SumIs ==
  ASSUME NEW S, NEW T, IsFiniteSet(T), S \subseteq T, NEW f, \A x \in T : f[x] \in Int,
         NEW e, \A x \in S : f[x] = e[x], NEW g, Folded(f, T, g)
  PROVE  Sum(e, S) = g[S]
<1>1. IsFiniteSet(S) /\ \A x \in S : e[x] \in Int BY FS_Subset
<1>2. \E h : Folded(e, S, h) BY <1>1, FoldExists
<1>3. PICK h : Folded(e, S, h) /\ Sum(e, S) = h[S] BY <1>2, SumIsFold
<1>4. \A x \in S : e[x] = f[x] OBVIOUS
<1>5. h[S] = g[S] BY <1>1, <1>3, <1>4, FoldUnique
<1>6. QED BY <1>3, <1>5

\* A sum over nothing.
LEMMA SumEmpty == \A f : Sum(f, {}) = 0
<1> TAKE f
<1>1. IsFiniteSet({}) /\ \A x \in {} : f[x] \in Int BY FS_EmptySet
<1>2. PICK g : Folded(f, {}, g) BY <1>1, FoldExists
<1>3. Sum(f, {}) = g[{}] BY <1>1, <1>2, SumIs
<1>4. {} \in SUBSET {} OBVIOUS
<1>5. QED BY <1>2, <1>3, <1>4 DEF Folded

\* Functions that agree on a set have the same sum over it.
LEMMA SumAgrees ==
  ASSUME NEW S, IsFiniteSet(S), NEW f, NEW e, \A x \in S : f[x] \in Int /\ f[x] = e[x]
  PROVE  Sum(f, S) = Sum(e, S)
<1>1. PICK g : Folded(f, S, g) BY FoldExists
<1>2. Sum(f, S) = g[S] BY <1>1, SumIs
<1>3. Sum(e, S) = g[S] BY <1>1, SumIs
<1>4. QED BY <1>2, <1>3

\* A sum of integers is an integer.
LEMMA SumType ==
  ASSUME NEW S, IsFiniteSet(S), NEW f, \A x \in S : f[x] \in Int
  PROVE  Sum(f, S) \in Int
<1>1. PICK g : g \in [SUBSET S -> Int] /\ Folded(f, S, g) BY FoldExists
<1>2. Sum(f, S) = g[S] BY <1>1, SumIs
<1>3. QED BY <1>1, <1>2

\* Any element may be taken first.
LEMMA SumAdd ==
  ASSUME NEW S, IsFiniteSet(S), NEW f, \A x \in S : f[x] \in Int, NEW y \in S
  PROVE  Sum(f, S) = f[y] + Sum(f, S \ {y})
<1>1. PICK g : g \in [SUBSET S -> Int] /\ Folded(f, S, g) BY FoldExists
<1>2. Sum(f, S) = g[S] BY <1>1, SumIs
<1>3. Sum(f, S \ {y}) = g[S \ {y}]
  <2>1. S \ {y} \subseteq S OBVIOUS
  <2>2. QED BY <1>1, <2>1, SumIs
<1>4. AnyOrder(f, S, g) BY <1>1, FoldAny DEF IntFold
<1>5. QED BY <1>2, <1>3, <1>4 DEF AnyOrder

\* Setting f to 0 on B takes its sum over B away.
Zeroed(f, h, S, B) == \A x \in S : f[x] \in Int /\ h[x] = IF x \in B THEN 0 ELSE f[x]

\* By the smallest subset for which it fails.
LEMMA SumZeroed ==
  ASSUME NEW S, IsFiniteSet(S), NEW f, NEW h, NEW B, Zeroed(f, h, S, B)
  PROVE  Sum(h, S) = Sum(f, S) - Sum(f, S \cap B)
<1> USE DEF Zeroed
<1> DEFINE Bad == {s \in SUBSET S : Sum(h, s) # Sum(f, s) - Sum(f, s \cap B)}
<1> SUFFICES ASSUME Bad # {} PROVE FALSE OBVIOUS
<1>1. PICK s \in Bad : IsFiniteSet(s) /\ \A x \in s : s \ {x} \notin Bad
  <2>1. Bad \in SUBSET (SUBSET S) OBVIOUS
  <2> HIDE DEF Bad
  <2>2. QED BY <2>1, SetMin
<1>2. s \subseteq S /\ Sum(h, s) # Sum(f, s) - Sum(f, s \cap B) BY <1>1
<1>3. s # {}
  <2>1. {} \cap B = {} OBVIOUS
  <2>2. QED BY <1>2, <2>1, SumEmpty
<1>4. PICK x \in s : TRUE BY <1>3
<1> DEFINE t == s \ {x}
<1>5. Sum(h, t) = Sum(f, t) - Sum(f, t \cap B) BY <1>1, <1>2, <1>4
<1>6. \A y \in S : h[y] \in Int OBVIOUS
<1>7. Sum(h, s) = h[x] + Sum(h, t) /\ Sum(f, s) = f[x] + Sum(f, t) 
  BY <1>1, <1>2, <1>4, <1>6, SumAdd
<1>8. IsFiniteSet(t) /\ IsFiniteSet(t \cap B) /\ IsFiniteSet(s \cap B) /\ t \subseteq S
  BY <1>1, <1>2, FS_Subset
<1>9. Sum(f, t) \in Int /\ Sum(f, t \cap B) \in Int /\ f[x] \in Int
  BY <1>2, <1>4, <1>8, SumType
<1>10. CASE x \in B
  <2>1. (s \cap B) \ {x} = t \cap B /\ x \in s \cap B BY <1>4, <1>10
  <2>2. \A y \in s \cap B : f[y] \in Int BY <1>2
  <2>3. Sum(f, s \cap B) = f[x] + Sum(f, (s \cap B) \ {x}) BY <1>8, <2>1, <2>2, SumAdd
  <2>4. h[x] = 0 BY <1>2, <1>4, <1>10
  <2>5. Sum(f, s \cap B) = f[x] + Sum(f, t \cap B) BY <2>1, <2>3
  <2> HIDE DEF t, Bad
  <2>6. QED BY <1>2, <1>5, <1>7, <1>9, <2>4, <2>5
<1>11. CASE x \notin B
  <2>1. s \cap B = t \cap B BY <1>11
  <2>2. h[x] = f[x] BY <1>2, <1>4, <1>11
  <2>3. Sum(f, s \cap B) = Sum(f, t \cap B) BY <2>1
  <2> HIDE DEF t, Bad, Zeroed
  <2>4. QED BY <1>2, <1>5, <1>7, <1>9, <2>2, <2>3
<1>12. QED BY <1>10, <1>11

-----------------------------------------------------------------------------
(* Reserved totals.                                                        *)

Owned(c) == {r \in Requests : ConsumerOf[r] = c}

\* A request that was not submitted has no slot.
NewHasNoSlot == \A r \in Requests : submit[r].pc = "new" => slot[r] = 0

\* Only these steps touch the reservations.
LEMMA SlotSteps ==
    ASSUME TypeOK, [Next]_vars
    PROVE  \/ UNCHANGED <<slot, reserved>>
           \/ \E r \in Requests : Submit(r) \/ Release(r)
           \/ \E S \in SUBSET Requests : SweepExpired(S)
<1> DEFINE Same == UNCHANGED <<slot, reserved>>
<1> USE DEF requestVars
<1>1. \A r \in Requests : SubmitStep(r) => Same \/ Release(r)
  BY DEF SubmitStep, Match, NoCapacity, Offer, OfferReject, OfferAccept, OfferCancel, FailAndRelease
<1>2. \A t \in Reporters : ReportStep(t) \/ ReportReject(t) \/ WaitSig(t) \/ WaitStop(t)
        => Same \/ \E r \in Requests : Release(r)
  BY DEF ReportStep, ReportServe, ReportIndex, ReportPending, WaitTimer, AppendUsage, AppendFailed,
     Finish, DropPending, ReportReject, WaitSig, WaitStop, TypeOK, ReportType
<1>3. \A t \in Reporters, r \in Requests : ReportGuard(t, r) => Same BY DEF ReportGuard
<1>4. \A h \in Settlers, r \in Requests :
         SettleUnverifiable(h, r) \/ SettleVerified(h, r) \/ SettleRefused(h, r) => Same
  BY DEF SettleUnverifiable, SettleVerified, SettleRefused
<1>5. \A h \in Settlers : SettleSend(h) => Same BY DEF SettleSend
<1>6. ReaperStep => Same BY DEF ReaperStep, ReapRead, ReapSwitch, ReapFail
<1>7. \A r \in Requests : ForceRelease(r) \/ ForceFailLookup(r) => Same \/ Release(r)
  BY DEF ForceRelease, ForceFailLookup
<1>8. ForceFail \/ Close \/ UNCHANGED vars => Same BY DEF ForceFail, Close, vars
<1>9. QED
  BY <1>1, <1>2, <1>3, <1>4, <1>5, <1>6, <1>7, <1>8 DEF Next

\* The total follows the slots, whoever releases them and however often.
LEMMA NextSum ==
    ASSUME TypeOK, NewHasNoSlot, ReservedIsSum, [Next]_vars
    PROVE  ReservedIsSum'
<1> USE SettlementAssumption
<1>0. slot \in [Requests -> Nat] /\ DOMAIN reserved = Consumers /\ slot' \in [Requests -> Nat]
  BY NextType DEF TypeOK, RequestType
<1>1. ASSUME NEW c \in Consumers
      PROVE  /\ IsFiniteSet(Owned(c)) /\ Owned(c) \subseteq Requests
             /\ \A r \in Owned(c) : slot[r] \in Int /\ slot'[r] \in Int
             /\ reserved[c] = Sum(slot, Owned(c)) /\ Sum(slot, Owned(c)) \in Int
  <2>1. Owned(c) \subseteq Requests BY DEF Owned
  <2>2. IsFiniteSet(Owned(c)) BY <2>1, FS_Subset
  <2>3. \A r \in Owned(c) : slot[r] \in Int /\ slot'[r] \in Int BY <1>0, <2>1
  <2>4. reserved[c] = Sum(slot, Owned(c)) BY DEF ReservedIsSum, Amount, Sum, Owned
  <2>5. Sum(slot, Owned(c)) \in Int BY <2>2, <2>3, SumType
  <2>6. QED BY <2>1, <2>2, <2>3, <2>4, <2>5
<1>2. SUFFICES ASSUME NEW c \in Consumers PROVE reserved'[c] = Sum(slot', Owned(c))
  <2>1. \A c \in Consumers : Amount(Owned(c))' = Sum(slot', Owned(c))
    BY DEF Amount, Sum, Owned, MapThenSumSet, MapThenFoldSet
  <2>2. QED BY <2>1 DEF ReservedIsSum, Owned
<1> DEFINE own == Owned(c)
<1>8. /\ IsFiniteSet(own) /\ \A q \in own : slot[q] \in Int
      /\ reserved[c] = Sum(slot, own) /\ Sum(slot, own) \in Int
  BY <1>1
<1>3. CASE UNCHANGED <<slot, reserved>>
  BY <1>1, <1>3
<1>4. ASSUME NEW r \in Requests, Release(r) PROVE reserved'[c] = Sum(slot', Owned(c))
  <2>1. \A q \in own : slot'[q] = IF q \in {r} THEN 0 ELSE slot[q]
    BY <1>0, <1>1, <1>4 DEF Release
  <2>2. Sum(slot', own) = Sum(slot, own) - Sum(slot, own \cap {r})
    <3>1. Zeroed(slot, slot', own, {r}) BY <1>8, <2>1 DEF Zeroed
    <3> HIDE DEF own
    <3>2. QED BY <1>8, <3>1, SumZeroed
  <2>3. CASE ConsumerOf[r] = c
    <3>1. Owned(c) \cap {r} = {r} /\ r \in {r} /\ {r} \ {r} = {} BY <2>3 DEF Owned
    <3>2. IsFiniteSet({r}) BY FS_Singleton
    <3>3. \A q \in {r} : slot[q] \in Int BY <1>0
    <3>4. Sum(slot, {r}) = slot[r] + Sum(slot, {r} \ {r})
      BY <3>1, <3>2, <3>3, SumAdd
    <3>5. Sum(slot, {r} \ {r}) = 0 BY <3>1, SumEmpty
    <3>6. Sum(slot, {r}) = slot[r] BY <1>0, <3>4, <3>5
    <3>7. reserved'[c] = reserved[c] - slot[r] BY <1>0, <1>4, <2>3 DEF Release
    <3>8. QED BY <1>8, <2>2, <3>1, <3>6, <3>7
  <2>4. CASE ConsumerOf[r] # c
    <3>1. Owned(c) \cap {r} = {} BY <2>4 DEF Owned
    <3>2. Sum(slot, Owned(c) \cap {r}) = 0 BY <3>1, SumEmpty
    <3>3. reserved'[c] = reserved[c] BY <1>0, <1>4, <2>4 DEF Release
    <3>4. QED BY <1>1, <2>2, <3>2, <3>3
  <2>5. QED BY <2>3, <2>4
<1>5. ASSUME NEW S \in SUBSET Requests, SweepExpired(S) PROVE reserved'[c] = Sum(slot', Owned(c))
  <2>1. \A q \in own : slot'[q] = IF q \in S THEN 0 ELSE slot[q]
    BY <1>1, <1>5 DEF SweepExpired
  <2>2. Sum(slot', own) = Sum(slot, own) - Sum(slot, own \cap S)
    <3>1. Zeroed(slot, slot', own, S) BY <1>8, <2>1 DEF Zeroed
    <3> HIDE DEF own
    <3>2. QED BY <1>8, <3>1, SumZeroed
  <2>3. Owned(c) \cap S = {r \in S : ConsumerOf[r] = c} BY DEF Owned
  <2>4. reserved'[c] = reserved[c] - Amount({r \in S : ConsumerOf[r] = c})
    BY <1>5 DEF SweepExpired
  <2>5. Amount({r \in S : ConsumerOf[r] = c}) = Sum(slot, {r \in S : ConsumerOf[r] = c})
    BY DEF Amount, Sum
  <2>6. QED BY <1>1, <2>2, <2>3, <2>4, <2>5
<1>6. ASSUME NEW r \in Requests, Submit(r) PROVE reserved'[c] = Sum(slot', Owned(c))
  <2>1. CASE UNCHANGED <<slot, reserved>> BY <1>1, <2>1
  <2>2. ASSUME NEW cost \in Costs, slot' = [slot EXCEPT ![r] = cost],
               reserved' = [reserved EXCEPT ![ConsumerOf[r]] = @ + cost]
        PROVE  reserved'[c] = Sum(slot', Owned(c))
    <3>1. slot[r] = 0 BY <1>6 DEF Submit, NewHasNoSlot
    <3>2. CASE ConsumerOf[r] = c
      <4> DEFINE rest == Owned(c) \ {r}
      <4>1. r \in Owned(c) BY <3>2 DEF Owned
      <4>2. IsFiniteSet(rest) /\ rest \subseteq Requests BY <1>1, FS_RemoveElement
      <4>3. \A q \in rest : slot[q] \in Int /\ slot[q] = slot'[q] BY <1>0, <2>2, <4>2
      <4>4. Sum(slot, rest) = Sum(slot', rest) BY <4>2, <4>3, SumAgrees
      <4>5. Sum(slot, Owned(c)) = slot[r] + Sum(slot, rest) BY <1>1, <4>1, SumAdd
      <4>6. Sum(slot', Owned(c)) = slot'[r] + Sum(slot', rest) BY <1>1, <4>1, SumAdd
      <4>7. slot'[r] = cost /\ cost \in Int BY <1>0, <2>2
      <4>8. Sum(slot, rest) \in Int BY <4>2, <4>3, SumType
      <4>9. reserved'[c] = reserved[c] + cost BY <1>0, <2>2, <3>2
      <4> HIDE DEF rest
      <4>10. QED BY <1>1, <3>1, <4>4, <4>5, <4>6, <4>7, <4>8, <4>9
    <3>3. CASE ConsumerOf[r] # c
      <4>1. \A q \in Owned(c) : slot[q] \in Int /\ slot[q] = slot'[q]
        BY <1>0, <1>1, <2>2, <3>3 DEF Owned
      <4>2. Sum(slot, Owned(c)) = Sum(slot', Owned(c)) BY <1>1, <4>1, SumAgrees
      <4>3. reserved'[c] = reserved[c] BY <1>0, <2>2, <3>3
      <4>4. QED BY <1>1, <4>2, <4>3
    <3>4. QED BY <3>2, <3>3
  <2>3. QED BY <1>6, <2>1, <2>2 DEF Submit
<1>7. QED BY SlotSteps, <1>3, <1>4, <1>5, <1>6

\* Slots are taken by Submit alone.
LEMMA NextNoSlot == ASSUME TypeOK, NewHasNoSlot, [Next]_vars PROVE NewHasNoSlot'
<1> USE DEF requestVars, submitVars, settleVars, NewHasNoSlot
<1>0. slot \in [Requests -> Nat] /\ SubmitType /\ SubmitType'
  BY NextType DEF TypeOK, RequestType
<1>1. \A r \in Requests : submit'[r].pc = "new" => submit[r].pc = "new"
  <2>1. CASE \E r \in Requests : Submit(r) \/ SubmitStep(r)
    BY <2>1, <1>0 DEF SubmitType, Submit, SubmitStep, Match, NoCapacity, Offer, OfferReject,
       OfferAccept, OfferCancel
  <2>2. CASE UNCHANGED submit BY <2>2
  <2>3. UNCHANGED submit \/ \E r \in Requests : Submit(r) \/ SubmitStep(r)
    <3>1. \A t \in Reporters : ReportStep(t) \/ ReportReject(t) \/ WaitSig(t) \/ WaitStop(t)
            => UNCHANGED submit
      BY DEF ReportStep, ReportServe, ReportIndex, ReportPending, WaitTimer, AppendUsage,
         AppendFailed, Finish, DropPending, ReportReject, WaitSig, WaitStop
    <3>2. \A t \in Reporters, r \in Requests : ReportGuard(t, r) => UNCHANGED submit
      BY DEF ReportGuard
    <3>3. \A h \in Settlers, r \in Requests :
            SettleUnverifiable(h, r) \/ SettleVerified(h, r) \/ SettleRefused(h, r) => UNCHANGED submit
      BY DEF SettleUnverifiable, SettleVerified, SettleRefused
    <3>4. \A h \in Settlers : SettleSend(h) => UNCHANGED submit BY DEF SettleSend
    <3>5. \A S \in SUBSET Requests : SweepExpired(S) => UNCHANGED submit BY DEF SweepExpired
    <3>6. ReaperStep => UNCHANGED submit
      <4>1. \A r \in Requests : ReapRead(r) => UNCHANGED submit BY DEF ReapRead
      <4>2. ReapSwitch => UNCHANGED submit BY DEF ReapSwitch
      <4>3. ReapFail => UNCHANGED submit BY Zenon DEF ReapFail
      <4>4. QED BY <4>1, <4>2, <4>3 DEF ReaperStep
    <3>7. \A r \in Requests : ForceRelease(r) \/ ForceFailLookup(r) => UNCHANGED submit
      BY DEF ForceRelease, ForceFailLookup
    <3>8. ForceFail \/ Close \/ UNCHANGED vars => UNCHANGED submit BY DEF ForceFail, Close, vars
    <3>9. QED BY <3>1, <3>2, <3>3, <3>4, <3>5, <3>6, <3>7, <3>8 DEF Next
  <2>4. QED BY <2>1, <2>2, <2>3
<1>2. CASE UNCHANGED <<slot, reserved>> BY <1>1, <1>2
<1>3. ASSUME NEW r \in Requests, Release(r) PROVE NewHasNoSlot'
  BY <1>0, <1>1, <1>3 DEF Release
<1>4. ASSUME NEW S \in SUBSET Requests, SweepExpired(S) PROVE NewHasNoSlot'
  BY <1>0, <1>1, <1>4 DEF SweepExpired
<1>5. ASSUME NEW r \in Requests, Submit(r) PROVE NewHasNoSlot'
  <2>1. submit'[r].pc # "new" BY <1>0, <1>5 DEF Submit, SubmitType
  <2>2. \A q \in Requests \ {r} : slot'[q] = slot[q] BY <1>0, <1>5 DEF Submit
  <2>3. QED BY <1>1, <2>1, <2>2
<1>6. QED BY SlotSteps, <1>2, <1>3, <1>4, <1>5

-----------------------------------------------------------------------------
(* While nothing intervenes: what a request is doing, read off its Submit   *)
(* call, its reporters and its entry, agrees with its lifecycle state.      *)

Live == {"Selecting", "Assigned", "Serving"}
Offering == {"select", "load", "offer"}
Holders(s) == {r \in Requests : Holds(r, s)}

Unhurried == ~stopping /\ reaper.pc = "idle"
SubmitAgrees ==
    \A r \in Requests :
        /\ submit[r].pc = "new" => state[r] = "None"
        /\ submit[r].pc \in Offering <=> state[r] = "Selecting"
        /\ state[r] \in {"Assigned", "Serving"} => seeder[r] \in Seeders
ReportAgrees ==
    \A t \in Reporters :
        LET q == report[t].req IN
        /\ report[t].pc = "serve" => state[q] \in {"Assigned", "Serving", "Completed"}
        /\ report[t].pc \in {"index", "gate", "wait", "append"} => state[q] \in {"Serving", "Completed"}
        /\ report[t].pc = "finish" => state[q] = "Serving"
EntryAgrees ==
    \A r \in Requests : entry[r] # "none" /\ state[r] # "Completed" =>
        \E t \in Reporters : report[t].pc = "finish" /\ report[t].req = r

LoadAgrees == \A s \in Seeders : load[s] = Cardinality(Holders(s))

Calm == /\ Unhurried /\ SubmitAgrees /\ ReportAgrees /\ EntryAgrees /\ LoadAgrees
        /\ \A r \in Requests : slot[r] > 0 <=> state[r] \in Live

\* What is sound while nothing intervenes, on top of what always is.
LiveInv == IInv /\ NewHasNoSlot /\ ReservedIsSum /\ (calm => Calm)

\* Steps that leave the requests alone: a handler stays, gives up, moves on
\* with the request it has, or starts on one that is being served.
Stays(u) ==
    \/ report'[u].pc = report[u].pc /\ report'[u].req = report[u].req
    \/ report[u].pc # "finish" /\ report'[u].pc \in {"idle", "drop"}
    \/ /\ report[u].pc \in {"index", "gate", "wait"} /\ report'[u].pc \in {"gate", "wait", "append"}
       /\ report'[u].req = report[u].req
    \/ /\ report[u].pc = "idle" /\ report'[u].pc = "serve"
       /\ state[report'[u].req] \in {"Assigned", "Serving"}

Quiet ==
    /\ UNCHANGED <<state, seeder, slot, load, submit, entry, stopping>> /\ reaper'.pc = reaper.pc
    /\ \A u \in Reporters : Stays(u)

\* Such a step keeps all of it.
LEMMA QuietCalm == ASSUME Calm, Quiet PROVE Calm'
<1> USE DEF Calm, Quiet
<1>1. Unhurried' /\ SubmitAgrees' BY DEF Unhurried, SubmitAgrees
<1>2. ReportAgrees'
  <2> SUFFICES ASSUME NEW t \in Reporters
      PROVE /\ report'[t].pc = "serve" => state[report'[t].req] \in {"Assigned", "Serving", "Completed"}
            /\ report'[t].pc \in {"index", "gate", "wait", "append"} => state[report'[t].req] \in {"Serving", "Completed"}
            /\ report'[t].pc = "finish" => state[report'[t].req] = "Serving"
    BY DEF ReportAgrees
  <2>1. Stays(t) OBVIOUS
  <2>2. QED BY <2>1 DEF ReportAgrees, Stays
<1>3. EntryAgrees'
  <2>1. \A t \in Reporters : report[t].pc = "finish" => report'[t].pc = "finish" /\ report'[t].req = report[t].req
    BY DEF Stays
  <2>2. QED BY <2>1 DEF EntryAgrees
<1>4. \A s \in Seeders : Holders(s)' = Holders(s) BY DEF Holders, Holds
<1>5. QED BY <1>1, <1>2, <1>3, <1>4 DEF LoadAgrees

\* Nothing that intervened is forgotten.
LEMMA StaysCalm == ASSUME [Next]_vars, calm', calm \in BOOLEAN PROVE calm
<1>1. UNCHANGED calm \/ calm' = FALSE \/ \E t \in Reporters : AppendFailed(t)
  <2>1. \A r \in Requests : Submit(r) \/ SubmitStep(r) => UNCHANGED calm
    BY DEF Submit, SubmitStep, Match, NoCapacity, Offer, OfferReject, OfferAccept, OfferCancel
  <2>2. \A t \in Reporters : ReportStep(t) \/ ReportReject(t) \/ WaitSig(t) \/ WaitStop(t)
            => UNCHANGED calm \/ AppendFailed(t)
    BY DEF ReportStep, ReportServe, ReportIndex, ReportPending, WaitTimer, AppendUsage,
       Finish, DropPending, ReportReject, WaitSig, WaitStop
  <2>3. \A t \in Reporters, r \in Requests : ReportGuard(t, r) => UNCHANGED calm BY DEF ReportGuard
  <2>4. \A h \in Settlers, r \in Requests :
            SettleUnverifiable(h, r) \/ SettleVerified(h, r) \/ SettleRefused(h, r) => UNCHANGED calm
    BY DEF SettleUnverifiable, SettleVerified, SettleRefused
  <2>5. \A h \in Settlers : SettleSend(h) => UNCHANGED calm BY DEF SettleSend
  <2>6. \A S \in SUBSET Requests : SweepExpired(S) => calm' = FALSE BY DEF SweepExpired
  <2>7. ReaperStep => UNCHANGED calm
    <3>1. \A r \in Requests : ReapRead(r) => UNCHANGED calm BY DEF ReapRead
    <3>2. ReapSwitch => UNCHANGED calm BY DEF ReapSwitch
    <3>3. ReapFail => UNCHANGED calm BY Zenon DEF ReapFail
    <3>4. QED BY <3>1, <3>2, <3>3 DEF ReaperStep
  <2>8. \A r \in Requests : ForceRelease(r) \/ ForceFailLookup(r) => UNCHANGED calm \/ calm' = FALSE
    BY DEF ForceRelease, ForceFailLookup
  <2>9. ForceFail \/ Close \/ UNCHANGED vars => UNCHANGED calm \/ calm' = FALSE
    BY DEF ForceFail, Close, vars
  <2>10. QED BY <2>1, <2>2, <2>3, <2>4, <2>5, <2>6, <2>7, <2>8, <2>9 DEF Next
<1>2. ASSUME NEW t \in Reporters, AppendFailed(t) PROVE calm BY <1>2 DEF AppendFailed
<1>3. QED BY <1>1, <1>2

\* While nothing intervenes these are the steps.
LEMMA CalmSteps ==
    ASSUME IInv, Calm, [Next]_vars, calm'
    PROVE  \/ Quiet
           \/ \E r \in Requests : \/ Submit(r) \/ Match(r) \/ NoCapacity(r)
                                  \/ Offer(r) \/ OfferReject(r) \/ OfferAccept(r)
           \/ \E t \in Reporters : ReportServe(t) \/ AppendUsage(t) \/ Finish(t)
<1> USE DEF requestVars, submitVars, settleVars
<1>0. ReportType /\ Unhurried BY DEF IInv, TypeOK, Calm
<1>1. \A r \in Requests : ~OfferCancel(r) BY <1>0 DEF OfferCancel, Unhurried
<1>2. \A t \in Reporters : ~WaitStop(t) BY <1>0 DEF WaitStop, Unhurried
<1>3. ~ReaperStep BY <1>0 DEF ReaperStep, ReapRead, ReapSwitch, ReapFail, Unhurried
<1>4. \A S \in SUBSET Requests : ~SweepExpired(S) BY DEF SweepExpired
<1>5. \A r \in Requests : ~ForceRelease(r) BY DEF ForceRelease
<1>6. ~ForceFail /\ ~Close BY DEF ForceFail, Close
<1>7. ASSUME NEW r \in Requests, ForceFailLookup(r) PROVE Quiet
  BY <1>7 DEF ForceFailLookup, Quiet, Stays
<1>8. ASSUME NEW h \in Settlers, SettleSend(h) PROVE Quiet BY <1>8 DEF SettleSend, Quiet, Stays
<1>9. ASSUME NEW h \in Settlers, NEW r \in Requests,
             SettleUnverifiable(h, r) \/ SettleVerified(h, r) \/ SettleRefused(h, r)
      PROVE  Quiet
  BY <1>9 DEF SettleUnverifiable, SettleVerified, SettleRefused, Quiet, Stays
<1>10. ASSUME NEW t \in Reporters, NEW r \in Requests, ReportGuard(t, r) PROVE Quiet
  BY <1>0, <1>10 DEF ReportGuard, Quiet, Stays, ReportType
<1>11. ASSUME NEW t \in Reporters, ReportReject(t) \/ DropPending(t) PROVE Quiet
  <2>1. /\ report' = [report EXCEPT ![t] = IdleReport] /\ report[t].pc # "finish"
        /\ UNCHANGED <<state, seeder, slot, load, submit, entry, stopping, reaper>>
    BY <1>11 DEF ReportReject, DropPending
  <2>2. QED BY <1>0, <2>1 DEF IdleReport, Quiet, Stays, ReportType
<1>12. ASSUME NEW t \in Reporters, ReportIndex(t) PROVE Quiet
  BY <1>0, <1>12 DEF ReportIndex, Goto, Quiet, Stays, ReportType
<1>13. ASSUME NEW t \in Reporters, ReportPending(t) PROVE Quiet
  BY <1>0, <1>13 DEF ReportPending, Goto, IdleReport, Quiet, Stays, ReportType
<1>14. ASSUME NEW t \in Reporters, WaitTimer(t) PROVE Quiet
  BY <1>0, <1>14 DEF WaitTimer, Quiet, Stays, ReportType
<1>15. ASSUME NEW t \in Reporters, WaitSig(t) PROVE Quiet
  BY <1>0, <1>15 DEF WaitSig, Quiet, Stays, ReportType
<1>16. ASSUME NEW t \in Reporters, AppendFailed(t) PROVE Quiet
  <2> DEFINE r == report[t].req
  <2>1. r \in Requests /\ report[t].pc = "append" /\ entry[r] # "none" /\ Awaits(t, r)
    BY <1>0, <1>16 DEF AppendFailed, ReportType, Awaits
  <2>2. \A u \in Reporters : report[u].pc = "finish" => report[u].req # r
    BY <2>1 DEF IInv, OneAwaiter, Awaits
  <2>3. state[r] = "Completed" BY <2>1, <2>2 DEF Calm, EntryAgrees
  <2>4. state' = state
    BY <1>16, <2>1, <2>3 DEF AppendFailed, Transition, IInv, TypeOK, RequestType
  <2>5. QED BY <1>0, <1>16, <2>4 DEF AppendFailed, Goto, Quiet, Stays, ReportType
<1>17. CASE UNCHANGED vars BY <1>17 DEF vars, Quiet, Stays
<1>18. QED
  BY <1>1, <1>2, <1>3, <1>4, <1>5, <1>6, <1>7, <1>8, <1>9, <1>10, <1>11, <1>12, <1>13, <1>14,
     <1>15, <1>16, <1>17 DEF Next, SubmitStep, ReportStep

\* One request starts or stops being counted.
LEMMA HoldersAdd ==
    ASSUME NEW s, NEW r \in Requests, r \notin Holders(s), Holders(s)' = Holders(s) \cup {r}
    PROVE  Cardinality(Holders(s)') = Cardinality(Holders(s)) + 1
<1>1. IsFiniteSet(Holders(s)) BY SettlementAssumption, FS_Subset DEF Holders
<1>2. QED BY <1>1, FS_AddElement

\* The other way round.
LEMMA HoldersRemove ==
    ASSUME NEW s, NEW r \in Holders(s), Holders(s)' = Holders(s) \ {r}
    PROVE  Cardinality(Holders(s)') = Cardinality(Holders(s)) - 1 /\ Cardinality(Holders(s)) \in Nat
           /\ Cardinality(Holders(s)) > 0
<1>1. IsFiniteSet(Holders(s)) BY SettlementAssumption, FS_Subset DEF Holders
<1>2. Cardinality(Holders(s)') = Cardinality(Holders(s)) - 1 BY <1>1, FS_RemoveElement
<1>3. IsFiniteSet(Holders(s)') BY <1>1, FS_RemoveElement
<1>4. Cardinality(Holders(s)) \in Nat /\ Cardinality(Holders(s)') \in Nat
  BY <1>1, <1>3, FS_CardinalityType
<1>5. QED BY <1>2, <1>4

\* The steps of one Submit call: what is left to show of each.
SubmitMoves(r) ==
    /\ UNCHANGED <<report, entry, stopping, reaper>>
    /\ \A q \in Requests \ {r} : /\ state'[q] = state[q] /\ slot'[q] = slot[q]
                                 /\ submit'[q] = submit[q] /\ seeder'[q] = seeder[q]
    /\ state'[r] = state[r] \/ state[r] \in {"None", "Selecting"}
    /\ submit'[r].pc = "new" => state'[r] = "None"
    /\ submit'[r].pc \in Offering <=> state'[r] = "Selecting"
    /\ state'[r] \in {"Assigned", "Serving"} => seeder'[r] \in Seeders
    /\ slot'[r] > 0 <=> state'[r] \in Live

\* A step of Submit disturbs no reporter and no entry.
LEMMA SubmitCalm ==
    ASSUME Calm, ReportType, NEW r \in Requests, SubmitMoves(r), LoadAgrees'
    PROVE  Calm'
<1> USE DEF Calm, SubmitMoves
<1>1. Unhurried' BY DEF Unhurried
<1>2. ReportAgrees'
  <2> SUFFICES ASSUME NEW t \in Reporters
      PROVE /\ report[t].pc = "serve" => state'[report[t].req] \in {"Assigned", "Serving", "Completed"}
            /\ report[t].pc \in {"index", "gate", "wait", "append"} => state'[report[t].req] \in {"Serving", "Completed"}
            /\ report[t].pc = "finish" => state'[report[t].req] = "Serving"
    BY DEF ReportAgrees
  <2>1. report[t].pc # "idle" => report[t].req \in Requests BY DEF ReportType
  <2>2. QED BY <2>1 DEF ReportAgrees
<1>3. \A q \in Requests : entry[q] # "none" => state[q] \in {"Serving", "Completed"}
  BY DEF EntryAgrees, ReportAgrees
<1>4. EntryAgrees' BY <1>3 DEF EntryAgrees
<1>5. SubmitAgrees' BY DEF SubmitAgrees
<1>6. QED BY <1>1, <1>2, <1>4, <1>5

\* Load and holders unchanged.
LEMMA LoadSame ==
    ASSUME LoadAgrees, load' = load, \A r \in Requests, s \in Seeders : Holds(r, s)' <=> Holds(r, s)
    PROVE  LoadAgrees'
<1>1. \A s \in Seeders : Holders(s)' = Holders(s) BY DEF Holders
<1>2. QED BY <1>1 DEF LoadAgrees

\* One request begins to hold a unit of c's load.
LEMMA LoadMore ==
    ASSUME LoadAgrees, NEW r \in Requests, NEW c \in Seeders, RequestType, IncLoad(c), ~Holds(r, c),
           \A q \in Requests, s \in Seeders : Holds(q, s)' <=> Holds(q, s) \/ (q = r /\ s = c)
    PROVE  LoadAgrees'
<1>1. \A s \in Seeders \ {c} : Holders(s)' = Holders(s) /\ load'[s] = load[s]
  BY DEF Holders, IncLoad, RequestType
<1>2. Holders(c)' = Holders(c) \cup {r} /\ r \notin Holders(c) BY DEF Holders
<1>3. Cardinality(Holders(c)') = Cardinality(Holders(c)) + 1 BY <1>2, HoldersAdd
<1>4. load'[c] = load[c] + 1 BY DEF IncLoad, RequestType
<1>5. QED BY <1>1, <1>3, <1>4 DEF LoadAgrees

\* One request gives its unit of c's load back.
LEMMA LoadLess ==
    ASSUME LoadAgrees, NEW r \in Requests, NEW c \in Seeders, RequestType, DecLoad(c), Holds(r, c),
           \A q \in Requests, s \in Seeders : Holds(q, s)' <=> Holds(q, s) /\ ~(q = r /\ s = c)
    PROVE  LoadAgrees'
<1>1. \A s \in Seeders \ {c} : Holders(s)' = Holders(s) /\ load'[s] = load[s]
  BY DEF Holders, DecLoad, RequestType
<1>2. Holders(c)' = Holders(c) \ {r} /\ r \in Holders(c) BY DEF Holders
<1>3. Cardinality(Holders(c)') = Cardinality(Holders(c)) - 1 /\ Cardinality(Holders(c)) > 0
  BY <1>2, HoldersRemove
<1>4. load[c] = Cardinality(Holders(c)) BY DEF LoadAgrees
<1>5. load'[c] = load[c] - 1 BY <1>3, <1>4 DEF DecLoad
<1>6. QED BY <1>1, <1>3, <1>4, <1>5 DEF LoadAgrees

\* Every step that intervenes with nothing keeps state, slots and load in agreement.
LEMMA NextCalm == ASSUME IInv, NewHasNoSlot, Calm, [Next]_vars, calm' PROVE Calm'
<1> USE DEF requestVars, submitVars, settleVars
<1>0. /\ RequestType /\ SubmitType /\ ReportType /\ OneAwaiter /\ CompletedIsPaid
      /\ RequestType' /\ SubmitType' /\ ReportType'
      /\ \A r \in Requests : slot[r] > 0 <=> state[r] \in Live
      /\ Unhurried /\ SubmitAgrees /\ ReportAgrees /\ EntryAgrees /\ LoadAgrees
  BY NextType DEF IInv, TypeOK, Calm
<1> DEFINE Held(r, s) == \/ submit[r].pc = "offer" /\ submit[r].cand = s
                         \/ state[r] \in {"Assigned", "Serving"} /\ seeder[r] = s
<1>1. \A r \in Requests, s \in Seeders : (Holds(r, s) <=> Held(r, s)) /\ (Holds(r, s)' <=> Held(r, s)')
  BY <1>0 DEF SubmitType, Holds
<1>2. ASSUME NEW r \in Requests, Submit(r) PROVE Calm'
  <2>1. submit[r].pc = "new" /\ state[r] = "None" /\ slot[r] = 0
    BY <1>0, <1>2 DEF Submit, SubmitAgrees, NewHasNoSlot
  <2>2. UNCHANGED <<seeder, load, report, entry, stopping, reaper>> BY <1>2 DEF Submit
  <2>3. SubmitMoves(r) /\ submit'[r].pc # "offer" /\ state'[r] \in {"None", "Selecting"}
    <3>1. CASE UNCHANGED <<state, slot>> /\ submit' = [submit EXCEPT ![r].pc = "done"]
      BY <1>0, <2>1, <2>2, <3>1 DEF SubmitType, RequestType, SubmitMoves, Live, Offering
    <3>2. ASSUME NEW cost \in Costs, submit' = [submit EXCEPT ![r].pc = "select"],
                 state' = [state EXCEPT ![r] = "Selecting"], slot' = [slot EXCEPT ![r] = cost]
          PROVE  SubmitMoves(r) /\ submit'[r].pc # "offer" /\ state'[r] \in {"None", "Selecting"}
      BY <1>0, <2>1, <2>2, <3>2, SettlementAssumption
         DEF SubmitType, RequestType, SubmitMoves, Live, Offering
    <3>3. QED BY <1>2, <3>1, <3>2 DEF Submit
  <2>4. LoadAgrees' BY <1>0, <1>1, <2>1, <2>2, <2>3, LoadSame DEF SubmitMoves
  <2>5. QED BY <1>0, <2>3, <2>4, SubmitCalm
<1>3. ASSUME NEW r \in Requests, Match(r) PROVE Calm'
  <2>1. state[r] = "Selecting" BY <1>0, <1>3 DEF Match, SubmitAgrees, Offering
  <2>2. SubmitMoves(r) /\ submit'[r].pc = "load" /\ submit[r].pc = "select"
    BY <1>0, <1>3, <2>1 DEF Match, SubmitType, SubmitMoves, Offering, Live
  <2>3. LoadAgrees' BY <1>0, <1>1, <1>3, <2>1, <2>2, LoadSame DEF SubmitMoves, Match
  <2>4. QED BY <1>0, <2>2, <2>3, SubmitCalm
<1>4. ASSUME NEW r \in Requests, NoCapacity(r) PROVE Calm'
  <2>1. state[r] = "Selecting" BY <1>0, <1>4 DEF NoCapacity, SubmitAgrees, Offering
  <2>2. /\ SubmitMoves(r) /\ submit'[r].pc = "done" /\ submit[r].pc = "select"
        /\ state'[r] = "Failed" /\ load' = load
    BY <1>0, <1>4, <2>1 DEF NoCapacity, FailAndRelease, Release, Transition, SubmitType,
       RequestType, SubmitMoves, Offering, Live
  <2>3. LoadAgrees' BY <1>0, <1>1, <2>1, <2>2, LoadSame DEF SubmitMoves
  <2>4. QED BY <1>0, <2>2, <2>3, SubmitCalm
<1>5. ASSUME NEW r \in Requests, Offer(r) PROVE Calm'
  <2>1. state[r] = "Selecting" /\ submit[r].pc = "load" /\ submit[r].cand \in Seeders
    BY <1>0, <1>5 DEF Offer, SubmitAgrees, Offering, SubmitType
  <2>2. SubmitMoves(r) /\ submit'[r].pc = "offer" /\ submit'[r].cand = submit[r].cand /\ state'[r] = state[r]
    BY <1>0, <1>5, <2>1 DEF Offer, SubmitType, SubmitMoves, Offering, Live
  <2>3. \A q \in Requests, s \in Seeders : Holds(q, s)' <=> Holds(q, s) \/ (q = r /\ s = submit[r].cand)
    BY <1>1, <2>1, <2>2 DEF SubmitMoves
  <2>4. IncLoad(submit[r].cand) /\ ~Holds(r, submit[r].cand) BY <1>1, <1>5, <2>1 DEF Offer
  <2>5. LoadAgrees' BY <1>0, <2>1, <2>3, <2>4, LoadMore
  <2>6. QED BY <1>0, <2>2, <2>5, SubmitCalm
<1>6. ASSUME NEW r \in Requests, OfferReject(r) PROVE Calm'
  <2>1. state[r] = "Selecting" /\ submit[r].pc = "offer" /\ submit[r].cand \in Seeders
    BY <1>0, <1>6 DEF OfferReject, SubmitAgrees, Offering, SubmitType
  <2>2. SubmitMoves(r) /\ submit'[r].pc = "select" /\ state'[r] = state[r]
    BY <1>0, <1>6, <2>1 DEF OfferReject, SubmitType, SubmitMoves, Offering, Live
  <2>3. \A q \in Requests, s \in Seeders : Holds(q, s)' <=> Holds(q, s) /\ ~(q = r /\ s = submit[r].cand)
    BY <1>1, <2>1, <2>2 DEF SubmitMoves
  <2>4. DecLoad(submit[r].cand) /\ Holds(r, submit[r].cand) BY <1>1, <1>6, <2>1 DEF OfferReject
  <2>5. LoadAgrees' BY <1>0, <2>1, <2>3, <2>4, LoadLess
  <2>6. QED BY <1>0, <2>2, <2>5, SubmitCalm
<1>7. ASSUME NEW r \in Requests, OfferAccept(r) PROVE Calm'
  <2>1. state[r] = "Selecting" /\ submit[r].pc = "offer" /\ submit[r].cand \in Seeders
    BY <1>0, <1>7 DEF OfferAccept, SubmitAgrees, Offering, SubmitType
  <2>2. /\ SubmitMoves(r) /\ submit'[r].pc = "done" /\ state'[r] = "Assigned"
        /\ seeder'[r] = submit[r].cand /\ load' = load
    BY <1>0, <1>7, <2>1 DEF OfferAccept, Transition, SubmitType, RequestType, SubmitMoves, Offering, Live
  <2>3. LoadAgrees' BY <1>0, <1>1, <2>1, <2>2, LoadSame DEF SubmitMoves
  <2>4. QED BY <1>0, <2>2, <2>3, SubmitCalm
<1>8. ASSUME NEW t \in Reporters, ReportServe(t) PROVE Calm'
  <2> DEFINE r == report[t].req
  <2>1. r \in Requests /\ report[t].pc = "serve" /\ state[r] \in {"Assigned", "Serving", "Completed"}
    BY <1>0, <1>8 DEF ReportServe, ReportType, ReportAgrees
  <2>2. /\ \A q \in Requests \ {r} : state'[q] = state[q]
        /\ state'[r] = IF state[r] = "Assigned" THEN "Serving" ELSE state[r]
        /\ UNCHANGED <<seeder, slot, load, submit, entry, stopping, reaper>>
        /\ report' = [report EXCEPT ![t].pc = "index"]
    BY <1>0, <1>8, <2>1 DEF ReportServe, Transition, RequestType, Goto
  <2> HIDE DEF r
  <2>3. Unhurried' BY <1>0, <2>2 DEF Unhurried
  <2>4. SubmitAgrees' BY <1>0, <2>1, <2>2 DEF SubmitAgrees, Offering
  <2>5. ReportAgrees'
    BY <1>0, <2>1, <2>2 DEF r, ReportAgrees, ReportType
  <2>6. EntryAgrees' BY <1>0, <2>1, <2>2 DEF EntryAgrees, ReportType
  <2>7. LoadAgrees' BY <1>0, <1>1, <2>1, <2>2, LoadSame
  <2>8. \A q \in Requests : slot'[q] > 0 <=> state'[q] \in Live BY <1>0, <2>1, <2>2 DEF Live
  <2>9. QED BY <2>3, <2>4, <2>5, <2>6, <2>7, <2>8 DEF Calm
<1>9. ASSUME NEW t \in Reporters, AppendUsage(t) PROVE Calm'
  <2> DEFINE r == report[t].req
  <2>1. /\ r \in Requests /\ report[t].pc = "append" /\ state[r] \in {"Serving", "Completed"}
        /\ entry[r] = "none"
    BY <1>0, <1>9 DEF AppendUsage, ReportType, ReportAgrees
  <2>2. state[r] = "Serving" BY <1>0, <2>1 DEF CompletedIsPaid
  <2>3. /\ \A q \in Requests \ {r} : entry'[q] = entry[q]
        /\ UNCHANGED <<state, seeder, slot, load, submit, stopping, reaper>>
        /\ report' = [report EXCEPT ![t].pc = "finish"]
    BY <1>9 DEF AppendUsage, Goto, IInv, TypeOK, OtherType
  <2> HIDE DEF r
  <2>4. Unhurried' /\ SubmitAgrees' BY <1>0, <2>3 DEF Unhurried, SubmitAgrees
  <2>5. ReportAgrees' BY <1>0, <2>1, <2>2, <2>3 DEF r, ReportAgrees, ReportType
  <2>6. EntryAgrees' BY <1>0, <2>1, <2>3 DEF r, EntryAgrees, ReportType
  <2>7. LoadAgrees' BY <1>0, <1>1, <2>3, LoadSame
  <2>8. QED BY <1>0, <2>3, <2>4, <2>5, <2>6, <2>7 DEF Calm
<1>10. ASSUME NEW t \in Reporters, Finish(t) PROVE Calm'
  <2> DEFINE r == report[t].req
  <2>1. /\ r \in Requests /\ report[t].pc = "finish" /\ state[r] = "Serving"
        /\ seeder[r] \in Seeders /\ submit[r].pc \notin Offering
    BY <1>0, <1>10 DEF Finish, ReportType, ReportAgrees, SubmitAgrees
  <2>2. /\ \A q \in Requests \ {r} : state'[q] = state[q] /\ slot'[q] = slot[q]
        /\ state'[r] = "Completed" /\ slot'[r] = 0 /\ DecLoad(seeder[r])
        /\ UNCHANGED <<seeder, submit, entry, stopping, reaper>>
        /\ report' = [report EXCEPT ![t].pc = "drop"]
    BY <1>0, <1>10, <2>1 DEF Finish, Transition, Release, RequestType, Goto
  <2>3. \A u \in Reporters : report[u].pc = "finish" /\ report[u].req = r => u = t
    BY <1>0, <2>1 DEF OneAwaiter, Awaits
  <2> HIDE DEF r
  <2>4. Unhurried' BY <1>0, <2>2 DEF Unhurried
  <2>5. SubmitAgrees' BY <1>0, <2>1, <2>2 DEF SubmitAgrees, Offering
  <2>6. ReportAgrees' BY <1>0, <2>1, <2>2, <2>3 DEF r, ReportAgrees, ReportType
  <2>7. EntryAgrees' BY <1>0, <2>1, <2>2 DEF r, EntryAgrees, ReportType
  <2>8. LoadAgrees'
    <3>1. \A q \in Requests, s \in Seeders : Holds(q, s)' <=> Holds(q, s) /\ ~(q = r /\ s = seeder[r])
      BY <1>1, <2>1, <2>2 DEF Offering
    <3>2. Holds(r, seeder[r]) BY <1>1, <2>1
    <3>3. QED BY <1>0, <2>1, <2>2, <3>1, <3>2, LoadLess
  <2>9. \A q \in Requests : slot'[q] > 0 <=> state'[q] \in Live BY <1>0, <2>1, <2>2 DEF Live
  <2>10. QED BY <2>4, <2>5, <2>6, <2>7, <2>8, <2>9 DEF Calm
<1>11. QED BY CalmSteps, QuietCalm, <1>2, <1>3, <1>4, <1>5, <1>6, <1>7, <1>8, <1>9, <1>10

\* Every step keeps what is sound while nothing intervenes.
LEMMA NextLive == LiveInv /\ [Next]_vars => LiveInv'
<1> SUFFICES ASSUME LiveInv, [Next]_vars PROVE LiveInv' OBVIOUS
<1>1. IInv' /\ NewHasNoSlot' /\ ReservedIsSum'
  BY NextIInv, NextNoSlot, NextSum DEF LiveInv, IInv
<1>2. calm \in BOOLEAN BY DEF LiveInv, IInv, TypeOK, OtherType
<1>3. ASSUME calm' PROVE Calm' BY <1>2, <1>3, StaysCalm, NextCalm DEF LiveInv
<1>4. QED BY <1>1, <1>3 DEF LiveInv

\* It holds when the tracker starts.
LEMMA InitLive == Init => LiveInv
<1> SUFFICES ASSUME Init PROVE LiveInv OBVIOUS
<1> USE DEF Init
<1>1. IInv BY InitIInv
<1>2. NewHasNoSlot BY DEF NewHasNoSlot
<1>3. \A r \in Requests : slot[r] = 0 OBVIOUS
<1>4. ReservedIsSum
  <2> SUFFICES ASSUME NEW c \in Consumers PROVE reserved[c] = Sum(slot, Owned(c))
    BY DEF ReservedIsSum, Amount, Sum, Owned
  <2> DEFINE own == Owned(c)
  <2>1. IsFiniteSet(own) BY SettlementAssumption, FS_Subset DEF Owned
  <2>2. Zeroed(slot, slot, own, own) BY DEF Zeroed, Owned
  <2>3. Sum(slot, own) \in Int BY <2>1, <2>2, SumType DEF Zeroed
  <2>4. own \cap own = own OBVIOUS
  <2>5. Sum(slot, own) = Sum(slot, own) - Sum(slot, own) 
    <3> HIDE DEF own
    <3>1. Sum(slot, own) = Sum(slot, own) - Sum(slot, own \cap own) BY <2>1, <2>2, SumZeroed
    <3>2. QED BY <2>4, <3>1
  <2>6. reserved[c] = 0 OBVIOUS
  <2> HIDE DEF own
  <2>7. Sum(slot, own) = 0 BY <2>3, <2>5
  <2>8. QED BY <2>6, <2>7 DEF own
<1>5. Unhurried /\ SubmitAgrees BY DEF Unhurried, SubmitAgrees, IdleReaper, Offering
<1>6. ReportAgrees /\ EntryAgrees BY DEF ReportAgrees, EntryAgrees, IdleReport
<1>7. LoadAgrees
  <2>1. \A s : Holders(s) = {} BY DEF Holders, Holds
  <2>2. QED BY <2>1, FS_EmptySet DEF LoadAgrees
<1>8. Calm BY <1>5, <1>6, <1>7, <1>3 DEF Calm, Live
<1>9. QED BY <1>1, <1>2, <1>4, <1>8 DEF LiveInv

-----------------------------------------------------------------------------
(* Theorems.                                                               *)

\* The inductive invariant always holds.
LEMMA Invariance == Spec => []IInv
BY InitIInv, NextIInv, PTL DEF Spec

\* Every reachable state is well typed; in particular a load never goes below 0.
THEOREM SettlementType == Spec => []TypeOK
<1>1. IInv => TypeOK BY DEF IInv
<1>2. QED BY <1>1, Invariance, PTL

\* However many reports of a request race, one goroutine waits for and settles it.
THEOREM OneGoroutineSettles == Spec => []OneAwaiter
<1>1. IInv => OneAwaiter BY DEF IInv
<1>2. QED BY <1>1, Invariance, PTL

\* Completed means paid and released, under every fault and operator action.
THEOREM CompletedMeansPaid == Spec => []CompletedIsPaid
<1>1. IInv => CompletedIsPaid BY DEF IInv
<1>2. QED BY <1>1, Invariance, PTL

\* Only a verified counter-signature makes an entry counter-signed.
THEOREM SignedMeansVerified == Spec => []SignedWasVerified
<1>1. IInv => SignedWasVerified BY DEF IInv
<1>2. QED BY <1>1, Invariance, PTL

\* Both together: whatever HandleUsageReport records was paid for and signed for.
THEOREM SettlementIsEarned == Spec => []SettledIsEarned
<1>1. CompletedIsPaid /\ SignedWasVerified => SettledIsEarned
  BY DEF SettledIsEarned
<1>2. QED BY <1>1, CompletedMeansPaid, SignedMeansVerified, PTL

\* What holds while nothing intervenes, for every instance.
LEMMA LiveInvariance == Spec => []LiveInv
BY InitLive, NextLive, PTL DEF Spec

\* Reservations are exact: a consumer's total is always the sum of its slots, whoever races to
\* release them, and until a TTL passes or somebody intervenes exactly the live requests hold
\* one (Reserve, Release, SweepExpired against Submit, settlement and the operator).
THEOREM ReservationsAreSound == Spec => []ReservationsSound
<1>1. LiveInv => ReservationsSound
  BY DEF LiveInv, ReservationsSound, ReservedWhileLive, Calm, Live
<1>2. QED BY <1>1, LiveInvariance, PTL

\* Load accounting: until then a seeder's load is the number of offers out to it and requests it
\* serves, for any number of seeders, requests and racing reports (IncLoad, DecLoad).
THEOREM LoadCountsLive == Spec => []LoadIsLive
<1>1. LiveInv => LoadIsLive BY DEF LiveInv, LoadIsLive, Calm, LoadAgrees, Holders
<1>2. QED BY <1>1, LiveInvariance, PTL

-----------------------------------------------------------------------------
(* What an entry passes as it rises or sinks.                                *)

\* A walk over 1..N: nxt[k] is the place after k, 0 where the walk ends, and w falls along it.
Walk(N, nxt, w) ==
    /\ nxt \in [1..N -> 0..N] /\ w \in [1..N -> Nat]
    /\ \A k \in 1..N : nxt[k] # 0 => w[nxt[k]] < w[k]
    /\ \A j, k \in 1..N : w[j] = w[k] => j = k

\* g[k] holds the places of the walk from k on.
Traced(N, nxt, g) == g = [k \in 1..N |-> {k} \cup IF nxt[k] # 0 THEN g[nxt[k]] ELSE {}]

\* There is such a g: the least sets that are closed under nxt.
LEMMA TraceExists ==
  ASSUME NEW N \in Nat, NEW nxt \in [1..N -> 0..N]
  PROVE  \E g : Traced(N, nxt, g)
<1> DEFINE Closed(S) == \A j \in S : nxt[j] # 0 => nxt[j] \in S
           Least(k) == {p \in 1..N : \A S \in SUBSET (1..N) : k \in S /\ Closed(S) => p \in S}
           g == [k \in 1..N |-> Least(k)]
<1>1. ASSUME NEW k \in 1..N PROVE Least(k) = {k} \cup IF nxt[k] # 0 THEN g[nxt[k]] ELSE {}
  <2>1. nxt[k] # 0 => nxt[k] \in 1..N OBVIOUS
  <2>2. k \in Least(k) OBVIOUS
  <2>3. ASSUME nxt[k] # 0, NEW p \in Least(nxt[k]) PROVE p \in Least(k)
    <3>1. SUFFICES ASSUME NEW S \in SUBSET (1..N), k \in S, Closed(S) PROVE p \in S OBVIOUS
    <3>2. nxt[k] \in S BY <2>3, <3>1
    <3>3. QED BY <2>3, <3>1, <3>2
  <2>4. ASSUME NEW p \in Least(k), p # k PROVE nxt[k] # 0 /\ p \in Least(nxt[k])
    <3>1. nxt[k] # 0
      <4>1. SUFFICES ASSUME nxt[k] = 0 PROVE FALSE OBVIOUS
      <4>2. {k} \in SUBSET (1..N) /\ Closed({k}) BY <4>1
      <4>3. QED BY <2>4, <4>2
    <3>2. SUFFICES ASSUME NEW S \in SUBSET (1..N), nxt[k] \in S, Closed(S) PROVE p \in S
      BY <3>1
    <3>3. {k} \cup S \in SUBSET (1..N) /\ Closed({k} \cup S) BY <3>2
    <3>4. p \in {k} \cup S BY <2>4, <3>3
    <3>5. QED BY <2>4, <3>4
  <2> HIDE DEF Least
  <2>5. nxt[k] # 0 => g[nxt[k]] = Least(nxt[k]) BY <2>1
  <2>6. CASE nxt[k] # 0
    <3>1. Least(k) = {k} \cup Least(nxt[k]) BY <2>2, <2>3, <2>4, <2>6
    <3>2. QED BY <2>5, <2>6, <3>1
  <2>7. CASE nxt[k] = 0
    <3>1. Least(k) = {k} BY <2>2, <2>4, <2>7
    <3>2. QED BY <2>7, <3>1
  <2>8. QED BY <2>6, <2>7
<1>2. g = [k \in 1..N |-> {k} \cup IF nxt[k] # 0 THEN g[nxt[k]] ELSE {}]
  <2> HIDE DEF Least
  <2>1. QED BY <1>1
<1>3. QED BY <1>2 DEF Traced

\* The places P of a walk from k are a chain: each but k comes after one of them, no two have the
\* same successor, and the walk ends at the lowest.
Chain(N, nxt, w, k, P) ==
    /\ P \subseteq 1..N /\ k \in P
    /\ \A p \in P : nxt[p] # 0 => nxt[p] \in P
    /\ \A p \in P : w[p] <= w[k]
    /\ \A p \in P : p = k \/ \E q \in P : nxt[q] = p
    /\ \A p, q \in P : nxt[p] = nxt[q] => p = q
    /\ \A p, q \in P : nxt[q] = 0 => w[q] <= w[p]
    /\ \E q \in P : nxt[q] = 0

\* A chain with one more place in front.
LEMMA ChainGrows ==
  ASSUME NEW N \in Nat, NEW nxt, NEW w, Walk(N, nxt, w), NEW k \in 1..N, NEW m \in 1..N,
         nxt[k] = m, NEW Q, Chain(N, nxt, w, m, Q)
  PROVE  Chain(N, nxt, w, k, {k} \cup Q)
<1> DEFINE P == {k} \cup Q
<1>0. /\ nxt \in [1..N -> 0..N] /\ w \in [1..N -> Nat] /\ w[m] < w[k] /\ m # 0
      /\ w[k] \in Nat /\ w[m] \in Nat
  <2>1. nxt \in [1..N -> 0..N] /\ w \in [1..N -> Nat] BY DEF Walk
  <2>2. m # 0 /\ w[k] \in Nat /\ w[m] \in Nat BY <2>1
  <2>3. w[m] < w[k] BY <2>2 DEF Walk
  <2>4. QED BY <2>1, <2>2, <2>3
<1>1. Q \subseteq 1..N /\ m \in Q BY DEF Chain
<1>2. \A p \in Q : w[p] \in Nat /\ w[p] <= w[m] BY <1>0, <1>1 DEF Chain
<1>3. \A p \in Q : w[p] < w[k] BY <1>0, <1>2
<1>4. \A p \in Q : nxt[p] # m
  <2> SUFFICES ASSUME NEW p \in Q, nxt[p] = m PROVE FALSE OBVIOUS
  <2>1. w[m] < w[p] BY <1>0, <1>1 DEF Walk
  <2>2. QED BY <1>0, <1>2, <2>1
<1>5. \A p, q \in Q : nxt[p] = nxt[q] => p = q BY DEF Chain
<1>6. \A p, q \in P : nxt[p] = nxt[q] => p = q BY <1>4, <1>5
<1>7. \A p, q \in P : nxt[q] = 0 => w[q] <= w[p]
  <2> SUFFICES ASSUME NEW p \in P, NEW q \in P, nxt[q] = 0 PROVE w[q] <= w[p] OBVIOUS
  <2>1. q \in Q BY <1>0
  <2>2. CASE p = k BY <1>0, <1>2, <1>3, <2>1, <2>2
  <2>3. CASE p \in Q BY <2>1, <2>3 DEF Chain
  <2>4. QED BY <2>2, <2>3
<1>8. \A p \in P : p = k \/ \E q \in P : nxt[q] = p
  <2> SUFFICES ASSUME NEW p \in Q PROVE \E q \in P : nxt[q] = p OBVIOUS
  <2>1. CASE p = m BY <2>1
  <2>2. CASE p # m BY <2>2 DEF Chain
  <2>3. QED BY <2>1, <2>2
<1>9. \E q \in P : nxt[q] = 0 BY DEF Chain
<1>10. \A p \in P : nxt[p] # 0 => nxt[p] \in P BY <1>1 DEF Chain
<1>11. ASSUME NEW p \in P PROVE w[p] <= w[k]
  <2>1. CASE p = k BY <1>0, <2>1
  <2>2. CASE p \in Q BY <1>0, <1>2, <1>3, <2>2
  <2>3. QED BY <2>1, <2>2
<1>12. P \subseteq 1..N /\ k \in P BY <1>1
<1> HIDE DEF P
<1>13. Chain(N, nxt, w, k, P) BY <1>6, <1>7, <1>8, <1>9, <1>10, <1>11, <1>12 DEF Chain
<1>14. QED BY <1>13 DEF P

\* Every trace of a walk is a chain, by the place of least w for which it is not.
LEMMA TraceIsChain ==
  ASSUME NEW N \in Nat, NEW nxt, NEW w, Walk(N, nxt, w), NEW g, Traced(N, nxt, g)
  PROVE  \A k \in 1..N : Chain(N, nxt, w, k, g[k])
<1> DEFINE Bad == {k \in 1..N : ~Chain(N, nxt, w, k, g[k])}
           W == {w[k] : k \in Bad}
<1>0. nxt \in [1..N -> 0..N] /\ w \in [1..N -> Nat] BY DEF Walk
<1>1. SUFFICES ASSUME Bad # {} PROVE FALSE OBVIOUS
<1>2. PICK v \in W : \A u \in W : v <= u
  <2>1. W \in SUBSET Nat /\ W # {} BY <1>0, <1>1
  <2> HIDE DEF W
  <2>2. QED BY <2>1, NatMin
<1>3. PICK k \in Bad : v = w[k] OBVIOUS
<1>4. k \in 1..N /\ w[k] \in Nat BY <1>0
<1>5. g[k] = {k} \cup IF nxt[k] # 0 THEN g[nxt[k]] ELSE {} BY <1>4 DEF Traced
<1>6. CASE nxt[k] = 0
  <2>1. g[k] = {k} BY <1>5, <1>6
  <2>2. w[k] <= w[k] BY <1>4
  <2>3. Chain(N, nxt, w, k, {k})
    <3> HIDE DEF Bad
    <3>1. QED BY <1>4, <1>6, <2>2 DEF Chain
  <2>4. QED BY <1>3, <2>1, <2>3
<1>7. CASE nxt[k] # 0
  <2>1. PICK m \in 1..N : m = nxt[k] BY <1>0, <1>4, <1>7
  <2>2. w[m] < w[k] /\ w[m] \in Nat BY <1>0, <1>4, <1>7, <2>1 DEF Walk
  <2>3. m \notin Bad
    <3>1. SUFFICES ASSUME m \in Bad PROVE FALSE OBVIOUS
    <3>2. w[m] \in W BY <3>1
    <3>3. w[k] <= w[m] BY <1>2, <1>3, <3>2
    <3>4. QED BY <1>4, <2>2, <3>3
  <2>4. Chain(N, nxt, w, m, g[m]) BY <2>3
  <2>5. g[k] = {k} \cup g[m] BY <1>5, <1>7, <2>1
  <2>6. Chain(N, nxt, w, k, {k} \cup g[m])
    <3> HIDE DEF Bad
    <3>1. QED BY <1>4, <2>1, <2>4, ChainGrows
  <2>7. QED BY <1>3, <2>5, <2>6
<1>8. QED BY <1>6, <1>7

\* Where the entry that a place holds after the walk from k0 comes from: places off the walk keep
\* theirs, each place of the walk takes the next one's, and the last takes the entry of k0.
Source(nxt, P, k0, k) == IF k \notin P THEN k ELSE IF nxt[k] # 0 THEN nxt[k] ELSE k0

\* The places of h after the walk.
Moved(h, N, nxt, P, k0) == [k \in 1..N |-> h[Source(nxt, P, k0, k)]]

\* What falls along a walk up, and along a walk down.
Up(N) == [k \in 1..N |-> k]
Down(N) == [k \in 1..N |-> N - k]

\* Every place's entry goes to exactly one place.
LEMMA SourceFacts ==
  ASSUME NEW N \in Nat, NEW nxt, NEW w, Walk(N, nxt, w), NEW k0 \in 1..N,
         NEW P, Chain(N, nxt, w, k0, P)
  PROVE  /\ \A k \in 1..N : Source(nxt, P, k0, k) \in 1..N
         /\ \A j, k \in 1..N : Source(nxt, P, k0, j) = Source(nxt, P, k0, k) => j = k
         /\ \A j \in 1..N : \E k \in 1..N : Source(nxt, P, k0, k) = j
<1>0. nxt \in [1..N -> 0..N] /\ w \in [1..N -> Nat] BY DEF Walk
<1>1. P \subseteq 1..N /\ k0 \in P BY DEF Chain
<1>2. \A k \in 1..N : k \in P <=> Source(nxt, P, k0, k) \in P BY <1>1 DEF Source, Chain
<1>3. \A k \in P : nxt[k] # k0
  <2> SUFFICES ASSUME NEW k \in P, nxt[k] = k0 PROVE FALSE OBVIOUS
  <2>1. k \in 1..N /\ nxt[k] # 0 BY <1>1
  <2>2. w[k0] < w[k] /\ w[k] <= w[k0] BY <2>1 DEF Walk, Chain
  <2>3. w[k] \in Nat /\ w[k0] \in Nat BY <1>0, <2>1
  <2>4. QED BY <2>2, <2>3
<1>4. ASSUME NEW j \in 1..N, NEW k \in 1..N, Source(nxt, P, k0, j) = Source(nxt, P, k0, k)
      PROVE  j = k
  <2>1. CASE j \notin P
    <3>1. k \notin P BY <1>2, <1>4, <2>1
    <3>2. QED BY <1>4, <2>1, <3>1 DEF Source
  <2>2. CASE j \in P
    <3>1. k \in P BY <1>2, <1>4, <2>2
    <3>2. nxt[j] = nxt[k] BY <1>3, <1>4, <2>2, <3>1 DEF Source
    <3>3. QED BY <2>2, <3>1, <3>2 DEF Chain
  <2>3. QED BY <2>1, <2>2
<1>5. \A k \in 1..N : Source(nxt, P, k0, k) \in 1..N
  <2>1. TAKE k \in 1..N
  <2>2. k \in P => nxt[k] = 0 \/ nxt[k] \in P BY DEF Chain
  <2>3. QED BY <1>1, <2>2 DEF Source
<1>6. ASSUME NEW j \in 1..N PROVE \E k \in 1..N : Source(nxt, P, k0, k) = j
  <2>1. CASE j \notin P BY <2>1 DEF Source
  <2>2. CASE j = k0
    <3>1. PICK q \in P : nxt[q] = 0 BY DEF Chain
    <3>2. QED BY <1>1, <2>2, <3>1 DEF Source
  <2>3. CASE j \in P /\ j # k0
    <3>1. PICK q \in P : nxt[q] = j BY <2>3 DEF Chain
    <3>2. q \in 1..N /\ j # 0 BY <1>1
    <3>3. QED BY <3>1, <3>2 DEF Source
  <2>4. QED BY <2>1, <2>2, <2>3
<1>7. QED BY <1>4, <1>5, <1>6

-----------------------------------------------------------------------------
(* The heap's operations move entries and keep each of them.                 *)

Held(h) == {h[k] : k \in DOMAIN h}
Once(h) == \A j, k \in DOMAIN h : h[j].id = h[k].id => j = k

\* g has the entries of h, in another order perhaps.
Shuffled(h, g) ==
    /\ g \in Seq(Entry) /\ Len(g) = Len(h)
    /\ Held(g) = Held(h)
    /\ Once(h) => Once(g)

\* A walk keeps the entries: each place's entry goes to exactly one place.
LEMMA WalkShuffles ==
  ASSUME NEW h \in Seq(Entry), NEW N \in Nat, N = Len(h), NEW nxt, NEW w, Walk(N, nxt, w),
         NEW k0 \in 1..N, NEW P, Chain(N, nxt, w, k0, P)
  PROVE  Shuffled(h, Moved(h, N, nxt, P, k0))
<1> DEFINE s(k) == Source(nxt, P, k0, k)
<1>0. PICK g : g = Moved(h, N, nxt, P, k0) OBVIOUS
<1>1. /\ \A k \in 1..N : s(k) \in 1..N
      /\ \A j, k \in 1..N : s(j) = s(k) => j = k
      /\ \A j \in 1..N : \E k \in 1..N : s(k) = j
  <2>1. k0 \in 1..N /\ N \in Nat /\ Walk(N, nxt, w) /\ Chain(N, nxt, w, k0, P) OBVIOUS
  <2>2. QED BY ONLY <2>1, SourceFacts, Zenon
<1>2. DOMAIN h = 1..N /\ DOMAIN g = 1..N BY <1>0 DEF Moved
<1>3. \A k \in 1..N : g[k] = h[s(k)] BY <1>0 DEF Moved
<1> HIDE DEF s
<1>4. ASSUME NEW k \in 1..N PROVE g[k] \in Entry
  <2>1. s(k) \in DOMAIN h BY <1>1, <1>2
  <2>2. h[s(k)] \in Entry BY <2>1
  <2>3. QED BY <1>3, <2>2
<1>5. g \in Seq(Entry) /\ Len(g) = N
  <2>1. g = [k \in 1..N |-> g[k]] BY <1>0 DEF Moved
  <2>2. QED BY <1>4, <2>1
<1>6. Held(g) = Held(h)
  <2>1. ASSUME NEW x \in Held(g) PROVE x \in Held(h)
    <3>1. PICK k \in 1..N : x = g[k] BY <1>2 DEF Held
    <3>2. s(k) \in DOMAIN h /\ x = h[s(k)] BY <1>1, <1>2, <1>3, <3>1
    <3>3. QED BY <3>2 DEF Held
  <2>2. ASSUME NEW x \in Held(h) PROVE x \in Held(g)
    <3>1. PICK j \in 1..N : x = h[j] BY <1>2 DEF Held
    <3>2. PICK k \in 1..N : s(k) = j BY <1>1
    <3>3. g[k] = x BY <1>3, <3>1, <3>2
    <3>4. QED BY <1>2, <3>3 DEF Held
  <2>3. QED BY <2>1, <2>2
<1>7. Once(h) => Once(g)
  <2> SUFFICES ASSUME Once(h), NEW j \in 1..N, NEW k \in 1..N, g[j].id = g[k].id PROVE j = k
    BY <1>2 DEF Once
  <2>1. s(j) \in 1..N /\ s(k) \in 1..N /\ h[s(j)].id = h[s(k)].id BY <1>1, <1>3
  <2>2. s(j) = s(k) BY <1>2, <2>1 DEF Once
  <2>3. QED BY <1>1, <2>2
<1>8. QED BY <1>0, <1>5, <1>6, <1>7 DEF Shuffled

\* The walk of a push, from the last place up.
Rises(h, e, n, nxt) ==
    \A k \in 1..(Len(h) + 1) :
        nxt[k] = IF k > 1 /\ Less(e, h[k \div 2], n) THEN k \div 2 ELSE 0

\* A push appends the entry and walks.
PushBy(h, e, n, N, nxt, P) ==
    /\ Walk(N, nxt, Up(N)) /\ Rises(h, e, n, nxt)
    /\ Chain(N, nxt, Up(N), N, P)
    /\ HeapPush(h, e, n) = Moved(Append(h, e), N, nxt, P, N)

\* It always does.
LEMMA PushWalks ==
  ASSUME NEW h \in Seq(Entry), NEW e \in Entry, NEW n, NEW N \in Nat, N = Len(h) + 1
  PROVE  \E nxt, P : PushBy(h, e, n, N, nxt, P)
<1> DEFINE rises(k) == k > 1 /\ Less(e, h[k \div 2], n)
           nxt == [k \in 1..N |-> IF rises(k) THEN k \div 2 ELSE 0]
           w == Up(N)
           IsPath(g) == g = [k \in 1..N |-> {k} \cup IF rises(k) THEN g[k \div 2] ELSE {}]
           path == CHOOSE g : IsPath(g)
<1>1. \A k \in 1..N : k > 1 => k \div 2 \in 1..N /\ k \div 2 < k /\ k \div 2 \in 1..Len(h) OBVIOUS
<1>2. nxt \in [1..N -> 0..N]
  <2> HIDE DEF rises
  <2>1. \A k \in 1..N : k \div 2 \in 0..N OBVIOUS
  <2>2. QED BY <2>1
<1>3. \A k \in 1..N : nxt[k] # 0 <=> rises(k) BY <1>1
<1>4. \A k \in 1..N : nxt[k] # 0 => nxt[k] = k \div 2 /\ k > 1 OBVIOUS
<1>5. Walk(N, nxt, w)
  <2>1. w \in [1..N -> Nat] /\ \A k \in 1..N : w[k] = k BY DEF Up
  <2>2. \A k \in 1..N : nxt[k] # 0 => w[nxt[k]] < w[k] BY <1>1, <1>4, <2>1
  <2> HIDE DEF nxt, w
  <2>3. QED BY <1>2, <2>1, <2>2 DEF Walk
<1>6. Rises(h, e, n, nxt) BY DEF Rises
<1>7. ASSUME NEW g PROVE IsPath(g) <=> Traced(N, nxt, g)
  <2>1. \A k \in 1..N : ({k} \cup IF rises(k) THEN g[k \div 2] ELSE {})
                        = ({k} \cup IF nxt[k] # 0 THEN g[nxt[k]] ELSE {})
    <3> HIDE DEF nxt, rises
    <3>1. QED BY <1>3, <1>4
  <2> HIDE DEF nxt, rises
  <2>2. QED BY <2>1 DEF Traced
<1>8. Traced(N, nxt, path)
  <2> HIDE DEF IsPath, nxt
  <2>1. QED BY <1>2, <1>7, TraceExists
<1>9. Chain(N, nxt, w, N, path[N])
  <2> HIDE DEF path, nxt, w
  <2>1. N \in 1..N OBVIOUS
  <2>2. QED BY <1>5, <1>8, <2>1, TraceIsChain
<1>10. HeapPush(h, e, n) = [k \in 1..N |-> IF k \notin path[N] THEN h[k]
                                          ELSE IF rises(k) THEN h[k \div 2] ELSE e]
  BY DEF HeapPush
<1>11. ASSUME NEW k \in 1..N
       PROVE  Append(h, e)[Source(nxt, path[N], N, k)]
               = IF k \notin path[N] THEN h[k] ELSE IF rises(k) THEN h[k \div 2] ELSE e
  <2>1. N \in path[N]
    <3> HIDE DEF path, nxt, w
    <3>1. QED BY <1>9 DEF Chain
  <2>2. \A j \in 1..Len(h) : Append(h, e)[j] = h[j] OBVIOUS
  <2>3. Append(h, e)[N] = e OBVIOUS
  <2> HIDE DEF path
  <2>4. CASE k \notin path[N]
    <3>1. k \in 1..Len(h) BY <2>1, <2>4
    <3>2. QED BY <2>2, <2>4, <3>1 DEF Source
  <2>5. CASE k \in path[N] /\ rises(k)
    <3>1. nxt[k] # 0 /\ nxt[k] = k \div 2 /\ k \div 2 \in 1..Len(h)
      <4>1. k > 1 BY <2>5
      <4> HIDE DEF nxt, rises
      <4>2. QED BY <1>1, <1>3, <1>4, <2>5, <4>1
    <3> HIDE DEF nxt, rises
    <3>2. QED BY <2>2, <2>5, <3>1 DEF Source
  <2>6. CASE k \in path[N] /\ ~rises(k)
    <3> HIDE DEF nxt, rises
    <3>1. nxt[k] = 0 BY <1>3, <2>6
    <3>2. QED BY <2>3, <2>6, <3>1 DEF Source
  <2>7. QED BY <2>4, <2>5, <2>6
<1>12. HeapPush(h, e, n) = Moved(Append(h, e), N, nxt, path[N], N)
  <2> HIDE DEF path, nxt, rises
  <2>1. QED BY <1>10, <1>11 DEF Moved
<1> HIDE DEF path, nxt
<1>13. WITNESS nxt, path[N]
<1>14. QED BY <1>5, <1>6, <1>9, <1>12 DEF PushBy

\* The preferred child.
Child(h, k, n) == IF 2*k + 1 <= Len(h) /\ Less(h[2*k + 1], h[2*k], n) THEN 2*k + 1 ELSE 2*k

\* The walk of the entry at i down.
Sinks(h, i, n, nxt) ==
    \A k \in 1..Len(h) :
        nxt[k] = IF 2*k <= Len(h) /\ Less(h[Child(h, k, n)], h[i], n) THEN Child(h, k, n) ELSE 0

\* Sinking is a walk.
DownBy(h, i, n, N, nxt, P) ==
    /\ Walk(N, nxt, Down(N)) /\ Sinks(h, i, n, nxt)
    /\ Chain(N, nxt, Down(N), i, P)
    /\ HeapDown(h, i, n) = Moved(h, N, nxt, P, i)

\* It always is.
LEMMA DownWalks ==
  ASSUME NEW h \in Seq(Entry), NEW n, NEW N \in Nat, N = Len(h), NEW i \in 1..N
  PROVE  \E nxt, P : DownBy(h, i, n, N, nxt, P)
<1> DEFINE child(k) == Child(h, k, n)
           sinks(k) == 2*k <= N /\ Less(h[child(k)], h[i], n)
           nxt == [k \in 1..N |-> IF sinks(k) THEN child(k) ELSE 0]
           w == Down(N)
           IsPath(g) == g = [k \in 1..N |-> {k} \cup IF sinks(k) THEN g[child(k)] ELSE {}]
           path == CHOOSE g : IsPath(g)
<1>1. \A k \in 1..N : 2*k <= N => child(k) \in 1..N /\ k < child(k) BY DEF Child
<1>2. \A k \in 1..N : sinks(k) => child(k) \in 1..N /\ k < child(k) BY <1>1
<1> HIDE DEF child
<1>3. nxt \in [1..N -> 0..N]
  <2> HIDE DEF sinks
  <2>1. \A k \in 1..N : sinks(k) => child(k) \in 0..N BY <1>2
  <2>2. QED BY <2>1
<1>4. \A k \in 1..N : nxt[k] # 0 <=> sinks(k)
  <2> HIDE DEF sinks
  <2>1. QED BY <1>2
<1>5. \A k \in 1..N : nxt[k] # 0 => nxt[k] = child(k) OBVIOUS
<1>6. Walk(N, nxt, w)
  <2>1. w \in [1..N -> Nat] /\ \A k \in 1..N : w[k] = N - k BY DEF Down
  <2> HIDE DEF sinks, w, nxt
  <2>2. ASSUME NEW k \in 1..N, nxt[k] # 0 PROVE w[nxt[k]] < w[k]
    <3>1. PICK m \in 1..N : m = nxt[k] /\ k < m BY <1>2, <1>4, <1>5, <2>2
    <3>2. QED BY <2>1, <3>1
  <2>3. \A j, k \in 1..N : w[j] = w[k] => j = k BY <2>1
  <2>4. QED BY <1>3, <2>1, <2>2, <2>3 DEF Walk
<1>7. Sinks(h, i, n, nxt) BY DEF Sinks, child
<1>8. ASSUME NEW g PROVE IsPath(g) <=> Traced(N, nxt, g)
  <2>1. \A k \in 1..N : ({k} \cup IF sinks(k) THEN g[child(k)] ELSE {})
                        = ({k} \cup IF nxt[k] # 0 THEN g[nxt[k]] ELSE {})
    <3> HIDE DEF nxt, sinks
    <3>1. QED BY <1>4, <1>5
  <2> HIDE DEF nxt, sinks
  <2>2. QED BY <2>1 DEF Traced
<1>9. Traced(N, nxt, path)
  <2> HIDE DEF IsPath, nxt
  <2>1. QED BY <1>3, <1>8, TraceExists
<1>10. Chain(N, nxt, w, i, path[i])
  <2> HIDE DEF path, nxt, w
  <2>1. QED BY <1>6, <1>9, TraceIsChain
<1>11. HeapDown(h, i, n) = [k \in 1..N |-> IF k \notin path[i] THEN h[k]
                                          ELSE IF sinks(k) THEN h[child(k)] ELSE h[i]]
  BY DEF HeapDown, Child, child
<1>12. \A k \in 1..N : h[Source(nxt, path[i], i, k)]
                        = IF k \notin path[i] THEN h[k] ELSE IF sinks(k) THEN h[child(k)] ELSE h[i]
  <2> HIDE DEF path, nxt, sinks
  <2>1. QED BY <1>4, <1>5 DEF Source
<1>13. HeapDown(h, i, n) = Moved(h, N, nxt, path[i], i)
  <2> HIDE DEF path, nxt, sinks
  <2>1. QED BY <1>11, <1>12 DEF Moved
<1> HIDE DEF path, nxt
<1>14. WITNESS nxt, path[i]
<1>15. QED BY <1>6, <1>7, <1>10, <1>13 DEF DownBy

-----------------------------------------------------------------------------
(* The heap's order.                                                         *)

\* No entry of h arrived after the reading n.
Current(h, n) == \A x \in Held(h) : n <= x.age

\* The order holds between the places from i on and their children.
OrderedFrom(h, i) == \A k \in DOMAIN h : k \div 2 >= i => Key(h[k \div 2]) >= Key(h[k])

\* Multiplication distributes over a difference.
LEMMA Distributes == \A a, b, c \in Nat : a * (b - c) = a * b - a * c
OBVIOUS

\* At a reading that is current for both, Less compares the keys.
LEMMA LessIsKey ==
  ASSUME AdmissionAssumption
  PROVE  \A a, b \in Entry : \A n \in Nat :
            /\ Key(a) \in Nat /\ Key(b) \in Nat
            /\ n <= a.age /\ n <= b.age => (Less(a, b, n) <=> Key(a) > Key(b))
<1> SUFFICES ASSUME NEW a \in Entry, NEW b \in Entry, NEW n \in Nat
             PROVE  /\ Key(a) \in Nat /\ Key(b) \in Nat
                    /\ n <= a.age /\ n <= b.age => (Less(a, b, n) <=> Key(a) > Key(b))
  OBVIOUS
<1>1. AgingAlpha \in Nat /\ MaxAge \in Nat /\ One \in Nat BY DEF AdmissionAssumption
<1>2. /\ a.score \in Nat /\ b.score \in Nat /\ a.age \in Nat /\ b.age \in Nat
  BY <1>1 DEF Entry, Ages
<1>3. PICK x, y, z \in Nat : x = AgingAlpha * a.age /\ y = AgingAlpha * b.age /\ z = AgingAlpha * n
  BY <1>1, <1>2
<1>4. Key(a) = a.score + x /\ Key(b) = b.score + y BY <1>3 DEF Key
<1>5. ASSUME n <= a.age, n <= b.age PROVE Less(a, b, n) <=> Key(a) > Key(b)
  <2>1. Max2(0, a.age - n) = a.age - n /\ Max2(0, b.age - n) = b.age - n
    BY <1>2, <1>5 DEF Max2
  <2>2. AgingAlpha * (a.age - n) = x - z /\ AgingAlpha * (b.age - n) = y - z
    BY <1>1, <1>2, <1>3, Distributes
  <2>3. EffectivePriority(a, n) = a.score + (x - z) /\ EffectivePriority(b, n) = b.score + (y - z)
    BY <2>1, <2>2 DEF EffectivePriority
  <2>4. QED BY <1>2, <1>4, <2>3 DEF Less
<1>6. QED BY <1>2, <1>4, <1>5

\* A push keeps the entries and adds one, and at a current reading it keeps the order.
LEMMA PushFacts ==
  ASSUME AdmissionAssumption, NEW h \in Seq(Entry), NEW e \in Entry, NEW n \in Nat
  PROVE  /\ HeapPush(h, e, n) \in Seq(Entry)
         /\ Len(HeapPush(h, e, n)) = Len(h) + 1
         /\ Held(HeapPush(h, e, n)) = Held(h) \cup {e}
         /\ Once(h) /\ (\A x \in Held(h) : x.id # e.id) => Once(HeapPush(h, e, n))
         /\ HeapOrdered(h) /\ Current(h, n) /\ n <= e.age => HeapOrdered(HeapPush(h, e, n))
<1>1. PICK N \in Nat : N = Len(h) + 1 OBVIOUS
<1>a. PICK a : a = Append(h, e) OBVIOUS
<1>w. PICK w : w = Up(N) OBVIOUS
<1>2. PICK nxt, P : /\ Walk(N, nxt, w) /\ Rises(h, e, n, nxt) /\ Chain(N, nxt, w, N, P)
                    /\ HeapPush(h, e, n) = Moved(a, N, nxt, P, N)
  <2>1. \E nxt, P : PushBy(h, e, n, N, nxt, P) BY <1>1, PushWalks
  <2>2. QED BY <1>a, <1>w, <2>1 DEF PushBy
<1>3. PICK g : g = HeapPush(h, e, n) OBVIOUS
<1>4. a \in Seq(Entry) /\ Len(a) = N /\ DOMAIN a = 1..N /\ a[N] = e BY <1>1, <1>a
<1>5. \A k \in 1..Len(h) : a[k] = h[k] BY <1>a
<1>6. N \in 1..N /\ DOMAIN h = 1..Len(h) BY <1>1
<1>7. Shuffled(a, g)
  <2>1. g = Moved(a, N, nxt, P, N) BY <1>2, <1>3
  <2>2. QED BY <1>2, <1>4, <1>6, <2>1, WalkShuffles
<1>8. Held(a) = Held(h) \cup {e}
  <2>1. ASSUME NEW x \in Held(a) PROVE x \in Held(h) \cup {e}
    <3>1. PICK k \in 1..N : x = a[k] BY <1>4 DEF Held
    <3>2. CASE k = N BY <1>4, <3>1, <3>2
    <3>3. CASE k # N
      <4>1. k \in 1..Len(h) BY <1>1, <3>3
      <4>2. QED BY <1>5, <1>6, <3>1, <4>1 DEF Held
    <3>4. QED BY <3>2, <3>3
  <2>2. ASSUME NEW x \in Held(h) PROVE x \in Held(a)
    <3>1. PICK k \in 1..Len(h) : x = h[k] BY <1>6 DEF Held
    <3>2. k \in DOMAIN a /\ a[k] = x BY <1>1, <1>4, <1>5, <3>1
    <3>3. QED BY <3>2 DEF Held
  <2>3. e \in Held(a) BY <1>4, <1>6 DEF Held
  <2>4. QED BY <2>1, <2>2, <2>3
<1>9. ASSUME Once(h), \A x \in Held(h) : x.id # e.id PROVE Once(a)
  <2>1. SUFFICES ASSUME NEW j \in 1..N, NEW k \in 1..N, a[j].id = a[k].id PROVE j = k
    BY <1>4 DEF Once
  <2>2. \A m \in 1..Len(h) : h[m].id # e.id BY <1>6, <1>9 DEF Held
  <2>3. \A m \in 1..N : m = N \/ m \in 1..Len(h) BY <1>1
  <2>4. CASE j = N /\ k = N BY <2>4
  <2>5. CASE j \in 1..Len(h) /\ k \in 1..Len(h) BY <1>5, <1>6, <1>9, <2>1, <2>5 DEF Once
  <2>6. CASE j = N /\ k \in 1..Len(h) BY <1>4, <1>5, <2>1, <2>2, <2>6
  <2>7. CASE j \in 1..Len(h) /\ k = N BY <1>4, <1>5, <2>1, <2>2, <2>7
  <2>8. QED BY <2>3, <2>4, <2>5, <2>6, <2>7
<1>10. ASSUME HeapOrdered(h), Current(h, n), n <= e.age PROVE HeapOrdered(g)
  <2>1. /\ \A k \in 1..Len(h) : h[k] \in Entry /\ Key(h[k]) \in Nat
        /\ \A k \in 1..Len(h) : Less(e, h[k], n) <=> Key(e) > Key(h[k])
        /\ Key(e) \in Nat
    <3>1. \A k \in 1..Len(h) : h[k] \in Entry /\ n <= h[k].age
      BY <1>6, <1>10 DEF Current, Held
    <3>2. QED BY <1>10, <3>1, LessIsKey
  <2>2. \A k \in 2..Len(h) : Key(h[k \div 2]) >= Key(h[k])
    BY <1>6, <1>10 DEF HeapOrdered
  <2>3. /\ P \subseteq 1..N /\ N \in P /\ \A p \in P : nxt[p] # 0 => nxt[p] \in P
        /\ \A p \in P : p = N \/ \E q \in P : nxt[q] = p
    BY <1>2 DEF Chain
  <2>4. \A p, q \in P : nxt[q] = 0 => q <= p
    <3>1. \A p, q \in P : nxt[q] = 0 => w[q] <= w[p]
      BY <1>2 DEF Chain
    <3>2. \A p \in P : w[p] = p BY <1>w, <2>3 DEF Up
    <3>3. QED BY <3>1, <3>2
  <2>5. \A k \in 1..N : nxt[k] = IF k > 1 /\ Less(e, h[k \div 2], n) THEN k \div 2 ELSE 0
    BY <1>1, <1>2 DEF Rises
  <2>6. \A k \in 1..N : g[k] = a[Source(nxt, P, N, k)] /\ DOMAIN g = 1..N
    BY <1>2, <1>3 DEF Moved
  <2>7. \A k \in 1..N : k \notin P => k \in 1..Len(h) /\ g[k] = h[k]
    BY <1>1, <1>5, <2>3, <2>6 DEF Source
  <2>8. \A k \in P : nxt[k] = 0 => g[k] = e BY <1>4, <2>3, <2>6 DEF Source
  <2>9. ASSUME NEW k \in P, nxt[k] # 0
        PROVE  /\ k \in 2..N /\ nxt[k] = k \div 2 /\ k \div 2 \in 1..Len(h)
               /\ Key(e) > Key(h[k \div 2]) /\ g[k] = h[k \div 2]
    <3>1. k \in 1..N /\ k > 1 /\ Less(e, h[k \div 2], n) /\ nxt[k] = k \div 2
      BY <2>3, <2>5, <2>9
    <3>2. PICK m \in 1..Len(h) : m = k \div 2 BY <1>1, <3>1
    <3>3. g[k] = h[m] BY <1>5, <2>6, <2>9, <3>1, <3>2 DEF Source
    <3>4. QED BY <2>1, <3>1, <3>2, <3>3
  <2>10. SUFFICES ASSUME NEW k \in 2..N PROVE Key(g[k \div 2]) >= Key(g[k])
    <3>1. DOMAIN g = 1..N BY <1>6, <2>6
    <3>2. \A k \in DOMAIN g : k > 1 => k \in 2..N BY <1>1, <3>1
    <3>3. QED BY <2>10, <3>2 DEF HeapOrdered
  <2>11. PICK m \in 1..Len(h) : m = k \div 2 /\ m < k BY <1>1, <2>10
  <2>12. ASSUME m \in P, m # N PROVE Key(e) > Key(h[m])
    <3>1. PICK q \in P : nxt[q] = m BY <2>3, <2>12
    <3>2. QED BY <2>9, <3>1
  <2>13. ASSUME m \in P PROVE Key(g[m]) >= Key(h[m])
    <3>1. CASE nxt[m] = 0
      <4>1. m # N BY <1>1
      <4>2. QED BY <2>1, <2>8, <2>12, <2>13, <3>1, <4>1
    <3>2. CASE nxt[m] # 0
      <4>1. m \in 2..Len(h) /\ g[m] = h[m \div 2] BY <2>9, <2>13, <3>2
      <4>2. QED BY <2>2, <4>1
    <3>3. QED BY <3>1, <3>2
  <2>14. CASE k \notin P
    <3>1. k \in 2..Len(h) /\ g[k] = h[k] BY <2>7, <2>14
    <3>2. Key(h[m]) >= Key(h[k]) BY <2>2, <2>11, <3>1
    <3>3. CASE m \in P
      <4>1. /\ Key(g[m]) >= Key(h[m]) /\ Key(h[m]) \in Nat /\ Key(h[k]) \in Nat /\ Key(g[m]) \in Nat
        <5>1. g[m] = e \/ \E j \in 1..Len(h) : g[m] = h[j] BY <2>8, <2>9, <3>3
        <5>2. QED BY <2>1, <2>13, <3>1, <3>3, <5>1
      <4>2. QED BY <2>11, <3>1, <3>2, <4>1
    <3>4. CASE m \notin P
      <4>1. m \in 1..N BY <1>1
      <4>2. QED BY <2>7, <2>11, <3>1, <3>2, <3>4, <4>1
    <3>5. QED BY <3>3, <3>4
  <2>15. CASE k \in P /\ nxt[k] # 0
    <3>1. m \in P /\ g[k] = h[m] BY <2>3, <2>9, <2>11, <2>15
    <3>2. QED BY <2>11, <2>13, <3>1
  <2>16. CASE k \in P /\ nxt[k] = 0
    <3>1. m \notin P BY <2>4, <2>11, <2>16
    <3>2. m \in 1..N BY <1>1
    <3>3. g[m] = h[m] /\ g[k] = e BY <2>7, <2>8, <2>16, <3>1, <3>2
    <3>4. ~Less(e, h[m], n)
      <4>1. k \in 1..N /\ k > 1 BY <1>1
      <4>2. nxt[k] = IF k > 1 /\ Less(e, h[m], n) THEN m ELSE 0 BY <2>5, <2>11, <4>1
      <4>3. QED BY <2>16, <4>1, <4>2
    <3>5. ~(Key(e) > Key(h[m])) /\ Key(e) \in Nat /\ Key(h[m]) \in Nat BY <2>1, <3>4
    <3>6. QED BY <2>11, <3>3, <3>5
  <2>17. QED BY <2>14, <2>15, <2>16
<1>11. QED
  <2>1. QED BY <1>1, <1>3, <1>4, <1>7, <1>8, <1>9, <1>10 DEF Shuffled

\* Sinking keeps the entries; where the order held below i, it then holds from i on.
LEMMA DownFacts ==
  ASSUME AdmissionAssumption, NEW h \in Seq(Entry), NEW n \in Nat, NEW i \in 1..Len(h)
  PROVE  /\ Shuffled(h, HeapDown(h, i, n))
         /\ Current(h, n) /\ OrderedFrom(h, i + 1) => OrderedFrom(HeapDown(h, i, n), i)
<1>1. PICK N \in Nat : N = Len(h) /\ i \in 1..N OBVIOUS
<1>w. PICK w : w = Down(N) OBVIOUS
<1>2. PICK nxt, P : /\ Walk(N, nxt, w) /\ Sinks(h, i, n, nxt) /\ Chain(N, nxt, w, i, P)
                    /\ HeapDown(h, i, n) = Moved(h, N, nxt, P, i)
  <2>1. \E nxt, P : DownBy(h, i, n, N, nxt, P) BY <1>1, DownWalks
  <2>2. QED BY <1>w, <2>1 DEF DownBy
<1>3. PICK g : g = HeapDown(h, i, n) OBVIOUS
<1>4. Shuffled(h, g)
  <2>1. g = Moved(h, N, nxt, P, i) BY <1>2, <1>3
  <2>2. QED BY <1>1, <1>2, <2>1, WalkShuffles
<1>5. ASSUME Current(h, n), OrderedFrom(h, i + 1) PROVE OrderedFrom(g, i)
  <2>0. DOMAIN h = 1..N BY <1>1
  <2>1. /\ \A k \in 1..N : h[k] \in Entry /\ Key(h[k]) \in Nat
        /\ \A j, k \in 1..N : Less(h[j], h[k], n) <=> Key(h[j]) > Key(h[k])
    <3>1. \A k \in 1..N : h[k] \in Entry /\ n <= h[k].age BY <1>5, <2>0 DEF Current, Held
    <3>2. QED BY <3>1, LessIsKey
  <2>2. \A k \in 1..N : k \div 2 >= i + 1 => Key(h[k \div 2]) >= Key(h[k])
    BY <1>5, <2>0 DEF OrderedFrom
  <2>3. /\ P \subseteq 1..N /\ i \in P /\ \A p \in P : nxt[p] # 0 => nxt[p] \in P
        /\ \A p \in P : p = i \/ \E q \in P : nxt[q] = p
    BY <1>2 DEF Chain
  <2>5. \A k \in 1..N : nxt[k] = IF 2*k <= N /\ Less(h[Child(h, k, n)], h[i], n)
                                 THEN Child(h, k, n) ELSE 0
    BY <1>1, <1>2 DEF Sinks
  <2>6. DOMAIN g = 1..N /\ \A k \in 1..N : g[k] = h[Source(nxt, P, i, k)]
    BY <1>2, <1>3 DEF Moved
  <2>7. \A k \in 1..N : k \notin P => g[k] = h[k] BY <2>6 DEF Source
  <2>8. \A k \in P : nxt[k] = 0 => g[k] = h[i] BY <2>3, <2>6 DEF Source
  <2>9. \A k \in P : nxt[k] # 0 => g[k] = h[nxt[k]] BY <2>3, <2>6 DEF Source
  \* The preferred child of a place that has children.
  <2>10. ASSUME NEW m \in 1..N, 2*m <= N
         PROVE  /\ Child(h, m, n) \in 1..N /\ Child(h, m, n) > m /\ Child(h, m, n) \div 2 = m
                /\ \A k \in 1..N : k \div 2 = m => Key(h[Child(h, m, n)]) >= Key(h[k])
    <3>1. PICK c : c = Child(h, m, n) OBVIOUS
    <3>2. c = IF 2*m + 1 <= N /\ Less(h[2*m + 1], h[2*m], n) THEN 2*m + 1 ELSE 2*m
      BY <1>1, <3>1 DEF Child
    <3>3. c \in {2*m, 2*m + 1} /\ c \in 1..N BY <2>10, <3>2
    <3>4. c > m /\ c \div 2 = m BY <3>3
    <3>5. ASSUME NEW k \in 1..N, k \div 2 = m PROVE Key(h[c]) >= Key(h[k])
      <4>1. k = 2*m \/ k = 2*m + 1 BY <3>5
      <4>2. CASE 2*m + 1 <= N
        <5>1. 2*m \in 1..N /\ 2*m + 1 \in 1..N BY <4>2
        <5>2. PICK x, y \in Nat : x = Key(h[2*m]) /\ y = Key(h[2*m + 1]) BY <2>1, <5>1
        <5>3. c = IF y > x THEN 2*m + 1 ELSE 2*m BY <2>1, <3>2, <4>2, <5>1, <5>2
        <5>4. QED BY <4>1, <5>2, <5>3, SMTT(60)
      <4>3. CASE ~(2*m + 1 <= N)
        <5>1. c = 2*m /\ k = 2*m BY <3>2, <4>1, <4>3
        <5>2. QED BY <2>1, <5>1
      <4>4. QED BY <4>2, <4>3
    <3>6. QED BY <3>1, <3>3, <3>4, <3>5
  <2>11. \A q \in P : nxt[q] # 0 => 2*q <= N /\ nxt[q] = Child(h, q, n) /\ nxt[q] \div 2 = q
    BY <2>3, <2>5, <2>10
  <2>12. SUFFICES ASSUME NEW k \in 1..N, k \div 2 >= i PROVE Key(g[k \div 2]) >= Key(g[k])
    BY <2>6 DEF OrderedFrom
  <2>13. PICK m \in 1..N : m = k \div 2 /\ m < k /\ 2*m <= N /\ m >= i BY <1>1, <2>12
  <2>14. ASSUME k \in P PROVE m \in P /\ nxt[m] = k
    <3>1. k # i BY <1>1, <2>13
    <3>2. PICK q \in P : nxt[q] = k BY <2>3, <2>14, <3>1
    <3>3. k # 0 BY <2>12
    <3>4. q = k \div 2 BY <2>11, <3>2, <3>3
    <3>5. QED BY <2>13, <3>2, <3>4
  <2>15. CASE m \notin P
    <3>1. k \notin P BY <2>14, <2>15
    <3>2. g[m] = h[m] /\ g[k] = h[k] BY <2>7, <2>15, <3>1
    <3>3. m # i BY <2>3, <2>15
    <3>4. m >= i + 1 BY <1>1, <2>13, <3>3
    <3>5. QED BY <2>2, <2>13, <3>2, <3>4
  <2>16. CASE m \in P /\ nxt[m] # 0
    <3>1. PICK c \in 1..N : /\ c = nxt[m] /\ c = Child(h, m, n) /\ c \in P /\ c > m /\ c \div 2 = m
                            /\ Key(h[c]) >= Key(h[k]) /\ Less(h[c], h[i], n)
      <4>1. nxt[m] = Child(h, m, n) /\ nxt[m] \in P BY <2>3, <2>11, <2>16
      <4>2. Less(h[Child(h, m, n)], h[i], n) BY <2>5, <2>16
      <4>3. QED BY <2>10, <2>13, <4>1, <4>2
    <3>2. g[m] = h[c] BY <2>9, <2>16, <3>1
    <3>3. CASE k \notin P BY <2>7, <2>13, <3>1, <3>2, <3>3
    <3>4. CASE k \in P
      <4>1. k = c BY <2>14, <3>1, <3>4
      <4>2. CASE nxt[c] = 0
        <5>1. g[k] = h[i] BY <2>8, <3>1, <4>1, <4>2
        <5>2. Key(h[c]) > Key(h[i]) /\ Key(h[c]) \in Nat /\ Key(h[i]) \in Nat
          BY <1>1, <2>1, <3>1
        <5>3. QED BY <2>13, <3>2, <5>1, <5>2
      <4>3. CASE nxt[c] # 0
        <5>1. PICK d \in 1..N : d = nxt[c] /\ d \div 2 = c /\ d = Child(h, c, n)
          <6>1. nxt[c] \in P BY <2>3, <3>1, <4>3
          <6>2. QED BY <2>3, <2>11, <3>1, <4>3, <6>1
        <5>2. g[k] = h[d] BY <2>9, <3>1, <4>1, <4>3, <5>1
        <5>3. c >= i + 1 BY <1>1, <2>13, <3>1
        <5>4. QED BY <2>2, <2>13, <3>2, <5>1, <5>2, <5>3
      <4>4. QED BY <4>2, <4>3
    <3>5. QED BY <3>3, <3>4
  <2>17. CASE m \in P /\ nxt[m] = 0
    <3>1. k \notin P BY <2>12, <2>14, <2>17
    <3>2. g[k] = h[k] /\ g[m] = h[i] BY <2>7, <2>8, <2>17, <3>1
    <3>3. PICK c \in 1..N : c = Child(h, m, n) /\ Key(h[c]) >= Key(h[k]) BY <2>10, <2>13
    <3>4. ~Less(h[c], h[i], n)
      <4>1. nxt[m] = IF 2*m <= N /\ Less(h[c], h[i], n) THEN c ELSE 0 BY <2>5, <3>3
      <4>2. c # 0 BY <3>3
      <4>3. QED BY <2>13, <2>17, <4>1, <4>2
    <3>5. ~(Key(h[c]) > Key(h[i])) /\ Key(h[c]) \in Nat /\ Key(h[i]) \in Nat /\ Key(h[k]) \in Nat
      BY <1>1, <2>1, <3>4
    <3>6. QED BY <2>13, <3>2, <3>3, <3>5
  <2>18. QED BY <2>15, <2>16, <2>17
<1>6. QED BY <1>3, <1>4, <1>5

\* The heap's order is that of all places.
LEMMA OrderedIsAll == \A h \in Seq(Entry) : HeapOrdered(h) <=> OrderedFrom(h, 1)
<1> SUFFICES ASSUME NEW h \in Seq(Entry) PROVE HeapOrdered(h) <=> OrderedFrom(h, 1) OBVIOUS
<1>1. \A k \in DOMAIN h : k > 1 <=> k \div 2 >= 1 OBVIOUS
<1>2. QED BY <1>1 DEF HeapOrdered, OrderedFrom

\* A pop takes the head and keeps the rest, and at a current reading the order as well.
LEMMA PopFacts ==
  ASSUME AdmissionAssumption, NEW h \in Seq(Entry), NEW n \in Nat, h # <<>>
  PROVE  /\ HeapPop(h, n) \in Seq(Entry)
         /\ Len(HeapPop(h, n)) = Len(h) - 1
         /\ Held(HeapPop(h, n)) \subseteq Held(h)
         /\ Held(h) = Held(HeapPop(h, n)) \cup {h[1]}
         /\ Once(h) => Once(HeapPop(h, n))
         /\ HeapOrdered(h) /\ Current(h, n) => HeapOrdered(HeapPop(h, n))
<1>1. PICK N \in Nat : N = Len(h) /\ N >= 1 /\ DOMAIN h = 1..N
  <2>1. Len(h) \in Nat /\ Len(h) # 0 OBVIOUS
  <2>2. QED BY <2>1
<1>2. CASE N = 1
  <2>1. HeapPop(h, n) = <<>> BY <1>1, <1>2 DEF HeapPop
  <2>2. DOMAIN <<>> = {} /\ Held(<<>>) = {} BY DEF Held
  <2>3. Once(<<>>) /\ HeapOrdered(<<>>) BY <2>2 DEF Once, HeapOrdered
  <2>4. Held(h) = {h[1]} BY <1>1, <1>2 DEF Held
  <2>5. <<>> \in Seq(Entry) /\ Len(<<>>) = 0 OBVIOUS
  <2>6. QED BY <1>1, <1>2, <2>1, <2>2, <2>3, <2>4, <2>5
<1>3. CASE N # 1
  <2>1. PICK M \in Nat : M = N - 1 /\ M >= 1 BY <1>1, <1>3
  <2>2. PICK b : b = [k \in 1..M |-> IF k = 1 THEN h[N] ELSE h[k]] OBVIOUS
  <2>3. HeapPop(h, n) = HeapDown(b, 1, n) BY <1>1, <1>3, <2>1, <2>2 DEF HeapPop
  <2>4. b \in Seq(Entry) /\ Len(b) = M /\ DOMAIN b = 1..M
    <3>1. \A k \in 1..M : (IF k = 1 THEN h[N] ELSE h[k]) \in Entry BY <1>1, <2>1
    <3>2. QED BY <2>1, <2>2, <3>1
  <2>5. b[1] = h[N] /\ \A k \in 2..M : b[k] = h[k] BY <2>1, <2>2
  <2>6. 1 \in 1..Len(b) BY <2>1, <2>4
  <2>7. /\ Shuffled(b, HeapDown(b, 1, n))
        /\ Current(b, n) /\ OrderedFrom(b, 2) => OrderedFrom(HeapDown(b, 1, n), 1)
    BY <2>4, <2>6, DownFacts
  <2>8. Held(b) \subseteq Held(h)
    <3>1. SUFFICES ASSUME NEW x \in Held(b) PROVE x \in Held(h) OBVIOUS
    <3>2. PICK k \in 1..M : x = b[k] BY <2>4, <3>1 DEF Held
    <3>3. CASE k = 1 BY SMTT(60), <1>1, <2>5, <3>2, <3>3 DEF Held
    <3>4. CASE k # 1
      <4>1. k \in 2..M /\ k \in 1..N BY <2>1, <3>4
      <4>2. QED BY <1>1, <2>5, <3>2, <4>1 DEF Held
    <3>5. QED BY <3>3, <3>4
  <2>9. Held(h) = Held(b) \cup {h[1]}
    <3>1. h[1] \in Held(h) BY <1>1 DEF Held
    <3>2. ASSUME NEW x \in Held(h), x # h[1] PROVE x \in Held(b)
      <4>1. PICK k \in 1..N : x = h[k] BY <1>1, <3>2 DEF Held
      <4>2. k # 1 BY <3>2, <4>1
      <4>3. CASE k = N
        <5>1. 1 \in DOMAIN b /\ b[1] = x BY <2>4, <2>5, <2>6, <4>1, <4>3
        <5>2. QED BY <5>1 DEF Held
      <4>4. CASE k # N
        <5>1. k \in 2..M BY <2>1, <4>2, <4>4
        <5>2. k \in DOMAIN b /\ b[k] = x BY <2>4, <2>5, <4>1, <5>1
        <5>3. QED BY <5>2 DEF Held
      <4>5. QED BY <4>3, <4>4
    <3>3. QED BY <2>8, <3>1, <3>2
  <2>10. ASSUME Once(h) PROVE Once(b)
    <3>1. SUFFICES ASSUME NEW j \in 1..M, NEW k \in 1..M, b[j].id = b[k].id PROVE j = k
      BY <2>4 DEF Once
    <3>2. \A l, m \in 1..N : h[l].id = h[m].id => l = m BY <1>1, <2>10 DEF Once
    <3>3. \A l \in 1..M : l = 1 \/ l \in 2..M OBVIOUS
    <3>4. CASE j = 1 /\ k = 1 BY <3>4
    <3>5. CASE j \in 2..M /\ k \in 2..M
      <4>1. j \in 1..N /\ k \in 1..N /\ h[j].id = h[k].id BY <2>1, <2>5, <3>1, <3>5
      <4>2. QED BY <3>2, <4>1
    <3>6. CASE j = 1 /\ k \in 2..M
      <4>1. N \in 1..N /\ k \in 1..N /\ h[N].id = h[k].id /\ k # N
        BY <1>1, <2>1, <2>5, <3>1, <3>6
      <4>2. QED BY <3>2, <4>1
    <3>7. CASE j \in 2..M /\ k = 1
      <4>1. N \in 1..N /\ j \in 1..N /\ h[j].id = h[N].id /\ j # N
        BY <1>1, <2>1, <2>5, <3>1, <3>7
      <4>2. QED BY <3>2, <4>1
    <3>8. QED BY <3>3, <3>4, <3>5, <3>6, <3>7
  <2>11. Current(h, n) => Current(b, n) BY <2>8 DEF Current
  <2>12. ASSUME HeapOrdered(h) PROVE OrderedFrom(b, 2)
    <3>1. SUFFICES ASSUME NEW k \in 1..M, k \div 2 >= 2 PROVE Key(b[k \div 2]) >= Key(b[k])
      BY <2>4 DEF OrderedFrom
    <3>2. PICK m \in 2..M : m = k \div 2 BY <3>1
    <3>3. k \in 2..M /\ k \in 1..N /\ k > 1 BY <2>1, <3>1
    <3>4. Key(h[k \div 2]) >= Key(h[k]) BY <1>1, <2>12, <3>3 DEF HeapOrdered
    <3>5. QED BY <2>5, <3>2, <3>3, <3>4
  <2>13. PICK g : g = HeapDown(b, 1, n) OBVIOUS
  <2>14. g \in Seq(Entry) /\ Len(g) = M /\ Held(g) = Held(b) /\ (Once(b) => Once(g))
    BY <2>4, <2>7, <2>13 DEF Shuffled
  <2>15. HeapOrdered(h) /\ Current(h, n) => HeapOrdered(g)
    BY <2>7, <2>11, <2>12, <2>13, <2>14, OrderedIsAll
  <2>16. QED BY <1>1, <2>1, <2>3, <2>8, <2>9, <2>10, <2>13, <2>14, <2>15
<1>4. QED BY <1>2, <1>3

-----------------------------------------------------------------------------
(* Operations that repeat a step: drainTopN, heap.Init and the decay.        *)

\* Induction up to n, on the set of numbers for which the claim holds.
LEMMA UpTo ==
  ASSUME NEW n \in Nat, NEW B \in SUBSET (0..n), 0 \in B, \A k \in 1..n : k - 1 \in B => k \in B
  PROVE  \A k \in 0..n : k \in B
<1> DEFINE Bad == (0..n) \ B
<1> SUFFICES ASSUME Bad # {} PROVE FALSE OBVIOUS
<1>1. PICK k \in Bad : \A j \in Bad : k <= j
  <2>1. Bad \in SUBSET Nat OBVIOUS
  <2> HIDE DEF Bad
  <2>2. QED BY <2>1, NatMin
<1>2. k \in 1..n /\ k - 1 \in 0..n BY <1>1
<1>3. k - 1 \in B BY <1>1, <1>2
<1>4. QED BY <1>1, <1>2, <1>3

\* g[k] is what k steps of f make of x.
Iterated(n, x, f, g) == g = [k \in 0..n |-> IF k = 0 THEN x ELSE f[<<k, g[k - 1]>>]]

\* Repeating a step defines a function.
LEMMA IterationExists ==
  ASSUME NEW n \in Nat, NEW S, NEW x \in S, NEW f \in [(1..n) \X S -> S]
  PROVE  \E g \in [0..n -> S] : Iterated(n, x, f, g)
<1> DEFINE RHS(g, k) == IF k = 0 THEN x ELSE f[<<k, g[k - 1]>>]
           Good(g, m) == \A k \in 0..m : g[k] = RHS(g, k)
           B == {m \in 0..n : \E g \in [0..n -> S] : Good(g, m)}
<1>1. ASSUME NEW g \in [0..n -> S], NEW k \in 0..n PROVE RHS(g, k) \in S
  <2>1. CASE k = 0 BY <2>1
  <2>2. CASE k # 0
    <3>1. k \in 1..n /\ k - 1 \in 0..n BY <2>2
    <3>2. <<k, g[k - 1]>> \in (1..n) \X S BY <3>1
    <3>3. QED BY <2>2, <3>2
  <2>3. QED BY <2>1, <2>2
<1>2. 0 \in B
  <2> DEFINE g == [k \in 0..n |-> x]
  <2>1. g \in [0..n -> S] /\ Good(g, 0) OBVIOUS
  <2> HIDE DEF g
  <2>2. QED BY <2>1
<1>3. ASSUME NEW m \in 1..n, m - 1 \in B PROVE m \in B
  <2>1. PICK g \in [0..n -> S] : Good(g, m - 1) BY <1>3
  <2> DEFINE h == [k \in 0..n |-> RHS(g, k)]
  <2>2. h \in [0..n -> S] BY <1>1
  <2>3. ASSUME NEW k \in 0..m PROVE h[k] = RHS(h, k)
    <3>1. CASE k = 0 BY <3>1
    <3>2. CASE k # 0
      <4>1. k \in 0..n /\ k - 1 \in 0..(m - 1) /\ k - 1 \in 0..n BY <3>2
      <4>2. g[k - 1] = RHS(g, k - 1) BY <2>1, <4>1
      <4>3. h[k - 1] = RHS(g, k - 1) BY <4>1
      <4>4. h[k] = f[<<k, g[k - 1]>>] BY <3>2, <4>1
      <4> HIDE DEF h
      <4>5. QED BY <3>2, <4>2, <4>3, <4>4
    <3>3. QED BY <3>1, <3>2
  <2> HIDE DEF h
  <2>4. QED BY <2>2, <2>3
<1>4. n \in B
  <2>1. B \in SUBSET (0..n) OBVIOUS
  <2> HIDE DEF B
  <2>2. n \in 0..n OBVIOUS
  <2>3. QED BY <1>2, <1>3, <2>1, <2>2, UpTo
<1>5. PICK g \in [0..n -> S] : Good(g, n) BY <1>4
<1>6. g = [k \in 0..n |-> RHS(g, k)] BY <1>5
<1>7. QED BY <1>6 DEF Iterated

\* What up to m pops leave.
Drained(h, m, n) ==
    LET popped[k \in 0..m] == IF k = 0 THEN h
                              ELSE IF popped[k - 1] = <<>> THEN <<>>
                              ELSE HeapPop(popped[k - 1], n)
    IN  popped[m]

\* g keeps some of the entries of h, and its order.
Rest(h, n) ==
    {g \in Seq(Entry) :
        /\ Len(g) <= Len(h) /\ Held(g) \subseteq Held(h)
        /\ Once(h) => Once(g)
        /\ HeapOrdered(h) /\ Current(h, n) => HeapOrdered(g)}

\* A heap is a rest of itself, and so is what a pop leaves of a rest.
LEMMA RestFacts ==
  ASSUME AdmissionAssumption, NEW h \in Seq(Entry), NEW n \in Nat
  PROVE  /\ h \in Rest(h, n)
         /\ \A g \in Rest(h, n) : g # <<>> => HeapPop(g, n) \in Rest(h, n)
<1>1. h \in Rest(h, n)
  <2>1. Len(h) <= Len(h) OBVIOUS
  <2>2. QED BY <2>1 DEF Rest
<1>2. ASSUME NEW g \in Rest(h, n), g # <<>> PROVE HeapPop(g, n) \in Rest(h, n)
  <2>1. /\ g \in Seq(Entry) /\ Len(g) <= Len(h) /\ Held(g) \subseteq Held(h)
        /\ Once(h) => Once(g)
        /\ HeapOrdered(h) /\ Current(h, n) => HeapOrdered(g)
    BY DEF Rest
  <2>2. PICK p : p = HeapPop(g, n) OBVIOUS
  <2>3. /\ p \in Seq(Entry) /\ Len(p) = Len(g) - 1 /\ Held(p) \subseteq Held(g)
        /\ Once(g) => Once(p)
        /\ HeapOrdered(g) /\ Current(g, n) => HeapOrdered(p)
    BY <1>2, <2>1, <2>2, PopFacts
  <2>4. Current(h, n) => Current(g, n) BY <2>1 DEF Current
  <2>5. Len(p) <= Len(h)
    <3>1. Len(h) \in Nat /\ Len(g) \in Nat BY <2>1
    <3>2. QED BY <2>1, <2>3, <3>1
  <2>6. QED BY <2>1, <2>2, <2>3, <2>4, <2>5 DEF Rest
<1>3. QED BY <1>1, <1>2

\* Any number of pops leaves a rest.
LEMMA DrainedFacts ==
  ASSUME AdmissionAssumption, NEW h \in Seq(Entry), NEW n \in Nat, NEW m \in Nat
  PROVE  Drained(h, m, n) \in Rest(h, n)
<1> DEFINE S == Rest(h, n)
           Step(y) == IF y = <<>> THEN <<>> ELSE HeapPop(y, n)
           f == [p \in (1..m) \X S |-> Step(p[2])]
           IsPopped(g) == g = [k \in 0..m |-> IF k = 0 THEN h
                                             ELSE IF g[k - 1] = <<>> THEN <<>>
                                             ELSE HeapPop(g[k - 1], n)]
           popped == CHOOSE g : IsPopped(g)
<1>1. h \in S /\ \A y \in S : Step(y) \in S BY RestFacts
<1>2. f \in [(1..m) \X S -> S]
  <2> HIDE DEF S, Step
  <2>1. QED BY <1>1
<1>3. PICK g \in [0..m -> S] : Iterated(m, h, f, g)
  <2> HIDE DEF S, f
  <2>1. QED BY <1>1, <1>2, IterationExists
<1>4. IsPopped(g)
  <2>1. ASSUME NEW k \in 1..m PROVE f[<<k, g[k - 1]>>] = Step(g[k - 1])
    <3>1. k - 1 \in 0..m OBVIOUS
    <3> HIDE DEF S, Step
    <3>2. <<k, g[k - 1]>> \in (1..m) \X S BY <3>1
    <3>3. QED BY <3>2
  <2> HIDE DEF S, f
  <2>2. \A k \in 0..m : k # 0 => k \in 1..m OBVIOUS
  <2>3. \A k \in 0..m : (IF k = 0 THEN h ELSE f[<<k, g[k - 1]>>])
                        = IF k = 0 THEN h ELSE IF g[k - 1] = <<>> THEN <<>> ELSE HeapPop(g[k - 1], n)
    BY <2>1, <2>2
  <2>4. QED BY <1>3, <2>3 DEF Iterated
<1>5. IsPopped(popped)
  <2> HIDE DEF IsPopped
  <2>1. QED BY <1>4
<1>6. Drained(h, m, n) = popped[m] BY DEF Drained
<1> DEFINE B == {k \in 0..m : popped[k] \in S}
<1> HIDE DEF popped
<1>7. popped[0] = h BY <1>5
<1>8. 0 \in B BY <1>1, <1>7
<1>9. ASSUME NEW k \in 1..m, k - 1 \in B PROVE k \in B
  <2>1. k \in 0..m /\ k # 0 OBVIOUS
  <2>2. popped[k] = Step(popped[k - 1]) BY <1>5, <2>1
  <2> HIDE DEF S, Step
  <2>3. QED BY <1>1, <1>9, <2>1, <2>2
<1>10. m \in B
  <2>1. B \in SUBSET (0..m) /\ m \in 0..m OBVIOUS
  <2> HIDE DEF B
  <2>2. QED BY <1>8, <1>9, <2>1, UpTo
<1>11. QED BY <1>6, <1>10

\* Sinking the inner places, the last first, keeps the entries and makes the order.
LEMMA ReheapifyFacts ==
  ASSUME AdmissionAssumption, NEW h \in Seq(Entry), NEW n \in Nat
  PROVE  /\ Shuffled(h, Reheapify(h, n))
         /\ Current(h, n) => HeapOrdered(Reheapify(h, n))
<1>1. PICK N \in Nat : N = Len(h) /\ DOMAIN h = 1..N OBVIOUS
<1>2. PICK m \in Nat : m = N \div 2 /\ 2*m <= N /\ N <= 2*m + 1 OBVIOUS
<1> DEFINE S == {y \in Seq(Entry) : Shuffled(h, y)}
           Step(k, y) == HeapDown(y, m + 1 - k, n)
           f == [p \in (1..m) \X S |-> Step(p[1], p[2])]
           IsSunk(g) == g = [k \in 0..m |-> IF k = 0 THEN h
                                           ELSE HeapDown(g[k - 1], m + 1 - k, n)]
           sunk == CHOOSE g : IsSunk(g)
<1>3. h \in S BY DEF Shuffled
<1>4. ASSUME NEW k \in 1..m, NEW y \in S
      PROVE  /\ Step(k, y) \in S
             /\ Current(h, n) /\ OrderedFrom(y, m + 1 - (k - 1)) => OrderedFrom(Step(k, y), m + 1 - k)
  <2>1. y \in Seq(Entry) /\ Len(y) = N /\ Held(y) = Held(h) /\ (Once(h) => Once(y))
    BY <1>1 DEF Shuffled
  <2>2. PICK i \in 1..Len(y) : i = m + 1 - k BY <1>2, <2>1
  <2>3. m + 1 - (k - 1) = i + 1 BY <2>2
  <2>4. /\ Shuffled(y, HeapDown(y, i, n))
        /\ Current(y, n) /\ OrderedFrom(y, i + 1) => OrderedFrom(HeapDown(y, i, n), i)
    BY <2>1, DownFacts
  <2>5. Shuffled(h, HeapDown(y, i, n)) BY <1>1, <2>1, <2>4 DEF Shuffled
  <2>6. HeapDown(y, i, n) \in Seq(Entry) BY <2>5 DEF Shuffled
  <2>7. Current(h, n) => Current(y, n) BY <2>1 DEF Current
  <2>8. QED BY <2>2, <2>3, <2>4, <2>5, <2>6, <2>7
<1>5. f \in [(1..m) \X S -> S]
  <2>1. \A k \in 1..m, y \in S : Step(k, y) \in S BY <1>4
  <2> HIDE DEF S, Step
  <2>2. QED BY <2>1
<1>6. PICK g \in [0..m -> S] : Iterated(m, h, f, g)
  <2> HIDE DEF S, f
  <2>1. QED BY <1>3, <1>5, IterationExists
<1>7. IsSunk(g)
  <2>1. ASSUME NEW k \in 1..m PROVE f[<<k, g[k - 1]>>] = Step(k, g[k - 1])
    <3>1. k - 1 \in 0..m OBVIOUS
    <3> HIDE DEF S, Step
    <3>2. <<k, g[k - 1]>> \in (1..m) \X S BY <3>1
    <3>3. QED BY <3>2
  <2> HIDE DEF S, f
  <2>2. \A k \in 0..m : k # 0 => k \in 1..m OBVIOUS
  <2>3. \A k \in 0..m : (IF k = 0 THEN h ELSE f[<<k, g[k - 1]>>])
                        = IF k = 0 THEN h ELSE HeapDown(g[k - 1], m + 1 - k, n)
    BY <2>1, <2>2
  <2>4. QED BY <1>6, <2>3 DEF Iterated
<1>8. IsSunk(sunk)
  <2> HIDE DEF IsSunk
  <2>1. QED BY <1>7
<1>9. Reheapify(h, n) = sunk[m] BY <1>1, <1>2 DEF Reheapify
<1> DEFINE Good(k) == /\ sunk[k] \in S
                      /\ Current(h, n) => OrderedFrom(sunk[k], m + 1 - k)
           B == {k \in 0..m : Good(k)}
<1> HIDE DEF sunk
<1>10. sunk[0] = h BY <1>8
<1>11. OrderedFrom(h, m + 1)
  <2>1. \A k \in 1..N : ~(k \div 2 >= m + 1) BY <1>2
  <2>2. QED BY <1>1, <2>1 DEF OrderedFrom
<1>12. 0 \in B
  <2>1. m + 1 - 0 = m + 1 OBVIOUS
  <2> HIDE DEF S
  <2>2. QED BY <1>3, <1>10, <1>11, <2>1
<1>13. ASSUME NEW k \in 1..m, k - 1 \in B PROVE k \in B
  <2>1. k \in 0..m /\ k # 0 OBVIOUS
  <2>2. sunk[k] = Step(k, sunk[k - 1]) BY <1>8, <2>1
  <2>3. sunk[k - 1] \in S /\ (Current(h, n) => OrderedFrom(sunk[k - 1], m + 1 - (k - 1)))
    BY <1>13
  <2> HIDE DEF S, Step
  <2>4. Good(k) BY <1>4, <2>2, <2>3
  <2>5. QED BY <2>1, <2>4
<1>14. m \in B
  <2>1. B \in SUBSET (0..m) /\ m \in 0..m OBVIOUS
  <2> HIDE DEF B
  <2>2. QED BY <1>12, <1>13, <2>1, UpTo
<1>15. sunk[m] \in Seq(Entry) /\ Shuffled(h, sunk[m]) BY <1>14
<1>16. Current(h, n) => OrderedFrom(sunk[m], 1)
  <2>1. m + 1 - m = 1 OBVIOUS
  <2>2. QED BY <1>14, <2>1
<1>17. QED BY <1>9, <1>15, <1>16, OrderedIsAll

\* The queue without the entry of one request.
Without(h, r) == RemoveFirstMatch(h, LAMBDA e : e.id = r)

\* It keeps the other entries.
LEMMA WithoutFacts ==
  ASSUME NEW h \in Seq(Entry), NEW r
  PROVE  /\ Without(h, r) \in Seq(Entry) /\ Len(Without(h, r)) <= Len(h)
         /\ Held(Without(h, r)) \subseteq Held(h)
         /\ Once(h) => Once(Without(h, r))
<1>0. PICK N \in Nat : N = Len(h) /\ DOMAIN h = 1..N OBVIOUS
<1> DEFINE I == {k \in 1..N : h[k].id = r}
<1>1. CASE I = {}
  <2>1. Without(h, r) = h BY <1>0, <1>1 DEF Without, RemoveFirstMatch
  <2>2. QED BY <1>0, <2>1
<1>2. CASE I # {}
  <2>1. PICK p \in 1..N : p = SelectInSeq(h, LAMBDA e : e.id = r)
    <3>1. I \in SUBSET Nat OBVIOUS
    <3>2. PICK q \in I : \A k \in I : q <= k
      <4> HIDE DEF I
      <4>1. QED BY <1>2, <3>1, NatMin
    <3>3. Min(I) \in I BY <3>2 DEF Min
    <3>4. SelectInSeq(h, LAMBDA e : e.id = r) = Min(I) BY <1>0, <1>2 DEF SelectInSeq
    <3>5. QED BY <3>3, <3>4
  <2>2. PICK l, t : /\ l \in Seq(Entry) /\ t \in Seq(Entry)
                    /\ l = SubSeq(h, 1, p - 1) /\ t = SubSeq(h, p + 1, N)
    <3>1. SubSeq(h, 1, p - 1) \in Seq(Entry) /\ SubSeq(h, p + 1, N) \in Seq(Entry) BY <1>0
    <3>2. QED BY <3>1
  <2>3. Without(h, r) = l \o t
    BY <1>0, <1>2, <2>1, <2>2 DEF Without, RemoveFirstMatch, RemoveAt
  <2>4. Len(l) = p - 1 /\ Len(t) = N - p BY <1>0, <2>2
  <2>5. \A k \in 1..(p - 1) : l[k] = h[k] BY <1>0, <2>2
  <2>6. \A k \in 1..(N - p) : t[k] = h[k + p] BY <1>0, <2>2
  <2>7. PICK g : g \in Seq(Entry) /\ g = l \o t
    <3>1. l \o t \in Seq(Entry) BY <2>2
    <3>2. QED BY <3>1
  <2>8. Len(g) = N - 1 /\ DOMAIN g = 1..(N - 1)
    <3>1. Len(l \o t) = Len(l) + Len(t) BY <2>2
    <3>2. Len(g) = N - 1 BY <2>4, <2>7, <3>1
    <3>3. QED BY <2>7, <3>2
  <2>9. ASSUME NEW k \in 1..(N - 1)
        PROVE  g[k] = IF k < p THEN h[k] ELSE h[k + 1]
    <3>1. CASE k < p
      <4>1. k \in 1..(p - 1) /\ k \in 1..Len(l) BY <2>4, <3>1
      <4>2. g[k] = l[k] BY <2>7, <4>1
      <4>3. QED BY <2>5, <3>1, <4>1, <4>2
    <3>2. CASE ~(k < p)
      <4>1. k - (p - 1) \in 1..(N - p) /\ k \in (Len(l) + 1)..(Len(l) + Len(t)) BY <2>4, <3>2
      <4>2. g[k] = t[k - (p - 1)] BY <2>4, <2>7, <4>1
      <4>3. (k - (p - 1)) + p = k + 1 OBVIOUS
      <4>4. QED BY <2>6, <3>2, <4>1, <4>2, <4>3
    <3>3. QED BY <3>1, <3>2
  <2>10. Held(g) \subseteq Held(h)
    <3>1. SUFFICES ASSUME NEW x \in Held(g) PROVE x \in Held(h) OBVIOUS
    <3>2. PICK k \in 1..(N - 1) : x = g[k] BY <2>8, <3>1 DEF Held
    <3>3. PICK j \in 1..N : x = h[j]
      <4>1. k \in 1..N /\ k + 1 \in 1..N OBVIOUS
      <4>2. QED BY <2>9, <3>2, <4>1
    <3>4. QED BY <1>0, <3>3 DEF Held
  <2>11. ASSUME Once(h) PROVE Once(g)
    <3>1. SUFFICES ASSUME NEW j \in 1..(N - 1), NEW k \in 1..(N - 1), g[j].id = g[k].id PROVE j = k
      BY <2>8 DEF Once
    <3>2. PICK a, b \in 1..N : /\ a = IF j < p THEN j ELSE j + 1
                               /\ b = IF k < p THEN k ELSE k + 1
      <4>1. (IF j < p THEN j ELSE j + 1) \in 1..N /\ (IF k < p THEN k ELSE k + 1) \in 1..N OBVIOUS
      <4>2. QED BY <4>1
    <3>3. g[j] = h[a] /\ g[k] = h[b] BY <2>9, <3>2
    <3>4. a = b BY <1>0, <2>11, <3>1, <3>3 DEF Once
    <3>5. QED BY <3>2, <3>4
  <2>12. QED BY <1>0, <2>3, <2>7, <2>8, <2>10, <2>11
<1>3. QED BY <1>1, <1>2

\* An ejection leaves some of the entries, and at a current reading they are in order.
LEMMA EjectFacts ==
  ASSUME AdmissionAssumption, NEW h \in Seq(Entry), NEW n \in Nat, NEW r
  PROVE  Reheapify(Without(h, r), n) \in Rest(h, n)
<1>1. PICK b : b = Without(h, r) OBVIOUS
<1>2. b \in Seq(Entry) /\ Len(b) <= Len(h) /\ Held(b) \subseteq Held(h) /\ (Once(h) => Once(b))
  BY <1>1, WithoutFacts
<1>3. PICK g : g = Reheapify(b, n) OBVIOUS
<1>4. Shuffled(b, g) /\ (Current(b, n) => HeapOrdered(g)) BY <1>2, <1>3, ReheapifyFacts
<1>5. Current(h, n) => Current(b, n) BY <1>2 DEF Current
<1>6. g \in Rest(h, n) BY <1>2, <1>4, <1>5 DEF Rest, Shuffled
<1>7. QED BY <1>1, <1>3, <1>6

\* Halving keeps a natural number one.
LEMMA DecayedIsNat ==
  ASSUME demand \in Nat, demandAge \in Nat
  PROVE  Decayed \in Nat
<1>1. PICK x \in Nat : x = demand OBVIOUS
<1>2. PICK m \in Nat : m = demandAge OBVIOUS
<1> DEFINE f == [p \in (1..m) \X Nat |-> p[2] \div 2]
           IsHalved(g) == g = [k \in 0..m |-> IF k = 0 THEN x ELSE g[k - 1] \div 2]
           halved == CHOOSE g : IsHalved(g)
<1>3. f \in [(1..m) \X Nat -> Nat] OBVIOUS
<1>4. PICK g \in [0..m -> Nat] : Iterated(m, x, f, g)
  <2> HIDE DEF f
  <2>1. QED BY <1>3, IterationExists
<1>5. IsHalved(g)
  <2>1. ASSUME NEW k \in 1..m PROVE f[<<k, g[k - 1]>>] = g[k - 1] \div 2
    <3>1. k - 1 \in 0..m OBVIOUS
    <3>2. <<k, g[k - 1]>> \in (1..m) \X Nat BY <3>1
    <3>3. QED BY <3>2
  <2> HIDE DEF f
  <2>2. \A k \in 0..m : k # 0 => k \in 1..m OBVIOUS
  <2>3. \A k \in 0..m : (IF k = 0 THEN x ELSE f[<<k, g[k - 1]>>])
                        = IF k = 0 THEN x ELSE g[k - 1] \div 2
    BY <2>1, <2>2
  <2>4. QED BY <1>4, <2>3 DEF Iterated
<1>6. IsHalved(halved)
  <2> HIDE DEF IsHalved
  <2>1. QED BY <1>5
<1>7. Decayed = halved[m] BY <1>1, <1>2 DEF Decayed
<1> DEFINE B == {k \in 0..m : halved[k] \in Nat}
<1> HIDE DEF halved
<1>8. 0 \in B BY <1>6
<1>9. ASSUME NEW k \in 1..m, k - 1 \in B PROVE k \in B
  <2>1. k \in 0..m /\ k # 0 OBVIOUS
  <2>2. halved[k] = halved[k - 1] \div 2 BY <1>6, <2>1
  <2>3. PICK y \in Nat : y = halved[k - 1] BY <1>9
  <2>4. y \div 2 \in Nat OBVIOUS
  <2>5. QED BY <2>1, <2>2, <2>3, <2>4
<1>10. m \in B
  <2>1. B \in SUBSET (0..m) /\ m \in 0..m OBVIOUS
  <2> HIDE DEF B
  <2>2. QED BY <1>8, <1>9, <2>1, UpTo
<1>11. QED BY <1>7, <1>10

\* A sum of natural numbers is one.
LEMMA SumIsNat ==
  ASSUME NEW S, IsFiniteSet(S), NEW f, \A x \in S : f[x] \in Nat
  PROVE  Sum(f, S) \in Nat
<1>0. \A x \in S : f[x] \in Int OBVIOUS
<1>1. PICK g : g \in [SUBSET S -> Int] /\ Folded(f, S, g) BY <1>0, FoldExists
<1>2. Sum(f, S) = g[S] BY <1>0, <1>1, SumIs
<1> DEFINE Bad == {s \in SUBSET S : g[s] \notin Nat}
<1>3. Bad = {}
  <2> SUFFICES ASSUME Bad # {} PROVE FALSE OBVIOUS
  <2>1. PICK s \in Bad : \A x \in s : s \ {x} \notin Bad
    <3>1. Bad \in SUBSET (SUBSET S) OBVIOUS
    <3> HIDE DEF Bad
    <3>2. QED BY <3>1, SetMin
  <2>2. g[s] = IF s = {} THEN 0 ELSE f[First(s)] + g[s \ {First(s)}] BY <1>1, <2>1, FoldStep
  <2>3. s # {} BY <2>1, <2>2
  <2>4. First(s) \in s BY <2>3, FirstIn
  <2>5. g[s \ {First(s)}] \in Nat /\ f[First(s)] \in Nat BY <2>1, <2>4
  <2>6. QED BY <2>1, <2>2, <2>3, <2>5
<1>4. QED BY <1>2, <1>3

-----------------------------------------------------------------------------
(* The inductive invariant: the types, a queue that holds no request twice,  *)
(* and for every request the stage its hand-over has reached.                *)

QueueGood(h) == h \in Seq(Entry) /\ Len(h) <= QueueCap /\ Once(h)

Ids(h) == {x.id : x \in Held(h)}

\* Before its handler registers it, nobody else knows of a request.
Unregistered == {"new", "decide", "push", "submit", "register"}

\* The drain has taken r's pending entry and not yet closed its channel.
Handles(r) == drain.at \in {"submit", "send"} /\ drain.id = r

\* A request is unregistered, pending, handled by the drain, cancelled, or over with; in each
\* stage it is known how often Submit was called and the channel closed.
Stage(r) ==
    /\ pc[r] \in {"new", "decide", "push", "submit"} \/ answer[r] = "overloaded" => r \notin Queued
    /\ pc[r] \in Unregistered \/ answer[r] = "overloaded" =>
          submits[r] = 0 /\ closes[r] = 0 /\ r \notin waiting /\ r \notin cancelled /\ ~Handles(r)
    /\ answer[r] # None => pc[r] = "done"
    /\ r \in waiting =>
          pc[r] = "wait" /\ submits[r] = 0 /\ closes[r] = 0 /\ r \notin cancelled /\ ~Handles(r)
    /\ Handles(r) => /\ submits[r] = IF drain.at = "send" THEN 1 ELSE 0
                     /\ closes[r] = 0 /\ r \notin cancelled
    /\ deliver[r].val # None \/ inbox[r] # None \/ answer[r] \in Results => submits[r] = 1
    /\ r \in cancelled => submits[r] = 0
    /\ submits[r] \in {0, 1} /\ closes[r] \in {0, 1}

\* The drain holds the id of a request, and a result to send.
DrainHolds ==
    /\ drain.at \in {"look", "submit", "send"} => drain.id \in Requests
    /\ drain.at = "send" => drain.result \in Results

QueueIInv ==
    /\ AdmissionTypeOK
    /\ Len(heap) <= QueueCap /\ Once(heap)
    /\ DrainHolds
    /\ \A r \in Requests : Stage(r)

-----------------------------------------------------------------------------
(* The queue.                                                                *)

\* The ids in the queue, by its entries.
LEMMA QueuedIs == Queued = Ids(heap) /\ Queued' = Ids(heap')
<1>1. \A h : Ids(h) = {h[k].id : k \in DOMAIN h} BY DEF Ids, Held
<1>2. QED BY <1>1 DEF Queued

\* Time passes for all entries alike.
LEMMA TickQueue ==
  ASSUME AdmissionAssumption, QueueGood(heap), Tick
  PROVE  QueueGood(heap') /\ Ids(heap') = Ids(heap)
<1>1. PICK h \in Seq(Entry) : h = heap BY DEF QueueGood
<1>2. PICK N \in Nat : N = Len(h) /\ DOMAIN h = 1..N OBVIOUS
<1>3. PICK g : g = heap' OBVIOUS
<1>4. g = [k \in 1..N |-> [h[k] EXCEPT !.age = Older(@, MaxAge)]]
  BY <1>1, <1>2, <1>3 DEF Tick
<1>5. ASSUME NEW k \in 1..N PROVE g[k] \in Entry /\ g[k].id = h[k].id
  <2>0. PICK e \in Entry : e = h[k] BY <1>2
  <2>1. h[k] \in Entry /\ h[k].age \in 0..MaxAge /\ MaxAge \in Nat
    BY <2>0 DEF Entry, Ages, AdmissionAssumption
  <2>2. Older(h[k].age, MaxAge) \in 0..MaxAge BY <2>1 DEF Older
  <2>3. g[k] = [h[k] EXCEPT !.age = Older(h[k].age, MaxAge)] BY <1>4
  <2>4. QED BY <2>1, <2>2, <2>3 DEF Entry, Ages
<1>6. g \in Seq(Entry) /\ Len(g) = N /\ DOMAIN g = 1..N
  <2>1. g \in [1..N -> Entry]
    <3>1. g = [k \in 1..N |-> g[k]] BY <1>4
    <3>2. QED BY <1>5, <3>1
  <2>2. QED BY <2>1
<1>7. Once(g)
  <2>1. Once(h) BY <1>1 DEF QueueGood
  <2>2. QED BY <1>2, <1>5, <1>6, <2>1 DEF Once
<1>8. Ids(g) = Ids(h)
  <2>1. Ids(g) = {g[k].id : k \in 1..N} /\ Ids(h) = {h[k].id : k \in 1..N}
    BY <1>2, <1>6 DEF Ids, Held
  <2>2. QED BY <1>5, <2>1
<1>9. Len(h) <= QueueCap BY <1>1 DEF QueueGood
<1>10. QED BY <1>1, <1>2, <1>3, <1>6, <1>7, <1>8, <1>9 DEF QueueGood

\* A push adds the request's id, which is not queued, below the cap.
LEMMA EnqueueQueue ==
  ASSUME AdmissionAssumption, QueueGood(heap), reqAge \in [Requests -> Ages],
         NEW r \in Requests, r \notin Ids(heap), Enqueue(r)
  PROVE  QueueGood(heap') /\ Ids(heap') \subseteq Ids(heap) \cup {r}
<1>1. CASE ~(Len(heap) < QueueCap)
  <2>1. heap' = heap BY <1>1 DEF Enqueue, queueVars
  <2>2. QED BY <2>1
<1>2. CASE Len(heap) < QueueCap
  <2>1. PICK h \in Seq(Entry) : h = heap BY DEF QueueGood
  <2>2. PICK a \in Nat : a = reqAge[r] /\ a \in Ages BY DEF Ages, AdmissionAssumption
  <2>3. PICK e \in Entry : e = NewEntry(r, a)
    <3>1. NewEntry(r, a) \in Entry BY <2>2 DEF NewEntry, Entry, AdmissionAssumption
    <3>2. QED BY <3>1
  <2>4. e.id = r BY <2>3 DEF NewEntry
  <2>5. PICK g : g = HeapPush(h, e, a) OBVIOUS
  <2>6. heap' = g BY <1>2, <2>1, <2>2, <2>3, <2>5 DEF Enqueue
  <2>7. /\ g \in Seq(Entry) /\ Len(g) = Len(h) + 1 /\ Held(g) = Held(h) \cup {e}
        /\ Once(h) /\ (\A x \in Held(h) : x.id # e.id) => Once(g)
    BY <2>5, PushFacts
  <2>8. \A x \in Held(h) : x.id # e.id BY <2>1, <2>4 DEF Ids
  <2>9. Once(h) BY <2>1 DEF QueueGood
  <2>10. Ids(g) \subseteq Ids(h) \cup {r} BY <2>4, <2>7 DEF Ids
  <2>11. Len(g) <= QueueCap
    <3>1. Len(h) \in Nat /\ QueueCap \in Nat /\ Len(h) < QueueCap
      BY <1>2, <2>1 DEF AdmissionAssumption
    <3>2. QED BY <2>7, <3>1
  <2>12. QED BY <2>1, <2>6, <2>7, <2>8, <2>9, <2>10, <2>11 DEF QueueGood
<1>3. QED BY <1>1, <1>2

\* What is a rest of the queue is as good.
LEMMA RestGood ==
  ASSUME AdmissionAssumption, NEW h, QueueGood(h), NEW n \in Nat, NEW g \in Rest(h, n)
  PROVE  QueueGood(g) /\ Ids(g) \subseteq Ids(h)
<1>1. g \in Seq(Entry) /\ Len(g) <= Len(h) /\ Held(g) \subseteq Held(h) /\ Once(g)
  BY DEF Rest, QueueGood
<1>2. Len(g) \in Nat /\ Len(h) \in Nat /\ QueueCap \in Nat /\ Len(h) <= QueueCap
  BY <1>1 DEF QueueGood, AdmissionAssumption
<1>3. Len(g) <= QueueCap BY <1>1, <1>2
<1>4. QED BY <1>1, <1>3 DEF QueueGood, Ids

\* A pop, an operator's drain and an ejection leave a rest of the queue.
LEMMA TakeQueue ==
  ASSUME AdmissionAssumption, QueueGood(heap), reading \in Ages, drain.now \in Ages,
         DrainPop \/ (\E n \in 1..QueueCap : AdminDrain(n)) \/ (\E r \in Requests : AdminEject(r))
  PROVE  heap' \in Rest(heap, reading') /\ reading' \in Nat
<1>0. PICK h \in Seq(Entry) : h = heap BY DEF QueueGood
<1>1. CASE DrainPop
  <2>1. PICK a \in Nat : a = drain.now BY DEF Ages, AdmissionAssumption
  <2>2. reading' = a BY <1>1, <2>1 DEF DrainPop
  <2>3. heap' = h \/ (h # <<>> /\ heap' = HeapPop(h, a)) BY <1>0, <1>1, <2>1 DEF DrainPop
  <2>4. h \in Rest(h, a) /\ (h # <<>> => HeapPop(h, a) \in Rest(h, a)) BY RestFacts
  <2>5. heap' \in Rest(h, a) BY <2>3, <2>4
  <2>6. QED BY <1>0, <2>2, <2>5
<1>2. ASSUME NEW n \in 1..QueueCap, AdminDrain(n) PROVE heap' \in Rest(heap, reading') /\ reading' \in Nat
  <2>1. PICK a \in Nat : a = reading BY DEF Ages, AdmissionAssumption
  <2>2. PICK m \in Nat : m = n BY <1>2 DEF AdmissionAssumption
  <2>3. reading' = a BY <1>2, <2>1 DEF AdminDrain
  <2>4. heap' = Drained(h, m, a) BY <1>0, <1>2, <2>1, <2>2 DEF AdminDrain, Drained
  <2>5. Drained(h, m, a) \in Rest(h, a) BY DrainedFacts
  <2>6. QED BY <1>0, <2>3, <2>4, <2>5
<1>3. ASSUME NEW r \in Requests, AdminEject(r) PROVE heap' \in Rest(heap, reading') /\ reading' \in Nat
  <2>1. PICK a \in Nat : a = reading BY DEF Ages, AdmissionAssumption
  <2>2. reading' = a BY <1>3, <2>1 DEF AdminEject
  <2>3. heap' = Reheapify(Without(h, r), a) BY <1>0, <1>3, <2>1 DEF AdminEject, Without
  <2>4. Reheapify(Without(h, r), a) \in Rest(h, a) BY EjectFacts
  <2>5. QED BY <1>0, <2>2, <2>3, <2>4
<1>4. QED BY <1>1, <1>2, <1>3

\* Every step keeps the queue good, and only a push brings an id into it.
LEMMA QueueStep ==
  ASSUME AdmissionAssumption, QueueIInv, [AdmissionNext]_admissionVars
  PROVE  /\ QueueGood(heap')
         /\ \A q \in Queued' : q \in Queued \/ (q \in Requests /\ pc[q] = "push" /\ Enqueue(q))
<1>0. /\ QueueGood(heap) /\ reading \in Ages /\ drain.now \in Ages /\ reqAge \in [Requests -> Ages]
      /\ \A r \in Requests : pc[r] = "push" => r \notin Queued
  BY DEF QueueIInv, QueueGood, AdmissionTypeOK, Stage
<1>1. CASE heap' = heap
  <2>1. Queued' = Queued BY <1>1 DEF Queued
  <2>2. QED BY <1>0, <1>1, <2>1
<1>2. CASE Tick
  <2>1. QueueGood(heap') /\ Ids(heap') = Ids(heap) BY <1>0, <1>2, TickQueue
  <2>2. QED BY <2>1, QueuedIs
<1>3. ASSUME NEW r \in Requests, Enqueue(r)
      PROVE  /\ QueueGood(heap')
             /\ \A q \in Queued' : q \in Queued \/ (q \in Requests /\ pc[q] = "push" /\ Enqueue(q))
  <2>1. pc[r] = "push" BY <1>3 DEF Enqueue
  <2>2. r \notin Ids(heap) BY <1>0, <2>1, QueuedIs
  <2>3. QueueGood(heap') /\ Ids(heap') \subseteq Ids(heap) \cup {r}
    BY <1>0, <1>3, <2>2, EnqueueQueue
  <2>4. \A q \in Queued' : q \in Queued \/ q = r BY <2>3, QueuedIs
  <2>5. QED BY <1>3, <2>1, <2>3, <2>4
<1>4. CASE DrainPop \/ (\E n \in 1..QueueCap : AdminDrain(n)) \/ (\E r \in Requests : AdminEject(r))
  <2>1. heap' \in Rest(heap, reading') /\ reading' \in Nat BY <1>0, <1>4, TakeQueue
  <2>2. PICK h : h = heap OBVIOUS
  <2>3. PICK n \in Nat : n = reading' BY <2>1
  <2>4. PICK g : g = heap' OBVIOUS
  <2>5. g \in Rest(h, n) BY <2>1, <2>2, <2>3, <2>4
  <2>6. QueueGood(g) /\ Ids(g) \subseteq Ids(h) BY <1>0, <2>2, <2>5, RestGood
  <2>7. QED BY <2>2, <2>4, <2>6, QueuedIs
<1>5. QED
  <2>1. (\E s \in Seeders : Heartbeat(s)) \/ Aggregate => heap' = heap
    BY DEF Heartbeat, Aggregate, queueVars
  <2>2. ASSUME NEW r \in Requests,
               \/ Arrive(r) \/ Decide(r) \/ SubmitNow(r) \/ RegisterQueued(r) \/ Delivered(r)
               \/ GiveUp(r) \/ Forward(r)
        PROVE  heap' = heap
    BY <2>2
    DEF Arrive, Decide, SubmitNow, RegisterQueued, Delivered, GiveUp, Forward,
        queueVars
  <2>3. DrainStart \/ DrainTake \/ DrainSubmit \/ DrainDeliver => heap' = heap
    BY DEF DrainStart, DrainTake, DrainSubmit, DrainDeliver, queueVars
  <2>4. UNCHANGED admissionVars => heap' = heap BY DEF admissionVars, queueVars
  <2>5. QED BY <1>1, <1>2, <1>3, <1>4, <2>1, <2>2, <2>3, <2>4 DEF AdmissionNext, Handler, Drain

-----------------------------------------------------------------------------
(* The types.                                                                *)

\* The freshness and the headroom of the supply are natural numbers.
LEMMA HeadroomIsNat ==
  ASSUME AdmissionAssumption, beat \in [Seeders -> 0..DecayAge]
  PROVE  TotalHeadroom \in Nat
<1>1. \A a, b \in Nat : b # 0 => a \div b \in Nat OBVIOUS
<1>2. ASSUME NEW a \in 0..DecayAge PROVE Freshness(a) \in Nat
  <2>1. One \in Nat /\ DecayAge \in Nat /\ FreshAge \in Nat /\ a \in Nat /\ FreshAge < DecayAge
        /\ a <= DecayAge
    BY <1>2 DEF AdmissionAssumption
  <2>2. DecayAge - FreshAge \in Nat /\ DecayAge - FreshAge # 0 BY <2>1
  <2>3. DecayAge - a \in Nat BY <2>1
  <2>4. One * (DecayAge - a) \in Nat BY <2>1, <2>3
  <2>5. (One * (DecayAge - a)) \div (DecayAge - FreshAge) \in Nat BY <1>1, <2>2, <2>4
  <2>6. QED BY <2>1, <2>5 DEF Freshness
<1> DEFINE share == [s \in Seeders |-> Headroom[s] * Freshness(beat[s])]
<1>3. PICK f : f = share OBVIOUS
<1>4. ASSUME NEW s \in Seeders PROVE f[s] \in Nat
  <2>1. Headroom[s] \in Nat BY DEF AdmissionAssumption
  <2>2. Freshness(beat[s]) \in Nat BY <1>2
  <2>3. QED BY <1>3, <2>1, <2>2
<1>5. TotalHeadroom = Sum(f, Seeders)
  <2>1. TotalHeadroom = Sum(share, Seeders)
    BY DEF TotalHeadroom, Sum, MapThenSumSet, MapThenSumSet, MapThenFoldSet,
           MapThenFoldSet
  <2>2. QED BY <1>3, <2>1
<1>6. IsFiniteSet(Seeders) BY DEF AdmissionAssumption
<1>7. QED BY <1>4, <1>5, <1>6, SumIsNat


\* The supply's side of the types: only Tick, Heartbeat, Aggregate and Decide touch it.
LEMMA SupplyTypes ==
  ASSUME AdmissionAssumption, AdmissionTypeOK, [AdmissionNext]_admissionVars
  PROVE  /\ supply' \in Nat \cup {Unset} /\ demand' \in Nat /\ demandAge' \in Ages
         /\ beat' \in [Seeders -> 0..DecayAge]
<1> DEFINE Goal == /\ supply' \in Nat \cup {Unset} /\ demand' \in Nat /\ demandAge' \in Ages
                   /\ beat' \in [Seeders -> 0..DecayAge]
<1> SUFFICES Goal OBVIOUS
<1>0. /\ supply \in Nat \cup {Unset} /\ demand \in Nat /\ demandAge \in Ages
      /\ beat \in [Seeders -> 0..DecayAge] /\ reqAge \in [Requests -> Ages]
  BY DEF AdmissionTypeOK
<1>a. MaxAge \in Nat /\ DecayAge \in Nat /\ One \in Nat BY DEF AdmissionAssumption
<1>b. \A b \in Nat : \A a \in 0..b : Older(a, b) \in 0..b BY DEF Older
<1>1. CASE UNCHANGED supplyVars BY <1>0, <1>1 DEF supplyVars
<1>2. CASE Tick
  <2>1. beat' = [s \in Seeders |-> Older(beat[s], DecayAge)] /\ demandAge' = Older(demandAge, MaxAge)
        /\ supply' = supply /\ demand' = demand
    BY <1>2 DEF Tick
  <2>2. \A s \in Seeders : Older(beat[s], DecayAge) \in 0..DecayAge BY <1>0, <1>a, <1>b
  <2>3. Older(demandAge, MaxAge) \in Ages BY <1>0, <1>a, <1>b DEF Ages
  <2>4. QED BY <1>0, <2>1, <2>2, <2>3
<1>3. ASSUME NEW s \in Seeders, Heartbeat(s) PROVE Goal
  <2>1. beat' = [beat EXCEPT ![s] = 0] /\ demandAge' = demandAge /\ supply' = supply /\ demand' = demand
    BY <1>3 DEF Heartbeat
  <2>2. QED BY <1>0, <1>a, <2>1
<1>4. CASE Aggregate
  <2>1. PICK d \in Nat : d = Decayed
    <3>1. demandAge \in Nat BY <1>0, <1>a DEF Ages
    <3>2. QED BY <1>0, <3>1, DecayedIsNat
  <2>2. PICK t \in Nat : t = TotalHeadroom BY <1>0, HeadroomIsNat
  <2>3. demand' = d /\ demandAge' = 0 /\ beat' = beat
        /\ supply' = IF t > 0 THEN (d * One * One) \div t ELSE 0
    BY <1>4, <2>1, <2>2 DEF Aggregate
  <2>4. d * One * One \in Nat
    <3>1. d * One \in Nat BY <1>a
    <3>2. QED BY <1>a, <3>1
  <2>5. t > 0 => (d * One * One) \div t \in Nat
    <3>1. \A a, b \in Nat : b > 0 => a \div b \in Nat OBVIOUS
    <3>2. QED BY <2>4, <3>1
  <2>6. supply' \in Nat BY <2>3, <2>5
  <2>7. 0 \in Ages BY <1>a DEF Ages
  <2>8. QED BY <1>0, <2>3, <2>6, <2>7
<1>5. ASSUME NEW r \in Requests, Decide(r) PROVE Goal
  <2>1. demand' = demand + 1 /\ demandAge' = reqAge[r] /\ supply' = supply /\ beat' = beat
    BY <1>5 DEF Decide
  <2>2. QED BY <1>0, <2>1
<1>6. QED
  <2>2. ASSUME NEW r \in Requests,
               \/ Arrive(r) \/ Enqueue(r) \/ SubmitNow(r) \/ RegisterQueued(r) \/ Delivered(r)
               \/ GiveUp(r) \/ Forward(r) \/ AdminEject(r)
        PROVE  UNCHANGED supplyVars
    BY <2>2
    DEF Arrive, Enqueue, SubmitNow, RegisterQueued, Delivered, GiveUp, Forward,
        AdminEject
  <2>3. DrainStart \/ DrainPop \/ DrainTake \/ DrainSubmit \/ DrainDeliver => UNCHANGED supplyVars
    BY DEF DrainStart, DrainPop, DrainTake, DrainSubmit, DrainDeliver
  <2>4. (\E n \in 1..QueueCap : AdminDrain(n)) => UNCHANGED supplyVars BY DEF AdminDrain
  <2>5. UNCHANGED admissionVars => UNCHANGED supplyVars BY DEF admissionVars
  <2> HIDE DEF Goal
  <2>6. QED
    BY <1>1, <1>2, <1>3, <1>4, <1>5, <2>2, <2>3, <2>4, <2>5 DEF AdmissionNext, Handler, Drain

\* The reading of the heap and the drain goroutine keep their types and what the drain holds.
LEMMA DrainTypes ==
  ASSUME AdmissionAssumption, QueueIInv, [AdmissionNext]_admissionVars
  PROVE  /\ reading' \in Ages
         /\ drain' \in [at : {"idle", "loop", "look", "submit", "send"}, now : Ages,
                        min : Nat, id : Requests \cup {None}, result : Results \cup {None}]
         /\ DrainHolds'
<1> DEFINE D == [at : {"idle", "loop", "look", "submit", "send"}, now : Ages,
                 min : Nat, id : Requests \cup {None}, result : Results \cup {None}]
           Goal == reading' \in Ages /\ drain' \in D /\ DrainHolds'
<1> SUFFICES Goal OBVIOUS
<1>0. /\ reading \in Ages /\ drain \in D /\ reqAge \in [Requests -> Ages] /\ heap \in Seq(Entry)
      /\ supply \in Nat \cup {Unset}
  BY DEF QueueIInv, AdmissionTypeOK
<1>h. DrainHolds BY DEF QueueIInv
<1>a. MaxAge \in Nat /\ One \in Nat /\ 0 \in Ages BY DEF AdmissionAssumption, Ages
<1>b. \A a \in Ages : Older(a, MaxAge) \in Ages BY <1>a DEF Older, Ages
<1>c. Idle \in D BY <1>a DEF Idle
<1>1. CASE UNCHANGED <<reading, drain>> BY <1>0, <1>h, <1>1 DEF DrainHolds
<1>2. CASE Tick
  <2>1. reading' = Older(reading, MaxAge)
        /\ drain' = IF drain.at = "idle" THEN drain
                    ELSE [drain EXCEPT !.now = Older(drain.now, MaxAge)]
    BY <1>2 DEF Tick
  <2>2. Older(reading, MaxAge) \in Ages /\ Older(drain.now, MaxAge) \in Ages
    BY <1>0, <1>b
  <2>3. drain' \in D /\ drain'.at = drain.at /\ drain'.id = drain.id /\ drain'.result = drain.result
    BY <1>0, <2>1, <2>2
  <2>4. QED BY <1>h, <2>1, <2>2, <2>3 DEF DrainHolds
<1>3. ASSUME NEW r \in Requests, Enqueue(r) PROVE Goal
  <2>1. drain' = drain /\ (reading' = reading \/ reading' = reqAge[r])
    BY <1>3 DEF Enqueue, queueVars
  <2>2. QED BY <1>0, <1>h, <2>1 DEF DrainHolds
<1>4. CASE DrainStart
  <2>1. MinPriority \in Nat
    <3>1. PICK p \in Nat : p = PressureGauge BY <1>0 DEF PressureGauge, Unset
    <3>2. p > One => (p - One) \div 2 \in Nat BY <1>a
    <3>3. QED BY <3>1, <3>2 DEF MinPriority
  <2>2. drain' = [Idle EXCEPT !.at = "loop", !.min = MinPriority] /\ reading' = reading
    BY <1>4 DEF DrainStart, queueVars
  <2>3. drain' \in D /\ drain'.at = "loop" BY <1>c, <2>1, <2>2 DEF Idle
  <2>4. QED BY <1>0, <2>2, <2>3 DEF DrainHolds
<1>5. CASE DrainPop
  <2>1. reading' = drain.now BY <1>5 DEF DrainPop
  <2>2. \/ drain' = Idle
        \/ (heap # <<>> /\ drain' = [drain EXCEPT !.at = "look", !.id = heap[1].id])
    BY <1>5 DEF DrainPop
  <2>3. CASE drain' = Idle BY <1>0, <1>c, <2>1, <2>3 DEF Idle, DrainHolds
  <2>4. CASE heap # <<>> /\ drain' = [drain EXCEPT !.at = "look", !.id = heap[1].id]
    <3>1. PICK e \in Entry : e = heap[1] BY <1>0, <2>4
    <3>2. heap[1].id \in Requests BY <3>1 DEF Entry
    <3>3. drain' \in D /\ drain'.at = "look" /\ drain'.id \in Requests BY <1>0, <2>4, <3>2
    <3>4. QED BY <1>0, <2>1, <3>3 DEF DrainHolds
  <2>5. QED BY <2>2, <2>3, <2>4
<1>6. CASE DrainTake
  <2>1. reading' = reading BY <1>6 DEF DrainTake, queueVars
  <2>2. \/ drain' = [drain EXCEPT !.at = "submit"] \/ drain' = [drain EXCEPT !.at = "loop", !.id = None]
    BY <1>6 DEF DrainTake
  <2>3. drain.id \in Requests BY <1>6, <1>h DEF DrainTake, DrainHolds
  <2>4. QED BY <1>0, <2>1, <2>2, <2>3 DEF DrainHolds
<1>7. CASE DrainSubmit
  <2>1. reading' = reading BY <1>7 DEF DrainSubmit, queueVars
  <2>2. PICK a \in Results : drain' = [drain EXCEPT !.at = "send", !.result = a]
    BY <1>7 DEF DrainSubmit
  <2>3. drain.id \in Requests BY <1>7, <1>h DEF DrainSubmit, DrainHolds
  <2>4. QED BY <1>0, <2>1, <2>2, <2>3 DEF DrainHolds
<1>8. CASE DrainDeliver
  <2>1. reading' = reading BY <1>8 DEF DrainDeliver, queueVars
  <2>2. drain' = [drain EXCEPT !.at = "loop", !.id = None, !.result = None]
    BY <1>8 DEF DrainDeliver
  <2>3. QED BY <1>0, <2>1, <2>2 DEF DrainHolds
<1>9. QED
  <2>1. (\E s \in Seeders : Heartbeat(s)) \/ Aggregate => UNCHANGED <<reading, drain>>
    BY DEF Heartbeat, Aggregate, queueVars
  <2>2. ASSUME NEW r \in Requests,
               \/ Arrive(r) \/ Decide(r) \/ SubmitNow(r) \/ RegisterQueued(r) \/ Delivered(r)
               \/ GiveUp(r) \/ Forward(r) \/ AdminEject(r)
        PROVE  UNCHANGED <<reading, drain>>
    BY <2>2
    DEF Arrive, Decide, SubmitNow, RegisterQueued, Delivered, GiveUp, Forward,
        AdminEject, queueVars
  <2>3. (\E n \in 1..QueueCap : AdminDrain(n)) => UNCHANGED <<reading, drain>>
    BY DEF AdminDrain
  <2>4. UNCHANGED admissionVars => UNCHANGED <<reading, drain>> BY DEF admissionVars, queueVars
  <2> HIDE DEF Goal
  <2>5. QED
    BY <1>1, <1>2, <1>3, <1>4, <1>5, <1>6, <1>7, <1>8, <2>1, <2>2, <2>3, <2>4
    DEF AdmissionNext, Handler, Drain


\* The handlers' side of the types.
HandlerTypes ==
    /\ pc \in [Requests -> {"new", "decide", "push", "submit", "register", "wait", "done"}]
    /\ reqAge \in [Requests -> Ages] /\ timer \in [Requests -> 0..QueueTimeout]
    /\ inbox \in [Requests -> Results \cup {None}]
    /\ answer \in [Requests -> Results \cup {None, "error", "overloaded",
                                            "queue_timeout", "ctx_done"}]

\* The channels' side of the types, and the histories.
ChannelTypes ==
    /\ waiting \in SUBSET Requests
    /\ deliver \in [Requests -> [open : BOOLEAN, val : Results \cup {None}]]
    /\ forward \in [Requests -> {"none", "waiting", "gone"}]
    /\ submits \in [Requests -> Nat] /\ closes \in [Requests -> Nat]
    /\ cancelled \in SUBSET Requests

\* Every step keeps them.
LEMMA HandlerTypesStep ==
  ASSUME AdmissionAssumption, AdmissionTypeOK, DrainHolds, [AdmissionNext]_admissionVars
  PROVE  HandlerTypes'
<1>0. HandlerTypes BY DEF AdmissionTypeOK, HandlerTypes
<1>a. MaxAge \in Nat /\ QueueTimeout \in Nat /\ 0 \in Ages /\ 0 \in 0..QueueTimeout
  BY DEF AdmissionAssumption, Ages
<1>1. CASE UNCHANGED handlerVars BY <1>0, <1>1 DEF handlerVars, HandlerTypes
<1>2. CASE Tick
  <2>1. \A b \in Nat : \A a \in 0..b : Older(a, b) \in 0..b BY DEF Older
  <2>2. \A r \in Requests : Older(reqAge[r], MaxAge) \in Ages /\ Older(timer[r], QueueTimeout) \in 0..QueueTimeout
    BY <1>0, <1>a, <2>1 DEF HandlerTypes, Ages
  <2>3. reqAge' \in [Requests -> Ages] BY <1>0, <1>2, <2>2 DEF Tick, HandlerTypes
  <2>4. timer' \in [Requests -> 0..QueueTimeout] BY <1>0, <1>2, <2>2 DEF Tick, HandlerTypes
  <2>5. QED BY <1>0, <1>2, <2>3, <2>4 DEF Tick, HandlerTypes
<1>3. ASSUME NEW r \in Requests, Arrive(r) PROVE HandlerTypes'
  BY <1>0, <1>a, <1>3 DEF Arrive, Answer, HandlerTypes
<1>4. ASSUME NEW r \in Requests, Decide(r) PROVE HandlerTypes'
  BY <1>0, <1>a, <1>4 DEF Decide, Answer, HandlerTypes
<1>5. ASSUME NEW r \in Requests, Enqueue(r) PROVE HandlerTypes'
  <2>1. /\ reqAge' = [reqAge EXCEPT ![r] = 0] /\ timer' = timer /\ inbox' = inbox
        /\ \/ (pc' = [pc EXCEPT ![r] = "register"] /\ answer' = answer)
           \/ Answer(r, "overloaded")
    BY <1>5 DEF Enqueue
  <2>2. QED BY <1>0, <1>a, <2>1 DEF Answer, HandlerTypes
<1>6. ASSUME NEW r \in Requests, SubmitNow(r) PROVE HandlerTypes'
  BY <1>0, <1>a, <1>6 DEF SubmitNow, Answer, HandlerTypes
<1>7. ASSUME NEW r \in Requests, RegisterQueued(r) PROVE HandlerTypes'
  BY <1>0, <1>a, <1>7 DEF RegisterQueued, HandlerTypes
<1>8. ASSUME NEW r \in Requests, Delivered(r) PROVE HandlerTypes'
  BY <1>0, <1>a, <1>8 DEF Delivered, Answer, HandlerTypes
<1>9. ASSUME NEW r \in Requests, GiveUp(r) PROVE HandlerTypes'
  BY <1>0, <1>a, <1>9 DEF GiveUp, Answer, HandlerTypes
<1>10. ASSUME NEW r \in Requests, Forward(r) PROVE HandlerTypes'
  <2>1. deliver[r].val \in Results \cup {None} BY DEF AdmissionTypeOK
  <2>2. QED BY <1>0, <1>10, <2>1 DEF Forward, HandlerTypes
<1>11. QED
  <2>1. \/ (\E s \in Seeders : Heartbeat(s)) \/ Aggregate \/ DrainStart \/ DrainPop \/ DrainTake
        \/ DrainSubmit \/ DrainDeliver \/ (\E n \in 1..QueueCap : AdminDrain(n))
        \/ (\E r \in Requests : AdminEject(r)) \/ UNCHANGED admissionVars
        => UNCHANGED handlerVars
    BY DEF Heartbeat, Aggregate, DrainStart, DrainPop, DrainTake, DrainSubmit,
           DrainDeliver, AdminDrain, AdminEject, admissionVars
  <2>2. QED
    BY <1>1, <1>2, <1>3, <1>4, <1>5, <1>6, <1>7, <1>8, <1>9, <1>10, <2>1
    DEF AdmissionNext, Handler, Drain

\* Every step keeps these too.
LEMMA ChannelTypesStep ==
  ASSUME AdmissionAssumption, AdmissionTypeOK, DrainHolds, [AdmissionNext]_admissionVars
  PROVE  ChannelTypes'
<1>0. ChannelTypes BY DEF AdmissionTypeOK, ChannelTypes
<1>1. CASE UNCHANGED <<channelVars, historyVars>>
  BY <1>0, <1>1 DEF channelVars, historyVars, ChannelTypes
<1>2. ASSUME NEW r \in Requests, SubmitNow(r) PROVE ChannelTypes'
  BY <1>0, <1>2 DEF SubmitNow, channelVars, ChannelTypes
<1>3. ASSUME NEW r \in Requests, RegisterQueued(r) PROVE ChannelTypes'
  BY <1>0, <1>3 DEF RegisterQueued, historyVars, ChannelTypes
<1>4. ASSUME NEW r \in Requests, GiveUp(r) PROVE ChannelTypes'
  <2>1. forward' = forward /\ submits' = submits BY <1>4 DEF GiveUp
  <2>2. CancelQueued(r) BY <1>4 DEF GiveUp
  <2>3. CASE r \notin waiting BY <1>0, <2>1, <2>2, <2>3 DEF CancelQueued, ChannelTypes
  <2>4. CASE r \in waiting
    <3>1. PICK d \in [open : BOOLEAN, val : Results \cup {None}] : d = [deliver[r] EXCEPT !.open = FALSE]
      <4>1. deliver[r] \in [open : BOOLEAN, val : Results \cup {None}]
        BY <1>0 DEF ChannelTypes
      <4>2. PICK c \in [open : BOOLEAN, val : Results \cup {None}] : c = deliver[r] BY <4>1
      <4>3. [c EXCEPT !.open = FALSE] \in [open : BOOLEAN, val : Results \cup {None}] OBVIOUS
      <4>4. QED BY <4>2, <4>3
    <3>2. deliver' = [deliver EXCEPT ![r] = d] BY <2>2, <2>4, <3>1 DEF CancelQueued
    <3>3. /\ waiting' = waiting \ {r} /\ cancelled' = cancelled \cup {r}
          /\ closes' = [closes EXCEPT ![r] = closes[r] + 1]
      BY <2>2, <2>4 DEF CancelQueued
    <3>4. QED BY <1>0, <2>1, <3>2, <3>3 DEF ChannelTypes
  <2>5. QED BY <2>3, <2>4
<1>5. ASSUME NEW r \in Requests, Forward(r) PROVE ChannelTypes'
  BY <1>0, <1>5 DEF Forward, historyVars, ChannelTypes
<1>6. CASE DrainTake BY <1>0, <1>6 DEF DrainTake, historyVars, ChannelTypes
<1>7. CASE DrainSubmit
  <2>1. PICK r \in Requests : r = drain.id BY <1>7 DEF DrainSubmit, DrainHolds
  <2>2. submits' = [submits EXCEPT ![r] = submits[r] + 1] BY <1>7, <2>1 DEF DrainSubmit
  <2>3. QED BY <1>0, <1>7, <2>2 DEF DrainSubmit, channelVars, ChannelTypes
<1>8. CASE DrainDeliver
  <2>1. PICK r \in Requests : r = drain.id BY <1>8 DEF DrainDeliver, DrainHolds
  <2>2. drain.result \in Results BY <1>8 DEF DrainDeliver, DrainHolds
  <2>3. PICK v \in Results \cup {None} : v = IF deliver[r].val = None THEN drain.result ELSE deliver[r].val
    BY <1>0, <2>2 DEF ChannelTypes
  <2>4. deliver' = [deliver EXCEPT ![r] = [open |-> FALSE, val |-> v]]
    BY <1>8, <2>1, <2>3 DEF DrainDeliver
  <2>5. closes' = [closes EXCEPT ![r] = closes[r] + 1] BY <1>8, <2>1 DEF DrainDeliver
  <2>6. QED BY <1>0, <1>8, <2>4, <2>5 DEF DrainDeliver, ChannelTypes
<1>9. QED
  <2>1. \/ Tick \/ (\E s \in Seeders : Heartbeat(s)) \/ Aggregate \/ DrainStart \/ DrainPop
        \/ (\E n \in 1..QueueCap : AdminDrain(n)) \/ UNCHANGED admissionVars
        => UNCHANGED <<channelVars, historyVars>>
    BY DEF Tick, Heartbeat, Aggregate, DrainStart, DrainPop, AdminDrain, admissionVars
  <2>2. ASSUME NEW r \in Requests,
               Arrive(r) \/ Decide(r) \/ Enqueue(r) \/ Delivered(r) \/ AdminEject(r)
        PROVE  UNCHANGED <<channelVars, historyVars>>
    BY <2>2 DEF Arrive, Decide, Enqueue, Delivered, AdminEject
  <2>3. QED
    BY <1>1, <1>2, <1>3, <1>4, <1>5, <1>6, <1>7, <1>8, <2>1, <2>2 DEF AdmissionNext, Handler, Drain

\* The types, the queue and what the drain holds.
LEMMA TypesStep ==
  ASSUME AdmissionAssumption, QueueIInv, [AdmissionNext]_admissionVars
  PROVE  AdmissionTypeOK' /\ (Len(heap) <= QueueCap)' /\ Once(heap)' /\ DrainHolds'
<1>1. AdmissionTypeOK /\ DrainHolds BY DEF QueueIInv
<1>2. HandlerTypes' /\ ChannelTypes' BY <1>1, HandlerTypesStep, ChannelTypesStep
<1>3. /\ supply' \in Nat \cup {Unset} /\ demand' \in Nat /\ demandAge' \in Ages
      /\ beat' \in [Seeders -> 0..DecayAge]
  BY <1>1, SupplyTypes
<1>4. QueueGood(heap') BY QueueStep
<1>5. QED BY <1>2, <1>3, <1>4, DrainTypes DEF AdmissionTypeOK, HandlerTypes, ChannelTypes, QueueGood


-----------------------------------------------------------------------------
(* The stages of a request.                                                  *)

\* A step that leaves alone all that the stage of q depends on.
Same(q) ==
    /\ pc'[q] = pc[q] /\ answer'[q] = answer[q] /\ submits'[q] = submits[q] /\ closes'[q] = closes[q]
    /\ deliver'[q].val = deliver[q].val /\ inbox'[q] = inbox[q]
    /\ (q \in waiting' <=> q \in waiting) /\ (q \in cancelled' <=> q \in cancelled)
    /\ (Handles(q)' <=> Handles(q)) /\ (Handles(q) => drain'.at = drain.at)
    /\ (q \in Queued' => q \in Queued)

\* It leaves the stage alone.
LEMMA SameStage == ASSUME NEW q \in Requests, Stage(q), Same(q) PROVE Stage(q)'
BY DEF Stage, Same

\* What a step of the handler of r leaves alone of another request.
LEMMA OtherRequests ==
  ASSUME AdmissionAssumption, QueueIInv, [AdmissionNext]_admissionVars, NEW q \in Requests, NEW r \in Requests, q # r,
         \/ Arrive(r) \/ Decide(r) \/ Enqueue(r) \/ SubmitNow(r)
         \/ RegisterQueued(r) \/ Delivered(r) \/ GiveUp(r) \/ Forward(r)
  PROVE  Same(q)
<1>0. AdmissionTypeOK BY DEF QueueIInv
<1>a. DOMAIN pc = Requests /\ DOMAIN answer = Requests /\ DOMAIN inbox = Requests
  BY <1>0 DEF AdmissionTypeOK
<1>b. DOMAIN submits = Requests /\ DOMAIN closes = Requests /\ DOMAIN deliver = Requests
  BY <1>0 DEF AdmissionTypeOK
<1>1. drain' = drain
  BY DEF Arrive, Decide, Enqueue, SubmitNow, RegisterQueued, Delivered, GiveUp,
         Forward
<1>2. (Handles(q)' <=> Handles(q)) /\ drain'.at = drain.at BY <1>1 DEF Handles
<1>3. pc'[q] = pc[q] /\ answer'[q] = answer[q]
  <2>1. CASE Arrive(r) \/ Decide(r) \/ Enqueue(r)
    BY <1>a, <2>1 DEF Arrive, Decide, Enqueue, Answer
  <2>2. CASE SubmitNow(r) \/ RegisterQueued(r) \/ Delivered(r)
    BY <1>a, <2>2 DEF SubmitNow, RegisterQueued, Delivered, Answer
  <2>3. CASE GiveUp(r) \/ Forward(r) BY <1>a, <2>3 DEF GiveUp, Forward, Answer
  <2>4. QED BY <2>1, <2>2, <2>3
<1>4. q \in Queued' => q \in Queued
  <2>1. Enqueue(q) => pc[q] = "push" /\ pc'[q] # "push" BY <1>a DEF Enqueue, Answer
  <2>2. QED BY <1>3, <2>1, QueueStep
<1>5. inbox'[q] = inbox[q] /\ submits'[q] = submits[q]
  <2>1. CASE Arrive(r) \/ Decide(r) \/ Enqueue(r)
    BY <2>1 DEF Arrive, Decide, Enqueue, historyVars
  <2>2. CASE SubmitNow(r) \/ RegisterQueued(r) \/ Delivered(r)
    BY <1>a, <1>b, <2>2 DEF SubmitNow, RegisterQueued, Delivered, historyVars
  <2>3. CASE GiveUp(r) \/ Forward(r) BY <1>a, <2>3 DEF GiveUp, Forward, historyVars
  <2>4. QED BY <2>1, <2>2, <2>3
<1>6. /\ (q \in waiting' <=> q \in waiting) /\ (q \in cancelled' <=> q \in cancelled)
      /\ closes'[q] = closes[q] /\ deliver'[q].val = deliver[q].val
  <2>1. CASE GiveUp(r)
    <3>1. CancelQueued(r) BY <2>1 DEF GiveUp
    <3>2. QED BY <1>b, <3>1 DEF CancelQueued
  <2>2. CASE RegisterQueued(r) BY <1>b, <2>2 DEF RegisterQueued, historyVars
  <2>3. CASE Forward(r) BY <1>b, <2>3 DEF Forward, historyVars
  <2>4. CASE Arrive(r) \/ Decide(r) \/ Enqueue(r) \/ SubmitNow(r) \/ Delivered(r)
    <3>1. UNCHANGED <<waiting, deliver, closes, cancelled>>
      BY <2>4
      DEF Arrive, Decide, Enqueue, SubmitNow, Delivered, channelVars, historyVars
    <3>2. QED BY <3>1
  <2>5. QED BY <2>1, <2>2, <2>3, <2>4
<1>7. QED BY <1>2, <1>3, <1>4, <1>5, <1>6 DEF Same

\* The handler of a request takes it from one stage to the next.
LEMMA HandlerStage ==
  ASSUME AdmissionAssumption, QueueIInv, [AdmissionNext]_admissionVars, NEW q \in Requests,
         \/ Arrive(q) \/ Decide(q) \/ Enqueue(q) \/ SubmitNow(q) \/ RegisterQueued(q)
         \/ Delivered(q) \/ GiveUp(q) \/ Forward(q)
  PROVE  Stage(q)'
<1>0. AdmissionTypeOK /\ Stage(q) BY DEF QueueIInv
<1>a. drain' = drain
  BY DEF Arrive, Decide, Enqueue, SubmitNow, RegisterQueued, Delivered, GiveUp,
         Forward
<1>b. Handles(q)' <=> Handles(q) BY <1>a DEF Handles
<1>c. pc[q] # "push" => (q \in Queued' => q \in Queued) BY QueueStep DEF Enqueue
<1>d. None \notin Results /\ "error" \notin Results /\ "overloaded" \notin Results
      /\ "queue_timeout" \notin Results /\ "ctx_done" \notin Results
  BY DEF None, Results
<1>1. CASE Arrive(q)
  <2>1. /\ pc[q] = "new"
        /\ (pc'[q] = "decide" /\ answer'[q] = answer[q]) \/ (pc'[q] = "done" /\ answer'[q] = "error")
    BY <1>0, <1>1 DEF Arrive, Answer, AdmissionTypeOK
  <2>2. UNCHANGED <<inbox, waiting, deliver, submits, closes, cancelled>>
    BY <1>1 DEF Arrive, channelVars, historyVars
  <2>3. QED BY <1>0, <1>a, <1>b, <1>c, <1>d, <2>1, <2>2 DEF Stage, Unregistered, None
<1>2. CASE Decide(q)
  <2>1. /\ pc[q] = "decide"
        /\ \/ (pc'[q] \in {"submit", "push"} /\ answer'[q] = answer[q])
           \/ (pc'[q] = "done" /\ answer'[q] = "overloaded")
    BY <1>0, <1>2 DEF Decide, Answer, AdmissionTypeOK
  <2>2. UNCHANGED <<inbox, waiting, deliver, submits, closes, cancelled>>
    BY <1>2 DEF Decide, channelVars, historyVars
  <2>3. QED BY <1>0, <1>a, <1>b, <1>c, <1>d, <2>1, <2>2 DEF Stage, Unregistered, None
<1>3. CASE Enqueue(q)
  <2>1. /\ pc[q] = "push"
        /\ \/ (pc'[q] = "register" /\ answer'[q] = answer[q])
           \/ (pc'[q] = "done" /\ answer'[q] = "overloaded" /\ Queued' = Queued)
    BY <1>0, <1>3 DEF Enqueue, Answer, AdmissionTypeOK, queueVars, Queued
  <2>2. UNCHANGED <<inbox, waiting, deliver, submits, closes, cancelled>>
    BY <1>3 DEF Enqueue, channelVars, historyVars
  <2>3. QED BY <1>0, <1>a, <1>b, <1>d, <2>1, <2>2 DEF Stage, Unregistered, None
<1>4. CASE SubmitNow(q)
  <2>1. /\ pc[q] = "submit" /\ pc'[q] = "done" /\ answer'[q] \in Results \cup {"error"}
        /\ submits'[q] = submits[q] + 1
    BY <1>0, <1>4 DEF SubmitNow, Answer, AdmissionTypeOK
  <2>2. UNCHANGED <<inbox, waiting, deliver, closes, cancelled>>
    BY <1>4 DEF SubmitNow, channelVars
  <2>3. submits[q] = 0 /\ answer'[q] # "overloaded" BY <1>0, <1>d, <2>1 DEF Stage, Unregistered
  <2>4. QED BY <1>0, <1>a, <1>b, <1>c, <1>d, <2>1, <2>2, <2>3 DEF Stage, Unregistered, None
<1>5. CASE RegisterQueued(q)
  <2>1. /\ pc[q] = "register" /\ pc'[q] = "wait" /\ waiting' = waiting \cup {q}
        /\ deliver'[q].val = None
    BY <1>0, <1>5 DEF RegisterQueued, AdmissionTypeOK
  <2>2. UNCHANGED <<inbox, answer, submits, closes, cancelled>>
    BY <1>5 DEF RegisterQueued, historyVars
  <2>3. QED BY <1>0, <1>a, <1>b, <1>c, <1>d, <2>1, <2>2 DEF Stage, Unregistered, None
<1>6. CASE Delivered(q)
  <2>1. /\ pc[q] = "wait" /\ pc'[q] = "done" /\ inbox[q] # None /\ answer'[q] = inbox[q]
        /\ inbox[q] \in Results
    BY <1>0, <1>6 DEF Delivered, Answer, AdmissionTypeOK
  <2>2. inbox'[q] = None BY <1>0, <1>6 DEF Delivered, AdmissionTypeOK
  <2>3. UNCHANGED <<waiting, deliver, submits, closes, cancelled>>
    BY <1>6 DEF Delivered, channelVars, historyVars
  <2>4. submits[q] = 1 /\ q \notin waiting BY <1>0, <2>1 DEF Stage
  <2>5. QED
    BY <1>0, <1>a, <1>b, <1>c, <1>d, <2>1, <2>2, <2>3, <2>4 DEF Stage, Unregistered, None
<1>7. CASE GiveUp(q)
  <2>1. /\ pc[q] = "wait" /\ pc'[q] = "done" /\ answer'[q] \in {"queue_timeout", "ctx_done"}
    BY <1>0, <1>7 DEF GiveUp, Answer, AdmissionTypeOK
  <2>2. CancelQueued(q) /\ UNCHANGED <<inbox, submits>> BY <1>7 DEF GiveUp
  <2>3. CASE q \notin waiting
    <3>1. UNCHANGED <<waiting, deliver, closes, cancelled>> BY <2>2, <2>3 DEF CancelQueued
    <3>2. QED
      BY <1>0, <1>a, <1>b, <1>c, <1>d, <2>1, <2>2, <2>3, <3>1 DEF Stage, Unregistered, None
  <2>4. CASE q \in waiting
    <3>1. /\ waiting' = waiting \ {q} /\ deliver'[q].val = deliver[q].val
          /\ closes'[q] = closes[q] + 1 /\ cancelled' = cancelled \cup {q}
      <4>1. /\ waiting' = waiting \ {q} /\ cancelled' = cancelled \cup {q}
            /\ deliver' = [deliver EXCEPT ![q].open = FALSE]
            /\ closes' = [closes EXCEPT ![q] = @ + 1]
        BY <2>2, <2>4 DEF CancelQueued
      <4>2. deliver'[q].val = deliver[q].val BY <1>0, <4>1 DEF AdmissionTypeOK
      <4>3. closes'[q] = closes[q] + 1 BY <1>0, <4>1 DEF AdmissionTypeOK
      <4>4. QED BY <4>1, <4>2, <4>3
    <3>2. closes[q] = 0 /\ submits[q] = 0 /\ ~Handles(q) BY <1>0, <2>4 DEF Stage
    <3>3. QED
      BY <1>0, <1>a, <1>b, <1>c, <1>d, <2>1, <2>2, <3>1, <3>2 DEF Stage, Unregistered, None
  <2>5. QED BY <2>3, <2>4
<1>8. CASE Forward(q)
  <2>1. deliver'[q].val = None /\ (inbox'[q] = inbox[q] \/ inbox'[q] = deliver[q].val)
    BY <1>0, <1>8 DEF Forward, AdmissionTypeOK
  <2>2. UNCHANGED <<pc, answer, waiting, submits, closes, cancelled>>
    BY <1>8 DEF Forward, historyVars
  <2>3. pc'[q] = pc[q] /\ Queued' = Queued BY <1>8 DEF Forward, queueVars, Queued
  <2>4. QED BY <1>0, <1>a, <1>b, <1>d, <2>1, <2>2, <2>3 DEF Stage, Unregistered, None
<1>9. QED BY <1>1, <1>2, <1>3, <1>4, <1>5, <1>6, <1>7, <1>8

\* The drain hands over the request it has taken, and leaves the others alone.
LEMMA DrainStage ==
  ASSUME AdmissionAssumption, QueueIInv, [AdmissionNext]_admissionVars, NEW q \in Requests,
         DrainTake \/ DrainSubmit \/ DrainDeliver
  PROVE  Stage(q)'
<1>0. AdmissionTypeOK /\ Stage(q) /\ DrainHolds BY DEF QueueIInv
<1>a. UNCHANGED <<pc, answer, inbox, cancelled>> /\ Queued' = Queued
  <2>1. UNCHANGED <<handlerVars, queueVars, cancelled>>
    BY DEF DrainTake, DrainSubmit, DrainDeliver, historyVars
  <2>2. heap' = heap BY <2>1 DEF queueVars
  <2>3. Queued' = Queued BY <2>2 DEF Queued
  <2>4. QED BY <2>1, <2>3 DEF handlerVars
<1>b. PICK r \in Requests : r = drain.id
  BY <1>0 DEF DrainTake, DrainSubmit, DrainDeliver, DrainHolds
<1>c. drain \in [at : {"idle", "loop", "look", "submit", "send"}, now : Ages,
                 min : Nat, id : Requests \cup {None}, result : Results \cup {None}]
  BY <1>0 DEF AdmissionTypeOK
<1>1. CASE DrainTake
  <2>1. drain.at = "look" /\ UNCHANGED <<deliver, submits, closes>> /\ waiting' = waiting \ {r}
    BY <1>1, <1>b DEF DrainTake, historyVars
  <2>2. ~Handles(q) BY <2>1 DEF Handles
  <2>3. CASE r \in waiting
    <3>1. drain'.at = "submit" /\ drain'.id = r BY <1>1, <1>b, <1>c, <2>3 DEF DrainTake
    <3>2. Handles(q)' <=> q = r BY <3>1 DEF Handles
    <3>3. CASE q = r
      <4>1. /\ pc[q] = "wait" /\ submits[q] = 0 /\ closes[q] = 0 /\ q \notin cancelled
        BY <1>0, <2>3, <3>3 DEF Stage
      <4>2. answer[q] = None BY <1>0, <4>1 DEF Stage
      <4>3. QED
        BY <1>0, <1>a, <2>1, <3>1, <3>2, <3>3, <4>1, <4>2 DEF Stage, Unregistered, None
    <3>4. CASE q # r
      <4>1. Same(q) BY <1>a, <2>1, <2>2, <3>2, <3>4 DEF Same
      <4>2. QED BY <1>0, <4>1, SameStage
    <3>5. QED BY <3>3, <3>4
  <2>4. CASE r \notin waiting
    <3>1. drain'.at = "loop" BY <1>1, <1>b, <1>c, <2>4 DEF DrainTake
    <3>2. ~Handles(q)' BY <3>1 DEF Handles
    <3>3. waiting' = waiting BY <2>1, <2>4
    <3>4. Same(q) BY <1>a, <2>1, <2>2, <3>2, <3>3 DEF Same
    <3>5. QED BY <1>0, <3>4, SameStage
  <2>5. QED BY <2>3, <2>4
<1>2. CASE DrainSubmit
  <2>1. /\ drain.at = "submit" /\ UNCHANGED <<deliver, closes, waiting>>
        /\ submits' = [submits EXCEPT ![r] = submits[r] + 1]
    BY <1>2, <1>b DEF DrainSubmit, channelVars
  <2>2. drain'.at = "send" /\ drain'.id = r BY <1>2, <1>b, <1>c DEF DrainSubmit
  <2>3. (Handles(q) <=> q = r) /\ (Handles(q)' <=> q = r) BY <1>b, <2>1, <2>2 DEF Handles
  <2>4. CASE q = r
    <3>1. submits'[q] = submits[q] + 1 BY <1>0, <2>1, <2>4 DEF AdmissionTypeOK
    <3>2. submits[q] = 0 BY <1>0, <2>1, <2>3, <2>4 DEF Stage
    <3>3. QED BY <1>0, <1>a, <2>1, <2>2, <2>3, <2>4, <3>1, <3>2 DEF Stage
  <2>5. CASE q # r
    <3>1. submits'[q] = submits[q] BY <1>0, <2>1, <2>5 DEF AdmissionTypeOK
    <3>2. Same(q) BY <1>a, <2>1, <2>3, <2>5, <3>1 DEF Same
    <3>3. QED BY <1>0, <3>2, SameStage
  <2>6. QED BY <2>4, <2>5
<1>3. CASE DrainDeliver
  <2>1. /\ drain.at = "send" /\ UNCHANGED <<submits, waiting>>
        /\ closes' = [closes EXCEPT ![r] = closes[r] + 1]
    BY <1>3, <1>b DEF DrainDeliver
  <2>2. drain'.at = "loop" BY <1>3, <1>b, <1>c DEF DrainDeliver
  <2>3. (Handles(q) <=> q = r) /\ ~Handles(q)' BY <1>b, <2>1, <2>2 DEF Handles
  <2>4. CASE q = r
    <3>1. closes'[q] = closes[q] + 1 BY <1>0, <2>1, <2>4 DEF AdmissionTypeOK
    <3>2. submits[q] = 1 /\ closes[q] = 0 /\ q \notin cancelled
      BY <1>0, <2>1, <2>3, <2>4 DEF Stage
    <3>3. q \notin waiting /\ pc[q] \notin Unregistered /\ answer[q] # "overloaded"
      BY <1>0, <2>3, <2>4 DEF Stage
    <3>4. QED BY <1>0, <1>a, <2>1, <2>3, <2>4, <3>1, <3>2, <3>3 DEF Stage, Unregistered
  <2>5. CASE q # r
    <3>1. closes'[q] = closes[q] BY <1>0, <2>1, <2>5 DEF AdmissionTypeOK
    <3>2. deliver'[q] = deliver[q] BY <1>0, <1>3, <1>b, <2>5 DEF AdmissionTypeOK, DrainDeliver
    <3>3. Same(q) BY <1>a, <2>1, <2>3, <2>5, <3>1, <3>2 DEF Same
    <3>4. QED BY <1>0, <3>3, SameStage
  <2>6. QED BY <2>4, <2>5
<1>4. QED BY <1>1, <1>2, <1>3

\* Every step takes every request from a stage to a stage.
LEMMA StageStep ==
  ASSUME AdmissionAssumption, QueueIInv, [AdmissionNext]_admissionVars, NEW q \in Requests
  PROVE  Stage(q)'
<1>0. AdmissionTypeOK /\ Stage(q) BY DEF QueueIInv
<1>1. ASSUME NEW r \in Requests,
             \/ Arrive(r) \/ Decide(r) \/ Enqueue(r) \/ SubmitNow(r) \/ RegisterQueued(r)
             \/ Delivered(r) \/ GiveUp(r) \/ Forward(r)
      PROVE  Stage(q)'
  <2>1. CASE q = r BY <1>1, <2>1, HandlerStage
  <2>2. CASE q # r
    <3>1. Same(q) BY <1>1, <2>2, OtherRequests
    <3>2. QED BY <1>0, <3>1, SameStage
  <2>3. QED BY <2>1, <2>2
<1>2. CASE DrainTake \/ DrainSubmit \/ DrainDeliver BY <1>2, DrainStage
<1>3. CASE \/ Tick \/ (\E s \in Seeders : Heartbeat(s)) \/ Aggregate \/ DrainStart \/ DrainPop
           \/ (\E n \in 1..QueueCap : AdminDrain(n)) \/ (\E r \in Requests : AdminEject(r))
           \/ UNCHANGED admissionVars
  <2>1. UNCHANGED <<pc, inbox, answer, channelVars, historyVars>>
    BY <1>3
    DEF Tick, Heartbeat, Aggregate, DrainStart, DrainPop, AdminDrain, AdminEject,
        admissionVars, handlerVars
  <2>2. q \in Queued' => q \in Queued
    <3>1. Enqueue(q) => pc'[q] # pc[q] BY <1>0 DEF Enqueue, Answer, AdmissionTypeOK
    <3>2. QED BY <2>1, <3>1, QueueStep
  <2>3. (Handles(q)' <=> Handles(q)) /\ (Handles(q) => drain'.at = drain.at)
    <3>0. drain \in [at : {"idle", "loop", "look", "submit", "send"}, now : Ages,
                     min : Nat, id : Requests \cup {None}, result : Results \cup {None}]
      BY <1>0 DEF AdmissionTypeOK
    <3>1. CASE Tick
      <4>1. drain'.at = drain.at /\ drain'.id = drain.id BY <3>0, <3>1 DEF Tick
      <4>2. QED BY <4>1 DEF Handles
    <3>2. CASE DrainStart BY <3>2 DEF DrainStart, Idle, Handles
    <3>3. CASE DrainPop
      <4>1. drain.at = "loop" /\ (drain' = Idle \/ drain' = [drain EXCEPT !.at = "look", !.id = heap[1].id])
        BY <3>3 DEF DrainPop
      <4>2. drain'.at \in {"idle", "look"}
        <5>1. CASE drain' = Idle BY <5>1 DEF Idle
        <5>2. CASE drain' = [drain EXCEPT !.at = "look", !.id = heap[1].id]
          <6>1. PICK i : i = heap[1].id OBVIOUS
          <6>2. drain' = [drain EXCEPT !.at = "look", !.id = i] BY <5>2, <6>1
          <6>3. QED BY <3>0, <6>2
        <5>3. QED BY <4>1, <5>1, <5>2
      <4>3. QED BY <4>1, <4>2 DEF Handles
    <3>4. CASE drain' = drain BY <3>4 DEF Handles
    <3>5. QED
      BY <1>3, <3>1, <3>2, <3>3, <3>4
      DEF Heartbeat, Aggregate, AdminDrain, AdminEject, admissionVars
  <2>4. Same(q) BY <2>1, <2>2, <2>3 DEF Same, channelVars, historyVars
  <2>5. QED BY <1>0, <2>4, SameStage
<1>4. QED BY <1>1, <1>2, <1>3 DEF AdmissionNext, Handler, Drain


\* The first states.
LEMMA QueueInit == ASSUME AdmissionAssumption, AdmissionInit PROVE QueueIInv
<1>1. PICK n \in Nat : n = Cardinality(Abandoned) /\ n <= QueueCap
  <2>1. IsFiniteSet(Abandoned) BY FS_Subset DEF AdmissionAssumption
  <2>2. Cardinality(Abandoned) \in Nat BY <2>1, FS_CardinalityType
  <2>3. QED BY <2>2 DEF AdmissionAssumption
<1>2. PICK E : E = {NewEntry(r, 0) : r \in Abandoned} OBVIOUS
<1>3. PICK h \in [1..n -> E] : h = heap /\ IsInjective(h)
  BY <1>1, <1>2 DEF AdmissionInit
<1>4. 0 \in Ages /\ 0 \in 0..QueueTimeout /\ 0 \in 0..DecayAge
  BY DEF Ages, AdmissionAssumption
<1>5. ASSUME NEW e \in E PROVE e \in Entry /\ e.id \in Abandoned /\ e = NewEntry(e.id, 0)
  <2>1. PICK r \in Abandoned : e = NewEntry(r, 0) BY <1>2
  <2>2. r \in Requests /\ Score[r] \in 0..One BY DEF AdmissionAssumption
  <2>3. QED BY <1>4, <2>1, <2>2 DEF NewEntry, Entry
<1>6. h \in Seq(Entry) /\ Len(h) = n /\ DOMAIN h = 1..n
  <2>1. h \in [1..n -> Entry] BY <1>5
  <2>2. QED BY <2>1
<1>7. Once(h)
  <2>1. ASSUME NEW j \in 1..n, NEW k \in 1..n, h[j].id = h[k].id PROVE j = k
    <3>1. h[j] = h[k] BY <1>5, <2>1
    <3>2. QED BY <1>3, <1>6, <3>1 DEF IsInjective
  <2>2. QED BY <1>6, <2>1 DEF Once
<1>8. \A r \in Queued : r \in Abandoned BY <1>3, <1>5, <1>6 DEF Queued
<1>9. drain = Idle /\ Idle.at = "idle" BY DEF AdmissionInit, Idle
<1>10. AdmissionTypeOK
  <2>1. HandlerTypes BY <1>4 DEF AdmissionInit, HandlerTypes, Results, None
  <2>2. ChannelTypes BY DEF AdmissionInit, ChannelTypes, AdmissionAssumption
  <2>3. drain \in [at : {"idle", "loop", "look", "submit", "send"}, now : Ages,
                   min : Nat, id : Requests \cup {None}, result : Results \cup {None}]
    BY <1>4, <1>9 DEF Idle
  <2>4. /\ supply \in Nat \cup {Unset} /\ demand \in Nat /\ demandAge \in Ages
        /\ beat \in [Seeders -> 0..DecayAge] /\ reading \in Ages
    BY <1>4 DEF AdmissionInit, AdmissionAssumption
  <2>5. heap \in Seq(Entry) BY <1>3, <1>6
  <2>6. QED BY <2>1, <2>2, <2>3, <2>4, <2>5 DEF AdmissionTypeOK, HandlerTypes, ChannelTypes
<1>11. DrainHolds BY <1>9 DEF DrainHolds
<1>12. ASSUME NEW r \in Requests PROVE Stage(r)
  <2>1. ~Handles(r) BY <1>9 DEF Handles
  <2>2. /\ r \notin waiting /\ submits[r] = 0 /\ inbox[r] = None /\ deliver[r].val = None
        /\ cancelled = Abandoned
    BY DEF AdmissionInit
  <2>3. CASE r \in Abandoned
    <3>1. pc[r] = "done" /\ answer[r] = "ctx_done" /\ closes[r] = 1 BY <2>3 DEF AdmissionInit
    <3>2. QED BY <2>1, <2>2, <2>3, <3>1 DEF Stage, Unregistered, Results
  <2>4. CASE r \notin Abandoned
    <3>1. pc[r] = "new" /\ answer[r] = None /\ closes[r] = 0 BY <2>4 DEF AdmissionInit
    <3>2. r \notin Queued BY <1>8, <2>4
    <3>3. QED BY <2>1, <2>2, <2>4, <3>1, <3>2 DEF Stage, Unregistered, Results, None
  <2>5. QED BY <2>3, <2>4
<1>13. QED BY <1>1, <1>3, <1>6, <1>7, <1>10, <1>11, <1>12 DEF QueueIInv

\* The inductive invariant holds of every behaviour.
LEMMA QueueInvariance == AdmissionSpec => []QueueIInv
<1> USE AdmissionAssumption
<1>1. AdmissionInit => QueueIInv BY QueueInit
<1>2. QueueIInv /\ [AdmissionNext]_admissionVars => QueueIInv'
  <2> SUFFICES ASSUME QueueIInv, [AdmissionNext]_admissionVars PROVE QueueIInv' OBVIOUS
  <2>1. AdmissionTypeOK' /\ (Len(heap) <= QueueCap)' /\ Once(heap)' /\ DrainHolds' BY TypesStep
  <2>2. (\A r \in Requests : Stage(r))'
    <3>1. \A r \in Requests : Stage(r)' BY StageStep
    <3>2. QED BY <3>1
  <2>3. QED BY <2>1, <2>2 DEF QueueIInv
<1>3. QED BY <1>1, <1>2, PTL DEF AdmissionSpec

\* Whatever races between the handler, its timeout, its caller's context and the drain, a queued
\* request is handed over once.
THEOREM HandOverIsSafe == AdmissionSpec => []AdmissionInv
<1>1. QueueIInv => AdmissionInv
  <2> SUFFICES ASSUME QueueIInv PROVE AdmissionInv OBVIOUS
  <2>1. AdmissionTypeOK /\ waiting \subseteq Requests BY DEF QueueIInv, AdmissionTypeOK
  <2>2. ASSUME NEW r \in Requests
        PROVE  closes[r] <= 1 /\ submits[r] <= 1 /\ (r \in cancelled => submits[r] = 0)
    BY DEF QueueIInv, Stage
  <2>3. CloseOnce BY <2>2 DEF CloseOnce
  <2>4. NoServiceAfterCancel BY <2>2 DEF NoServiceAfterCancel
  <2>5. PendingIsWaited BY <2>1 DEF QueueIInv, Stage, PendingIsWaited
  <2>6. AnswerIsResult BY DEF QueueIInv, Stage, AnswerIsResult
  <2>7. QED BY <2>1, <2>3, <2>4, <2>5, <2>6 DEF AdmissionInv
<1>2. AdmissionSpec => []QueueIInv BY QueueInvariance
<1>3. QED BY <1>1, <1>2, PTL

\* Whatever pushes, pops and ejections interleave, the queue keeps to its cap and holds no request
\* twice.
THEOREM QueueIsSound == AdmissionSpec => []QueueSound
<1>1. QueueIInv => QueueSound BY DEF QueueIInv, Once, QueueSound
<1>2. AdmissionSpec => []QueueIInv BY QueueInvariance
<1>3. QED BY <1>1, <1>2, PTL

\* Time keeps the order as long as it tells all arrivals apart.
LEMMA TickOrder ==
  ASSUME AdmissionAssumption, QueueGood(heap), Tick, HeapOrdered(heap),
         \A k \in DOMAIN heap : heap[k].age < MaxAge
  PROVE  HeapOrdered(heap')
<1>1. PICK h \in Seq(Entry) : h = heap BY DEF QueueGood
<1>2. PICK N \in Nat : N = Len(h) /\ DOMAIN h = 1..N OBVIOUS
<1>3. PICK g : g = heap' OBVIOUS
<1>4. g = [k \in 1..N |-> [h[k] EXCEPT !.age = Older(@, MaxAge)]]
  BY <1>1, <1>2, <1>3 DEF Tick
<1>5. ASSUME NEW k \in 1..N
      PROVE  Key(h[k]) \in Nat /\ Key(g[k]) = Key(h[k]) + AgingAlpha
  <2>0. PICK e \in Entry : e = h[k] BY <1>2
  <2>1. PICK s, a \in Nat : s = e.score /\ a = e.age
    <3>1. One \in Nat /\ MaxAge \in Nat BY DEF AdmissionAssumption
    <3>2. e.score \in Nat /\ e.age \in Nat BY <2>0, <3>1 DEF Entry, Ages
    <3>3. QED BY <3>2
  <2>2. a < MaxAge BY <1>1, <1>2, <2>0, <2>1
  <2>3. Older(a, MaxAge) = a + 1 BY <2>2 DEF Older
  <2>4. g[k].score = s /\ g[k].age = a + 1 BY <1>4, <2>0, <2>1, <2>3 DEF Entry
  <2>5. PICK c \in Nat : c = AgingAlpha BY DEF AdmissionAssumption
  <2>6. Key(h[k]) = s + c * a /\ Key(g[k]) = s + c * (a + 1)
    BY <2>0, <2>1, <2>4, <2>5 DEF Key
  <2>7. c * (a + 1) = c * a + c /\ c * a \in Nat
    <3>1. \A x, y \in Nat : x * (y + 1) = x * y + x /\ x * y \in Nat OBVIOUS
    <3>2. QED BY <3>1
  <2>8. PICK m \in Nat : m = c * a BY <2>7
  <2>9. QED BY <2>5, <2>6, <2>7, <2>8
<1>6. ASSUME NEW k \in 1..N, k > 1 PROVE Key(g[k \div 2]) >= Key(g[k])
  <2>1. PICK p \in 1..N : p = k \div 2 BY <1>6
  <2>2. Key(h[p]) >= Key(h[k]) BY <1>1, <1>2, <1>6, <2>1 DEF HeapOrdered
  <2>3. PICK x, y \in Nat : x = Key(h[p]) /\ y = Key(h[k]) BY <1>5
  <2>4. PICK c \in Nat : c = AgingAlpha BY DEF AdmissionAssumption
  <2>5. Key(g[p]) = x + c /\ Key(g[k]) = y + c BY <1>5, <2>3, <2>4
  <2>6. x + c >= y + c BY <2>2, <2>3
  <2>7. QED BY <2>1, <2>5, <2>6
<1>7. DOMAIN g = 1..N BY <1>4
<1>8. QED BY <1>3, <1>6, <1>7 DEF HeapOrdered

\* A push keeps the order when the request's reading is no older than any arrival.
LEMMA EnqueueOrder ==
  ASSUME AdmissionAssumption, QueueGood(heap), reqAge \in [Requests -> Ages],
         NEW r \in Requests, Enqueue(r), HeapOrdered(heap),
         \A k \in DOMAIN heap : reading' <= heap[k].age
  PROVE  HeapOrdered(heap')
<1>1. CASE ~(Len(heap) < QueueCap)
  <2>1. heap' = heap BY <1>1 DEF Enqueue, queueVars
  <2>2. QED BY <2>1
<1>2. CASE Len(heap) < QueueCap
  <2>1. PICK h \in Seq(Entry) : h = heap BY DEF QueueGood
  <2>2. PICK a \in Nat : a = reqAge[r] /\ a \in Ages BY DEF Ages, AdmissionAssumption
  <2>3. PICK e \in Entry : e = NewEntry(r, a)
    <3>1. NewEntry(r, a) \in Entry BY <2>2 DEF NewEntry, Entry, AdmissionAssumption
    <3>2. QED BY <3>1
  <2>4. e.age = a BY <2>3 DEF NewEntry
  <2>5. PICK g : g = HeapPush(h, e, a) OBVIOUS
  <2>6. heap' = g /\ reading' = a BY <1>2, <2>1, <2>2, <2>3, <2>5 DEF Enqueue
  <2>7. Current(h, a) BY <2>1, <2>6 DEF Current, Held
  <2>8. a <= e.age BY <2>4
  <2>9. HeapOrdered(h) BY <2>1
  <2>10. HeapOrdered(g) BY <2>5, <2>7, <2>8, <2>9, PushFacts
  <2>11. QED BY <2>6, <2>10
<1>3. QED BY <1>1, <1>2

\* Pushes, pops and ejections keep the heap's order unless the clock reading they compare at is
\* older than an arrival.
THEOREM QueueStaysOrdered == AdmissionSpec => QueueKeepsOrder
<1> USE AdmissionAssumption
<1>1. QueueIInv /\ [AdmissionNext]_admissionVars
        => [HeapOrdered(heap) /\ ReadingIsCurrent => HeapOrdered(heap')]_admissionVars
  <2> SUFFICES ASSUME QueueIInv, AdmissionNext, HeapOrdered(heap), ReadingIsCurrent
               PROVE  HeapOrdered(heap')
    OBVIOUS
  <2>0. /\ QueueGood(heap) /\ reading \in Ages /\ drain.now \in Ages /\ reqAge \in [Requests -> Ages]
    BY DEF QueueIInv, QueueGood, AdmissionTypeOK
  <2>a. \A k \in DOMAIN heap : reading' <= heap[k].age BY DEF ReadingIsCurrent
  <2>1. CASE heap' = heap BY <2>1
  <2>2. CASE Tick
    <3>1. \A k \in DOMAIN heap : heap[k].age < MaxAge BY <2>2 DEF ReadingIsCurrent
    <3>2. QED BY <2>0, <2>2, <3>1, TickOrder
  <2>3. ASSUME NEW r \in Requests, Enqueue(r) PROVE HeapOrdered(heap')
    BY <2>0, <2>3, <2>a, EnqueueOrder
  <2>4. CASE DrainPop \/ (\E n \in 1..QueueCap : AdminDrain(n)) \/ (\E r \in Requests : AdminEject(r))
    <3>1. heap' \in Rest(heap, reading') /\ reading' \in Nat BY <2>0, <2>4, TakeQueue
    <3>2. Current(heap, reading') BY <2>a DEF Current, Held
    <3>3. QED BY <3>1, <3>2 DEF Rest
  <2>5. QED
    <3>1. (\E s \in Seeders : Heartbeat(s)) \/ Aggregate => heap' = heap
      BY DEF Heartbeat, Aggregate, queueVars
    <3>2. ASSUME NEW r \in Requests,
                 \/ Arrive(r) \/ Decide(r) \/ SubmitNow(r) \/ RegisterQueued(r) \/ Delivered(r)
                 \/ GiveUp(r) \/ Forward(r)
          PROVE  heap' = heap
      BY <3>2
      DEF Arrive, Decide, SubmitNow, RegisterQueued, Delivered, GiveUp, Forward,
          queueVars
    <3>3. DrainStart \/ DrainTake \/ DrainSubmit \/ DrainDeliver => heap' = heap
      BY DEF DrainStart, DrainTake, DrainSubmit, DrainDeliver, queueVars
    <3>4. QED BY <2>1, <2>2, <2>3, <2>4, <3>1, <3>2, <3>3 DEF AdmissionNext, Handler, Drain
<1>2. AdmissionSpec => []QueueIInv BY QueueInvariance
<1>3. QED BY <1>1, <1>2, PTL DEF AdmissionSpec, QueueKeepsOrder
=============================================================================
