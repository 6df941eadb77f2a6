--------------------------- MODULE TransferProofs ---------------------------
(***************************************************************************)
(* Safety of the cross-region transfer for any number of transfers, signed *)
(* requests, StartTransfer calls and recv loops, any cache size, and any   *)
(* crashes, losses and failed appends; and that it implements the atomic   *)
(* transfer.                                                               *)
(***************************************************************************)
EXTENDS Transfer, TLAPS

\* Every proof, wherever it is, states the debit the source has booked.
States(p) == debit[p.nonce] = p.amount
\* The proof as it is now will still state the debit after the step.
Later(p) == debit'[p.nonce] = p.amount
FramesAreTrue == \A p \in proofs \cup issued : States(p)
PendingIsTrue ==
    \A n \in Nonces : pending[n].proof # NoProof =>
        pending[n].proof.nonce = n /\ States(pending[n].proof)
CallsAreTrue ==
    \A c \in Calls : call[c].pc = "credit" =>
        call[c].proof # NoProof /\ call[c].proof.nonce = Nonce(c) /\ States(call[c].proof)
HandlersAreTrue ==
    \A l \in Loops : handler[l].pc = "issue" => States(ProofOf(handler[l].req))
ProofsAreTrue == FramesAreTrue /\ PendingIsTrue /\ CallsAreTrue /\ HandlersAreTrue

\* A call that is done, or about to be, and the completed cache, name a booked credit.
DoneIsCredited ==
    /\ \A c \in Calls : call[c].pc \in {"record", "ok"} => credit[Nonce(c)] # 0
    /\ \A n \in completed : credit[n] # 0

IInv ==
    /\ TypeOK
    /\ PendingIsOwned
    /\ ProofsAreTrue
    /\ CreditMatchesDebit
    /\ DoneIsCredited

\* The inductive invariant holds when both trackers start.
LEMMA InitIInv == Init => IInv
<1> SUFFICES ASSUME Init PROVE IInv OBVIOUS
<1>1. TypeOK
  BY TransferAssumption DEF Init, TypeOK, BooksType, NetType, SourceType, DestType, Empty, Channels
<1>2. PendingIsOwned
  BY TransferAssumption DEF Init, PendingIsOwned, Empty, Channels, NewCall
<1>3. ProofsAreTrue
  BY DEF Init, ProofsAreTrue, FramesAreTrue, PendingIsTrue, CallsAreTrue, HandlersAreTrue,
     Empty, Channels, NewCall, Idle
<1>4. CreditMatchesDebit /\ DoneIsCredited
  BY DEF Init, CreditMatchesDebit, DoneIsCredited, NewCall
<1>5. QED BY <1>1, <1>2, <1>3, <1>4 DEF IInv

-----------------------------------------------------------------------------
(* The helpers.                                                            *)

\* A bounded cache gains the new entry and nothing else.
LEMMA CacheWithin ==
    ASSUME NEW old, NEW new, NEW x, Cache(old, new, x)
    PROVE  x \in new /\ new \subseteq old \cup {x}
BY DEF Cache

\* Amounts are positive numbers, and no proof is the missing one.
LEMMA ProofFacts ==
    /\ \A r \in Signed : NonceOf[r] \in Nonces /\ AmountOf[r] \in Nat \ {0} /\ ProofOf(r) \in Proof
    /\ \A p \in Proof : p.nonce \in Nonces /\ p.amount \in Nat \ {0} /\ p # NoProof
BY TransferAssumption DEF Proof, Amounts, ProofOf, NoProof

\* A call past its start has a request.
LEMMA CallFacts ==
    ASSUME DestType, NEW c \in Calls, call[c].pc # "new"
    PROVE  /\ call[c].req \in Signed /\ call[c].pc \in CallPc /\ call[c].proof \in Proof \cup {NoProof}
           /\ Nonce(c) \in Nonces
           /\ call[c] \in [pc : CallPc, req : Signed, proof : Proof \cup {NoProof}]
BY TransferAssumption DEF DestType, NewCall, Nonce

\* A running recv loop has a request.
LEMMA HandlerFacts ==
    ASSUME SourceType, NEW l \in Loops, handler[l].pc # "idle"
    PROVE  /\ handler[l].req \in Signed /\ NonceOf[handler[l].req] \in Nonces
           /\ AmountOf[handler[l].req] \in Nat \ {0}
           /\ handler[l] \in [pc : {"append", "issue"}, req : Signed]
BY TransferAssumption DEF SourceType, Idle

\* Goto moves one call and keeps its request and proof.
LEMMA GotoFacts ==
    ASSUME DestType, NEW c \in Calls, call[c].pc # "new", NEW pc \in CallPc, Goto(c, pc)
    PROVE  /\ call' \in [Calls -> {NewCall} \cup [pc : CallPc, req : Signed, proof : Proof \cup {NoProof}]]
           /\ call'[c].pc = pc /\ call'[c].req = call[c].req /\ call'[c].proof = call[c].proof
           /\ \A d \in Calls \ {c} : call'[d] = call[d]
BY CallFacts DEF DestType, Goto

\* Leave also empties the pending entry of the call's nonce.
LEMMA LeaveFacts ==
    ASSUME DestType, NEW c \in Calls, call[c].pc # "new", NEW pc \in CallPc, Leave(c, pc)
    PROVE  /\ Goto(c, pc)
           /\ pending' \in [Nonces -> [by : Calls \cup {NoCall}, proof : Proof \cup {NoProof},
                                       reject : BOOLEAN]]
           /\ pending'[Nonce(c)] = Empty
           /\ \A n \in Nonces \ {Nonce(c)} : pending'[n] = pending[n]
BY CallFacts DEF DestType, Leave, Empty, Channels

\* A channel of a pending entry is filled or drained.
LEMMA PendingFacts ==
    ASSUME DestType, NEW n \in Nonces
    PROVE  LET T == [Nonces -> [by : Calls \cup {NoCall}, proof : Proof \cup {NoProof},
                                reject : BOOLEAN]]
           IN  /\ \A p \in Proof \cup {NoProof} : [pending EXCEPT ![n].proof = p] \in T
               /\ [pending EXCEPT ![n].reject = TRUE] \in T
<1> USE DEF DestType
<1>1. ASSUME NEW p \in Proof \cup {NoProof}
      PROVE  [pending[n] EXCEPT !.proof = p] \in [by : Calls \cup {NoCall},
                                                  proof : Proof \cup {NoProof}, reject : BOOLEAN]
  OBVIOUS
<1>2. [pending[n] EXCEPT !.reject = TRUE] \in [by : Calls \cup {NoCall},
                                               proof : Proof \cup {NoProof}, reject : BOOLEAN]
  OBVIOUS
<1>3. QED BY <1>1, <1>2

-----------------------------------------------------------------------------
(* Types.                                                                  *)

\* Every step keeps the types, action by action.
LEMMA NextType == TypeOK /\ [Next]_vars => TypeOK'
<1> SUFFICES ASSUME TypeOK, [Next]_vars PROVE TypeOK' OBVIOUS
<1> USE TransferAssumption, ProofFacts
<1> USE DEF TypeOK, books, net, sourceVars, destVars
<1>1. ASSUME NEW c \in Calls, NEW r \in Signed, Start(c, r) PROVE TypeOK'
  <2>1. DestType'
    BY <1>1 DEF Start, DestType, CallPc
  <2>2. QED BY <1>1, <2>1 DEF Start, BooksType, NetType, SourceType
<1>2. ASSUME NEW c \in Calls, Open(c) PROVE TypeOK'
  <2>1. /\ Nonce(c) \in Nonces
        /\ call' \in [Calls -> {NewCall} \cup [pc : CallPc, req : Signed, proof : Proof \cup {NoProof}]]
    BY <1>2, CallFacts, GotoFacts DEF Open, CallPc
  <2>2. \/ pending' = pending
        \/ pending' = [pending EXCEPT ![Nonce(c)] = Channels(c)]
    BY <1>2 DEF Open
  <2>3. pending' \in [Nonces -> [by : Calls \cup {NoCall}, proof : Proof \cup {NoProof},
                                 reject : BOOLEAN]]
    <3>1. Channels(c) \in [by : Calls \cup {NoCall}, proof : Proof \cup {NoProof},
                           reject : BOOLEAN]
      BY DEF Channels
    <3>2. QED BY <2>1, <2>2, <3>1 DEF DestType
  <2>4. DestType'
    BY <1>2, <2>1, <2>3 DEF Open, DestType
  <2>5. NetType'
    BY <1>2, CallFacts DEF Open, NetType
  <2>6. QED BY <1>2, <2>4, <2>5 DEF Open, BooksType, SourceType
<1>3. ASSUME NEW c \in Calls, TakeProof(c) PROVE TypeOK'
  <2>1. call' \in [Calls -> {NewCall} \cup [pc : CallPc, req : Signed, proof : Proof \cup {NoProof}]]
    BY <1>3, CallFacts, ZenonT(60) DEF TakeProof, DestType, CallPc
  <2>2. DestType'
    BY <1>3, <2>1, CallFacts, PendingFacts DEF TakeProof, DestType
  <2>3. QED BY <1>3, <2>2 DEF TakeProof, BooksType, NetType, SourceType
<1>4. ASSUME NEW c \in Calls, TakeReject(c) PROVE TypeOK'
  <2>1. DestType'
    BY <1>4, LeaveFacts, GotoFacts DEF TakeReject, DestType, CallPc
  <2>2. QED BY <1>4, <2>1 DEF TakeReject, BooksType, NetType, SourceType
<1>5. ASSUME NEW c \in Calls, Timeout(c) PROVE TypeOK'
  <2>1. DestType'
    BY <1>5, LeaveFacts, GotoFacts DEF Timeout, DestType, CallPc
  <2>2. QED BY <1>5, <2>1 DEF Timeout, BooksType, NetType, SourceType
<1>6. ASSUME NEW c \in Calls, AppendIn(c) PROVE TypeOK'
  <2>1. DestType'
    BY <1>6, GotoFacts DEF AppendIn, DestType, CallPc
  <2>2. BooksType'
    BY <1>6, CallFacts DEF AppendIn, BooksType, NoProof
  <2>3. QED BY <1>6, <2>1, <2>2 DEF AppendIn, NetType, SourceType
<1>7. ASSUME NEW c \in Calls, AppendInFailed(c) PROVE TypeOK'
  <2>1. DestType'
    BY <1>7, LeaveFacts, GotoFacts DEF AppendInFailed, DestType, CallPc
  <2>2. QED BY <1>7, <2>1 DEF AppendInFailed, BooksType, NetType, SourceType
<1>8. ASSUME NEW c \in Calls, Record(c) PROVE TypeOK'
  <2>1. completed' \subseteq Nonces
    BY <1>8, CallFacts, CacheWithin DEF Record, DestType
  <2>2. DestType'
    BY <1>8, <2>1, LeaveFacts, GotoFacts DEF Record, DestType, CallPc
  <2>3. QED BY <1>8, <2>2 DEF Record, BooksType, NetType, SourceType
<1>9. ASSUME NEW l \in Loops, NEW r \in Signed, OnRequest(l, r) PROVE TypeOK'
  BY <1>9 DEF OnRequest, BooksType, NetType, SourceType, DestType
<1>10. ASSUME NEW l \in Loops, AppendOut(l) PROVE TypeOK'
  <2>1. BooksType'
    BY <1>10, HandlerFacts DEF AppendOut, BooksType
  <2>2. SourceType'
    BY <1>10, HandlerFacts DEF AppendOut, SourceType, Park
  <2>3. QED BY <1>10, <2>1, <2>2 DEF AppendOut, NetType, DestType
<1>11. ASSUME NEW l \in Loops, AppendOutRefused(l) PROVE TypeOK'
  BY <1>11, HandlerFacts DEF AppendOutRefused, BooksType, NetType, SourceType, DestType
<1>12. ASSUME NEW l \in Loops, Issue(l) PROVE TypeOK'
  <2>1. issued' \subseteq Proof
    BY <1>12, HandlerFacts, CacheWithin DEF Issue, SourceType
  <2>2. QED BY <1>12, <2>1, HandlerFacts DEF Issue, BooksType, NetType, SourceType, DestType
<1>13. ASSUME NEW p \in Proof, OnProof(p) PROVE TypeOK'
  <2>1. DestType'
    BY <1>13, PendingFacts DEF OnProof, DestType
  <2>2. QED BY <1>13, <2>1 DEF OnProof, BooksType, NetType, SourceType
<1>14. ASSUME NEW n \in Nonces, OnReject(n) PROVE TypeOK'
  <2>1. DestType'
    BY <1>14, PendingFacts DEF OnReject, DestType
  <2>2. QED BY <1>14, <2>1 DEF OnReject, BooksType, NetType, SourceType
<1>15. ASSUME NEW p \in Proof, DropReplayedProof(p) PROVE TypeOK'
  BY <1>15 DEF DropReplayedProof, BooksType, NetType, SourceType, DestType
<1>16. ASSUME NEW r \in Signed, DropReplayedRequest(r) PROVE TypeOK'
  BY <1>16 DEF DropReplayedRequest, BooksType, NetType, SourceType, DestType
<1>17. CASE Forget
  BY <1>17 DEF Forget, BooksType, NetType, SourceType, DestType
<1>18. CASE Lose
  BY <1>18 DEF Lose, BooksType, NetType, SourceType, DestType
<1>19. CASE CrashSource
  BY <1>19 DEF CrashSource, BooksType, NetType, SourceType, DestType
<1>20. CASE CrashDest
  <2>1. DestType'
    BY <1>20, CallFacts DEF CrashDest, DestType, CallPc, Empty, Channels
  <2>2. QED BY <1>20, <2>1 DEF CrashDest, BooksType, NetType, SourceType
<1>21. CASE UNCHANGED vars
  BY <1>21 DEF vars, BooksType, NetType, SourceType, DestType
<1>22. QED
  BY <1>1, <1>2, <1>3, <1>4, <1>5, <1>6, <1>7, <1>8, <1>9, <1>10, <1>11, <1>12, <1>13,
     <1>14, <1>15, <1>16, <1>17, <1>18, <1>19, <1>20, <1>21 DEF Next, CallStep

-----------------------------------------------------------------------------
(* Pending entries.                                                        *)

\* Nothing moves that a pending entry depends on.
LEMMA OwnedFrame ==
    ASSUME PendingIsOwned, DestType, call' = call,
           \A n \in Nonces : pending'[n].by = pending[n].by
    PROVE  PendingIsOwned'
BY DEF PendingIsOwned, Nonce

\* A call that leaves empties its own entry, and another call owns another nonce.
LEMMA OwnedLeave ==
    ASSUME PendingIsOwned, DestType, NEW c \in Calls,
           call[c].pc \in {"wait", "credit", "record"},
           NEW pc \in {"ok", "rejected", "failed"}, Leave(c, pc)
    PROVE  PendingIsOwned'
<1>1. /\ call'[c].pc = pc /\ \A d \in Calls \ {c} : call'[d] = call[d]
      /\ pending'[Nonce(c)] = Empty /\ Nonce(c) \in Nonces
      /\ \A n \in Nonces \ {Nonce(c)} : pending'[n] = pending[n]
  BY LeaveFacts, GotoFacts, CallFacts DEF CallPc
<1>2. pending[Nonce(c)].by = c
  BY <1>1 DEF PendingIsOwned
<1>3. QED
  BY <1>1, <1>2, TransferAssumption DEF PendingIsOwned, Nonce, Empty, Channels

\* A call that goes on keeps its entry.
LEMMA OwnedGoto ==
    ASSUME PendingIsOwned, DestType, NEW c \in Calls, NEW pc \in CallPc, call[c].pc # "new",
           call[c].pc \in {"wait", "credit", "record"} <=> pc \in {"wait", "credit", "record"},
           call'[c].pc = pc, call'[c].req = call[c].req,
           \A d \in Calls \ {c} : call'[d] = call[d],
           \A n \in Nonces : pending'[n].by = pending[n].by
    PROVE  PendingIsOwned'
BY DEF PendingIsOwned, Nonce

\* Every step keeps each pending entry with its call.
LEMMA NextOwned == TypeOK /\ PendingIsOwned /\ [Next]_vars => PendingIsOwned'
<1> SUFFICES ASSUME TypeOK, PendingIsOwned, [Next]_vars PROVE PendingIsOwned' OBVIOUS
<1> USE DEF TypeOK, destVars
<1>1. ASSUME NEW c \in Calls, NEW r \in Signed, Start(c, r) PROVE PendingIsOwned'
  <2>1. /\ call'[c].pc \in {"ok", "open"} /\ pending' = pending
        /\ \A d \in Calls \ {c} : call'[d] = call[d]
    BY <1>1 DEF Start, DestType
  <2>2. QED BY <1>1, <2>1 DEF Start, PendingIsOwned, Nonce
<1>2. ASSUME NEW c \in Calls, Open(c) PROVE PendingIsOwned'
  <2>1. /\ Nonce(c) \in Nonces /\ call'[c].req = call[c].req
        /\ \A d \in Calls \ {c} : call'[d] = call[d]
    BY <1>2, CallFacts, GotoFacts DEF Open, CallPc
  <2>2. CASE pending' = pending /\ Goto(c, "failed")
    BY <1>2, <2>1, <2>2, GotoFacts, OwnedGoto DEF Open, CallPc
  <2>3. CASE /\ pending[Nonce(c)].by = NoCall /\ Goto(c, "wait")
             /\ pending' = [pending EXCEPT ![Nonce(c)] = Channels(c)]
    <3>1. /\ call'[c].pc = "wait" /\ pending'[Nonce(c)].by = c
          /\ \A n \in Nonces \ {Nonce(c)} : pending'[n] = pending[n]
      BY <1>2, <2>1, <2>3, GotoFacts DEF Open, CallPc, DestType, Channels
    <3>2. QED BY <1>2, <2>1, <2>3, <3>1, TransferAssumption DEF Open, PendingIsOwned, Nonce
  <2>4. QED BY <1>2, <2>2, <2>3 DEF Open
<1>3. ASSUME NEW c \in Calls, TakeProof(c) PROVE PendingIsOwned'
  <2>1. /\ call'[c].pc = "credit" /\ call'[c].req = call[c].req
        /\ \A d \in Calls \ {c} : call'[d] = call[d]
        /\ \A n \in Nonces : pending'[n].by = pending[n].by
    BY <1>3, CallFacts DEF TakeProof, DestType
  <2>2. QED BY <1>3, <2>1, OwnedGoto DEF TakeProof, CallPc
<1>4. ASSUME NEW c \in Calls, TakeReject(c) \/ Timeout(c) \/ AppendInFailed(c) \/ Record(c)
      PROVE  PendingIsOwned'
  BY <1>4, OwnedLeave DEF TakeReject, Timeout, AppendInFailed, Record
<1>5. ASSUME NEW c \in Calls, AppendIn(c) PROVE PendingIsOwned'
  BY <1>5, GotoFacts, OwnedGoto DEF AppendIn, CallPc
<1>6. ASSUME NEW p \in Proof, OnProof(p) PROVE PendingIsOwned'
  <2>1. \A n \in Nonces : pending'[n].by = pending[n].by
    BY <1>6, ProofFacts DEF OnProof, DestType
  <2>2. QED BY <1>6, <2>1, OwnedFrame DEF OnProof
<1>7. ASSUME NEW n \in Nonces, OnReject(n) PROVE PendingIsOwned'
  <2>1. \A m \in Nonces : pending'[m].by = pending[m].by
    BY <1>7 DEF OnReject, DestType
  <2>2. QED BY <1>7, <2>1, OwnedFrame DEF OnReject
<1>8. CASE CrashDest
  <2>1. \A n \in Nonces : pending'[n].by = NoCall
    BY <1>8 DEF CrashDest, Empty, Channels
  <2>2. \A c \in Calls : call'[c].pc \notin {"wait", "credit", "record"}
    BY <1>8, CallFacts DEF CrashDest, DestType
  <2>3. QED BY <2>1, <2>2, TransferAssumption DEF PendingIsOwned
<1>9. ASSUME UNCHANGED <<call, pending>> PROVE PendingIsOwned'
  BY <1>9, OwnedFrame
<1>10. CASE \/ \E l \in Loops : AppendOut(l) \/ AppendOutRefused(l) \/ Issue(l)
            \/ \E l \in Loops, r \in Signed : OnRequest(l, r)
            \/ \E p \in Proof : DropReplayedProof(p)
            \/ \E r \in Signed : DropReplayedRequest(r)
            \/ Forget \/ Lose \/ CrashSource \/ UNCHANGED vars
  BY <1>9, <1>10 DEF AppendOut, AppendOutRefused, Issue, OnRequest, DropReplayedProof,
     DropReplayedRequest, Forget, Lose, CrashSource, vars
<1>11. QED
  BY <1>1, <1>2, <1>3, <1>4, <1>5, <1>6, <1>7, <1>8, <1>10 DEF Next, CallStep

-----------------------------------------------------------------------------
(* Proofs state debits.                                                    *)

\* A true proof stays true: the single-use check never lets a debit change.
LEMMA DebitIsFinal ==
    ASSUME TypeOK, [Next]_vars, NEW p \in Proof, States(p)
    PROVE  Later(p)
<1>1. debit[p.nonce] # 0
  BY ProofFacts DEF States, Later
<1>2. ASSUME NEW l \in Loops, AppendOut(l) PROVE debit'[p.nonce] = debit[p.nonce]
  BY <1>1, <1>2, HandlerFacts, ProofFacts DEF AppendOut, TypeOK, BooksType
<1>3. debit'[p.nonce] = debit[p.nonce]
  BY <1>2 DEF Next, CallStep, Start, Open, TakeProof, TakeReject, Timeout, AppendIn, AppendInFailed,
     Record, OnRequest, AppendOutRefused, Issue, OnProof, OnReject, DropReplayedProof,
     DropReplayedRequest, Forget, Lose, CrashSource, CrashDest, vars, books
<1>4. QED BY <1>3 DEF States, Later

\* A request frame, a cached proof and a fresh proof are all that feeds the network.
LEMMA NextFrames == TypeOK /\ ProofsAreTrue /\ [Next]_vars => FramesAreTrue'
<1> SUFFICES ASSUME TypeOK, ProofsAreTrue, [Next]_vars PROVE FramesAreTrue' OBVIOUS
<1> USE DEF TypeOK, NetType, SourceType, net, sourceVars
<1>1. \A p \in proofs \cup issued : Later(p)
  BY DebitIsFinal DEF ProofsAreTrue, FramesAreTrue
<1>2. ASSUME NEW l \in Loops, Issue(l) PROVE FramesAreTrue'
  <2>1. ProofOf(handler[l].req) \in Proof /\ Later(ProofOf(handler[l].req))
    BY <1>2, HandlerFacts, ProofFacts, DebitIsFinal DEF Issue, ProofsAreTrue, HandlersAreTrue
  <2>2. issued' \subseteq issued \cup {ProofOf(handler[l].req)}
    BY <1>2, CacheWithin DEF Issue
  <2>3. QED BY <1>1, <1>2, <2>1, <2>2 DEF Issue, FramesAreTrue, States, Later
<1>3. ASSUME NEW l \in Loops, NEW r \in Signed, OnRequest(l, r) PROVE FramesAreTrue'
  BY <1>1, <1>3 DEF OnRequest, FramesAreTrue, States, Later
<1>4. ASSUME proofs' \subseteq proofs, issued' \subseteq issued PROVE FramesAreTrue'
  BY <1>1, <1>4 DEF FramesAreTrue, States, Later
<1>5. CASE \/ \E c \in Calls : CallStep(c) \/ \E r \in Signed : Start(c, r)
           \/ \E l \in Loops : AppendOut(l) \/ AppendOutRefused(l)
  BY <1>4, <1>5 DEF CallStep, Start, Open, TakeProof, TakeReject, Timeout, AppendIn,
     AppendInFailed, Record, AppendOut, AppendOutRefused
<1>6. CASE \/ \E p \in Proof : OnProof(p) \/ DropReplayedProof(p)
           \/ \E n \in Nonces : OnReject(n)
           \/ \E r \in Signed : DropReplayedRequest(r)
           \/ Forget \/ Lose \/ CrashSource \/ CrashDest \/ UNCHANGED vars
  BY <1>4, <1>6 DEF OnProof, OnReject, DropReplayedProof, DropReplayedRequest, Forget, Lose,
     CrashSource, CrashDest, vars
<1>7. QED BY <1>2, <1>3, <1>5, <1>6 DEF Next

\* Only OnProof puts a proof into a channel, the channel of the proof's own nonce.
LEMMA NextPending == TypeOK /\ ProofsAreTrue /\ [Next]_vars => PendingIsTrue'
<1> SUFFICES ASSUME TypeOK, ProofsAreTrue, [Next]_vars PROVE PendingIsTrue' OBVIOUS
<1> USE DEF TypeOK, destVars
<1>1. \A n \in Nonces : pending[n].proof # NoProof =>
          pending[n].proof.nonce = n /\ Later(pending[n].proof)
  BY DebitIsFinal DEF ProofsAreTrue, PendingIsTrue, DestType
<1>2. ASSUME NEW p \in Proof, OnProof(p) PROVE PendingIsTrue'
  <2>1. Later(p)
    BY <1>2, DebitIsFinal DEF OnProof, ProofsAreTrue, FramesAreTrue
  <2>2. \A n \in Nonces : pending'[n].proof = pending[n].proof \/ (n = p.nonce /\ pending'[n].proof = p)
    BY <1>2, ProofFacts DEF OnProof, DestType
  <2>3. QED BY <1>1, <2>1, <2>2 DEF PendingIsTrue, States, Later
<1>3. ASSUME \A n \in Nonces : pending'[n].proof \in {pending[n].proof, NoProof} PROVE PendingIsTrue'
  BY <1>1, <1>3 DEF PendingIsTrue, States, Later
<1>4. ASSUME NEW c \in Calls, CallStep(c) PROVE PendingIsTrue'
  <2>1. CASE TakeReject(c) \/ Timeout(c) \/ AppendInFailed(c) \/ Record(c)
    BY <1>3, <2>1, LeaveFacts DEF TakeReject, Timeout, AppendInFailed, Record, CallPc, Empty, Channels
  <2>2. CASE Open(c) \/ TakeProof(c) \/ AppendIn(c)
    BY <1>3, <2>2, CallFacts DEF Open, TakeProof, AppendIn, DestType, Channels
  <2>3. QED BY <1>4, <2>1, <2>2 DEF CallStep
<1>5. ASSUME NEW n \in Nonces, OnReject(n) PROVE PendingIsTrue'
  <2>1. \A m \in Nonces : pending'[m].proof = pending[m].proof
    BY <1>5 DEF OnReject, DestType
  <2>2. QED BY <1>3, <2>1
<1>6. CASE CrashDest
  BY <1>3, <1>6 DEF CrashDest, Empty, Channels
<1>7. CASE \/ \E c \in Calls, r \in Signed : Start(c, r)
           \/ \E l \in Loops : AppendOut(l) \/ AppendOutRefused(l) \/ Issue(l)
           \/ \E l \in Loops, r \in Signed : OnRequest(l, r)
           \/ \E p \in Proof : DropReplayedProof(p)
           \/ \E r \in Signed : DropReplayedRequest(r)
           \/ Forget \/ Lose \/ CrashSource \/ UNCHANGED vars
  BY <1>3, <1>7 DEF Start, AppendOut, AppendOutRefused, Issue, OnRequest, DropReplayedProof,
     DropReplayedRequest, Forget, Lose, CrashSource, vars
<1>8. QED BY <1>2, <1>4, <1>5, <1>6, <1>7 DEF Next

\* A call takes its proof from the channel of its own nonce.
LEMMA NextCalls == TypeOK /\ ProofsAreTrue /\ [Next]_vars => CallsAreTrue'
<1> SUFFICES ASSUME TypeOK, ProofsAreTrue, [Next]_vars PROVE CallsAreTrue' OBVIOUS
<1> USE DEF TypeOK, destVars
<1>1. \A c \in Calls : call[c].pc = "credit" =>
          call[c].proof # NoProof /\ call[c].proof.nonce = Nonce(c) /\ Later(call[c].proof)
  BY DebitIsFinal, CallFacts DEF ProofsAreTrue, CallsAreTrue
<1>2. ASSUME NEW c \in Calls, TakeProof(c) PROVE CallsAreTrue'
  <2>1. Nonce(c) \in Nonces /\ pending[Nonce(c)].proof \in Proof
    BY <1>2, CallFacts DEF TakeProof, DestType
  <2>2. /\ pending[Nonce(c)].proof # NoProof /\ pending[Nonce(c)].proof.nonce = Nonce(c)
        /\ Later(pending[Nonce(c)].proof)
    BY <1>2, <2>1, DebitIsFinal DEF TakeProof, ProofsAreTrue, PendingIsTrue
  <2>3. /\ call'[c].req = call[c].req /\ call'[c].proof = pending[Nonce(c)].proof
        /\ \A d \in Calls \ {c} : call'[d] = call[d]
    BY <1>2, CallFacts DEF TakeProof, DestType
  <2>4. QED BY <1>1, <2>2, <2>3 DEF CallsAreTrue, Nonce, States, Later
<1>3. ASSUME \A c \in Calls : call'[c] = call[c] \/ call'[c].pc # "credit" PROVE CallsAreTrue'
  BY <1>1, <1>3 DEF CallsAreTrue, Nonce, States, Later
<1>4. ASSUME NEW c \in Calls, CallStep(c), ~TakeProof(c) PROVE CallsAreTrue'
  <2>1. CASE TakeReject(c) \/ Timeout(c) \/ AppendInFailed(c) \/ Record(c)
    BY <1>3, <2>1, LeaveFacts, GotoFacts DEF TakeReject, Timeout, AppendInFailed, Record, CallPc
  <2>2. CASE Open(c) \/ AppendIn(c)
    BY <1>3, <2>2, GotoFacts DEF Open, AppendIn, CallPc
  <2>3. QED BY <1>4, <2>1, <2>2 DEF CallStep
<1>5. ASSUME NEW c \in Calls, NEW r \in Signed, Start(c, r) PROVE CallsAreTrue'
  BY <1>3, <1>5 DEF Start, DestType
<1>6. CASE CrashDest
  BY <1>3, <1>6, CallFacts DEF CrashDest, DestType
<1>7. CASE \/ \E l \in Loops : AppendOut(l) \/ AppendOutRefused(l) \/ Issue(l)
           \/ \E l \in Loops, r \in Signed : OnRequest(l, r)
           \/ \E p \in Proof : OnProof(p) \/ DropReplayedProof(p)
           \/ \E n \in Nonces : OnReject(n)
           \/ \E r \in Signed : DropReplayedRequest(r)
           \/ Forget \/ Lose \/ CrashSource \/ UNCHANGED vars
  BY <1>3, <1>7 DEF AppendOut, AppendOutRefused, Issue, OnRequest, OnProof, OnReject,
     DropReplayedProof, DropReplayedRequest, Forget, Lose, CrashSource, vars
<1>8. QED BY <1>2, <1>4, <1>5, <1>6, <1>7 DEF Next

\* A recv loop signs a proof only for the debit it has just booked.
LEMMA NextHandlers == TypeOK /\ ProofsAreTrue /\ [Next]_vars => HandlersAreTrue'
<1> SUFFICES ASSUME TypeOK, ProofsAreTrue, [Next]_vars PROVE HandlersAreTrue' OBVIOUS
<1> USE DEF TypeOK, SourceType, sourceVars
<1>1. \A l \in Loops : handler[l].pc = "issue" => Later(ProofOf(handler[l].req))
  BY DebitIsFinal, HandlerFacts, ProofFacts DEF ProofsAreTrue, HandlersAreTrue
<1>2. ASSUME NEW l \in Loops, AppendOut(l) PROVE HandlersAreTrue'
  <2>1. /\ Later(ProofOf(handler[l].req)) /\ handler'[l].req = handler[l].req
        /\ \A k \in Loops \ {l} : handler'[k] = handler[k]
    BY <1>2, HandlerFacts DEF AppendOut, Park, States, Later, ProofOf, BooksType
  <2>2. QED BY <1>1, <2>1 DEF HandlersAreTrue, States, Later, ProofOf
<1>3. ASSUME \A l \in Loops : handler'[l] = handler[l] \/ handler'[l].pc # "issue" PROVE HandlersAreTrue'
  BY <1>1, <1>3 DEF HandlersAreTrue, States, Later, ProofOf
<1>4. CASE \/ \E l \in Loops : AppendOutRefused(l) \/ Issue(l)
           \/ \E l \in Loops, r \in Signed : OnRequest(l, r)
           \/ CrashSource
  BY <1>3, <1>4 DEF AppendOutRefused, Issue, OnRequest, CrashSource, Idle
<1>5. CASE \/ \E c \in Calls : CallStep(c) \/ \E r \in Signed : Start(c, r)
           \/ \E p \in Proof : OnProof(p) \/ DropReplayedProof(p)
           \/ \E n \in Nonces : OnReject(n)
           \/ \E r \in Signed : DropReplayedRequest(r)
           \/ Forget \/ Lose \/ CrashDest \/ UNCHANGED vars
  BY <1>3, <1>5 DEF CallStep, Start, Open, TakeProof, TakeReject, Timeout, AppendIn, AppendInFailed,
     Record, OnProof, OnReject, DropReplayedProof, DropReplayedRequest, Forget, Lose, CrashDest, vars
<1>6. QED BY <1>2, <1>4, <1>5 DEF Next

-----------------------------------------------------------------------------
(* Credits follow debits.                                                  *)

\* Each step books one debit, one credit of the debit's amount, or nothing.
LEMMA BooksStep ==
    ASSUME IInv, [Next]_vars
    PROVE  \/ \E n \in Nonces, a \in Amounts : Promise!BookDebit(n, a)
           \/ \E n \in Nonces : Promise!BookCredit(n)
           \/ UNCHANGED books
<1> USE DEF IInv, TypeOK
<1>1. ASSUME NEW l \in Loops, AppendOut(l)
      PROVE  \E n \in Nonces, a \in Amounts : Promise!BookDebit(n, a)
  <2>1. NonceOf[handler[l].req] \in Nonces /\ AmountOf[handler[l].req] \in Amounts
    BY <1>1, HandlerFacts DEF AppendOut, Amounts
  <2>2. Promise!BookDebit(NonceOf[handler[l].req], AmountOf[handler[l].req])
    BY <1>1 DEF AppendOut, Promise!BookDebit
  <2>3. QED BY <2>1, <2>2
<1>2. ASSUME NEW c \in Calls, AppendIn(c)
      PROVE  (\E n \in Nonces : Promise!BookCredit(n)) \/ UNCHANGED books
  <2>1. /\ Nonce(c) \in Nonces /\ debit[Nonce(c)] = call[c].proof.amount
        /\ call[c].proof.amount \in Nat \ {0}
    BY <1>2, CallFacts, ProofFacts DEF AppendIn, ProofsAreTrue, CallsAreTrue, States
  <2>2. CASE credit[Nonce(c)] = 0
    <3>1. Promise!BookCredit(Nonce(c))
      BY <1>2, <2>1, <2>2 DEF AppendIn, Promise!BookCredit
    <3>2. QED BY <2>1, <3>1
  <2>3. CASE credit[Nonce(c)] # 0
    BY <1>2, <2>3 DEF AppendIn, books
  <2>4. QED BY <2>2, <2>3
<1>3. CASE \/ \E c \in Calls, r \in Signed : Start(c, r)
           \/ \E c \in Calls : \/ Open(c) \/ TakeProof(c) \/ TakeReject(c) \/ Timeout(c)
                               \/ AppendInFailed(c) \/ Record(c)
           \/ \E l \in Loops : AppendOutRefused(l) \/ Issue(l)
           \/ \E l \in Loops, r \in Signed : OnRequest(l, r)
           \/ \E p \in Proof : OnProof(p) \/ DropReplayedProof(p)
           \/ \E n \in Nonces : OnReject(n)
           \/ \E r \in Signed : DropReplayedRequest(r)
           \/ Forget \/ Lose \/ CrashSource \/ CrashDest \/ UNCHANGED vars
  BY <1>3 DEF Start, Open, TakeProof, TakeReject, Timeout, AppendInFailed, Record, AppendOutRefused,
     Issue, OnRequest, OnProof, OnReject, DropReplayedProof, DropReplayedRequest, Forget, Lose,
     CrashSource, CrashDest, vars, books
<1>4. QED BY <1>1, <1>2, <1>3 DEF Next, CallStep

\* A booked credit keeps matching its debit, and stays booked.
LEMMA NextCredit ==
    ASSUME IInv, [Next]_vars
    PROVE  CreditMatchesDebit' /\ \A n \in Nonces : credit[n] # 0 => credit'[n] # 0
<1> USE DEF IInv, TypeOK, BooksType
<1>1. ASSUME NEW n \in Nonces, NEW a \in Amounts, Promise!BookDebit(n, a)
      PROVE  CreditMatchesDebit' /\ \A m \in Nonces : credit[m] # 0 => credit'[m] # 0
  BY <1>1 DEF Promise!BookDebit, CreditMatchesDebit
<1>2. ASSUME NEW n \in Nonces, Promise!BookCredit(n)
      PROVE  CreditMatchesDebit' /\ \A m \in Nonces : credit[m] # 0 => credit'[m] # 0
  BY <1>2 DEF Promise!BookCredit, CreditMatchesDebit
<1>3. ASSUME UNCHANGED books
      PROVE  CreditMatchesDebit' /\ \A m \in Nonces : credit[m] # 0 => credit'[m] # 0
  BY <1>3 DEF books, CreditMatchesDebit
<1>4. QED BY <1>1, <1>2, <1>3, BooksStep

\* A call reaches "record" by booking or by finding the credit, "ok" from there or from the cache.
LEMMA NextDone == IInv /\ [Next]_vars => DoneIsCredited'
<1> SUFFICES ASSUME IInv, [Next]_vars PROVE DoneIsCredited' OBVIOUS
<1> USE DEF IInv, TypeOK, destVars
<1>1. /\ \A n \in Nonces : credit[n] # 0 => credit'[n] # 0
      /\ \A c \in Calls : call[c].pc \in {"record", "ok"} => credit'[Nonce(c)] # 0
      /\ \A n \in completed : credit'[n] # 0
  BY NextCredit, CallFacts DEF DoneIsCredited, DestType
<1>2. ASSUME \A c \in Calls : \/ call'[c].req = call[c].req /\ call[c].pc \in {"record", "ok"}
                              \/ call'[c].pc \notin {"record", "ok"},
             completed' \subseteq completed
      PROVE  DoneIsCredited'
  BY <1>1, <1>2 DEF DoneIsCredited, Nonce
<1>3. ASSUME NEW c \in Calls, NEW r \in Signed, Start(c, r) PROVE DoneIsCredited'
  <2>1. /\ call'[c].req = r /\ call'[c].pc \in {"ok", "open"}
        /\ call'[c].pc = "ok" => NonceOf[r] \in completed
        /\ \A d \in Calls \ {c} : call'[d] = call[d]
        /\ completed' = completed
    BY <1>3 DEF Start, DestType
  <2>2. QED BY <1>1, <2>1 DEF DoneIsCredited, Nonce
<1>4. ASSUME NEW c \in Calls, AppendIn(c) PROVE DoneIsCredited'
  <2>1. credit'[Nonce(c)] # 0
    BY <1>1, <1>4, CallFacts, ProofFacts DEF AppendIn, BooksType, ProofsAreTrue, CallsAreTrue
  <2>2. /\ call'[c].req = call[c].req /\ \A d \in Calls \ {c} : call'[d] = call[d]
        /\ completed' = completed
    BY <1>4, GotoFacts DEF AppendIn, CallPc
  <2>3. QED BY <1>1, <2>1, <2>2 DEF DoneIsCredited, Nonce
<1>5. ASSUME NEW c \in Calls, Record(c) PROVE DoneIsCredited'
  <2>1. completed' \subseteq completed \cup {Nonce(c)}
    BY <1>5, CacheWithin DEF Record
  <2>2. call'[c].req = call[c].req /\ \A d \in Calls \ {c} : call'[d] = call[d]
    BY <1>5, LeaveFacts, GotoFacts DEF Record, CallPc
  <2>3. credit'[Nonce(c)] # 0
    BY <1>1, <1>5 DEF Record
  <2>4. QED BY <1>1, <2>1, <2>2, <2>3 DEF DoneIsCredited, Nonce
<1>6. ASSUME NEW c \in Calls,
             Open(c) \/ TakeProof(c) \/ TakeReject(c) \/ Timeout(c) \/ AppendInFailed(c)
      PROVE  DoneIsCredited'
  <2>1. CASE TakeProof(c)
    BY <1>2, <2>1, CallFacts DEF TakeProof, DestType
  <2>2. CASE TakeReject(c) \/ Timeout(c) \/ AppendInFailed(c)
    BY <1>2, <2>2, LeaveFacts, GotoFacts DEF TakeReject, Timeout, AppendInFailed, CallPc
  <2>3. CASE Open(c)
    BY <1>2, <2>3, GotoFacts DEF Open, CallPc
  <2>4. QED BY <1>6, <2>1, <2>2, <2>3
<1>7. CASE CrashDest
  BY <1>2, <1>7, CallFacts DEF CrashDest, DestType
<1>8. CASE \/ \E l \in Loops : AppendOut(l) \/ AppendOutRefused(l) \/ Issue(l)
           \/ \E l \in Loops, r \in Signed : OnRequest(l, r)
           \/ \E p \in Proof : OnProof(p) \/ DropReplayedProof(p)
           \/ \E n \in Nonces : OnReject(n)
           \/ \E r \in Signed : DropReplayedRequest(r)
           \/ Forget \/ Lose \/ CrashSource \/ UNCHANGED vars
  BY <1>2, <1>8 DEF AppendOut, AppendOutRefused, Issue, OnRequest, OnProof, OnReject,
     DropReplayedProof, DropReplayedRequest, Forget, Lose, CrashSource, vars
<1>9. QED BY <1>3, <1>4, <1>5, <1>6, <1>7, <1>8 DEF Next, CallStep

-----------------------------------------------------------------------------
(* Results.                                                                *)

\* The inductive invariant holds in every state.
LEMMA Invariance == Spec => []IInv
<1>1. IInv /\ [Next]_vars => IInv'
  BY NextType, NextOwned, NextFrames, NextPending, NextCalls, NextHandlers, NextCredit, NextDone
     DEF IInv, ProofsAreTrue
<1>2. QED BY <1>1, InitIInv, PTL DEF Spec

\* Every variable keeps its type, and no balance of the two regions goes below zero.
THEOREM TransferType == Spec => []TypeOK
<1>1. IInv => TypeOK BY DEF IInv
<1>2. QED BY <1>1, Invariance, PTL

\* The destination credits only what the source has debited under the same nonce, however
\* often proofs are resent, caches evicted or trackers restarted.
THEOREM NoCreditWithoutDebit == Spec => []CreditMatchesDebit
<1>1. IInv => CreditMatchesDebit BY DEF IInv
<1>2. QED BY <1>1, Invariance, PTL

\* A StartTransfer that returns success has been booked at both ends.
THEOREM SuccessMeansBooked == Spec => []SuccessIsBooked
<1>1. IInv => SuccessIsBooked
  BY CallFacts DEF IInv, TypeOK, DoneIsCredited, CreditMatchesDebit, SuccessIsBooked
<1>2. QED BY <1>1, Invariance, PTL

\* No way out of StartTransfer leaves its nonce behind in the pending map.
THEOREM PendingHasCall == Spec => []PendingIsOwned
<1>1. IInv => PendingIsOwned BY DEF IInv
<1>2. QED BY <1>1, Invariance, PTL

\* The protocol with its caches, retries, losses and crashes implements the atomic transfer.
THEOREM TransferImplementsPromise == Spec => ImplementsPromise
<1>1. Init => Promise!Init
  BY DEF Init, Promise!Init
<1>2. IInv /\ [Next]_vars => [Promise!Next]_(Promise!books)
  BY BooksStep DEF Promise!Next, Promise!books, books
<1>3. QED BY <1>1, <1>2, Invariance, PTL DEF Spec, ImplementsPromise, Promise!Spec

\* Both together: the two regions' ledgers agree on every credit and on every success.
THEOREM RegionsAgree == Spec => []BooksAgree
<1>1. CreditMatchesDebit /\ SuccessIsBooked => BooksAgree
  BY DEF BooksAgree
<1>2. QED BY <1>1, NoCreditWithoutDebit, SuccessMeansBooked, PTL
=============================================================================
