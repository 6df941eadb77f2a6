------------------------------ MODULE Transfer ------------------------------
(***************************************************************************)
(* The cross-region credit transfer (tracker/internal/federation):         *)
(* StartTransfer at the destination tracker, OnRequest at the source       *)
(* tracker, the envelope dispatcher with its replay filter in front of     *)
(* both, the caches that answer a retry, and the two ledgers behind them.  *)
(*                                                                         *)
(* The ledgers survive a crash; the issued, pending and completed maps and *)
(* the replay filter do not.  A frame is lost when its connection drops,   *)
(* and frames of two connections overtake each other.  Message ids hash    *)
(* the payload, so a consumer that repeats a signed request repeats its    *)
(* id, and so does a source that resends a cached proof.                   *)
(***************************************************************************)
EXTENDS Integers, FiniteSets, FiniteSetsExt

CONSTANTS
    Signed,      \* requests a consumer signed: one payload each
    Nonces,      \* transfer nonces
    NonceOf,     \* signed request -> its nonce
    AmountOf,    \* signed request -> its amount
    Calls,       \* StartTransfer calls at the destination
    NoCall,
    Loops,       \* recv loops of the source's connections to the destination
    IssuedCap,   \* federation.issued_proof_cap, bounds both caches
    Credits,     \* the identity's balance at the source, at first
    Faults,      \* whether ledger appends and sends may fail
    MaxCrashes   \* bound: crashes of the two trackers

ASSUME TransferAssumption ==
    /\ NonceOf \in [Signed -> Nonces]
    /\ AmountOf \in [Signed -> Nat \ {0}]
    /\ NoCall \notin Calls
    /\ IssuedCap \in Nat \ {0}
    /\ Credits \in Nat
    /\ Faults \in BOOLEAN
    /\ MaxCrashes \in Nat

VARIABLES
    source,       \* source ledger: the identity's balance
    debit,        \* source ledger: nonce -> amount of its TRANSFER_OUT, or 0
    dest,         \* destination ledger: the identity's balance
    credit,       \* destination ledger: nonce -> amount of its TRANSFER_IN, or 0
    requests,     \* TRANSFER_PROOF_REQUEST frames in flight
    proofs,       \* TRANSFER_PROOF frames in flight
    rejects,      \* TRANSFER_REJECT frames in flight
    seenRequest,  \* the source's replay filter
    seenProof,    \* the destination's replay filter
    issued,       \* source: proofs kept for a retry
    completed,    \* destination: nonces whose transfer is finished
    pending,      \* destination: nonce -> its waiting call and its channels
    handler,      \* source: what each recv loop is doing
    call,         \* destination: what each StartTransfer call is doing
    crashes

books == <<source, debit, dest, credit>>
net == <<requests, proofs, rejects>>
sourceVars == <<seenRequest, issued, handler>>
destVars == <<seenProof, completed, pending, call>>
vars == <<books, net, sourceVars, destVars, crashes>>

Amounts == {AmountOf[r] : r \in Signed}
Proof == [nonce : Nonces, amount : Amounts]
NoProof == [nonce |-> NoCall, amount |-> 0]
NoRequest == NoCall
Idle == [pc |-> "idle", req |-> NoRequest]
NewCall == [pc |-> "new", req |-> NoRequest, proof |-> NoProof]
Channels(c) == [by |-> c, proof |-> NoProof, reject |-> FALSE]
Empty == Channels(NoCall)

ProofOf(r) == [nonce |-> NonceOf[r], amount |-> AmountOf[r]]
Nonce(c) == NonceOf[call[c].req]

\* A cache of at most IssuedCap entries takes one more; which entry is the oldest is not tracked.
Cache(old, new, x) ==
    \/ /\ Cardinality(old) < IssuedCap
       /\ new = old \cup {x}
    \/ /\ Cardinality(old) >= IssuedCap
       /\ \E oldest \in old : new = (old \ {oldest}) \cup {x}

-----------------------------------------------------------------------------
(* Destination: StartTransfer.                                             *)

Goto(c, pc) == call' = [call EXCEPT ![c].pc = pc]

\* The deferred delete of the pending entry, and the return.
Leave(c, pc) ==
    /\ Goto(c, pc)
    /\ pending' = [pending EXCEPT ![Nonce(c)] = Empty]

\* A finished nonce is answered from the completed cache.
Start(c, r) ==
    /\ call[c].pc = "new"
    /\ call' = [call EXCEPT ![c] =
                  [pc |-> IF NonceOf[r] \in completed THEN "ok" ELSE "open",
                   req |-> r, proof |-> NoProof]]
    /\ UNCHANGED <<books, net, sourceVars, seenProof, completed, pending, crashes>>

\* The nonce is registered under the lock; a nonce in flight is refused.
Open(c) ==
    /\ call[c].pc = "open"
    /\ \/ /\ pending[Nonce(c)].by # NoCall
          /\ Goto(c, "failed")
          /\ UNCHANGED <<pending, requests>>
       \/ /\ pending[Nonce(c)].by = NoCall
          /\ Goto(c, "wait")
          /\ pending' = [pending EXCEPT ![Nonce(c)] = Channels(c)]
          /\ requests' = requests \cup {call[c].req}
       \/ /\ Faults
          /\ pending[Nonce(c)].by = NoCall
          /\ Goto(c, "failed")
          /\ UNCHANGED <<pending, requests>>
    /\ UNCHANGED <<books, proofs, rejects, sourceVars, seenProof, completed, crashes>>

\* The three arms of the select.
TakeProof(c) ==
    /\ call[c].pc = "wait"
    /\ pending[Nonce(c)].proof # NoProof
    /\ call' = [call EXCEPT ![c].pc = "credit", ![c].proof = pending[Nonce(c)].proof]
    /\ pending' = [pending EXCEPT ![Nonce(c)].proof = NoProof]
    /\ UNCHANGED <<books, net, sourceVars, seenProof, completed, crashes>>

TakeReject(c) ==
    /\ call[c].pc = "wait"
    /\ pending[Nonce(c)].reject
    /\ Leave(c, "rejected")
    /\ UNCHANGED <<books, net, sourceVars, seenProof, completed, crashes>>

\* Mutant: the timed-out call returns without its deferred delete.
Timeout_KeepsPending(c) ==
    /\ call[c].pc = "wait"
    /\ Goto(c, "failed")
    /\ UNCHANGED <<books, net, sourceVars, seenProof, completed, pending, crashes>>

\* Mutant: the deadline is not applied, and only an answer ends the wait.
Timeout_Unbounded(c) ==
    /\ call[c].pc = "wait"
    /\ pending[Nonce(c)].reject
    /\ Leave(c, "failed")
    /\ UNCHANGED <<books, net, sourceVars, seenProof, completed, crashes>>

Timeout(c) ==
    /\ call[c].pc = "wait"
    /\ Leave(c, "failed")
    /\ UNCHANGED <<books, net, sourceVars, seenProof, completed, crashes>>

\* Mutant: the amount of the call is credited, not the amount of the proof.
AppendIn_AskedAmount(c) ==
    /\ call[c].pc = "credit"
    /\ credit[Nonce(c)] = 0
    /\ credit' = [credit EXCEPT ![Nonce(c)] = AmountOf[call[c].req]]
    /\ dest' = dest + AmountOf[call[c].req]
    /\ Goto(c, "record")
    /\ UNCHANGED <<source, debit, net, sourceVars, seenProof, completed, pending, crashes>>

\* AppendTransferIn: what the proof says is credited, and ErrTransferRefExists is a success.
AppendIn(c) ==
    /\ call[c].pc = "credit"
    /\ \/ /\ credit[Nonce(c)] = 0
          /\ credit' = [credit EXCEPT ![Nonce(c)] = call[c].proof.amount]
          /\ dest' = dest + call[c].proof.amount
       \/ /\ credit[Nonce(c)] # 0
          /\ UNCHANGED <<credit, dest>>
    /\ Goto(c, "record")
    /\ UNCHANGED <<source, debit, net, sourceVars, seenProof, completed, pending, crashes>>

\* The source's key is gone from the registry, or the append fails otherwise.
AppendInFailed(c) ==
    /\ Faults
    /\ call[c].pc = "credit"
    /\ Leave(c, "failed")
    /\ UNCHANGED <<books, net, sourceVars, seenProof, completed, crashes>>

\* TRANSFER_APPLIED, which the source only counts, then the completed cache and the return.
Record(c) ==
    /\ call[c].pc = "record"
    /\ Cache(completed, completed', Nonce(c))
    /\ Leave(c, "ok")
    /\ UNCHANGED <<books, net, sourceVars, seenProof, crashes>>

-----------------------------------------------------------------------------
(* Source: the dispatcher and OnRequest.                                   *)

Park(l, pc) == handler' = [handler EXCEPT ![l].pc = pc]

\* The request passes the filter; a cached proof is sent again as it is.
OnRequest(l, r) ==
    /\ handler[l] = Idle
    /\ r \in requests \ seenRequest
    /\ requests' = requests \ {r}
    /\ seenRequest' = seenRequest \cup {r}
    /\ \/ \E p \in issued :
             /\ p.nonce = NonceOf[r]
             /\ proofs' = proofs \cup {p}
             /\ UNCHANGED handler
       \/ /\ \A p \in issued : p.nonce # NonceOf[r]
          /\ handler' = [handler EXCEPT ![l] = [pc |-> "append", req |-> r]]
          /\ UNCHANGED proofs
    /\ UNCHANGED <<books, rejects, issued, destVars, crashes>>

\* Mutant: no single-use check on TRANSFER_OUT.
AppendOut_Repeats(l) ==
    LET r == handler[l].req IN
    /\ handler[l].pc = "append"
    /\ AmountOf[r] <= source
    /\ debit' = [debit EXCEPT ![NonceOf[r]] = AmountOf[r]]
    /\ source' = source - AmountOf[r]
    /\ Park(l, "issue")
    /\ UNCHANGED <<dest, credit, net, seenRequest, issued, destVars, crashes>>

\* AppendTransferOut: single use per nonce, and the identity must have the credits.
AppendOut(l) ==
    LET r == handler[l].req IN
    /\ handler[l].pc = "append"
    /\ debit[NonceOf[r]] = 0
    /\ AmountOf[r] <= source
    /\ debit' = [debit EXCEPT ![NonceOf[r]] = AmountOf[r]]
    /\ source' = source - AmountOf[r]
    /\ Park(l, "issue")
    /\ UNCHANGED <<dest, credit, net, seenRequest, issued, destVars, crashes>>

\* Any error of the append is answered with a signed reject.
AppendOutRefused(l) ==
    LET r == handler[l].req IN
    /\ handler[l].pc = "append"
    /\ Faults \/ debit[NonceOf[r]] # 0 \/ AmountOf[r] > source
    /\ rejects' = rejects \cup {NonceOf[r]}
    /\ handler' = [handler EXCEPT ![l] = Idle]
    /\ UNCHANGED <<books, requests, proofs, seenRequest, issued, destVars, crashes>>

\* The proof is signed, kept for a retry, and sent.
Issue(l) ==
    /\ handler[l].pc = "issue"
    /\ Cache(issued, issued', ProofOf(handler[l].req))
    /\ proofs' = proofs \cup {ProofOf(handler[l].req)}
    /\ handler' = [handler EXCEPT ![l] = Idle]
    /\ UNCHANGED <<books, requests, rejects, seenRequest, destVars, crashes>>

-----------------------------------------------------------------------------
(* Destination: the dispatcher, OnProof and OnReject.                      *)

\* A full channel and an orphan both drop the proof, after the filter has marked it.
OnProof(p) ==
    /\ p \in proofs \ seenProof
    /\ proofs' = proofs \ {p}
    /\ seenProof' = seenProof \cup {p}
    /\ pending' = IF pending[p.nonce].by # NoCall /\ pending[p.nonce].proof = NoProof
                  THEN [pending EXCEPT ![p.nonce].proof = p]
                  ELSE pending
    /\ UNCHANGED <<books, requests, rejects, sourceVars, completed, call, crashes>>

\* A reject carries the source's clock, so the filter does not know it.
OnReject(n) ==
    /\ n \in rejects
    /\ rejects' = rejects \ {n}
    /\ pending' = IF pending[n].by # NoCall
                  THEN [pending EXCEPT ![n].reject = TRUE]
                  ELSE pending
    /\ UNCHANGED <<books, requests, proofs, sourceVars, seenProof, completed, call, crashes>>

-----------------------------------------------------------------------------
(* The dispatcher's replay filter, the network and crashes.                *)

\* dedupe.Seen: a payload seen within the TTL is dropped, whatever its kind.
DropReplayedRequest(r) ==
    /\ r \in requests \cap seenRequest
    /\ requests' = requests \ {r}
    /\ UNCHANGED <<books, proofs, rejects, sourceVars, destVars, crashes>>

DropReplayedProof(p) ==
    /\ p \in proofs \cap seenProof
    /\ proofs' = proofs \ {p}
    /\ UNCHANGED <<books, requests, rejects, sourceVars, destVars, crashes>>

\* The TTL of an id runs out, or the filter is at its capacity.
Forget ==
    /\ \/ /\ \E r \in seenRequest : seenRequest' = seenRequest \ {r}
          /\ UNCHANGED seenProof
       \/ /\ \E p \in seenProof : seenProof' = seenProof \ {p}
          /\ UNCHANGED seenRequest
    /\ UNCHANGED <<books, net, issued, handler, completed, pending, call, crashes>>

Lose ==
    /\ \/ (\E r \in requests : requests' = requests \ {r}) /\ UNCHANGED <<proofs, rejects>>
       \/ (\E p \in proofs : proofs' = proofs \ {p}) /\ UNCHANGED <<requests, rejects>>
       \/ (\E n \in rejects : rejects' = rejects \ {n}) /\ UNCHANGED <<requests, proofs>>
    /\ UNCHANGED <<books, sourceVars, destVars, crashes>>

CrashSource ==
    /\ crashes < MaxCrashes
    /\ crashes' = crashes + 1
    /\ seenRequest' = {}
    /\ issued' = {}
    /\ handler' = [l \in Loops |-> Idle]
    /\ UNCHANGED <<books, net, destVars>>

CrashDest ==
    /\ crashes < MaxCrashes
    /\ crashes' = crashes + 1
    /\ seenProof' = {}
    /\ completed' = {}
    /\ pending' = [n \in Nonces |-> Empty]
    /\ call' = [c \in Calls |->
                  IF call[c].pc \in {"open", "wait", "credit", "record"}
                  THEN [call[c] EXCEPT !.pc = "failed"] ELSE call[c]]
    /\ UNCHANGED <<books, net, sourceVars>>

-----------------------------------------------------------------------------
Init ==
    /\ source = Credits
    /\ debit = [n \in Nonces |-> 0]
    /\ dest = 0
    /\ credit = [n \in Nonces |-> 0]
    /\ requests = {}
    /\ proofs = {}
    /\ rejects = {}
    /\ seenRequest = {}
    /\ seenProof = {}
    /\ issued = {}
    /\ completed = {}
    /\ pending = [n \in Nonces |-> Empty]
    /\ handler = [l \in Loops |-> Idle]
    /\ call = [c \in Calls |-> NewCall]
    /\ crashes = 0

\* A StartTransfer call that has begun.
CallStep(c) ==
    \/ Open(c) \/ TakeProof(c) \/ TakeReject(c) \/ Timeout(c)
    \/ AppendIn(c) \/ AppendInFailed(c) \/ Record(c)

Next ==
    \/ \E c \in Calls : CallStep(c) \/ \E r \in Signed : Start(c, r)
    \/ \E l \in Loops : AppendOut(l) \/ AppendOutRefused(l) \/ Issue(l)
    \/ \E l \in Loops, r \in Signed : OnRequest(l, r)
    \/ \E p \in Proof : OnProof(p) \/ DropReplayedProof(p)
    \/ \E n \in Nonces : OnReject(n)
    \/ \E r \in Signed : DropReplayedRequest(r)
    \/ Forget \/ Lose \/ CrashSource \/ CrashDest

Spec == Init /\ [][Next]_vars

\* A started call is a goroutine with a deadline: it runs until it returns.
FairSpec == Spec /\ \A c \in Calls : WF_vars(CallStep(c))

-----------------------------------------------------------------------------
(* Properties.                                                             *)

CallPc == {"open", "wait", "credit", "record", "ok", "rejected", "failed"}

BooksType ==
    /\ source \in Nat /\ debit \in [Nonces -> Nat]
    /\ dest \in Nat /\ credit \in [Nonces -> Nat]
NetType == requests \subseteq Signed /\ proofs \subseteq Proof /\ rejects \subseteq Nonces
SourceType ==
    /\ seenRequest \subseteq Signed
    /\ issued \subseteq Proof
    /\ handler \in [Loops -> {Idle} \cup [pc : {"append", "issue"}, req : Signed]]
DestType ==
    /\ seenProof \subseteq Proof
    /\ completed \subseteq Nonces
    /\ pending \in [Nonces -> [by : Calls \cup {NoCall}, proof : Proof \cup {NoProof},
                               reject : BOOLEAN]]
    /\ call \in [Calls -> {NewCall} \cup [pc : CallPc, req : Signed, proof : Proof \cup {NoProof}]]

\* Every variable has its type; no balance is negative, and whoever runs has a request.
TypeOK == BooksType /\ NetType /\ SourceType /\ DestType /\ crashes \in 0..MaxCrashes

\* No credit without a debit, and never another amount than the debit's: the destination
\* credits what the proof says, whatever the retry it serves asked for.
CreditMatchesDebit == \A n \in Nonces : credit[n] # 0 => credit[n] = debit[n]

\* A StartTransfer that succeeds has been booked at both ends, also when the answer came from
\* a cache or from a proof issued before a restart.
SuccessIsBooked ==
    \A c \in Calls : call[c].pc = "ok" => credit[Nonce(c)] # 0 /\ debit[Nonce(c)] # 0

\* The two ledgers agree whatever is lost, repeated or restarted: no credit without its debit,
\* no success without both (StartTransfer, OnProof, the completed cache).
BooksAgree == CreditMatchesDebit /\ SuccessIsBooked

\* A pending entry belongs to a call that is still running for its nonce, and a running call
\* owns the entry: no return leaves a nonce refused as a duplicate for ever.
PendingIsOwned ==
    \A c \in Calls, n \in Nonces :
        pending[n].by = c <=> call[c].pc \in {"wait", "credit", "record"} /\ Nonce(c) = n

\* The protocol implements the atomic transfer: one debit and at most one credit per nonce.
\* The two ledgers' entries and balances are the abstract state; everything else is hidden.
Promise == INSTANCE AtomicTransfer WITH
    Nonces <- Nonces, Amounts <- Amounts, Credits <- Credits,
    source <- source, dest <- dest, debit <- debit, credit <- credit
ImplementsPromise == Promise!Spec

\* A StartTransfer call returns.
CallsReturn ==
    \A c \in Calls : call[c].pc = "open" ~> call[c].pc \in {"ok", "rejected", "failed"}
=============================================================================
