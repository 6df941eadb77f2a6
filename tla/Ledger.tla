------------------------------- MODULE Ledger -------------------------------
(***************************************************************************)
(* The regional tracker's credit ledger (tracker/internal/ledger and its   *)
(* SQLite storage): a hash chain of entries, the balance projection that   *)
(* is written in the same transaction, and the hourly Merkle roots.        *)
(*                                                                         *)
(* Appends race.  A caller reads the tip with no lock, builds an entry     *)
(* that names the tip, and appends it under Ledger.mu, where a moved tip   *)
(* is refused with ErrStaleTip; the caller refreshes the tip and retries a *)
(* bounded number of times.  The rollup goroutine takes no ledger lock.    *)
(* A crash loses every caller and keeps the database.                      *)
(***************************************************************************)
EXTENDS Integers, Sequences, FiniteSets

CONSTANTS
    Identities,       \* enrolled identities
    NoId,             \* 32 zero bytes in an identity column
    UsagePairs,       \* <<consumer, seeder>> pairs the broker may match
    Requests,         \* request ids of brokered requests
    Refs,             \* cross-region transfer nonces
    NoTag,            \* the all-zero request_id or ref
    Amounts,          \* credit amounts that are charged, moved or granted
    MaxInt64,         \* the largest balance the credits column can hold
    Readers,          \* identities that ask for a signed balance
    Callers,          \* goroutines that append
    StaleTipRetries,  \* settlement.stale_tip_retries
    TransferAttempts, \* staleTipRetries of the federation ledger adapter
    MaxEntries,       \* bound: the disk is full at this many entries
    StartHour,        \* the hour in which the first tracker process starts
    MaxHour           \* bound: the last hour of the clock

ASSUME LedgerAssumption ==
    /\ NoId \notin Identities
    /\ NoTag \notin Requests \cup Refs
    /\ UsagePairs \subseteq Identities \X Identities
    /\ Readers \subseteq Identities
    /\ MaxInt64 \in Nat
    /\ Amounts \subseteq 1..MaxInt64
    /\ StaleTipRetries \in Nat
    /\ TransferAttempts \in Nat \ {0}
    /\ MaxEntries \in Nat
    /\ MaxHour \in Nat
    /\ StartHour \in 0..MaxHour

VARIABLES
    entries,   \* table entries: the rows in seq order
    balances,  \* table balances: identity -> credits (0 when there is no row)
    hist,      \* history: entry n's movement and the balances its commit left
    roots,     \* table merkle_roots: hour -> seqs of the leaves, or NoRoot
    now,       \* the wall clock, in hours
    pc,        \* per caller: "idle", "read" (reads the tip) or "append"
    op,        \* per caller: the movement it wants to record
    tip,       \* per caller: the (prev_hash, seq) it filled in
    tries,     \* per caller: attempts refused with ErrStaleTip
    base,      \* history, per caller: chain length when it started
    rollup,    \* the rollup goroutine
    snapshot   \* the last balance snapshot the tracker signed

vars == <<entries, balances, hist, roots, now, pc, op, tip, tries, base,
          rollup, snapshot>>
caller == <<pc, op, tip, tries, base>>

NoRoot == {0}
Hours == 0..MaxHour
Kinds == {"USAGE", "TRANSFER_OUT", "TRANSFER_IN", "STARTER_GRANT"}

Op == [kind : Kinds, payer : Identities \cup {NoId}, payee : Identities \cup {NoId},
       cost : 1..MaxInt64, ts : Hours, req : Requests \cup {NoTag},
       ref : Refs \cup {NoTag}]
NoOp == [kind |-> "NONE"]
Row == [seq : Nat, kind : Kinds, consumer : Identities \cup {NoId},
        seeder : Identities \cup {NoId}, cost : 1..MaxInt64, ts : Hours,
        req : Requests \cup {NoTag}, ref : Refs \cup {NoTag}]

-----------------------------------------------------------------------------
(* The four kinds of movement and the entry bodies built for them.         *)

UsageOps(ts) ==
    {[kind |-> "USAGE", payer |-> p[1], payee |-> p[2], cost |-> c, ts |-> ts,
      req |-> r, ref |-> NoTag] : p \in UsagePairs, c \in Amounts, r \in Requests}

\* A transfer entry carries the timestamp the consumer signed: any hour.
TransferOps ==
    {[kind |-> "TRANSFER_OUT", payer |-> i, payee |-> NoId, cost |-> c, ts |-> t,
      req |-> NoTag, ref |-> r] : i \in Identities, c \in Amounts, t \in Hours, r \in Refs}
    \cup
    {[kind |-> "TRANSFER_IN", payer |-> NoId, payee |-> i, cost |-> c, ts |-> t,
      req |-> NoTag, ref |-> r] : i \in Identities, c \in Amounts, t \in Hours, r \in Refs}

GrantOp(i, c) ==
    [kind |-> "STARTER_GRANT", payer |-> NoId, payee |-> i, cost |-> c, ts |-> now,
     req |-> NoTag, ref |-> NoTag]

\* The row of an entry: TRANSFER_IN names no party, STARTER_GRANT names its
\* recipient as the consumer.
Body(o, n) ==
    [seq |-> n, kind |-> o.kind,
     consumer |-> IF o.kind = "STARTER_GRANT" THEN o.payee ELSE o.payer,
     seeder |-> IF o.kind = "USAGE" THEN o.payee ELSE NoId,
     cost |-> o.cost, ts |-> o.ts, req |-> o.req, ref |-> o.ref]

\* SHA-256 of an entry body, collision-free: the bodies from genesis to it.
\* 32 zero bytes, the prev_hash of the first entry, is the empty history.
Hash(e) == Append(e.prev, e.body)
ZeroHash == <<>>
NoTip == [prev |-> ZeroHash, seq |-> 0]

TipHash == IF entries = <<>> THEN ZeroHash ELSE Hash(entries[Len(entries)])
TipSeq == IF entries = <<>> THEN 0 ELSE entries[Len(entries)].body.seq

-----------------------------------------------------------------------------
(* appendLocked: what is checked and written under Ledger.mu.              *)

TipMatches(t) == t.prev = TipHash /\ t.seq = TipSeq + 1

HasUsageRequestID(r) ==
    \E n \in DOMAIN entries : entries[n].body.kind = "USAGE" /\ entries[n].body.req = r
HasTransferRef(k, r) ==
    \E n \in DOMAIN entries : entries[n].body.kind = k /\ entries[n].body.ref = r

\* Mutant: only USAGE entries are checked, transfer nonces are not.
SingleUse_UsageOnly(o) == o.kind = "USAGE" => ~HasUsageRequestID(o.req)
SingleUse(o) ==
    /\ o.kind = "USAGE" => ~HasUsageRequestID(o.req)
    /\ o.kind \in {"TRANSFER_OUT", "TRANSFER_IN"} => ~HasTransferRef(o.kind, o.ref)

\* int64 addition of two values the column can hold.
Wrap(x) == IF x > MaxInt64 THEN x - 2 * (MaxInt64 + 1) ELSE x

\* Each delta is added to the STORED balance, and the rows are upserted in
\* order, debit first.
ApplyDeltas(o) ==
    [i \in Identities |->
        IF i = o.payee THEN Wrap(balances[i] + o.cost)
        ELSE IF i = o.payer THEN Wrap(balances[i] - o.cost)
        ELSE balances[i]]

Sufficient(o) ==
    /\ o.payer \in Identities => Wrap(balances[o.payer] - o.cost) >= 0
    /\ o.payee \in Identities => Wrap(balances[o.payee] + o.cost) >= 0

\* storage.AppendEntry: the row and the balances in one transaction.
AppendEntry(o, prev, n) ==
    /\ Len(entries) < MaxEntries
    /\ \A m \in DOMAIN entries : entries[m].body.seq # n \* PRIMARY KEY (seq)
    /\ entries' = Append(entries, [prev |-> prev, body |-> Body(o, n)])
    /\ balances' = ApplyDeltas(o)
    /\ hist' = Append(hist, [op |-> o, bal |-> ApplyDeltas(o)])

-----------------------------------------------------------------------------
(* Callers: broker settlement (USAGE) and the federation adapter.          *)

Attempts(k) == IF k = "USAGE" THEN StaleTipRetries + 1 ELSE TransferAttempts

\* The append call returns; its locals go out of scope.
Return(c) ==
    /\ pc' = [pc EXCEPT ![c] = "idle"]
    /\ op' = [op EXCEPT ![c] = NoOp]
    /\ tip' = [tip EXCEPT ![c] = NoTip]
    /\ tries' = [tries EXCEPT ![c] = 0]
    /\ base' = [base EXCEPT ![c] = 0]

Begin(c) ==
    /\ pc[c] = "idle"
    /\ \E o \in UsageOps(now) \cup TransferOps : op' = [op EXCEPT ![c] = o]
    /\ pc' = [pc EXCEPT ![c] = "read"]
    /\ base' = [base EXCEPT ![c] = Len(entries)]
    /\ UNCHANGED <<entries, balances, hist, roots, now, tip, tries, rollup, snapshot>>

\* Mutant: the refreshed tip names the last entry's seq, not the next one.
ReadTip_LastSeq(c) ==
    /\ pc[c] = "read"
    /\ tip' = [tip EXCEPT ![c] = [prev |-> TipHash, seq |-> TipSeq]]
    /\ pc' = [pc EXCEPT ![c] = "append"]
    /\ UNCHANGED <<entries, balances, hist, roots, now, op, tries, base, rollup, snapshot>>
ReadTip(c) ==
    /\ pc[c] = "read"
    /\ tip' = [tip EXCEPT ![c] = [prev |-> TipHash, seq |-> TipSeq + 1]]
    /\ pc' = [pc EXCEPT ![c] = "append"]
    /\ UNCHANGED <<entries, balances, hist, roots, now, op, tries, base, rollup, snapshot>>

\* Mutant: a stale tip is retried without counting the attempt or refreshing.
AppendStale_Forever(c) ==
    /\ pc[c] = "append"
    /\ ~TipMatches(tip[c])
    /\ UNCHANGED vars
AppendStale(c) ==
    /\ pc[c] = "append"
    /\ ~TipMatches(tip[c])
    /\ IF tries[c] + 1 < Attempts(op[c].kind)
       THEN /\ tries' = [tries EXCEPT ![c] = @ + 1]
            /\ pc' = [pc EXCEPT ![c] = "read"]
            /\ UNCHANGED <<op, tip, base>>
       ELSE Return(c)
    /\ UNCHANGED <<entries, balances, hist, roots, now, rollup, snapshot>>

AppendRefused(c) ==
    /\ pc[c] = "append"
    /\ TipMatches(tip[c])
    /\ ~SingleUse(op[c]) \/ ~Sufficient(op[c])
    /\ Return(c)
    /\ UNCHANGED <<entries, balances, hist, roots, now, rollup, snapshot>>

\* Mutant: the entry takes the next free seq and keeps the prev_hash its caller read.
AppendCommit_Rebased(c) ==
    /\ pc[c] = "append"
    /\ SingleUse(op[c])
    /\ Sufficient(op[c])
    /\ AppendEntry(op[c], tip[c].prev, TipSeq + 1)
    /\ Return(c)
    /\ UNCHANGED <<roots, now, rollup, snapshot>>

AppendCommit(c) ==
    /\ pc[c] = "append"
    /\ TipMatches(tip[c])
    /\ SingleUse(op[c])
    /\ Sufficient(op[c])
    /\ AppendEntry(op[c], tip[c].prev, tip[c].seq)
    /\ Return(c)
    /\ UNCHANGED <<roots, now, rollup, snapshot>>

\* A failed read or a rolled-back transaction, at either step.
StoreError(c) ==
    /\ pc[c] \in {"read", "append"}
    /\ Return(c)
    /\ UNCHANGED <<entries, balances, hist, roots, now, rollup, snapshot>>

\* Built inside the lock on the current tip: no stale tip, no retry.
IssueStarterGrant(i, c) ==
    /\ Sufficient(GrantOp(i, c))
    /\ AppendEntry(GrantOp(i, c), TipHash, TipSeq + 1)
    /\ UNCHANGED <<roots, now, caller, rollup, snapshot>>

-----------------------------------------------------------------------------
(* Signed balance snapshots and Merkle rollup.                             *)

\* Mutant: the tip is read in an earlier transaction than the balance.
SignedBalance_TwoReads(i) ==
    /\ \E n \in 0..TipSeq : snapshot' = [id |-> i, credits |-> balances[i], seq |-> n]
    /\ UNCHANGED <<entries, balances, hist, roots, now, caller, rollup>>

\* BalanceWithTip reads the balance and the tip in one read transaction.
SignedBalance(i) ==
    /\ snapshot' = [id |-> i, credits |-> balances[i], seq |-> TipSeq]
    /\ UNCHANGED <<entries, balances, hist, roots, now, caller, rollup>>

LeavesForHour(h) == {n \in DOMAIN entries : entries[n].body.ts = h}

\* prevHourFromTime refuses clocks before the end of hour 1.
RollupRead ==
    /\ rollup.pc = "idle"
    /\ now >= 2
    /\ roots[now - 1] = NoRoot
    /\ LeavesForHour(now - 1) # {}
    /\ rollup' = [pc |-> "put", hour |-> now - 1, leaves |-> LeavesForHour(now - 1)]
    /\ UNCHANGED <<entries, balances, hist, roots, now, caller, snapshot>>

PutMerkleRoot ==
    /\ rollup.pc = "put"
    /\ rollup' = [rollup EXCEPT !.pc = "idle"]
    /\ roots' = IF roots[rollup.hour] = NoRoot
                THEN [roots EXCEPT ![rollup.hour] = rollup.leaves] ELSE roots
    /\ UNCHANGED <<entries, balances, hist, now, caller, snapshot>>

-----------------------------------------------------------------------------

Tick ==
    /\ now < MaxHour
    /\ now' = now + 1
    /\ UNCHANGED <<entries, balances, hist, roots, caller, rollup, snapshot>>

Idle == [pc |-> "idle", hour |-> 0, leaves |-> {}]

\* The process dies: goroutines are lost, committed tables stay.
Crash ==
    /\ pc' = [c \in Callers |-> "idle"]
    /\ rollup' = Idle
    /\ op' = [c \in Callers |-> NoOp]
    /\ tip' = [c \in Callers |-> NoTip]
    /\ tries' = [c \in Callers |-> 0]
    /\ base' = [c \in Callers |-> 0]
    /\ UNCHANGED <<entries, balances, hist, roots, now, snapshot>>

Init ==
    /\ entries = <<>>
    /\ balances = [i \in Identities |-> 0]
    /\ hist = <<>>
    /\ roots = [h \in Hours |-> NoRoot]
    /\ now = StartHour
    /\ pc = [c \in Callers |-> "idle"]
    /\ op = [c \in Callers |-> NoOp]
    /\ tip = [c \in Callers |-> NoTip]
    /\ tries = [c \in Callers |-> 0]
    /\ base = [c \in Callers |-> 0]
    /\ rollup = Idle
    /\ snapshot = [id |-> NoId, credits |-> 0, seq |-> 0]

Step(c) == ReadTip(c) \/ AppendStale(c) \/ AppendRefused(c) \/ AppendCommit(c)

Next ==
    \/ \E c \in Callers : Begin(c) \/ Step(c) \/ StoreError(c)
    \/ \E i \in Identities, a \in Amounts : IssueStarterGrant(i, a)
    \/ \E i \in Readers : SignedBalance(i)
    \/ RollupRead \/ PutMerkleRoot
    \/ Tick \/ Crash

Spec == Init /\ [][Next]_vars
-----------------------------------------------------------------------------
(* What makes the ledger correct.                                          *)

Prev(n) == IF n = 1 THEN [i \in Identities |-> 0] ELSE hist[n - 1].bal
Debit(o, i) == IF o.payer = i THEN o.cost ELSE 0
Credit(o, i) == IF o.payee = i THEN o.cost ELSE 0

Entry == [prev : Seq(Row), body : Row]
Tip == [prev : Seq(Row), seq : Nat]

\* Every variable has its type (schema_v1.sql's columns and the goroutines' locals).
TypeOK ==
    /\ entries \in Seq(Entry)
    /\ balances \in [Identities -> Int]
    /\ hist \in Seq([op : Op, bal : [Identities -> Int]])
    /\ roots \in [Hours -> SUBSET Nat]
    /\ now \in Hours
    /\ pc \in [Callers -> {"idle", "read", "append"}]
    /\ op \in [Callers -> Op \cup {NoOp}]
    /\ tip \in [Callers -> Tip]
    /\ tries \in [Callers -> Nat]
    /\ base \in [Callers -> Nat]
    /\ rollup \in [pc : {"idle", "put"}, hour : Hours, leaves : SUBSET Nat]
    /\ snapshot \in [id : Identities \cup {NoId}, credits : Int, seq : Nat]

\* What AssertChainIntegrity audits: sequence numbers are gapless and every
\* entry's prev_hash is the hash of the entry before it, whatever appends raced.
ChainIntegrity ==
    \A n \in DOMAIN entries :
        /\ entries[n].body.seq = n
        /\ entries[n].prev = IF n = 1 THEN ZeroHash ELSE Hash(entries[n - 1])

\* The balance table is where the last commit left it.
BooksFollowChain ==
    /\ Len(hist) = Len(entries)
    /\ \A n \in DOMAIN entries : entries[n].body = Body(hist[n].op, n)
    /\ balances = Prev(Len(entries) + 1)

\* Every commit moves exactly its cost from the payer to the payee and touches
\* nobody else, and the balance table is where the last commit left it: no
\* update is lost to a racing append, a retry, an int64 wrap or a crash
\* (AppendUsage: "debited from the consumer and credited to the seeder").
MovesExactly ==
    /\ BooksFollowChain
    /\ \A n \in DOMAIN entries, i \in Identities :
          hist[n].bal[i] = Prev(n)[i] + Credit(hist[n].op, i) - Debit(hist[n].op, i)

\* No balance is ever negative or past int64 (ErrInsufficientBalance).
NoOverdraft == \A i \in Identities : balances[i] \in 0..MaxInt64

\* A request is settled by at most one USAGE entry and a transfer nonce backs
\* at most one entry of each transfer kind, although callers retry, clients
\* resubmit and the process restarts (ErrUsageRequestExists, ErrTransferRefExists).
SettledOnce ==
    \A m, n \in DOMAIN entries :
        /\ m # n
        /\ entries[m].body.kind = entries[n].body.kind
        => /\ entries[m].body.kind = "USAGE" => entries[m].body.req # entries[n].body.req
           /\ entries[m].body.kind \in {"TRANSFER_OUT", "TRANSFER_IN"}
                 => entries[m].body.ref # entries[n].body.ref

\* The books are right whatever appends race, retry or crash: each commit moves exactly its
\* cost, nobody is overdrawn and nothing is settled twice (AppendUsage and its siblings).
BooksSound == MovesExactly /\ NoOverdraft /\ SettledOnce

\* The k-th attempt of a caller is refused with ErrStaleTip only after k other
\* entries were committed since it started: a caller that gives up lost every
\* retry to progress, never to its own stale tip (the refresh loops of the
\* broker and of the federation adapter).
StaleMeansProgress ==
    \A c \in Callers :
        pc[c] = "append" /\ ~TipMatches(tip[c]) => Len(entries) > base[c] + tries[c]

\* A signed snapshot's credits are the balance at exactly the chain position it
\* names (SignedBalance reads both in one read transaction).
SnapshotAtTip ==
    /\ snapshot.seq \in 0..Len(entries)
    /\ snapshot.id # NoId => snapshot.credits = Prev(snapshot.seq + 1)[snapshot.id]

\* A published root covers a closed hour and commits to a non-empty run of that
\* hour's entries in chain order, with none skipped in between (RunRollupOnce).
RootIsPrefix ==
    \A h \in Hours : roots[h] # NoRoot =>
        /\ h < now
        /\ roots[h] # {}
        /\ \E k \in 0..Len(entries) : roots[h] = {n \in 1..k : entries[n].body.ts = h}

\* What readers sign while appends go on is a state the chain really had: the snapshot of
\* SignedBalance and the root of RunRollupOnce.
ReadsSound == SnapshotAtTip /\ RootIsPrefix

\* Every append call returns: each retry is counted (appendUsageEntry,
\* ledgerHooksAdapter).
AppendsReturn == \A c \in Callers : pc[c] # "idle" ~> pc[c] = "idle"

\* A goroutine that can run runs; the only error that must come is a full disk's.
DiskFull(c) == Len(entries) = MaxEntries /\ TipMatches(tip[c]) /\ StoreError(c)
FairSpec == Spec /\ \A c \in Callers : WF_vars(Step(c)) /\ WF_vars(DiskFull(c))
=============================================================================
