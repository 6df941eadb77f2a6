---------------------------- MODULE LedgerProofs ----------------------------
(***************************************************************************)
(* Proofs about Ledger for every set of identities, callers, requests and  *)
(* nonces, every int64 bound and every retry budget.                       *)
(*                                                                         *)
(* The invariants are not inductive one by one: an entry links to the tip  *)
(* because the tip check compared against it, a balance is exact because   *)
(* the stored balances were in range before, and a stale attempt implies   *)
(* progress because a tip that was read can only fall behind.  Store       *)
(* collects what holds of the tables, Local what holds of a caller.        *)
(*                                                                         *)
(* The second half is about AdmissionLog, the durable copy of the credit   *)
(* state that admission derives from the ledger's events: for every set of *)
(* events and parties, every rotation size and any number of stops, what   *)
(* the cells hold is logged or in a snapshot, acknowledged disputes are    *)
(* synced, the first recovery is exact and the scores stay in range.       *)
(***************************************************************************)
EXTENDS Ledger, AdmissionLog, TLAPS, FiniteSetTheorems, SequenceTheorems, NaturalsInduction, WellFoundedInduction

\* No identity is matched with its own request.
NoSelfUsage == \A p \in UsagePairs : p[1] # p[2]

StoreType ==
    /\ entries \in Seq(Entry)
    /\ balances \in [Identities -> Int]
    /\ hist \in Seq([op : Op, bal : [Identities -> Int]])

OneSided(o) == o.payer = o.payee => o.payer = NoId

\* What every reachable database satisfies.
Store ==
    /\ StoreType
    /\ ChainIntegrity
    /\ BooksFollowChain
    /\ NoSelfUsage => MovesExactly
    /\ NoOverdraft
    /\ SettledOnce

\* What a caller knows of the chain: the tip it holds was the tip at some
\* point since it started, after every attempt it already lost.
Local(c) ==
    /\ pc[c] \in {"idle", "read", "append"}
    /\ op[c] \in Op \cup {NoOp}
    /\ tip[c] \in Tip
    /\ tries[c] \in Nat
    /\ base[c] \in Nat
    /\ pc[c] = "idle" => tries[c] = 0
    /\ pc[c] # "idle" => op[c] \in Op /\ (NoSelfUsage => OneSided(op[c]))
    /\ pc[c] = "read" => Len(entries) >= base[c] + tries[c]
    /\ pc[c] = "append" =>
          /\ tip[c].seq > base[c] + tries[c]
          /\ tip[c].seq <= Len(entries) + 1
          /\ tip[c].seq = Len(entries) + 1 => tip[c].prev = TipHash

LocalType ==
    /\ pc \in [Callers -> {"idle", "read", "append"}]
    /\ op \in [Callers -> Op \cup {NoOp}]
    /\ tip \in [Callers -> Tip]
    /\ tries \in [Callers -> Nat]
    /\ base \in [Callers -> Nat]

OtherType ==
    /\ roots \in [Hours -> SUBSET Nat]
    /\ now \in Hours
    /\ rollup \in [pc : {"idle", "put"}, hour : Hours, leaves : SUBSET Nat]
    /\ snapshot \in [id : Identities \cup {NoId}, credits : Int, seq : Nat]

IInv == Store /\ LocalType /\ OtherType /\ \A c \in Callers : Local(c)

-----------------------------------------------------------------------------

\* An accepted delta did not wrap: the new balance is the exact sum, in range.
LEMMA NoWrap ==
    ASSUME NEW b \in 0..MaxInt64, NEW d \in 1..MaxInt64
    PROVE  /\ Wrap(b + d) >= 0 => Wrap(b + d) = b + d /\ b + d \in 0..MaxInt64
           /\ Wrap(b - d) = b - d
           /\ b - d >= 0 => b - d \in 0..MaxInt64
  BY LedgerAssumption DEF Wrap

\* The tip of an intact chain is its last entry, numbered by its position.
LEMMA TipIsLast ==
    ASSUME entries \in Seq(Entry), ChainIntegrity
    PROVE  TipSeq = Len(entries) /\ TipHash \in Seq(Row)
<1>1. CASE entries = <<>>
  BY <1>1 DEF TipSeq, TipHash, ZeroHash
<1>2. CASE entries # <<>>
  <2>1. Len(entries) \in DOMAIN entries /\ entries[Len(entries)] \in Entry
    BY <1>2
  <2>2. QED BY <1>2, <2>1 DEF TipSeq, TipHash, ChainIntegrity, Hash, Entry
<1>3. QED BY <1>1, <1>2

\* The row built for a movement has the type of a row.
LEMMA BodyType ==
    ASSUME NEW o \in Op, NEW n \in Nat
    PROVE  Body(o, n) \in Row
  BY DEF Op, Row, Body

\* The single-row transaction of storage.AppendEntry keeps the database intact
\* when it follows the checks appendLocked makes under the lock.
LEMMA AppendKeepsStore ==
    ASSUME Store, NEW o \in Op, NoSelfUsage => OneSided(o), SingleUse(o), Sufficient(o),
           AppendEntry(o, TipHash, TipSeq + 1)
    PROVE  Store' /\ Len(entries') = Len(entries) + 1
<1> DEFINE N == Len(entries) + 1
           e == [prev |-> TipHash, body |-> Body(o, N)]
           h == [op |-> o, bal |-> ApplyDeltas(o)]
<1>1. TipSeq = Len(entries) /\ TipHash \in Seq(Row) /\ N \in Nat /\ Len(hist) = Len(entries)
  BY TipIsLast DEF Store, StoreType, BooksFollowChain
<1>2. e \in Entry
  BY <1>1, BodyType DEF Entry
<1>3. /\ entries' = Append(entries, e)
      /\ hist' = Append(hist, h)
      /\ balances' = ApplyDeltas(o)
  BY <1>1 DEF AppendEntry
<1>4. /\ o.cost \in 1..MaxInt64
      /\ o.payer \in Identities \cup {NoId}
      /\ o.payee \in Identities \cup {NoId}
  BY DEF Op
<1>5. \A i \in Identities :
         /\ OneSided(o) => ApplyDeltas(o)[i] = balances[i] + Credit(o, i) - Debit(o, i)
         /\ ApplyDeltas(o)[i] \in 0..MaxInt64
  <2> TAKE i \in Identities
  <2>1. balances[i] \in 0..MaxInt64
    BY DEF Store, NoOverdraft
  <2>2. CASE i = o.payee
    <3>1. OneSided(o) => o.payer # i
      BY <2>2, LedgerAssumption DEF OneSided
    <3>2. Wrap(balances[i] + o.cost) >= 0
      BY <2>2 DEF Sufficient
    <3>3. ApplyDeltas(o)[i] = Wrap(balances[i] + o.cost)
      BY <2>2 DEF ApplyDeltas
    <3>4. ApplyDeltas(o)[i] = balances[i] + o.cost /\ ApplyDeltas(o)[i] \in 0..MaxInt64
      BY <3>2, <3>3, <2>1, <1>4, NoWrap
    <3>5. QED BY <3>1, <3>4, <2>1, <2>2, <1>4 DEF Credit, Debit
  <2>3. CASE i # o.payee /\ i = o.payer
    <3>1. Wrap(balances[i] - o.cost) >= 0
      BY <2>3 DEF Sufficient
    <3>2. ApplyDeltas(o)[i] = Wrap(balances[i] - o.cost)
      BY <2>3 DEF ApplyDeltas
    <3>3. QED BY <3>1, <3>2, <2>1, <2>3, <1>4, NoWrap DEF Credit, Debit
  <2>4. CASE i # o.payee /\ i # o.payer
    BY <2>1, <2>4 DEF ApplyDeltas, Credit, Debit
  <2>5. QED BY <2>2, <2>3, <2>4
<1>6. ApplyDeltas(o) \in [Identities -> Int]
  <2>1. ApplyDeltas(o) = [i \in Identities |-> ApplyDeltas(o)[i]]
    BY DEF ApplyDeltas
  <2>2. QED BY <1>5, <2>1
<1>7. StoreType'
  <2>1. entries' \in Seq(Entry)
    BY <1>2, <1>3 DEF Store, StoreType
  <2>2. h \in [op : Op, bal : [Identities -> Int]]
    BY <1>6
  <2>3. hist' \in Seq([op : Op, bal : [Identities -> Int]])
    BY <2>2, <1>3 DEF Store, StoreType
  <2>4. QED BY <2>1, <2>3, <1>3, <1>6 DEF StoreType
<1>8. /\ Len(entries') = N /\ Len(hist') = N
      /\ DOMAIN entries' = 1..N /\ DOMAIN entries = 1..Len(entries)
      /\ \A n \in 1..Len(entries) : entries'[n] = entries[n] /\ hist'[n] = hist[n]
      /\ entries'[N] = e /\ hist'[N] = h
  BY <1>1, <1>3 DEF Store, StoreType
<1>9. ChainIntegrity'
  <2> SUFFICES ASSUME NEW n \in 1..N
               PROVE  /\ entries'[n].body.seq = n
                      /\ entries'[n].prev = IF n = 1 THEN ZeroHash ELSE Hash(entries'[n - 1])
    BY <1>8 DEF ChainIntegrity, Hash
  <2>1. CASE n \in 1..Len(entries)
    <3>1. n # 1 => n - 1 \in 1..Len(entries)
      BY <2>1
    <3>2. QED BY <2>1, <3>1, <1>8 DEF Store, ChainIntegrity
  <2>2. CASE n = N
    <3>1. e.body.seq = N
      BY DEF Body
    <3>2. CASE entries = <<>>
      BY <2>2, <3>1, <3>2, <1>8 DEF TipHash
    <3>3. CASE entries # <<>>
      <4>1. N # 1 /\ N - 1 = Len(entries) /\ Len(entries) \in 1..Len(entries)
        BY <3>3 DEF Store, StoreType
      <4>2. QED BY <2>2, <3>1, <3>3, <4>1, <1>8 DEF TipHash
    <3>4. QED BY <3>2, <3>3
  <2>3. QED BY <2>1, <2>2, <1>1
<1>10. BooksFollowChain' /\ (NoSelfUsage => MovesExactly')
  <2>1. \A n \in 1..N : Prev(n)' = Prev(n)
    <3> TAKE n \in 1..N
    <3>1. n # 1 => n - 1 \in 1..Len(entries)
      BY <1>1
    <3>2. QED BY <3>1, <1>8 DEF Prev
  <2>2. balances = Prev(N)
    BY DEF Store, BooksFollowChain
  <2>3. balances' = Prev(Len(entries) + 1)'
    <3>1. Len(entries') + 1 # 1 /\ (Len(entries') + 1) - 1 = N
      BY <1>1, <1>8
    <3>2. QED BY <3>1, <1>8, <1>3 DEF Prev
  <2>4. ASSUME NEW n \in 1..N PROVE entries'[n].body = Body(hist'[n].op, n)
    <3>1. CASE n \in 1..Len(entries)
      BY <3>1, <1>8 DEF Store, BooksFollowChain
    <3>2. CASE n = N
      BY <3>2, <1>8
    <3>3. QED BY <3>1, <3>2, <1>1
  <2>5. BooksFollowChain'
    BY <2>3, <2>4, <1>8 DEF BooksFollowChain, Body
  <2>6. ASSUME NoSelfUsage, NEW n \in 1..N, NEW i \in Identities
        PROVE  hist'[n].bal[i] = Prev(n)[i] + Credit(hist'[n].op, i) - Debit(hist'[n].op, i)
    <3>1. CASE n \in 1..Len(entries)
      BY <2>6, <3>1, <1>8 DEF Store, MovesExactly
    <3>2. CASE n = N
      BY <2>6, <3>2, <1>8, <1>5, <2>2
    <3>3. QED BY <3>1, <3>2, <1>1
  <2>7. ASSUME NoSelfUsage PROVE MovesExactly'
    <3>1. \A n \in 1..N, i \in Identities :
             hist'[n].bal[i] = Prev(n)'[i] + Credit(hist'[n].op, i) - Debit(hist'[n].op, i)
      BY <2>1, <2>6, <2>7
    <3>2. QED BY <3>1, <2>5, <1>8 DEF MovesExactly, Credit, Debit
  <2>8. QED BY <2>5, <2>7
<1>11. NoOverdraft'
  BY <1>3, <1>5 DEF NoOverdraft
<1>12. SettledOnce'
  <2>1. /\ e.body.kind = o.kind /\ e.body.req = o.req /\ e.body.ref = o.ref
    BY DEF Body
  <2>2. ASSUME NEW m \in 1..Len(entries), entries[m].body.kind = o.kind
        PROVE  /\ o.kind = "USAGE" => entries[m].body.req # o.req
               /\ o.kind \in {"TRANSFER_OUT", "TRANSFER_IN"} => entries[m].body.ref # o.ref
    BY <2>2, <1>8 DEF SingleUse, HasUsageRequestID, HasTransferRef
  <2> SUFFICES ASSUME NEW m \in 1..N, NEW n \in 1..N, m # n,
                      entries'[m].body.kind = entries'[n].body.kind
               PROVE  /\ entries'[m].body.kind = "USAGE"
                            => entries'[m].body.req # entries'[n].body.req
                      /\ entries'[m].body.kind \in {"TRANSFER_OUT", "TRANSFER_IN"}
                            => entries'[m].body.ref # entries'[n].body.ref
    BY <1>8 DEF SettledOnce
  <2>3. CASE m \in 1..Len(entries) /\ n \in 1..Len(entries)
    BY <2>3, <1>8 DEF Store, SettledOnce
  <2>4. CASE m = N /\ n \in 1..Len(entries)
    BY <2>1, <2>2, <2>4, <1>8
  <2>5. CASE n = N /\ m \in 1..Len(entries)
    BY <2>1, <2>2, <2>5, <1>8
  <2>6. QED BY <2>3, <2>4, <2>5, <1>1
<1>13. QED BY <1>7, <1>8, <1>9, <1>10, <1>11, <1>12 DEF Store

-----------------------------------------------------------------------------

\* Only the three tables and their history decide Store.
LEMMA StoreFrame ==
    ASSUME Store, UNCHANGED <<entries, balances, hist>>
    PROVE  Store'
  BY DEF Store, StoreType, ChainIntegrity, BooksFollowChain, MovesExactly, NoOverdraft,
         SettledOnce, Prev, Hash

\* A caller that takes no step keeps what it knows while the chain only grows.
LEMMA LocalFrame ==
    ASSUME Store, NEW c \in Callers, Local(c),
           pc'[c] = pc[c], op'[c] = op[c], tip'[c] = tip[c],
           tries'[c] = tries[c], base'[c] = base[c],
           entries' = entries \/ Len(entries') = Len(entries) + 1
    PROVE  Local(c)'
<1>1. Len(entries) \in Nat /\ tip[c].seq \in Nat /\ base[c] + tries[c] \in Nat
  BY DEF Store, StoreType, Local, Tip
<1>2. CASE entries' = entries
  BY <1>2 DEF Local, TipHash, Hash
<1>3. CASE Len(entries') = Len(entries) + 1
  BY <1>1, <1>3 DEF Local
<1>4. QED BY <1>2, <1>3

\* A call that returns leaves its caller idle and every other caller alone.
LEMMA ReturnKeepsLocal ==
    ASSUME Store, LocalType, \A d \in Callers : Local(d),
           NEW c \in Callers, Return(c),
           entries' = entries \/ Len(entries') = Len(entries) + 1
    PROVE  LocalType' /\ \A d \in Callers : Local(d)'
<1>1. LocalType'
  BY DEF LocalType, Return, NoTip, ZeroHash, Tip
<1>2. ASSUME NEW d \in Callers PROVE Local(d)'
  <2>1. CASE d = c
    <3>1. pc'[c] = "idle" /\ tries'[c] = 0 /\ op'[c] = NoOp
      BY DEF LocalType, Return
    <3>2. QED BY <1>1, <2>1, <3>1 DEF Local, LocalType
  <2>2. CASE d # c
    <3>1. /\ pc'[d] = pc[d] /\ op'[d] = op[d] /\ tip'[d] = tip[d]
          /\ tries'[d] = tries[d] /\ base'[d] = base[d]
      BY <2>2 DEF LocalType, Return
    <3>2. QED BY <3>1, LocalFrame
  <2>3. QED BY <2>1, <2>2
<1>3. QED BY <1>1, <1>2

\* The movements a caller can be asked to record are typed, and when nobody is
\* matched with itself they have at most one side in the region twice.
LEMMA OpsTyped ==
    ASSUME NEW ts \in Hours, NEW o \in UsageOps(ts) \cup TransferOps
    PROVE  o \in Op /\ (NoSelfUsage => OneSided(o))
<1>1. CASE o \in UsageOps(ts)
  <2>1. PICK p \in UsagePairs, c \in Amounts, r \in Requests :
           o = [kind |-> "USAGE", payer |-> p[1], payee |-> p[2], cost |-> c, ts |-> ts,
                req |-> r, ref |-> NoTag]
    BY <1>1 DEF UsageOps
  <2>2. p[1] \in Identities /\ p[2] \in Identities /\ c \in 1..MaxInt64
    BY LedgerAssumption
  <2>3. NoSelfUsage => p[1] # p[2]
    BY DEF NoSelfUsage
  <2>4. QED BY <2>1, <2>2, <2>3 DEF Op, OneSided, Kinds
<1>2. CASE o \in TransferOps
  BY <1>2, LedgerAssumption DEF TransferOps, Op, OneSided, Kinds
<1>3. QED BY <1>1, <1>2

\* The initial state satisfies the inductive invariant.
LEMMA InitIInv == Init => IInv
<1> SUFFICES ASSUME Init PROVE IInv
  OBVIOUS
<1>1. entries = <<>> /\ hist = <<>> /\ Len(entries) = 0 /\ DOMAIN entries = {}
  BY DEF Init
<1>2. Store
  <2>1. StoreType
    BY <1>1 DEF Init, StoreType
  <2>2. Prev(Len(entries) + 1) = [i \in Identities |-> 0]
    BY <1>1 DEF Prev
  <2>3. BooksFollowChain /\ MovesExactly
    BY <1>1, <2>2 DEF Init, BooksFollowChain, MovesExactly
  <2>4. NoOverdraft
    BY LedgerAssumption DEF Init, NoOverdraft
  <2>5. QED BY <1>1, <2>1, <2>3, <2>4 DEF Store, ChainIntegrity, SettledOnce
<1>3. LocalType
  BY DEF Init, LocalType, NoTip, ZeroHash, Tip
<1>4. OtherType
  BY LedgerAssumption DEF Init, OtherType, NoRoot, Hours, Idle
<1>5. ASSUME NEW c \in Callers PROVE Local(c)
  BY <1>3 DEF Init, Local, LocalType
<1>6. QED BY <1>2, <1>3, <1>4, <1>5 DEF IInv

\* Every step of the ledger preserves the inductive invariant.
LEMMA NextIInv ==
    ASSUME IInv, [Next]_vars
    PROVE  IInv'
<1> USE DEF IInv
<1>0. ASSUME UNCHANGED <<entries, balances, hist>>, UNCHANGED caller
      PROVE  Store' /\ LocalType' /\ \A d \in Callers : Local(d)'
  <2>1. Store'
    BY <1>0, StoreFrame
  <2>2. LocalType'
    BY <1>0 DEF LocalType, caller
  <2>3. ASSUME NEW d \in Callers PROVE Local(d)'
    BY <1>0, LocalFrame DEF caller
  <2>4. QED BY <2>1, <2>2, <2>3
<1>1. ASSUME NEW c \in Callers, Begin(c) PROVE IInv'
  <2>1. Store'
    BY <1>1, StoreFrame DEF Begin
  <2>2. PICK o \in UsageOps(now) \cup TransferOps : op' = [op EXCEPT ![c] = o]
    BY <1>1 DEF Begin
  <2>3. o \in Op /\ (NoSelfUsage => OneSided(o))
    BY <2>2, OpsTyped DEF OtherType
  <2>4. Len(entries) \in Nat
    BY DEF Store, StoreType
  <2>5. LocalType'
    BY <1>1, <2>2, <2>3, <2>4 DEF Begin, LocalType
  <2>6. ASSUME NEW d \in Callers PROVE Local(d)'
    <3>1. CASE d = c
      <4>1. /\ pc'[c] = "read" /\ op'[c] = o /\ base'[c] = Len(entries)
            /\ tries'[c] = 0 /\ entries' = entries
        BY <1>1, <2>2 DEF Begin, Local, LocalType
      <4>2. QED BY <3>1, <4>1, <2>3, <2>4, <2>5 DEF Local, LocalType
    <3>2. CASE d # c
      <4>1. /\ pc'[d] = pc[d] /\ op'[d] = op[d] /\ tip'[d] = tip[d]
            /\ tries'[d] = tries[d] /\ base'[d] = base[d] /\ entries' = entries
        BY <1>1, <2>2, <3>2 DEF Begin, LocalType
      <4>2. QED BY <4>1, LocalFrame
    <3>3. QED BY <3>1, <3>2
  <2>7. OtherType'
    BY <1>1 DEF Begin, OtherType
  <2>8. QED BY <2>1, <2>5, <2>6, <2>7
<1>2. ASSUME NEW c \in Callers, ReadTip(c) PROVE IInv'
  <2>1. Store'
    BY <1>2, StoreFrame DEF ReadTip
  <2>2. TipSeq = Len(entries) /\ TipHash \in Seq(Row) /\ Len(entries) \in Nat
    BY TipIsLast DEF Store, StoreType
  <2>3. [prev |-> TipHash, seq |-> TipSeq + 1] \in Tip
    BY <2>2 DEF Tip
  <2>4. LocalType'
    BY <1>2, <2>3 DEF ReadTip, LocalType
  <2>5. ASSUME NEW d \in Callers PROVE Local(d)'
    <3>1. CASE d = c
      <4>1. /\ pc'[c] = "append" /\ op'[c] = op[c] /\ base'[c] = base[c]
            /\ tries'[c] = tries[c] /\ entries' = entries
            /\ tip'[c] = [prev |-> TipHash, seq |-> TipSeq + 1] /\ pc[c] = "read"
            /\ TipHash' = TipHash
        BY <1>2 DEF ReadTip, LocalType, TipHash, Hash
      <4>2. QED BY <3>1, <4>1, <2>2, <2>4 DEF Local, LocalType
    <3>2. CASE d # c
      <4>1. /\ pc'[d] = pc[d] /\ op'[d] = op[d] /\ tip'[d] = tip[d]
            /\ tries'[d] = tries[d] /\ base'[d] = base[d] /\ entries' = entries
        BY <1>2, <3>2 DEF ReadTip, LocalType
      <4>2. QED BY <4>1, LocalFrame
    <3>3. QED BY <3>1, <3>2
  <2>6. OtherType'
    BY <1>2 DEF ReadTip, OtherType
  <2>7. QED BY <2>1, <2>4, <2>5, <2>6
<1>3. ASSUME NEW c \in Callers, AppendStale(c) PROVE IInv'
  <2>1. Store' /\ OtherType' /\ entries' = entries
    BY <1>3, StoreFrame DEF AppendStale, OtherType
  <2>2. CASE tries[c] + 1 < Attempts(op[c].kind)
    <3>1. /\ tries' = [tries EXCEPT ![c] = @ + 1]
          /\ pc' = [pc EXCEPT ![c] = "read"]
          /\ op' = op /\ tip' = tip /\ base' = base /\ pc[c] = "append"
          /\ ~TipMatches(tip[c])
      BY <1>3, <2>2 DEF AppendStale
    <3>2. LocalType'
      BY <3>1 DEF LocalType
    <3>3. TipSeq = Len(entries) /\ Len(entries) \in Nat
      BY TipIsLast DEF Store, StoreType
    <3>4. /\ tip[c].seq <= Len(entries) /\ tip[c].seq > base[c] + tries[c]
          /\ tip[c].seq \in Nat /\ base[c] \in Nat /\ tries[c] \in Nat
      BY <3>1, <3>3 DEF TipMatches, Local, Tip
    <3>5. ASSUME NEW d \in Callers PROVE Local(d)'
      <4>1. CASE d = c
        <5>1. pc'[c] = "read" /\ tries'[c] = tries[c] + 1
          BY <3>1 DEF LocalType
        <5>2. op[c] \in Op /\ (NoSelfUsage => OneSided(op[c]))
          BY <3>1 DEF Local
        <5>3. Len(entries) >= base[c] + (tries[c] + 1)
          BY <3>3, <3>4
        <5>4. QED BY <4>1, <5>1, <5>2, <5>3, <3>1, <3>2, <2>1 DEF Local, LocalType
      <4>2. CASE d # c
        <5>1. pc'[d] = pc[d] /\ tries'[d] = tries[d]
          BY <3>1, <4>2 DEF LocalType
        <5>2. QED BY <5>1, <3>1, <2>1, LocalFrame
      <4>3. QED BY <4>1, <4>2
    <3>6. QED BY <2>1, <3>2, <3>5
  <2>3. CASE ~(tries[c] + 1 < Attempts(op[c].kind))
    <3>1. Return(c)
      BY <1>3, <2>3 DEF AppendStale
    <3>2. QED BY <2>1, <3>1, ReturnKeepsLocal
  <2>4. QED BY <2>2, <2>3
<1>4. ASSUME NEW c \in Callers, AppendRefused(c) PROVE IInv'
  <2>1. Store' /\ OtherType' /\ entries' = entries /\ Return(c)
    BY <1>4, StoreFrame DEF AppendRefused, OtherType
  <2>2. QED BY <2>1, ReturnKeepsLocal
<1>5. ASSUME NEW c \in Callers, AppendCommit(c) PROVE IInv'
  <2>1. /\ op[c] \in Op /\ (NoSelfUsage => OneSided(op[c])) /\ SingleUse(op[c])
        /\ Sufficient(op[c])
        /\ tip[c].prev = TipHash /\ tip[c].seq = TipSeq + 1
    BY <1>5 DEF AppendCommit, Local, TipMatches
  <2>2. AppendEntry(op[c], TipHash, TipSeq + 1)
    BY <1>5, <2>1 DEF AppendCommit
  <2>3. Store' /\ Len(entries') = Len(entries) + 1
    BY <2>1, <2>2, AppendKeepsStore
  <2>4. OtherType' /\ Return(c)
    BY <1>5 DEF AppendCommit, OtherType
  <2>5. QED BY <2>3, <2>4, ReturnKeepsLocal
<1>6. ASSUME NEW c \in Callers, StoreError(c) PROVE IInv'
  <2>1. Store' /\ OtherType' /\ entries' = entries /\ Return(c)
    BY <1>6, StoreFrame DEF StoreError, OtherType
  <2>2. QED BY <2>1, ReturnKeepsLocal
<1>7. ASSUME NEW i \in Identities, NEW a \in Amounts, IssueStarterGrant(i, a) PROVE IInv'
  <2>1. GrantOp(i, a) \in Op /\ OneSided(GrantOp(i, a)) /\ SingleUse(GrantOp(i, a))
    BY LedgerAssumption DEF GrantOp, Op, OneSided, SingleUse, OtherType, Kinds
  <2>2. Store' /\ Len(entries') = Len(entries) + 1
    BY <1>7, <2>1, AppendKeepsStore DEF IssueStarterGrant
  <2>3. LocalType' /\ OtherType'
    BY <1>7 DEF IssueStarterGrant, LocalType, OtherType, caller
  <2>4. ASSUME NEW d \in Callers PROVE Local(d)'
    BY <1>7, <2>2, LocalFrame DEF IssueStarterGrant, caller
  <2>5. QED BY <2>2, <2>3, <2>4
<1>8. ASSUME NEW i \in Readers, SignedBalance(i) PROVE IInv'
  <2>1. TipSeq = Len(entries) /\ Len(entries) \in Nat /\ i \in Identities /\ balances[i] \in Int
    BY TipIsLast, LedgerAssumption DEF Store, StoreType
  <2>2. OtherType'
    BY <1>8, <2>1 DEF SignedBalance, OtherType
  <2>3. QED BY <1>8, <1>0, <2>2 DEF SignedBalance
<1>9. ASSUME RollupRead PROVE IInv'
  <2>1. DOMAIN entries \subseteq Nat /\ now - 1 \in Hours
    BY <1>9, LedgerAssumption DEF Store, StoreType, RollupRead, OtherType, Hours
  <2>2. OtherType'
    BY <1>9, <2>1 DEF RollupRead, OtherType, LeavesForHour
  <2>3. QED BY <1>9, <1>0, <2>2 DEF RollupRead
<1>10. ASSUME PutMerkleRoot PROVE IInv'
  <2>1. OtherType'
    BY <1>10 DEF PutMerkleRoot, OtherType
  <2>2. QED BY <1>10, <1>0, <2>1 DEF PutMerkleRoot
<1>11. ASSUME Tick PROVE IInv'
  <2>1. OtherType'
    BY <1>11, LedgerAssumption DEF Tick, OtherType, Hours
  <2>2. QED BY <1>11, <1>0, <2>1 DEF Tick
<1>12. ASSUME Crash PROVE IInv'
  <2>1. Store'
    BY <1>12, StoreFrame DEF Crash
  <2>2. OtherType'
    BY <1>12, LedgerAssumption DEF Crash, OtherType, Idle, Hours
  <2>3. LocalType'
    BY <1>12 DEF Crash, LocalType, NoTip, ZeroHash, Tip
  <2>4. ASSUME NEW d \in Callers PROVE Local(d)'
    BY <1>12, <2>3 DEF Crash, Local, LocalType
  <2>5. QED BY <2>1, <2>2, <2>3, <2>4
<1>13. CASE UNCHANGED vars
  <2>1. OtherType'
    BY <1>13 DEF vars, OtherType
  <2>2. QED BY <1>13, <1>0, <2>1 DEF vars, caller
<1>14. QED
  BY <1>1, <1>2, <1>3, <1>4, <1>5, <1>6, <1>7, <1>8, <1>9, <1>10, <1>11, <1>12, <1>13
     DEF Next, Step

\* The inductive invariant gives each property of the ledger.
LEMMA IInvImplies ==
    ASSUME IInv
    PROVE  TypeOK /\ ChainIntegrity /\ (NoSelfUsage => MovesExactly) /\ NoOverdraft /\ SettledOnce
           /\ StaleMeansProgress
<1>1. TypeOK
  BY DEF IInv, TypeOK, Store, StoreType, LocalType, OtherType
<1>2. TipSeq = Len(entries) /\ Len(entries) \in Nat
  BY TipIsLast DEF IInv, Store, StoreType
<1>3. ASSUME NEW c \in Callers, pc[c] = "append", ~TipMatches(tip[c])
      PROVE  Len(entries) > base[c] + tries[c]
  <2>1. /\ tip[c].seq \in Nat /\ base[c] \in Nat /\ tries[c] \in Nat
        /\ tip[c].seq > base[c] + tries[c]
        /\ tip[c].seq <= Len(entries)
    BY <1>2, <1>3 DEF IInv, Local, Tip, TipMatches
  <2>2. QED BY <2>1, <1>2
<1>4. QED BY <1>1, <1>3 DEF IInv, Store, StaleMeansProgress

\* Every behaviour of the ledger stays in the inductive invariant.
LEMMA Invariance == Spec => []IInv
  BY InitIInv, NextIInv, PTL DEF Spec

\* The tables and the goroutines' locals keep their types.
THEOREM LedgerType == Spec => []TypeOK
  BY Invariance, IInvImplies, PTL

\* The chain is gapless and hash-linked, whatever appends raced, retried or were
\* cut off by a crash (AssertChainIntegrity never reports a break).
THEOREM ChainStaysIntact == Spec => []ChainIntegrity
  BY Invariance, IInvImplies, PTL

\* As long as nobody is matched with its own request, every commit moves exactly
\* its cost from payer to payee (applyDeltas).
THEOREM CreditsMoveExactly ==
    ASSUME NoSelfUsage
    PROVE  Spec => []MovesExactly
  BY Invariance, IInvImplies, PTL

\* No balance is ever negative or past int64 (ErrInsufficientBalance).
THEOREM NobodyOverdrawn == Spec => []NoOverdraft
  BY Invariance, IInvImplies, PTL

\* No request is settled twice and no transfer nonce is booked twice per kind
\* (ErrUsageRequestExists, ErrTransferRefExists).
THEOREM NothingSettledTwice == Spec => []SettledOnce
  BY Invariance, IInvImplies, PTL

\* An append that loses its k-th attempt to a stale tip saw k entries of others
\* committed meanwhile.
THEOREM StaleOnlyUnderProgress == Spec => []StaleMeansProgress
  BY Invariance, IInvImplies, PTL

-----------------------------------------------------------------------------
(* Snapshots and roots rest on the chain being append-only.                *)

\* A step keeps every entry and its history, and adds at most one.
LEMMA ChainGrows ==
    ASSUME IInv, [Next]_vars
    PROVE  /\ Len(entries) \in Nat /\ Len(hist) = Len(entries)
           /\ DOMAIN entries = 1..Len(entries)
           /\ Len(entries') \in {Len(entries), Len(entries) + 1}
           /\ \A n \in 1..Len(entries) : entries'[n] = entries[n] /\ hist'[n] = hist[n]
<1>1. /\ Len(entries) \in Nat /\ Len(hist) = Len(entries)
      /\ entries \in Seq(Entry) /\ hist \in Seq([op : Op, bal : [Identities -> Int]])
      /\ DOMAIN entries = 1..Len(entries)
  BY DEF IInv, Store, StoreType, BooksFollowChain
<1>2. CASE UNCHANGED <<entries, hist>>
  BY <1>1, <1>2
<1>3. CASE \E o, p, n : AppendEntry(o, p, n)
  <2>1. PICK e, h : entries' = Append(entries, e) /\ hist' = Append(hist, h)
    BY <1>3 DEF AppendEntry
  <2>2. QED BY <1>1, <2>1
<1>4. UNCHANGED <<entries, hist>> \/ \E o, p, n : AppendEntry(o, p, n)
  <2>1. ASSUME NEW c \in Callers, AppendCommit(c) PROVE \E o, p, n : AppendEntry(o, p, n)
    BY <2>1 DEF AppendCommit
  <2>2. ASSUME NEW i \in Identities, NEW a \in Amounts, IssueStarterGrant(i, a)
        PROVE  \E o, p, n : AppendEntry(o, p, n)
    BY <2>2 DEF IssueStarterGrant
  <2>3. QED BY <2>1, <2>2
        DEF Next, Step, vars, Begin, ReadTip, AppendStale, AppendRefused, StoreError,
            SignedBalance, RollupRead, PutMerkleRoot, Tick, Crash
<1>5. QED BY <1>2, <1>3, <1>4

\* A step that is not SignedBalance leaves the last signed snapshot alone.
LEMMA SnapshotSteps ==
    ASSUME [Next]_vars
    PROVE  snapshot' = snapshot \/ \E i \in Readers : SignedBalance(i)
  BY DEF Next, Step, vars, Begin, ReadTip, AppendStale, AppendRefused, AppendCommit, StoreError,
         IssueStarterGrant, RollupRead, PutMerkleRoot, Tick, Crash

\* The credits of a signed snapshot stay the balance at the position it names.
LEMMA NextSnapshot ==
    ASSUME IInv, SnapshotAtTip, [Next]_vars
    PROVE  SnapshotAtTip'
<1>1. /\ Len(entries) \in Nat /\ Len(entries') \in {Len(entries), Len(entries) + 1}
      /\ \A n \in 1..Len(entries) : hist'[n] = hist[n]
  BY ChainGrows
<1>2. CASE snapshot' = snapshot
  <2>1. snapshot.seq \in 0..Len(entries) /\ snapshot.seq \in Nat
    BY DEF SnapshotAtTip
  <2>2. Prev(snapshot.seq + 1)' = Prev(snapshot.seq + 1)
    <3>1. snapshot.seq + 1 # 1 => (snapshot.seq + 1) - 1 \in 1..Len(entries)
      BY <2>1, <1>1
    <3>2. QED BY <3>1, <1>1, <1>2 DEF Prev
  <2>3. QED BY <1>1, <1>2, <2>1, <2>2 DEF SnapshotAtTip
<1>3. CASE \E i \in Readers : SignedBalance(i)
  <2>1. PICK i \in Readers : SignedBalance(i)
    BY <1>3
  <2>2. TipSeq = Len(entries) /\ balances = Prev(Len(entries) + 1)
    BY TipIsLast DEF IInv, Store, StoreType, BooksFollowChain
  <2>3. snapshot' = [id |-> i, credits |-> balances[i], seq |-> Len(entries)]
        /\ entries' = entries /\ hist' = hist
    BY <2>1, <2>2 DEF SignedBalance
  <2>4. Prev(snapshot.seq + 1)' = Prev(Len(entries) + 1)
    BY <2>3 DEF Prev
  <2>5. QED BY <1>1, <2>2, <2>3, <2>4 DEF SnapshotAtTip
<1>4. QED BY <1>2, <1>3, SnapshotSteps

\* A signed balance is the balance at exactly the chain position it names, and
\* stays so as the chain grows (SignedBalance, BalanceWithTip).
THEOREM SnapshotsAreConsistent == Spec => []SnapshotAtTip
<1>1. Init => SnapshotAtTip
  BY DEF Init, SnapshotAtTip
<1>2. QED BY <1>1, Invariance, NextSnapshot, PTL DEF Spec

Covers(S, h) == \E k \in 0..Len(entries) : S = {n \in 1..k : entries[n].body.ts = h}

\* The rollup goroutine holds a run of a closed hour's entries until it writes them.
RollupInv ==
    /\ RootIsPrefix
    /\ rollup.pc = "put" => rollup.hour < now /\ rollup.leaves # {}
                            /\ Covers(rollup.leaves, rollup.hour)

\* A run of an hour's entries stays one while the chain grows.
LEMMA CoversGrows ==
    ASSUME IInv, [Next]_vars, NEW S, NEW h \in Hours, Covers(S, h)
    PROVE  Covers(S, h)'
<1>1. /\ Len(entries) \in Nat /\ Len(entries') \in {Len(entries), Len(entries) + 1}
      /\ \A n \in 1..Len(entries) : entries'[n] = entries[n]
  BY ChainGrows
<1>2. PICK k \in 0..Len(entries) : S = {n \in 1..k : entries[n].body.ts = h}
  BY DEF Covers
<1>3. S = {n \in 1..k : entries'[n].body.ts = h} /\ k \in 0..Len(entries')
  BY <1>1, <1>2
<1>4. QED BY <1>3 DEF Covers

\* Every step keeps what the roots and the rollup goroutine commit to.
LEMMA NextRollup ==
    ASSUME IInv, RollupInv, [Next]_vars
    PROVE  RollupInv'
<1>1. now' \in {now, now + 1} /\ now \in Nat
  BY LedgerAssumption DEF IInv, OtherType, Hours, Next, Step, vars, Begin, ReadTip, AppendStale,
     AppendRefused, AppendCommit, StoreError, IssueStarterGrant, SignedBalance, RollupRead,
     PutMerkleRoot, Tick, Crash
<1>2. \/ roots' = roots /\ (rollup' = rollup \/ rollup' = Idle)
      \/ RollupRead \/ PutMerkleRoot
  BY DEF Next, Step, vars, Begin, ReadTip, AppendStale, AppendRefused, AppendCommit, StoreError,
         IssueStarterGrant, SignedBalance, Tick, Crash
<1>3. RootIsPrefix'
  <2> SUFFICES ASSUME NEW h \in Hours, roots'[h] # NoRoot
               PROVE  h < now' /\ roots'[h] # {} /\ Covers(roots[h], h)'
    BY DEF RootIsPrefix, Covers, NoRoot
  <2>0. h \in Nat
    BY LedgerAssumption DEF Hours
  <2>1. CASE roots'[h] = roots[h]
    <3>1. h < now /\ roots[h] # {} /\ Covers(roots[h], h)
      BY <2>1 DEF RollupInv, RootIsPrefix, Covers
    <3>2. PICK S : S = roots[h]
      OBVIOUS
    <3>3. Covers(S, h)'
      BY <3>1, <3>2, CoversGrows
    <3>4. h < now'
      BY <1>1, <2>0, <3>1
    <3>5. Covers(roots[h], h)'
      BY <2>1, <3>2, <3>3 DEF Covers
    <3>6. QED BY <2>1, <3>1, <3>4, <3>5
  <2>2. CASE roots'[h] # roots[h]
    <3>1. PutMerkleRoot
      BY <1>2, <2>2 DEF RollupRead
    <3>2. h = rollup.hour /\ roots'[h] = rollup.leaves /\ rollup.pc = "put" /\ now' = now
      BY <2>2, <3>1 DEF PutMerkleRoot, IInv, OtherType
    <3>3. h < now /\ rollup.leaves # {} /\ Covers(rollup.leaves, h)
      BY <3>2 DEF RollupInv
    <3>4. PICK S : S = rollup.leaves
      OBVIOUS
    <3>5. Covers(S, h)'
      BY <3>3, <3>4, CoversGrows
    <3>6. QED BY <3>2, <3>3, <3>4, <3>5 DEF Covers
  <2>3. QED BY <2>1, <2>2
<1>4. ASSUME rollup'.pc = "put"
      PROVE  rollup'.hour < now' /\ rollup'.leaves # {} /\ Covers(rollup.leaves, rollup.hour)'
  <2>1. CASE rollup' = rollup
    <3>1. /\ rollup.hour < now /\ rollup.leaves # {} /\ Covers(rollup.leaves, rollup.hour)
          /\ rollup.hour \in Hours /\ rollup.hour \in Nat
      BY <1>4, <2>1, LedgerAssumption DEF RollupInv, IInv, OtherType, Hours
    <3>2. PICK S, h : S = rollup.leaves /\ h = rollup.hour
      OBVIOUS
    <3>3. Covers(S, h)'
      BY <3>1, <3>2, CoversGrows
    <3>4. S = rollup'.leaves /\ h = rollup'.hour
      BY <2>1, <3>2
    <3>5. Covers(rollup.leaves, rollup.hour)'
      BY <3>3, <3>4 DEF Covers
    <3>6. rollup'.hour < now' /\ rollup'.leaves # {}
      BY <1>1, <2>1, <3>1
    <3>7. QED BY <3>5, <3>6
  <2>2. CASE RollupRead
    <3>1. /\ rollup'.hour = now - 1 /\ rollup'.leaves = LeavesForHour(now - 1)
          /\ rollup'.leaves # {} /\ now' = now /\ entries' = entries
      BY <2>2 DEF RollupRead
    <3>2. LeavesForHour(now - 1) = {n \in 1..Len(entries) : entries[n].body.ts = now - 1}
      BY ChainGrows DEF LeavesForHour
    <3>3. Len(entries') \in 0..Len(entries') /\ Len(entries) \in Nat
      BY ChainGrows
    <3>4. QED BY <1>1, <3>1, <3>2, <3>3 DEF Covers
  <2>3. CASE PutMerkleRoot
    BY <1>4, <2>3 DEF PutMerkleRoot, IInv, OtherType
  <2>4. CASE rollup' = Idle
    BY <1>4, <2>4 DEF Idle
  <2>5. QED BY <1>2, <2>1, <2>2, <2>3, <2>4
<1>5. QED BY <1>3, <1>4 DEF RollupInv, Covers

\* A published root covers a closed hour and commits to a run of its entries in
\* chain order with none skipped, although the rollup takes no ledger lock.
THEOREM RootsCommitToPrefixes == Spec => []RootIsPrefix
<1>1. Init => RollupInv
  BY DEF Init, RollupInv, RootIsPrefix, Idle
<1>2. RollupInv => RootIsPrefix
  BY DEF RollupInv
<1>3. QED BY <1>1, <1>2, Invariance, NextRollup, PTL DEF Spec

\* The three together: what the run over racing, retrying and crashing appends checks holds for
\* any callers, amounts and column width, unless somebody is matched with its own request.
THEOREM BooksStaySound ==
    ASSUME NoSelfUsage
    PROVE  Spec => []BooksSound
<1>1. MovesExactly /\ NoOverdraft /\ SettledOnce => BooksSound
  BY DEF BooksSound
<1>2. QED BY <1>1, CreditsMoveExactly, NobodyOverdrawn, NothingSettledTwice, PTL

\* SignedBalance and RunRollupOnce, which take no ledger lock, report states the chain really had.
THEOREM ReadersSeeTheChain == Spec => []ReadsSound
<1>1. SnapshotAtTip /\ RootIsPrefix => ReadsSound
  BY DEF ReadsSound
<1>2. QED BY <1>1, SnapshotsAreConsistent, RootsCommitToPrefixes, PTL

-----------------------------------------------------------------------------
(* AdmissionLog, a specification of its own. *)

\* Every number of a set of file numbers is below some bound.
Bounded(S) == \E b \in Nat : \A n \in S : n <= b

Frames == [seq : Nat, ev : Events \cup {Mark, Torn}]
Cells == [Parties -> Seq(Halves)]

\* A file is a sequence of frames of which only those of events are numbered.
IsFile(s) == s \in Seq(Frames) /\ \A k \in DOMAIN s : s[k].ev \in Events <=> s[k].seq > 0

\* The files of the log.
LogShapes ==
    /\ lastSeq \in Nat
    /\ DOMAIN rotated \subseteq Nat /\ Bounded(DOMAIN rotated)
    /\ \A n \in DOMAIN rotated : IsFile(rotated[n])
    /\ IsFile(active)
    /\ synced \in 0..Len(active)
    /\ replaced \in BOOLEAN

Shapes ==
    /\ up \in {"run", "down", "failed"}
    /\ cell \in Cells
    /\ phase \in [Events -> {"new", "drawn", "logged", "half", "done", "lost"}]
    /\ seqOf \in [Events -> Nat] /\ nextSeq \in Nat
    /\ LogShapes
    /\ DOMAIN snaps \subseteq Nat /\ Bounded(DOMAIN snaps)
    /\ \A n \in DOMAIN snaps : snaps[n].cells \in Cells /\ snaps[n].whole = TRUE
    /\ emit \in [at : {"idle", "copy", "write", "rename", "prune"}, seq : Nat, cells : Cells,
                 left : SUBSET Parties]
    /\ stops \in 0..MaxStops /\ emitted \in 0..MaxSnapshots
    /\ acked \in SUBSET Events /\ calm \in BOOLEAN

\* The calls, the emitter and the process are where they can be together.
Phases ==
    /\ \A e \in Events : phase[e] = "drawn" => seqOf[e] > 0 /\ seqOf[e] <= nextSeq
    /\ \A e \in Events : phase[e] \in {"logged", "half"} => Kind[e] # "override"
    /\ \A e \in Events : phase[e] = "half" => Seeder[e] # None
    /\ emit.at \in {"write", "rename", "prune"} => emit.left = {}
    /\ up # "run" => InFlight = {} /\ emit.at = "idle" /\ stops > 0

\* What the log holds.
FramesOf(files, file) == (UNION {Range(files[n]) : n \in DOMAIN files}) \cup Range(file)
AllFrames == FramesOf(rotated, active)

\* Half h has been applied, by its call or by a replay.
Applied(h) == /\ phase[h[1]] \in {"half", "done", "lost"}
              /\ h[2] = "seeder" => phase[h[1]] # "half"

\* An event has one frame in the log at most.
OneFrameEach ==
    /\ \A k, l \in DOMAIN active : active[k].ev \in Events /\ active[k].ev = active[l].ev => k = l
    /\ \A n \in DOMAIN rotated : \A k, l \in DOMAIN rotated[n] :
          rotated[n][k].ev \in Events /\ rotated[n][k].ev = rotated[n][l].ev => k = l
    /\ \A n \in DOMAIN rotated : \A k \in DOMAIN rotated[n], l \in DOMAIN active :
          rotated[n][k].ev \in Events => rotated[n][k].ev # active[l].ev
    /\ \A m, n \in DOMAIN rotated : m # n => \A k \in DOMAIN rotated[m], l \in DOMAIN rotated[n] :
          rotated[m][k].ev \in Events => rotated[m][k].ev # rotated[n][l].ev

OneFrame ==
    /\ OneFrameEach
    /\ \A e \in Events : phase[e] \in {"new", "drawn"} => e \notin Logged

\* Cells, snapshots and the emitter's copies hold halves that have been applied.
OnlyApplied ==
    \A p \in Parties :
        /\ \A h \in Range(cell[p]) : Applied(h)
        /\ \A h \in Range(emit.cells[p]) : Applied(h)
        /\ \A n \in DOMAIN snaps : \A h \in Range(snaps[n].cells[p]) : Applied(h)

\* What the cells hold is in the log or in the newest snapshot, and would be in the next one.
Ahead ==
    up = "run" /\ ~replaced =>
        /\ \A p \in Parties : \A h \in Range(cell[p]) :
              \/ h[1] \in Logged
              \/ DOMAIN snaps # {} /\ h \in Range(snaps[Max(DOMAIN snaps)].cells[p])
        /\ emit.at # "idle" => \A p \in Parties \ emit.left : \A h \in Range(cell[p]) :
              h[1] \in Logged \/ h \in Range(emit.cells[p])
        /\ \A e \in Events : phase[e] \in {"logged", "half"} => e \in Logged

\* Disputes are synced from the moment they are logged.
Durable ==
    ~replaced => \A e \in Events :
        e \in acked \/ (Kind[e] \in Disputes /\ phase[e] = "logged") => OnDisk(e)

NoRepeats(s) == \A i, j \in DOMAIN s : s[i] = s[j] => i = j

\* The cells count every half once and miss none that is in the log.
Exact ==
    up = "run" /\ stops <= 1 /\ calm =>
        /\ \A p \in Parties : NoRepeats(cell[p])
        /\ \A e \in Events : phase[e] = "done" /\ e \in Logged =>
              \A p \in Parties : Range(Share(p, e)) \subseteq Range(cell[p])
        /\ \A e \in Events : phase[e] = "half" => <<e, "consumer">> \in Range(cell[Consumer[e]])

\* c is p's part of a snapshot numbered n, when the log has these frames and the calls are at q.
Covered(c, p, n, frames, q) ==
    /\ NoRepeats(c)
    /\ \A h \in Range(c) : \A f \in frames : f.ev = h[1] => f.seq <= n
    /\ \A f \in frames : f.ev \in Events /\ f.seq <= n =>
          /\ q[f.ev] \notin {"logged", "half"}
          /\ q[f.ev] = "done" => Range(Share(p, f.ev)) \subseteq Range(c)
SnapCovers(c, p, n) == Covered(c, p, n, AllFrames, phase)

\* The rotated files have no torn frame.
NoneTorn == \A n \in DOMAIN rotated : \A k \in DOMAIN rotated[n] : rotated[n][k].ev # Torn

\* Until the first replay, snapshots hold the frames they are numbered to cover, and no others.
FirstLife ==
    calm /\ (stops = 0 \/ (stops = 1 /\ up = "down")) =>
        /\ \A n \in DOMAIN snaps : \A p \in Parties : SnapCovers(snaps[n].cells[p], p, n)
        /\ NoneTorn
        /\ \A k \in DOMAIN active : active[k].ev = Torn => k = Len(active) /\ up = "down"
        /\ up = "run" =>
              /\ \A f \in AllFrames : f.seq <= lastSeq
              /\ lastSeq <= nextSeq
              /\ \A n \in DOMAIN snaps : n <= lastSeq
              /\ emit.seq <= lastSeq
              /\ \A e \in Events : phase[e] = "drawn" =>
                    /\ \A n \in DOMAIN snaps : seqOf[e] > n
                    /\ emit.at # "idle" => seqOf[e] > emit.seq
              /\ emit.at = "copy" => InFlight = {} /\ emit.seq = lastSeq
              /\ emit.at \in {"copy", "write", "rename"} =>
                    \A p \in Parties \ emit.left : SnapCovers(emit.cells[p], p, emit.seq)

LogIInv == Shapes /\ Phases /\ OneFrame /\ OnlyApplied /\ Ahead /\ Durable /\ Exact /\ FirstLife

-----------------------------------------------------------------------------
(* Bounds and flattened sequences. *)

\* A non-empty set of naturals has a least element.
LEMMA NatMin ==
  ASSUME NEW S \in SUBSET Nat, S # {}
  PROVE  \E x \in S : \A y \in S : x <= y
<1> DEFINE R == {ss \in Nat \X Nat : ss[1] < ss[2]}
<1>1. IsWellFoundedOn(R, Nat)
  BY NatLessThanWellFounded, Zenon DEF OpToRel
<1> HIDE DEF R
<1>2. PICK x \in S : \A y \in S : ~ (<<y, x>> \in R)
  BY <1>1, WFMin, Zenon
<1>3. \A y \in S : x <= y
  <2> TAKE y \in S
  <2>1. x \in Nat /\ y \in Nat OBVIOUS
  <2>2. <<y, x>> \in Nat \X Nat /\ <<y, x>>[1] = y /\ <<y, x>>[2] = x BY <2>1
  <2>3. y < x => <<y, x>> \in R BY <2>2 DEF R
  <2>4. ~ (y < x) BY <1>2, <2>3
  <2>5. QED BY <2>1, <2>4
<1>4. QED BY <1>3

\* Max is what it says on a bounded set of naturals.
LEMMA MaxIs ==
  ASSUME NEW S \in SUBSET Nat, S # {}, Bounded(S)
  PROVE  /\ Max(S) \in S
         /\ \A y \in S : y <= Max(S)
<1> DEFINE U == {b \in Nat : \A n \in S : n <= b}
<1>1. U \in SUBSET Nat /\ U # {} BY DEF Bounded
<1>2. PICK b \in U : \A c \in U : b <= c
  <2> HIDE DEF U
  <2>1. QED BY <1>1, NatMin
<1>3. b \in S
  <2> SUFFICES ASSUME b \notin S PROVE FALSE OBVIOUS
  <2>1. PICK n \in S : TRUE OBVIOUS
  <2>2. n \in Nat /\ n <= b /\ n # b BY <1>2
  <2>3. b - 1 \in Nat BY <2>2
  <2>4. \A m \in S : m <= b - 1
    <3> TAKE m \in S
    <3>1. m \in Nat /\ m <= b /\ m # b BY <1>2
    <3>2. QED BY <3>1
  <2>5. b - 1 \in U BY <2>3, <2>4
  <2>6. QED BY <1>2, <2>5
<1>4. \A y \in S : b >= y BY <1>2
<1>5. \E x \in S : \A y \in S : x >= y BY <1>3, <1>4
<1>6. Max(S) \in S /\ \A y \in S : Max(S) >= y BY <1>5 DEF Max
<1>7. QED BY <1>6

Flat(seqs, g) == g = [i \in 1..Len(seqs) |-> IF i = 1 THEN seqs[i] ELSE g[i - 1] \o seqs[i]]

\* FlattenSeq is the last of the partial concatenations, if they exist.
LEMMA FlattenIs ==
  ASSUME NEW seqs, Len(seqs) # 0, \E g : Flat(seqs, g)
  PROVE  \E g : Flat(seqs, g) /\ FlattenSeq(seqs) = g[Len(seqs)]
BY DEF FlattenSeq, Flat

\* They do: those of the first n parts extend to one part more.
LEMMA FlatExists ==
  ASSUME NEW S, NEW seqs \in Seq(Seq(S))
  PROVE  \E g \in [1..Len(seqs) -> Seq(S)] : Flat(seqs, g)
<1> DEFINE N == Len(seqs)
           RHS(g, i) == IF i = 1 THEN seqs[i] ELSE g[i - 1] \o seqs[i]
           Upto(g, n) == \A i \in 1..N : i <= n => g[i] = RHS(g, i)
           Bad == {n \in Nat : \A g \in [1..N -> Seq(S)] : ~ Upto(g, n)}
<1>1. N \in Nat /\ \A i \in 1..N : seqs[i] \in Seq(S) OBVIOUS
<1>2. ASSUME NEW g \in [1..N -> Seq(S)], NEW i \in 1..N PROVE RHS(g, i) \in Seq(S)
  <2>1. CASE i = 1 BY <1>1, <2>1
  <2>2. CASE i # 1
    <3>1. i - 1 \in 1..N BY <1>1, <2>2
    <3>2. g[i - 1] \in Seq(S) BY <3>1
    <3>3. QED BY <1>1, <2>2, <3>2
  <2>3. QED BY <2>1, <2>2
<1>3. Bad = {}
  <2> SUFFICES ASSUME Bad # {} PROVE FALSE OBVIOUS
  <2>1. PICK n \in Bad : \A m \in Bad : n <= m
    <3>1. Bad \in SUBSET Nat OBVIOUS
    <3> HIDE DEF Bad
    <3>2. QED BY <3>1, NatMin
  <2>2. CASE n = 0
    <3> DEFINE g == [i \in 1..N |-> <<>>]
    <3>1. g \in [1..N -> Seq(S)] OBVIOUS
    <3>2. Upto(g, 0) BY <1>1
    <3>3. QED BY <2>1, <2>2, <3>1, <3>2
  <2>3. CASE n # 0
    <3>1. n \in Nat OBVIOUS
    <3>2. n - 1 \in Nat /\ n - 1 \notin Bad
      <4> HIDE DEF Bad
      <4>1. QED BY <2>1, <2>3, <3>1
    <3>3. PICK g \in [1..N -> Seq(S)] : Upto(g, n - 1) BY <3>2
    <3> DEFINE h == [i \in 1..N |-> RHS(g, i)]
    <3>4. h \in [1..N -> Seq(S)] BY <1>2
    <3>5. ASSUME NEW i \in 1..N, i <= n PROVE h[i] = RHS(h, i)
      <4>1. CASE i = 1 BY <4>1
      <4>2. CASE i # 1
        <5>1. i - 1 \in 1..N /\ i - 1 <= n - 1 BY <1>1, <3>1, <3>5, <4>2
        <5>2. g[i - 1] = RHS(g, i - 1) BY <3>3, <5>1
        <5>3. h[i - 1] = g[i - 1] BY <5>1, <5>2
        <5>4. QED BY <4>2, <5>3
      <4>3. QED BY <4>1, <4>2
    <3> HIDE DEF h
    <3>6. QED BY <2>1, <3>4, <3>5
  <2>4. QED BY <2>2, <2>3
<1>4. PICK g \in [1..N -> Seq(S)] : Upto(g, N) BY <1>1, <1>3
<1>5. \A i \in 1..N : g[i] = RHS(g, i)
  <2> TAKE i \in 1..N
  <2>1. i <= N BY <1>1
  <2> HIDE DEF N
  <2>2. QED BY <1>4, <2>1
<1>6. g = [i \in 1..N |-> RHS(g, i)] BY <1>5
<1>7. QED BY <1>6 DEF Flat

\* s has an element whose key is in K at one place only.
OnceBy(s, key, K) == \A i, j \in DOMAIN s : key[s[i]] \in K /\ key[s[i]] = key[s[j]] => i = j

\* No two parts share such a key.
Apart(seqs, key, K) ==
    \A a, b \in DOMAIN seqs : a # b =>
        \A i \in DOMAIN seqs[a], j \in DOMAIN seqs[b] :
            key[seqs[a][i]] \in K => key[seqs[a][i]] # key[seqs[b][j]]

\* Concatenation keeps keys apart.
LEMMA OnceConcat ==
  ASSUME NEW S, NEW s \in Seq(S), NEW t \in Seq(S), NEW key, NEW K,
         OnceBy(s, key, K), OnceBy(t, key, K),
         \A x \in Range(s), y \in Range(t) : key[x] \in K => key[x] # key[y]
  PROVE  OnceBy(s \o t, key, K)
<1> SUFFICES ASSUME NEW i \in DOMAIN (s \o t), NEW j \in DOMAIN (s \o t),
                    key[(s \o t)[i]] \in K, key[(s \o t)[i]] = key[(s \o t)[j]]
             PROVE  i = j
  BY DEF OnceBy
<1>1. /\ s \o t \in Seq(S) /\ Len(s \o t) = Len(s) + Len(t) /\ Len(s) \in Nat /\ Len(t) \in Nat
      /\ DOMAIN s = 1..Len(s) /\ DOMAIN t = 1..Len(t) /\ DOMAIN (s \o t) = 1..(Len(s) + Len(t))
      /\ \A k \in 1..(Len(s) + Len(t)) : (s \o t)[k] = IF k <= Len(s) THEN s[k] ELSE t[k - Len(s)]
  BY ConcatProperties
<1>2. \A k \in 1..Len(s) : s[k] \in Range(s) BY <1>1 DEF Range
<1>3. \A k \in 1..Len(t) : t[k] \in Range(t) BY <1>1 DEF Range
<1>4. CASE i <= Len(s) /\ j <= Len(s)
  <2>1. i \in DOMAIN s /\ j \in DOMAIN s /\ (s \o t)[i] = s[i] /\ (s \o t)[j] = s[j] BY <1>1, <1>4
  <2>2. QED BY <2>1 DEF OnceBy
<1>5. CASE ~ (i <= Len(s)) /\ ~ (j <= Len(s))
  <2>1. i - Len(s) \in DOMAIN t /\ j - Len(s) \in DOMAIN t BY <1>1, <1>5
  <2>2. (s \o t)[i] = t[i - Len(s)] /\ (s \o t)[j] = t[j - Len(s)] BY <1>1, <1>5
  <2>3. i - Len(s) = j - Len(s) BY <2>1, <2>2 DEF OnceBy
  <2>4. QED BY <1>1, <2>3
<1>6. CASE i <= Len(s) /\ ~ (j <= Len(s))
  <2>1. i \in 1..Len(s) /\ j - Len(s) \in 1..Len(t) BY <1>1, <1>6
  <2>2. (s \o t)[i] = s[i] /\ (s \o t)[j] = t[j - Len(s)] BY <1>1, <1>6
  <2>3. QED BY <1>2, <1>3, <2>1, <2>2
<1>7. CASE ~ (i <= Len(s)) /\ j <= Len(s)
  <2>1. j \in 1..Len(s) /\ i - Len(s) \in 1..Len(t) BY <1>1, <1>7
  <2>2. (s \o t)[j] = s[j] /\ (s \o t)[i] = t[i - Len(s)] BY <1>1, <1>7
  <2>3. QED BY <1>2, <1>3, <2>1, <2>2
<1>8. QED BY <1>4, <1>5, <1>6, <1>7

\* FlattenSeq has the elements of the parts, and keeps their keys apart.
LEMMA FlattenFacts ==
  ASSUME NEW S, NEW seqs \in Seq(Seq(S))
  PROVE  /\ FlattenSeq(seqs) \in Seq(S)
         /\ Range(FlattenSeq(seqs)) = UNION {Range(seqs[a]) : a \in DOMAIN seqs}
         /\ \A key, K : (\A a \in DOMAIN seqs : OnceBy(seqs[a], key, K)) /\ Apart(seqs, key, K)
                        => OnceBy(FlattenSeq(seqs), key, K)
<1> DEFINE N == Len(seqs)
<1>0. N \in Nat /\ DOMAIN seqs = 1..N /\ \A i \in 1..N : seqs[i] \in Seq(S) OBVIOUS
<1>1. CASE N = 0
  <2>1. seqs = <<>> /\ FlattenSeq(seqs) = <<>> BY <1>1 DEF FlattenSeq
  <2>2. DOMAIN seqs = {} /\ DOMAIN FlattenSeq(seqs) = {} BY <1>0, <1>1, <2>1
  <2>3. Range(FlattenSeq(seqs)) = {} BY <2>2 DEF Range
  <2>4. \A key, K : OnceBy(FlattenSeq(seqs), key, K) BY <2>2 DEF OnceBy
  <2>5. UNION {Range(seqs[a]) : a \in DOMAIN seqs} = {} BY <2>2
  <2>6. FlattenSeq(seqs) \in Seq(S)
    <3>1. <<>> \in Seq(S) OBVIOUS
    <3>2. QED BY <2>1, <3>1, Zenon
  <2>7. QED BY <2>3, <2>4, <2>5, <2>6
<1>2. CASE N # 0
  <2>1. PICK g0 \in [1..N -> Seq(S)] : Flat(seqs, g0) BY FlatExists
  <2>2. PICK g : Flat(seqs, g) /\ FlattenSeq(seqs) = g[N] BY <1>2, <2>1, FlattenIs
  <2>3. \A i \in 1..N : g[i] = IF i = 1 THEN seqs[i] ELSE g[i - 1] \o seqs[i] BY <2>2 DEF Flat
  <2> DEFINE Good(n) ==
        /\ g[n] \in Seq(S)
        /\ Range(g[n]) = UNION {Range(seqs[a]) : a \in 1..n}
        /\ \A key, K : (\A a \in DOMAIN seqs : OnceBy(seqs[a], key, K)) /\ Apart(seqs, key, K)
                       => OnceBy(g[n], key, K)
      Bad == {n \in 1..N : ~ Good(n)}
  <2>4. Bad = {}
    <3> SUFFICES ASSUME Bad # {} PROVE FALSE OBVIOUS
    <3>1. PICK n \in Bad : \A m \in Bad : n <= m
      <4>1. Bad \in SUBSET Nat OBVIOUS
      <4> HIDE DEF Bad
      <4>2. QED BY <4>1, NatMin
    <3>2. n \in 1..N OBVIOUS
    <3>3. CASE n = 1
      <4>1. g[1] = seqs[1] BY <2>3, <3>2, <3>3
      <4>2. 1..1 = {1} OBVIOUS
      <4>3. seqs[1] \in Seq(S) /\ 1 \in DOMAIN seqs BY <1>0, <3>2, <3>3
      <4>4. UNION {Range(seqs[a]) : a \in 1..1} = Range(seqs[1]) BY <4>2
      <4>5. Good(1) BY <4>1, <4>3, <4>4
      <4>6. QED BY <3>1, <3>3, <4>5
    <3>4. CASE n # 1
      <4>1. n - 1 \in 1..N /\ n \in 1..N BY <1>0, <3>2, <3>4
      <4>2. Good(n - 1)
        <5>1. ~ (n <= n - 1) BY <4>1
        <5>2. n - 1 \notin Bad BY <3>1, <5>1
        <5>3. QED BY <4>1, <5>2
      <4>3. g[n] = g[n - 1] \o seqs[n] BY <2>3, <3>2, <3>4
      <4>4. seqs[n] \in Seq(S) BY <1>0, <4>1
      <4>5. g[n] \in Seq(S) /\ Range(g[n]) = Range(g[n - 1]) \cup Range(seqs[n])
        BY <4>2, <4>3, <4>4, RangeConcatenation
      <4>6. Range(g[n]) = UNION {Range(seqs[a]) : a \in 1..n}
        <5>1. 1..n = 1..(n - 1) \cup {n}
          <6>1. n \in Nat /\ n >= 1 BY <4>1
          <6>2. \A a : a \in 1..n <=> a \in 1..(n - 1) \/ a = n BY <6>1
          <6>3. QED BY <6>2
        <5>2. QED BY <4>2, <4>5, <5>1
      <4>7. ASSUME NEW key, NEW K, \A a \in DOMAIN seqs : OnceBy(seqs[a], key, K), Apart(seqs, key, K)
            PROVE  OnceBy(g[n], key, K)
        <5>1. OnceBy(g[n - 1], key, K) /\ OnceBy(seqs[n], key, K) BY <1>0, <4>1, <4>2, <4>7
        <5>2. ASSUME NEW x \in Range(g[n - 1]), NEW y \in Range(seqs[n]), key[x] \in K
              PROVE  key[x] # key[y]
          <6>1. PICK a \in 1..(n - 1) : x \in Range(seqs[a]) BY <4>2
          <6>2. a \in DOMAIN seqs /\ n \in DOMAIN seqs /\ a # n BY <1>0, <4>1, SMTT(60)
          <6>3. PICK i \in DOMAIN seqs[a] : x = seqs[a][i] BY <6>1 DEF Range
          <6>4. PICK j \in DOMAIN seqs[n] : y = seqs[n][j] BY DEF Range
          <6>5. QED BY <4>7, <5>2, <6>2, <6>3, <6>4 DEF Apart
        <5>3. g[n - 1] \in Seq(S) BY <4>2
        <5> HIDE DEF Good
        <5>4. QED BY <4>3, <4>4, <5>1, <5>2, <5>3, OnceConcat
      <4>8. Good(n) BY <4>5, <4>6, <4>7
      <4>9. QED BY <3>1, <4>8
    <3>5. QED BY <3>3, <3>4
  <2>5. N \in 1..N BY <1>0, <1>2
  <2>6. Good(N) BY <2>4, <2>5
  <2>7. QED BY <1>0, <2>2, <2>6
<1>3. QED BY <1>1, <1>2

-----------------------------------------------------------------------------
(* The log grows by a frame. *)

\* A file and a frame more.
LEMMA FilePlus ==
  ASSUME NEW s, IsFile(s), NEW f \in Frames, f.ev \in Events <=> f.seq > 0
  PROVE  /\ IsFile(Append(s, f))
         /\ Len(s) \in Nat /\ DOMAIN s = 1..Len(s)
         /\ Len(Append(s, f)) = Len(s) + 1 /\ DOMAIN Append(s, f) = 1..(Len(s) + 1)
         /\ \A k \in 1..Len(s) : Append(s, f)[k] = s[k]
         /\ Append(s, f)[Len(s) + 1] = f
         /\ Range(Append(s, f)) = Range(s) \cup {f}
<1> DEFINE t == Append(s, f)
<1>1. s \in Seq(Frames) BY DEF IsFile
<1>2. /\ t \in Seq(Frames) /\ Len(s) \in Nat /\ DOMAIN s = 1..Len(s) /\ Len(t) = Len(s) + 1
      /\ DOMAIN t = 1..(Len(s) + 1) /\ (\A k \in 1..Len(s) : t[k] = s[k]) /\ t[Len(s) + 1] = f
  BY <1>1, AppendProperties
<1> HIDE DEF t
<1>3. \A k \in DOMAIN t : k \in 1..Len(s) \/ k = Len(s) + 1 BY <1>2
<1>4. IsFile(t)
  <2> SUFFICES ASSUME NEW k \in DOMAIN t PROVE t[k].ev \in Events <=> t[k].seq > 0 BY <1>2 DEF IsFile
  <2>1. CASE k \in 1..Len(s) BY <1>2, <2>1 DEF IsFile
  <2>2. CASE k = Len(s) + 1 BY <1>2, <2>2
  <2>3. QED BY <1>3, <2>1, <2>2
<1>5. Range(t) = Range(s) \cup {f}
  <2>1. Len(s) + 1 \in DOMAIN t /\ \A k \in 1..Len(s) : k \in DOMAIN t BY <1>2
  <2>2. QED BY <1>2, <1>3, <2>1 DEF Range
<1>6. QED BY <1>2, <1>4, <1>5 DEF t

\* What a new frame f does to the log, rotation included.
Added(f) ==
    /\ LogShapes'
    /\ lastSeq' >= lastSeq /\ lastSeq' >= f.seq /\ lastSeq' \in {lastSeq, f.seq}
    /\ AllFrames' \subseteq AllFrames \cup {f}
    /\ ~ replaced' => /\ ~ replaced
                      /\ Logged \cup {f.ev} \subseteq Logged'
                      /\ \A e \in Events : OnDisk(e) => OnDisk(e)'
    /\ OneFrameEach /\ (f.ev \in Events => f.ev \notin Logged) => OneFrameEach'
    /\ NoneTorn /\ (\A k \in DOMAIN active : active[k].ev # Torn) /\ f.ev # Torn =>
          NoneTorn' /\ \A k \in DOMAIN active' : active'[k].ev # Torn

\* The frames of files are the frames of one of them.
LEMMA FramesIn ==
  \A files, file, g :
     g \in FramesOf(files, file) <=> (\E n \in DOMAIN files : g \in Range(files[n])) \/ g \in Range(file)
<1> TAKE files, file, g
<1> DEFINE older == UNION {Range(files[n]) : n \in DOMAIN files}
<1>1. g \in older <=> \E n \in DOMAIN files : g \in Range(files[n]) OBVIOUS
<1>2. FramesOf(files, file) = older \cup Range(file) BY DEF FramesOf
<1> HIDE DEF older
<1>3. QED BY <1>1, <1>2

\* What is logged is the events of the frames.
LEMMA LoggedIs ==
  /\ Logged = {f.ev : f \in AllFrames}
  /\ \A n \in DOMAIN rotated : \A k \in DOMAIN rotated[n] : rotated[n][k].ev \in Logged
  /\ \A k \in DOMAIN active : active[k].ev \in Logged
<1>1. Logged = {f.ev : f \in AllFrames} BY DEF Logged, AllFrames, FramesOf
<1>2. ASSUME NEW n \in DOMAIN rotated, NEW k \in DOMAIN rotated[n] PROVE rotated[n][k].ev \in Logged
  <2>1. rotated[n][k] \in Range(rotated[n]) BY DEF Range
  <2>2. rotated[n][k] \in AllFrames BY <2>1, FramesIn DEF AllFrames
  <2>3. QED BY <1>1, <2>2
<1>3. ASSUME NEW k \in DOMAIN active PROVE active[k].ev \in Logged
  <2>1. active[k] \in Range(active) BY DEF Range
  <2>2. active[k] \in AllFrames BY <2>1, FramesIn DEF AllFrames
  <2>3. QED BY <1>1, <2>2
<1>4. QED BY <1>1, <1>2, <1>3

\* The frame is written behind the others.
LEMMA AddedBehind ==
  ASSUME LogShapes, NEW f \in Frames, f.ev \in Events <=> f.seq > 0,
         lastSeq' = IF f.seq > lastSeq THEN f.seq ELSE lastSeq,
         active' = Append(active, f), synced' \in {synced, Len(active) + 1},
         rotated' = rotated, replaced' = replaced
  PROVE  Added(f)
<1>1. PICK s : s = active OBVIOUS
<1>2. PICK t : t = Append(s, f) OBVIOUS
<1>3. IsFile(s) BY <1>1 DEF LogShapes
<1>4. /\ IsFile(t) /\ Len(s) \in Nat /\ DOMAIN s = 1..Len(s)
      /\ Len(t) = Len(s) + 1 /\ DOMAIN t = 1..(Len(s) + 1)
      /\ \A k \in 1..Len(s) : t[k] = s[k]
      /\ t[Len(s) + 1] = f
      /\ Range(t) = Range(s) \cup {f}
  BY <1>2, <1>3, FilePlus
<1>5. active = s /\ active' = t BY <1>1, <1>2
<1>6. f.seq \in Nat /\ lastSeq \in Nat BY DEF Frames, LogShapes
<1>7. synced \in 0..Len(s) /\ synced' \in 0..Len(t) /\ synced' >= synced BY <1>4, <1>5 DEF LogShapes
<1>8. LogShapes' BY <1>4, <1>5, <1>6, <1>7 DEF LogShapes
<1>9. lastSeq' >= lastSeq /\ lastSeq' >= f.seq /\ lastSeq' \in {lastSeq, f.seq} BY <1>6
<1>10. AllFrames' = AllFrames \cup {f}
  <2>1. \A g : g \in AllFrames' <=> g \in AllFrames \/ g = f BY <1>4, <1>5, FramesIn DEF AllFrames
  <2>2. QED BY <2>1
<1>11. Logged' = Logged \cup {f.ev}
  <2>1. Logged' = {g.ev : g \in AllFrames'} BY DEF Logged, AllFrames, FramesOf
  <2>2. QED BY <1>10, <2>1, LoggedIs
<1>12. ASSUME NEW e \in Events, OnDisk(e) PROVE OnDisk(e)'
  <2>1. \A k \in 1..synced : k \in 1..synced' /\ t[k] = s[k] BY <1>4, <1>7
  <2>2. QED BY <1>5, <1>12, <2>1 DEF OnDisk
<1>13. ASSUME OneFrameEach, f.ev \in Events => f.ev \notin Logged PROVE OneFrameEach'
  <2>1. \A k \in DOMAIN s : s[k].ev \in Logged BY <1>5, LoggedIs
  <2>2. \A n \in DOMAIN rotated : \A k \in DOMAIN rotated[n] : rotated[n][k].ev \in Logged BY LoggedIs
  <2>3. \A k \in DOMAIN t : k \in DOMAIN s \/ k = Len(s) + 1 BY <1>4
  <2>4. ASSUME NEW k \in DOMAIN t, NEW l \in DOMAIN t, t[k].ev \in Events, t[k].ev = t[l].ev PROVE k = l
    <3>1. CASE k \in DOMAIN s /\ l \in DOMAIN s
      <4>1. t[k] = s[k] /\ t[l] = s[l] BY <1>4, <3>1
      <4>2. QED BY <1>5, <1>13, <2>4, <3>1, <4>1 DEF OneFrameEach
    <3>2. CASE k \in DOMAIN s /\ l = Len(s) + 1
      <4>1. t[k] = s[k] /\ t[l] = f BY <1>4, <3>2
      <4>2. QED BY <1>13, <2>1, <2>4, <3>2, <4>1
    <3>3. CASE l \in DOMAIN s /\ k = Len(s) + 1
      <4>1. t[l] = s[l] /\ t[k] = f BY <1>4, <3>3
      <4>2. QED BY <1>13, <2>1, <2>4, <3>3, <4>1
    <3>4. QED BY <2>3, <3>1, <3>2, <3>3
  <2>5. ASSUME NEW n \in DOMAIN rotated, NEW k \in DOMAIN rotated[n], NEW l \in DOMAIN t,
               rotated[n][k].ev \in Events
        PROVE  rotated[n][k].ev # t[l].ev
    <3>1. CASE l \in DOMAIN s
      <4>1. t[l] = s[l] BY <1>4, <3>1
      <4>2. QED BY <1>5, <1>13, <2>5, <3>1, <4>1 DEF OneFrameEach
    <3>2. CASE l = Len(s) + 1
      <4>1. t[l] = f BY <1>4, <3>2
      <4>2. QED BY <1>13, <2>2, <2>5, <4>1
    <3>3. QED BY <2>3, <3>1, <3>2
  <2>6. QED BY <1>5, <1>13, <2>4, <2>5 DEF OneFrameEach
<1>14. ASSUME NoneTorn, \A k \in DOMAIN active : active[k].ev # Torn, f.ev # Torn
       PROVE  NoneTorn' /\ \A k \in DOMAIN active' : active'[k].ev # Torn
  <2>1. \A k \in DOMAIN t : k \in DOMAIN s \/ k = Len(s) + 1 BY <1>4
  <2>2. \A k \in DOMAIN t : t[k].ev # Torn BY <1>4, <1>5, <1>14, <2>1
  <2>3. QED BY <1>5, <1>14, <2>2 DEF NoneTorn
<1>15. QED BY <1>8, <1>9, <1>10, <1>11, <1>12, <1>13, <1>14 DEF Added

\* The file that the frame fills is rotated.
LEMMA AddedRotated ==
  ASSUME LogShapes, NEW f \in Frames, f.ev \in Events <=> f.seq > 0,
         lastSeq' = IF f.seq > lastSeq THEN f.seq ELSE lastSeq,
         rotated' = Put(rotated, lastSeq', Append(active, f)), active' = <<>>, synced' = 0,
         replaced' = (replaced \/ lastSeq' \in DOMAIN rotated)
  PROVE  /\ Added(f)
         /\ ~ replaced' => OnDisk(f.ev)'
<1>1. PICK s : s = active OBVIOUS
<1>2. PICK t : t = Append(s, f) OBVIOUS
<1>3. IsFile(s) BY <1>1 DEF LogShapes
<1>4. /\ IsFile(t) /\ Len(s) \in Nat /\ DOMAIN s = 1..Len(s)
      /\ Len(t) = Len(s) + 1 /\ DOMAIN t = 1..(Len(s) + 1)
      /\ \A k \in 1..Len(s) : t[k] = s[k]
      /\ t[Len(s) + 1] = f
      /\ Range(t) = Range(s) \cup {f}
  BY <1>2, <1>3, FilePlus
<1>5. active = s /\ active' = <<>> BY <1>1, <1>2
<1>6. f.seq \in Nat /\ lastSeq \in Nat BY DEF Frames, LogShapes
<1>7. PICK n0 \in Nat : n0 = lastSeq' BY <1>6
<1>8. /\ DOMAIN rotated' = DOMAIN rotated \cup {n0}
      /\ rotated'[n0] = t
      /\ \A n \in DOMAIN rotated : n # n0 => rotated'[n] = rotated[n]
  BY <1>1, <1>2, <1>7 DEF Put
<1>9. Bounded(DOMAIN rotated')
  <2>1. PICK b \in Nat : \A n \in DOMAIN rotated : n <= b BY DEF LogShapes, Bounded
  <2>2. DOMAIN rotated \subseteq Nat BY DEF LogShapes
  <2>3. \A n \in DOMAIN rotated' : n <= b + n0 BY <1>8, <2>1, <2>2
  <2>4. b + n0 \in Nat OBVIOUS
  <2>5. QED BY <2>3, <2>4 DEF Bounded
<1>10. <<>> \in Seq(Frames) /\ DOMAIN <<>> = {} /\ Len(<<>>) = 0 OBVIOUS
<1>11. IsFile(<<>>) BY <1>10 DEF IsFile
<1>12. LogShapes'
  <2>1. \A n \in DOMAIN rotated' : n \in Nat /\ IsFile(rotated'[n]) BY <1>4, <1>8 DEF LogShapes
  <2>2. replaced' \in BOOLEAN BY DEF LogShapes
  <2>3. synced' \in 0..Len(active') BY <1>5, <1>10
  <2>4. QED BY <1>5, <1>7, <1>9, <1>11, <2>1, <2>2, <2>3 DEF LogShapes
<1>13. lastSeq' >= lastSeq /\ lastSeq' >= f.seq /\ lastSeq' \in {lastSeq, f.seq} BY <1>6
<1>14. Range(active') = {}
  <2>1. DOMAIN active' = {} BY <1>5, <1>10
  <2>2. QED BY <2>1 DEF Range
<1>15. AllFrames' \subseteq AllFrames \cup {f}
  <2> SUFFICES ASSUME NEW g \in AllFrames' PROVE g \in AllFrames \cup {f} OBVIOUS
  <2>1. PICK n \in DOMAIN rotated' : g \in Range(rotated'[n]) BY <1>14, FramesIn DEF AllFrames
  <2>2. CASE n = n0 BY <1>4, <1>5, <1>8, <2>1, <2>2, FramesIn DEF AllFrames
  <2>3. CASE n # n0
    <3>1. n \in DOMAIN rotated /\ g \in Range(rotated[n]) BY <1>8, <2>1, <2>3
    <3>2. QED BY <3>1, FramesIn DEF AllFrames
  <2>4. QED BY <2>2, <2>3
<1>16. ASSUME ~ replaced'
       PROVE  /\ ~ replaced
              /\ Logged \cup {f.ev} \subseteq Logged'
              /\ \A e \in Events : OnDisk(e) => OnDisk(e)'
              /\ OnDisk(f.ev)'
  <2>1. ~ replaced /\ n0 \notin DOMAIN rotated BY <1>7, <1>16
  <2>2. \A n \in DOMAIN rotated : rotated'[n] = rotated[n] /\ n \in DOMAIN rotated' BY <1>8, <2>1
  <2>3. AllFrames \cup {f} \subseteq AllFrames'
    <3>1. \A g \in Range(s) \cup {f} : g \in AllFrames' BY <1>4, <1>8, FramesIn DEF AllFrames
    <3>2. ASSUME NEW n \in DOMAIN rotated, NEW g \in Range(rotated[n]) PROVE g \in AllFrames'
      BY <2>2, FramesIn DEF AllFrames
    <3>3. QED BY <1>5, <3>1, <3>2, FramesIn DEF AllFrames
  <2>4. Logged \cup {f.ev} \subseteq Logged'
    <3>1. Logged' = {g.ev : g \in AllFrames'} BY DEF Logged, AllFrames, FramesOf
    <3>2. QED BY <2>3, <3>1, LoggedIs
  <2>5. ASSUME NEW g \in Range(t) PROVE OnDisk(g.ev)' BY <1>8, <2>5 DEF OnDisk
  <2>6. ASSUME NEW e \in Events, OnDisk(e) PROVE OnDisk(e)'
    <3>1. CASE e \in {active[k].ev : k \in 1..synced}
      <4>1. PICK k \in 1..synced : e = s[k].ev BY <1>5, <3>1
      <4>2. k \in DOMAIN s BY <1>4, <1>5 DEF LogShapes
      <4>3. s[k] \in Range(t) BY <1>4, <4>2 DEF Range
      <4>4. QED BY <2>5, <4>1, <4>3
    <3>2. CASE e \in UNION {{g.ev : g \in Range(rotated[n])} : n \in DOMAIN rotated}
      <4>1. PICK n \in DOMAIN rotated : e \in {g.ev : g \in Range(rotated[n])} BY <3>2
      <4>2. QED BY <2>2, <4>1 DEF OnDisk
    <3>3. QED BY <2>6, <3>1, <3>2 DEF OnDisk
  <2>7. OnDisk(f.ev)' BY <1>4, <2>5
  <2>8. QED BY <2>1, <2>4, <2>6, <2>7
<1>17. ASSUME OneFrameEach, f.ev \in Events => f.ev \notin Logged PROVE OneFrameEach'
  <2>1. \A k \in DOMAIN s : s[k].ev \in Logged BY <1>5, LoggedIs
  <2>2. \A n \in DOMAIN rotated : \A k \in DOMAIN rotated[n] : rotated[n][k].ev \in Logged BY LoggedIs
  <2>3. \A k \in DOMAIN t : k \in DOMAIN s \/ k = Len(s) + 1 BY <1>4
  <2>4. ASSUME NEW k \in DOMAIN t, NEW l \in DOMAIN t, t[k].ev \in Events, t[k].ev = t[l].ev PROVE k = l
    <3>1. CASE k \in DOMAIN s /\ l \in DOMAIN s
      <4>1. t[k] = s[k] /\ t[l] = s[l] BY <1>4, <3>1
      <4>2. QED BY <1>5, <1>17, <2>4, <3>1, <4>1 DEF OneFrameEach
    <3>2. CASE k \in DOMAIN s /\ l = Len(s) + 1
      <4>1. t[k] = s[k] /\ t[l] = f BY <1>4, <3>2
      <4>2. QED BY <1>17, <2>1, <2>4, <3>2, <4>1
    <3>3. CASE l \in DOMAIN s /\ k = Len(s) + 1
      <4>1. t[l] = s[l] /\ t[k] = f BY <1>4, <3>3
      <4>2. QED BY <1>17, <2>1, <2>4, <3>3, <4>1
    <3>4. QED BY <2>3, <3>1, <3>2, <3>3
  <2>5. ASSUME NEW n \in DOMAIN rotated, NEW k \in DOMAIN rotated[n], NEW l \in DOMAIN t
        PROVE  rotated[n][k].ev \in Events \/ t[l].ev \in Events => rotated[n][k].ev # t[l].ev
    <3>1. CASE l \in DOMAIN s
      <4>1. t[l] = s[l] BY <1>4, <3>1
      <4>2. QED BY <1>5, <1>17, <3>1, <4>1 DEF OneFrameEach
    <3>2. CASE l = Len(s) + 1
      <4>1. t[l] = f BY <1>4, <3>2
      <4>2. QED BY <1>17, <2>2, <4>1
    <3>3. QED BY <2>3, <3>1, <3>2
  <2>6. DOMAIN active' = {} BY <1>5, <1>10
  <2>7. ASSUME NEW n \in DOMAIN rotated', NEW k \in DOMAIN rotated'[n], NEW l \in DOMAIN rotated'[n],
               rotated'[n][k].ev \in Events, rotated'[n][k].ev = rotated'[n][l].ev
        PROVE  k = l
    <3>1. CASE n = n0 BY <1>8, <2>4, <2>7, <3>1
    <3>2. CASE n # n0 BY <1>8, <1>17, <2>7, <3>2 DEF OneFrameEach
    <3>3. QED BY <3>1, <3>2
  <2>8. ASSUME NEW m \in DOMAIN rotated', NEW n \in DOMAIN rotated', m # n,
               NEW k \in DOMAIN rotated'[m], NEW l \in DOMAIN rotated'[n], rotated'[m][k].ev \in Events
        PROVE  rotated'[m][k].ev # rotated'[n][l].ev
    <3>1. CASE m = n0
      <4>1. n \in DOMAIN rotated /\ rotated'[n] = rotated[n] /\ rotated'[m] = t BY <1>8, <2>8, <3>1
      <4>2. QED BY <2>5, <2>8, <4>1
    <3>2. CASE n = n0
      <4>1. m \in DOMAIN rotated /\ rotated'[m] = rotated[m] /\ rotated'[n] = t BY <1>8, <2>8, <3>2
      <4>2. QED BY <2>5, <2>8, <4>1
    <3>3. CASE m # n0 /\ n # n0
      <4>1. /\ n \in DOMAIN rotated /\ rotated'[n] = rotated[n]
            /\ m \in DOMAIN rotated /\ rotated'[m] = rotated[m]
        BY <1>8, <3>3
      <4>2. QED BY <1>17, <2>8, <4>1 DEF OneFrameEach
    <3>4. QED BY <3>1, <3>2, <3>3
  <2>9. QED BY <2>6, <2>7, <2>8 DEF OneFrameEach
<1>18. ASSUME NoneTorn, \A k \in DOMAIN active : active[k].ev # Torn, f.ev # Torn
       PROVE  NoneTorn' /\ \A k \in DOMAIN active' : active'[k].ev # Torn
  <2>1. \A k \in DOMAIN t : k \in DOMAIN s \/ k = Len(s) + 1 BY <1>4
  <2>2. \A k \in DOMAIN t : t[k].ev # Torn BY <1>4, <1>5, <1>18, <2>1
  <2>3. DOMAIN active' = {} BY <1>5, <1>10
  <2>4. QED BY <1>8, <1>18, <2>2, <2>3 DEF NoneTorn
<1>19. QED BY <1>12, <1>13, <1>15, <1>16, <1>17, <1>18 DEF Added

\* Append adds its frame, and syncs it when it is a dispute.
LEMMA AppendAdds ==
  ASSUME LogShapes, NEW f \in Frames, f.ev \in Events <=> f.seq > 0, NEW sync,
         AppendFrame(f, sync)
  PROVE  /\ Added(f)
         /\ sync /\ ~ replaced' => OnDisk(f.ev)'
<1>1. PICK s : s = active OBVIOUS
<1>2. IsFile(s) BY <1>1 DEF LogShapes
<1>3. Len(s) \in Nat /\ Len(Append(s, f)) = Len(s) + 1 /\ Append(s, f)[Len(s) + 1] = f BY <1>2, FilePlus
<1>4. lastSeq' = IF f.seq > lastSeq THEN f.seq ELSE lastSeq BY DEF AppendFrame
<1>5. CASE Len(Append(active, f)) >= RotateAt
  <2>1. /\ rotated' = Put(rotated, lastSeq', Append(active, f)) /\ active' = <<>> /\ synced' = 0
        /\ replaced' = (replaced \/ lastSeq' \in DOMAIN rotated)
    BY <1>4, <1>5 DEF AppendFrame
  <2>2. QED BY <1>4, <2>1, AddedRotated
<1>6. CASE ~ (Len(Append(active, f)) >= RotateAt)
  <2>1. /\ rotated' = rotated /\ replaced' = replaced /\ active' = Append(active, f)
        /\ synced' = IF sync THEN Len(Append(active, f)) ELSE synced
    BY <1>6 DEF AppendFrame
  <2>2. Len(Append(active, f)) = Len(active) + 1 BY <1>1, <1>3
  <2>3. synced' \in {synced, Len(active) + 1} BY <2>1, <2>2
  <2>4. Added(f) BY <1>4, <2>1, <2>3, AddedBehind
  <2>5. ASSUME sync PROVE OnDisk(f.ev)'
    <3>1. synced' = Len(s) + 1 /\ active'[Len(s) + 1] = f BY <1>1, <1>3, <2>1, <2>5
    <3>2. Len(s) + 1 \in 1..(Len(s) + 1) BY <1>3
    <3>3. QED BY <3>1, <3>2 DEF OnDisk
  <2>6. QED BY <2>4, <2>5
<1>7. QED BY <1>5, <1>6

\* So does Append when it fails halfway, without the sync.
LEMMA HalfwayAdds ==
  ASSUME LogShapes, NEW f \in Frames, f.ev \in Events <=> f.seq > 0, NEW sync,
         AppendHalfway(f, sync)
  PROVE  Added(f)
<1>1. /\ lastSeq' = IF f.seq > lastSeq THEN f.seq ELSE lastSeq
      /\ active' = Append(active, f) /\ rotated' = rotated /\ replaced' = replaced /\ synced' = synced
  BY DEF AppendHalfway
<1>2. QED BY <1>1, AddedBehind

-----------------------------------------------------------------------------
(* Calls of OnLedgerEvent. *)

\* Where the log stays, so does what is said of it.
LEMMA LogStays ==
  ASSUME UNCHANGED logVars
  PROVE  /\ LogShapes' = LogShapes /\ AllFrames' = AllFrames /\ Logged' = Logged
         /\ OneFrameEach' = OneFrameEach /\ NoneTorn' = NoneTorn
         /\ \A e \in Events : OnDisk(e)' = OnDisk(e)
         /\ active' = active /\ rotated' = rotated /\ lastSeq' = lastSeq /\ replaced' = replaced
BY DEF logVars, LogShapes, AllFrames, Logged, OneFrameEach, NoneTorn, OnDisk

\* Halves are pairs.
LEMMA HalfFacts ==
  /\ \A h \in Halves : h[1] \in Events /\ h[2] \in {"consumer", "seeder"} /\ h = <<h[1], h[2]>>
  /\ \A e \in Events : <<e, "consumer">> \in Halves /\ <<e, "seeder">> \in Halves
  /\ \A c \in Seq(Halves) : \A h \in Range(c) : h \in Halves
<1>1. \A c \in Seq(Halves) : \A h \in Range(c) : h \in Halves BY RangeOfSeq
<1>2. QED BY <1>1 DEF Halves

\* The halves of a call, and the sequences of them.
LEMMA ShareFacts ==
  \A p, e : /\ \A h : h \in Range(Share(p, e)) <=> \/ h = <<e, "consumer">> /\ Consumer[e] = p
                                                   \/ h = <<e, "seeder">> /\ Seeder[e] = p
            /\ NoRepeats(Share(p, e))
            /\ e \in Events => Share(p, e) \in Seq(Halves)
<1> TAKE p, e
<1> DEFINE a == <<e, "consumer">>
           b == <<e, "seeder">>
<1>1. a # b OBVIOUS
<1>2. e \in Events => a \in Halves /\ b \in Halves BY HalfFacts
<1> HIDE DEF a, b
<1>3. Share(p, e) = (IF Consumer[e] = p THEN <<a>> ELSE <<>>) \o (IF Seeder[e] = p THEN <<b>> ELSE <<>>)
  BY DEF Share, a, b
<1>4. DOMAIN (<<a>> \o <<b>>) = 1..2 /\ (<<a>> \o <<b>>)[1] = a /\ (<<a>> \o <<b>>)[2] = b
  <2>1. <<a>> \in Seq({a, b}) /\ <<b>> \in Seq({a, b}) /\ Len(<<a>>) = 1 /\ Len(<<b>>) = 1 OBVIOUS
  <2>2. /\ <<a>> \o <<b>> \in Seq({a, b}) /\ Len(<<a>> \o <<b>>) = 2
        /\ \A k \in 1..2 : (<<a>> \o <<b>>)[k] = IF k <= 1 THEN <<a>>[k] ELSE <<b>>[k - 1]
    BY <2>1, ConcatProperties
  <2>3. QED BY <2>2
<1>4a. <<a>> \o <<>> = <<a>> OBVIOUS
<1>4b. <<>> \o <<b>> = <<b>> OBVIOUS
<1>4c. <<>> \o <<>> = <<>> OBVIOUS
<1>5. CASE Consumer[e] = p /\ Seeder[e] = p
  <2> DEFINE t == <<a>> \o <<b>>
  <2>1. Share(p, e) = t BY <1>3, <1>5
  <2>2. e \in Events => t \in Seq(Halves) BY <1>2
  <2>3. DOMAIN t = 1..2 /\ t[1] = a /\ t[2] = b BY <1>4
  <2> HIDE DEF t
  <2>4. DOMAIN t = {1, 2} BY <2>3
  <2>5. Range(t) = {a, b} BY <2>3, <2>4 DEF Range
  <2>6. NoRepeats(t) BY <1>1, <2>3, <2>4 DEF NoRepeats
  <2>7. QED BY <1>5, <2>1, <2>2, <2>5, <2>6 DEF a, b
<1>6. CASE Consumer[e] = p /\ Seeder[e] # p
  <2>1. Share(p, e) = <<a>> BY <1>3, <1>4a, <1>6
  <2>2. DOMAIN <<a>> = {1} /\ <<a>>[1] = a OBVIOUS
  <2>3. Range(<<a>>) = {a} BY <2>2 DEF Range
  <2>4. NoRepeats(<<a>>) BY <2>2 DEF NoRepeats
  <2>5. e \in Events => <<a>> \in Seq(Halves) BY <1>2
  <2>6. QED BY <1>6, <2>1, <2>3, <2>4, <2>5 DEF a, b
<1>7. CASE Consumer[e] # p /\ Seeder[e] = p
  <2>1. Share(p, e) = <<b>> BY <1>3, <1>4b, <1>7
  <2>2. DOMAIN <<b>> = {1} /\ <<b>>[1] = b OBVIOUS
  <2>3. Range(<<b>>) = {b} BY <2>2 DEF Range
  <2>4. NoRepeats(<<b>>) BY <2>2 DEF NoRepeats
  <2>5. e \in Events => <<b>> \in Seq(Halves) BY <1>2
  <2>6. QED BY <1>7, <2>1, <2>3, <2>4, <2>5 DEF a, b
<1>8. CASE Consumer[e] # p /\ Seeder[e] # p
  <2>1. Share(p, e) = <<>> BY <1>3, <1>4c, <1>8
  <2>2. DOMAIN <<>> = {} OBVIOUS
  <2>3. DOMAIN Share(p, e) = {} BY <2>1, <2>2
  <2>4. Range(Share(p, e)) = {} BY <2>3 DEF Range
  <2>5. NoRepeats(Share(p, e)) BY <2>3 DEF NoRepeats
  <2>6. <<>> \in Seq(Halves) OBVIOUS
  <2>7. QED BY <1>8, <2>1, <2>4, <2>5, <2>6
<1>9. QED BY <1>5, <1>6, <1>7, <1>8

\* What a snapshot covers stays covered: later frames have larger numbers.
LEMMA CoveredKept ==
  \A c, p, n, fr, fr2, q, q2 :
     /\ Covered(c, p, n, fr, q)
     /\ \A g \in fr2 : \/ g \in fr
                       \/ ~ (g.seq <= n) /\ \A h \in Range(c) : h[1] # g.ev
                       \/ g.ev \notin Events /\ g.seq <= n
     /\ \A g \in fr : g.ev \in Events /\ g.seq <= n =>
           q2[g.ev] = q[g.ev] \/ q2[g.ev] \notin {"logged", "half", "done"}
     => Covered(c, p, n, fr2, q2)
<1> TAKE c, p, n, fr, fr2, q, q2
<1> HAVE /\ Covered(c, p, n, fr, q)
         /\ \A g \in fr2 : \/ g \in fr
                           \/ ~ (g.seq <= n) /\ \A h \in Range(c) : h[1] # g.ev
                           \/ g.ev \notin Events /\ g.seq <= n
         /\ \A g \in fr : g.ev \in Events /\ g.seq <= n =>
               q2[g.ev] = q[g.ev] \/ q2[g.ev] \notin {"logged", "half", "done"}
<1>1. \A h \in Range(c) : \A f \in fr2 : f.ev = h[1] => f.seq <= n BY DEF Covered
<1>2. \A f \in fr2 : f.ev \in Events /\ f.seq <= n =>
          /\ q2[f.ev] \notin {"logged", "half"}
          /\ q2[f.ev] = "done" => Range(Share(p, f.ev)) \subseteq Range(c)
  BY DEF Covered
<1>3. QED BY <1>1, <1>2 DEF Covered

LEMMA DrawSeqKept ==
  ASSUME AdmissionLogAssumption, LogIInv, NEW e \in Events, DrawSeq(e)
  PROVE  LogIInv'
<1> USE DEF LogIInv
<1>1. /\ up = "run" /\ up' = up /\ phase[e] = "new" /\ nextSeq' = nextSeq + 1 /\ nextSeq \in Nat
      /\ seqOf' = [seqOf EXCEPT ![e] = nextSeq + 1]
      /\ phase' = [phase EXCEPT ![e] = "drawn"]
      /\ calm' = (calm /\ emit.at \notin {"copy"})
      /\ cell' = cell /\ snaps' = snaps /\ emit' = emit /\ stops' = stops /\ emitted' = emitted
      /\ acked' = acked /\ UNCHANGED logVars
      /\ phase \in [Events -> {"new", "drawn", "logged", "half", "done", "lost"}]
      /\ seqOf \in [Events -> Nat]
  BY DEF DrawSeq, Shapes
<1>2. /\ LogShapes' = LogShapes /\ AllFrames' = AllFrames /\ Logged' = Logged
      /\ OneFrameEach' = OneFrameEach /\ NoneTorn' = NoneTorn
      /\ \A x \in Events : OnDisk(x)' = OnDisk(x)
      /\ active' = active /\ rotated' = rotated /\ lastSeq' = lastSeq /\ replaced' = replaced
  BY <1>1, LogStays
<1>3. /\ phase'[e] = "drawn" /\ seqOf'[e] = nextSeq + 1
      /\ \A x \in Events \ {e} : phase'[x] = phase[x] /\ seqOf'[x] = seqOf[x]
  BY <1>1
<1>4. Shapes' BY <1>1, <1>2 DEF Shapes
<1>5. Phases'
  <2>1. \A x \in Events : phase'[x] = "drawn" => seqOf'[x] > 0 /\ seqOf'[x] <= nextSeq'
    BY <1>1, <1>3 DEF Phases
  <2>2. QED BY <1>1, <1>3, <2>1 DEF Phases
<1>6. OneFrame' BY <1>1, <1>2, <1>3 DEF OneFrame
<1>7. OnlyApplied'
  <2>1. \A h : Applied(h) /\ h \in Halves => Applied(h)' BY <1>1, <1>3, HalfFacts DEF Applied
  <2>2. \A n \in DOMAIN snaps : snaps[n].cells \in [Parties -> Seq(Halves)] BY DEF Shapes, Cells
  <2>3. cell \in [Parties -> Seq(Halves)] /\ emit.cells \in [Parties -> Seq(Halves)]
    BY DEF Shapes, Cells
  <2>4. QED BY <1>1, <2>1, <2>2, <2>3, HalfFacts DEF OnlyApplied
<1>8. Ahead' BY <1>1, <1>2, <1>3 DEF Ahead
<1>9. Durable' BY <1>1, <1>2, <1>3 DEF Durable
<1>10. Exact' BY <1>1, <1>2, <1>3 DEF Exact
<1>11. FirstLife'
  <2> SUFFICES ASSUME calm', stops = 0 PROVE FirstLife' BY <1>1 DEF FirstLife
  <2>1. calm /\ emit.at # "copy" BY <1>1
  <2>2. e \notin Logged BY <1>1 DEF OneFrame
  <2>3. \A g \in AllFrames : g.ev # e BY <2>2, LoggedIs
  <2>4. \A c, p, n : SnapCovers(c, p, n) => SnapCovers(c, p, n)'
    <3> SUFFICES ASSUME NEW c, NEW p, NEW n, SnapCovers(c, p, n) PROVE SnapCovers(c, p, n)' OBVIOUS
    <3>1. \A g \in AllFrames : g.ev \in Events => phase'[g.ev] = phase[g.ev] BY <1>3, <2>3
    <3>2. QED BY <1>2, <3>1, CoveredKept DEF SnapCovers
  <2>5. /\ lastSeq <= nextSeq /\ emit.seq <= lastSeq /\ emit.seq \in Nat /\ lastSeq \in Nat
        /\ \A n \in DOMAIN snaps : n <= lastSeq /\ n \in Nat
    BY <1>1, <2>1 DEF FirstLife, Shapes, LogShapes
  <2>6. \A n \in DOMAIN snaps : nextSeq + 1 > n BY <1>1, <2>5
  <2>7. nextSeq + 1 > emit.seq BY <1>1, <2>5
  <2>8. \A x \in Events : phase'[x] = "drawn" =>
           /\ \A n \in DOMAIN snaps : seqOf'[x] > n
           /\ emit.at # "idle" => seqOf'[x] > emit.seq
    BY <1>1, <1>3, <2>1, <2>6, <2>7 DEF FirstLife
  <2>9. lastSeq <= nextSeq + 1 BY <1>1, <2>5
  <2>10. QED BY <1>1, <1>2, <2>1, <2>4, <2>8, <2>9 DEF FirstLife
<1>12. QED BY <1>4, <1>5, <1>6, <1>7, <1>8, <1>9, <1>10, <1>11

\* The sync of the log keeps everything.
LEMMA FlushKept == ASSUME AdmissionLogAssumption, LogIInv, Flush PROVE LogIInv'
<1> USE DEF LogIInv
<1>1. /\ up' = up /\ cell' = cell /\ phase' = phase /\ seqOf' = seqOf /\ nextSeq' = nextSeq /\ rotated' = rotated
      /\ active' = active /\ lastSeq' = lastSeq /\ snaps' = snaps /\ emit' = emit /\ stops' = stops
      /\ emitted' = emitted /\ acked' = acked /\ calm' = calm /\ replaced' = replaced
      /\ synced' = Len(active)
  BY DEF Flush
<1>2. Len(active) \in Nat /\ synced \in 0..Len(active) BY DEF Shapes, LogShapes, IsFile
<1>3. synced' \in 0..Len(active') /\ \A k \in 1..synced : k \in 1..synced' BY <1>1, <1>2
<1>4. LogShapes' BY <1>1, <1>3 DEF Shapes, LogShapes
<1>5. AllFrames' = AllFrames /\ Logged' = Logged /\ OneFrameEach' = OneFrameEach /\ NoneTorn' = NoneTorn
  BY <1>1 DEF AllFrames, Logged, OneFrameEach, NoneTorn
<1>6. \A e \in Events : OnDisk(e) => OnDisk(e)' BY <1>1, <1>3 DEF OnDisk
<1>7. Shapes' BY <1>1, <1>4 DEF Shapes
<1>8. Phases' BY <1>1 DEF Phases, InFlight
<1>9. OneFrame' BY <1>1, <1>5 DEF OneFrame
<1>10. OnlyApplied' BY <1>1 DEF OnlyApplied, Applied
<1>11. Ahead' BY <1>1, <1>5 DEF Ahead
<1>12. Durable' BY <1>1, <1>6 DEF Durable
<1>13. Exact' BY <1>1, <1>5 DEF Exact
<1>14. FirstLife'
  <2>1. \A c, p, n : SnapCovers(c, p, n)' = SnapCovers(c, p, n) BY <1>1, <1>5 DEF SnapCovers
  <2>2. InFlight' = InFlight BY <1>1 DEF InFlight
  <2>3. QED BY <1>1, <1>5, <2>1, <2>2 DEF FirstLife
<1>15. QED BY <1>7, <1>8, <1>9, <1>10, <1>11, <1>12, <1>13, <1>14

\* A call for e that had drawn a number ends or goes on, its frame in the log.
LEMMA FrameKept ==
  ASSUME AdmissionLogAssumption, LogIInv, NEW e \in Events, up = "run", phase[e] = "drawn",
         Added(Frame(seqOf[e], e)), NEW w \in {"logged", "done", "lost"},
         w = "done" <=> Kind[e] = "override" /\ w # "lost",
         w = "logged" /\ Kind[e] \in Disputes /\ ~ replaced' => OnDisk(e)',
         phase' = [phase EXCEPT ![e] = w], seqOf' = [seqOf EXCEPT ![e] = 0],
         UNCHANGED <<up, cell, nextSeq, snaps, emit, stops, emitted, acked, calm>>
  PROVE  LogIInv'
<1> USE DEF LogIInv
<1>0. PICK f : f = Frame(seqOf[e], e) OBVIOUS
<1>1. /\ up' = up /\ cell' = cell /\ nextSeq' = nextSeq /\ snaps' = snaps /\ emit' = emit /\ stops' = stops
      /\ emitted' = emitted /\ acked' = acked /\ calm' = calm
      /\ phase \in [Events -> {"new", "drawn", "logged", "half", "done", "lost"}]
      /\ seqOf \in [Events -> Nat] /\ seqOf[e] > 0 /\ seqOf[e] <= nextSeq /\ nextSeq \in Nat
  BY DEF Shapes, Phases
<1>2. f.ev = e /\ f.seq = seqOf[e] /\ f.ev \in Events BY <1>0 DEF Frame
<1>3. e \notin Logged BY DEF OneFrame
<1>4. Mark \notin Events /\ Torn \notin Events BY DEF AdmissionLogAssumption
<1>5. /\ LogShapes'
      /\ lastSeq' >= lastSeq /\ lastSeq' >= f.seq /\ lastSeq' \in {lastSeq, f.seq}
      /\ AllFrames' \subseteq AllFrames \cup {f}
      /\ ~ replaced' => /\ ~ replaced
                        /\ Logged \cup {e} \subseteq Logged'
                        /\ \A x \in Events : OnDisk(x) => OnDisk(x)'
      /\ OneFrameEach'
      /\ NoneTorn /\ (\A k \in DOMAIN active : active[k].ev # Torn) =>
            NoneTorn' /\ \A k \in DOMAIN active' : active'[k].ev # Torn
  BY <1>0, <1>2, <1>3, <1>4 DEF Added, OneFrame
<1>6. Logged' \subseteq Logged \cup {e}
  <2>1. Logged' = {g.ev : g \in AllFrames'} BY DEF Logged, AllFrames, FramesOf
  <2>2. QED BY <1>2, <1>5, <2>1, LoggedIs
<1>7. /\ phase'[e] = w /\ seqOf'[e] = 0
      /\ \A x \in Events \ {e} : phase'[x] = phase[x] /\ seqOf'[x] = seqOf[x]
  BY <1>1
<1>8. Shapes' BY <1>1, <1>5 DEF Shapes
<1>9. Phases' BY <1>1, <1>7 DEF Phases
<1>10. OneFrame' BY <1>1, <1>5, <1>6, <1>7 DEF OneFrame
<1>11. \A h \in Halves : Applied(h) => Applied(h)' /\ h[1] # e BY <1>1, <1>7, HalfFacts DEF Applied
<1>12. /\ \A n \in DOMAIN snaps : snaps[n].cells \in [Parties -> Seq(Halves)]
       /\ cell \in [Parties -> Seq(Halves)] /\ emit.cells \in [Parties -> Seq(Halves)]
  BY DEF Shapes, Cells
<1>13. OnlyApplied' BY <1>1, <1>11, <1>12, HalfFacts DEF OnlyApplied
<1>14. Ahead' BY <1>1, <1>5, <1>7 DEF Ahead
<1>15. Durable' BY <1>1, <1>5, <1>7 DEF Durable
<1>16. Exact'
  <2> SUFFICES ASSUME up = "run", stops <= 1, calm PROVE Exact' BY <1>1 DEF Exact
  <2>1. ASSUME NEW x \in Events, phase'[x] = "done", x \in Logged', NEW p \in Parties
        PROVE  Range(Share(p, x)) \subseteq Range(cell[p])
    <3>1. CASE x = e
      <4>1. Consumer[e] = None /\ Seeder[e] = None /\ None \notin Parties
        BY <1>7, <2>1, <3>1 DEF AdmissionLogAssumption, Settlements
      <4>2. Share(p, e) = <<>> \o <<>> BY <4>1 DEF Share
      <4>3. <<>> \o <<>> = <<>> /\ DOMAIN <<>> = {} OBVIOUS
      <4>4. DOMAIN Share(p, e) = {} BY <4>2, <4>3
      <4>5. Range(Share(p, e)) = {} BY <4>4 DEF Range
      <4>6. QED BY <3>1, <4>5
    <3>2. CASE x # e BY <1>6, <1>7, <2>1, <3>2 DEF Exact
    <3>3. QED BY <3>1, <3>2
  <2>2. \A x \in Events : phase'[x] = "half" => phase[x] = "half" BY <1>7
  <2>3. QED BY <1>1, <2>1, <2>2 DEF Exact
<1>17. FirstLife'
  <2> SUFFICES ASSUME calm, stops = 0 PROVE FirstLife' BY <1>1 DEF FirstLife
  <2>1. /\ NoneTorn /\ \A k \in DOMAIN active : active[k].ev # Torn BY DEF FirstLife
  <2>2. \A g \in AllFrames : g.ev # e BY <1>3, LoggedIs
  <2>3. /\ lastSeq <= nextSeq /\ emit.seq <= lastSeq /\ emit.seq \in Nat /\ lastSeq \in Nat
        /\ \A n \in DOMAIN snaps : n <= lastSeq /\ n \in Nat /\ seqOf[e] > n
        /\ emit.at # "idle" => seqOf[e] > emit.seq
        /\ \A g \in AllFrames : g.seq <= lastSeq
    BY DEF FirstLife, Shapes, LogShapes
  <2>4. lastSeq' \in Nat BY <1>5 DEF LogShapes
  <2>5. \A g \in AllFrames : g.seq \in Nat
    <3>1. \A n \in DOMAIN rotated : \A g \in Range(rotated[n]) : g \in Frames
      BY RangeOfSeq DEF Shapes, LogShapes, IsFile
    <3>2. \A g \in Range(active) : g \in Frames BY RangeOfSeq DEF Shapes, LogShapes, IsFile
    <3>3. QED BY <3>1, <3>2, FramesIn DEF AllFrames, Frames
  <2>6. ASSUME NEW c \in Seq(Halves), NEW p, NEW n \in Nat, SnapCovers(c, p, n), seqOf[e] > n,
               \A h \in Range(c) : Applied(h)
        PROVE  SnapCovers(c, p, n)'
    <3>1. \A g \in AllFrames : g.ev \in Events => phase'[g.ev] = phase[g.ev] BY <1>7, <2>2
    <3>2. \A h \in Range(c) : h[1] # e BY <1>11, <2>6, HalfFacts
    <3>3. ~ (f.seq <= n) BY <1>1, <1>2, <2>6
    <3>4. \A g \in AllFrames' : \/ g \in AllFrames
                                \/ ~ (g.seq <= n) /\ \A h \in Range(c) : h[1] # g.ev
                                \/ g.ev \notin Events /\ g.seq <= n
      <4> TAKE g \in AllFrames'
      <4>1. CASE g = f BY <1>2, <3>2, <3>3, <4>1
      <4>2. CASE g # f BY <1>5, <4>2
      <4>3. QED BY <4>1, <4>2
    <3>5. Covered(c, p, n, AllFrames, phase) BY <2>6 DEF SnapCovers
    <3>6. \A g \in AllFrames : g.ev \in Events /\ g.seq <= n =>
             phase'[g.ev] = phase[g.ev] \/ phase'[g.ev] \notin {"logged", "half", "done"}
      BY <3>1
    <3>7. Covered(c, p, n, AllFrames', phase')
      <4>1. PICK fr, fr2, q, q2 : fr = AllFrames /\ fr2 = AllFrames' /\ q = phase /\ q2 = phase' OBVIOUS
      <4>2. Covered(c, p, n, fr, q) BY <3>5, <4>1
      <4>3. \A g \in fr2 : \/ g \in fr
                           \/ ~ (g.seq <= n) /\ \A h \in Range(c) : h[1] # g.ev
                           \/ g.ev \notin Events /\ g.seq <= n
        BY <3>4, <4>1
      <4>4. \A g \in fr : g.ev \in Events /\ g.seq <= n =>
               q2[g.ev] = q[g.ev] \/ q2[g.ev] \notin {"logged", "half", "done"}
        BY <3>6, <4>1
      <4>5. Covered(c, p, n, fr2, q2) BY <4>2, <4>3, <4>4, CoveredKept
      <4>6. QED BY <4>1, <4>5
    <3>8. QED BY <3>7 DEF SnapCovers
  <2>7. \A n \in DOMAIN snaps : \A p \in Parties : SnapCovers(snaps[n].cells[p], p, n)'
    <3> TAKE n \in DOMAIN snaps
    <3> TAKE p \in Parties
    <3>1. PICK c : c = snaps[n].cells[p] OBVIOUS
    <3>2. c \in Seq(Halves) /\ n \in Nat /\ seqOf[e] > n BY <1>12, <2>3, <3>1
    <3>3. SnapCovers(c, p, n) /\ \A h \in Range(c) : Applied(h) BY <3>1 DEF FirstLife, OnlyApplied
    <3>4. SnapCovers(c, p, n)' BY <2>6, <3>2, <3>3
    <3>5. QED BY <1>1, <3>1, <3>4
  <2>8. emit.at \in {"copy", "write", "rename"} =>
           \A p \in Parties \ emit.left : SnapCovers(emit.cells[p], p, emit.seq)'
    <3> HAVE emit.at \in {"copy", "write", "rename"}
    <3> TAKE p \in Parties \ emit.left
    <3>1. PICK c : c = emit.cells[p] OBVIOUS
    <3>2. PICK n : n = emit.seq OBVIOUS
    <3>3. c \in Seq(Halves) /\ n \in Nat /\ seqOf[e] > n BY <1>12, <2>3, <3>1, <3>2
    <3>4. SnapCovers(c, p, n) /\ \A h \in Range(c) : Applied(h) BY <3>1, <3>2 DEF FirstLife, OnlyApplied
    <3>5. SnapCovers(c, p, n)' BY <2>6, <3>3, <3>4
    <3>6. QED BY <1>1, <3>1, <3>2, <3>5
  <2>9. emit.at # "copy" BY DEF FirstLife, InFlight
  <2>10. \A x \in Events : phase'[x] = "drawn" =>
           /\ \A n \in DOMAIN snaps : seqOf'[x] > n
           /\ emit.at # "idle" => seqOf'[x] > emit.seq
    BY <1>7 DEF FirstLife
  <2>11. /\ \A g \in AllFrames' : g.seq <= lastSeq'
         /\ lastSeq' <= nextSeq /\ emit.seq <= lastSeq'
         /\ \A n \in DOMAIN snaps : n <= lastSeq'
    <3>1. \A g \in AllFrames' : g.seq <= lastSeq' BY <1>5, <2>3, <2>4, <2>5
    <3>2. lastSeq' <= nextSeq BY <1>1, <1>2, <1>5, <2>3
    <3>3. \A n \in Nat : n <= lastSeq => n <= lastSeq' BY <1>5, <2>3, <2>4
    <3>4. QED BY <2>3, <3>1, <3>2, <3>3
  <2>12. NoneTorn' /\ \A k \in DOMAIN active' : active'[k].ev # Torn BY <1>5, <2>1
  <2>13. QED BY <1>1, <2>7, <2>8, <2>9, <2>10, <2>11, <2>12 DEF FirstLife
<1>18. QED BY <1>8, <1>9, <1>10, <1>13, <1>14, <1>15, <1>16, <1>17

\* A call that fails without a trace.
LEMMA NoFrameKept ==
  ASSUME AdmissionLogAssumption, LogIInv, NEW e \in Events, up = "run", phase[e] = "drawn",
         UNCHANGED logVars,
         phase' = [phase EXCEPT ![e] = "lost"], seqOf' = [seqOf EXCEPT ![e] = 0],
         UNCHANGED <<up, cell, nextSeq, snaps, emit, stops, emitted, acked, calm>>
  PROVE  LogIInv'
<1> USE DEF LogIInv
<1>1. /\ up' = up /\ cell' = cell /\ nextSeq' = nextSeq /\ snaps' = snaps /\ emit' = emit /\ stops' = stops
      /\ emitted' = emitted /\ acked' = acked /\ calm' = calm
      /\ phase \in [Events -> {"new", "drawn", "logged", "half", "done", "lost"}]
      /\ seqOf \in [Events -> Nat]
  BY DEF Shapes
<1>2. /\ LogShapes' = LogShapes /\ AllFrames' = AllFrames /\ Logged' = Logged
      /\ OneFrameEach' = OneFrameEach /\ NoneTorn' = NoneTorn
      /\ \A x \in Events : OnDisk(x)' = OnDisk(x)
      /\ active' = active /\ rotated' = rotated /\ lastSeq' = lastSeq /\ replaced' = replaced
  BY LogStays
<1>3. /\ phase'[e] = "lost" /\ seqOf'[e] = 0
      /\ \A x \in Events \ {e} : phase'[x] = phase[x] /\ seqOf'[x] = seqOf[x]
  BY <1>1
<1>4. Shapes' BY <1>1, <1>2 DEF Shapes
<1>5. Phases' BY <1>1, <1>3 DEF Phases
<1>6. OneFrame' BY <1>1, <1>2, <1>3 DEF OneFrame
<1>7. OnlyApplied'
  <2>1. \A h : Applied(h) /\ h \in Halves => Applied(h)' BY <1>1, <1>3, HalfFacts DEF Applied
  <2>2. \A n \in DOMAIN snaps : snaps[n].cells \in [Parties -> Seq(Halves)] BY DEF Shapes, Cells
  <2>3. cell \in [Parties -> Seq(Halves)] /\ emit.cells \in [Parties -> Seq(Halves)]
    BY DEF Shapes, Cells
  <2>4. QED BY <1>1, <2>1, <2>2, <2>3, HalfFacts DEF OnlyApplied
<1>8. Ahead' BY <1>1, <1>2, <1>3 DEF Ahead
<1>9. Durable' BY <1>1, <1>2, <1>3 DEF Durable
<1>10. Exact' BY <1>1, <1>2, <1>3 DEF Exact
<1>11. FirstLife'
  <2> SUFFICES ASSUME calm, stops = 0 PROVE FirstLife' BY <1>1 DEF FirstLife
  <2>1. emit.at # "copy" BY DEF FirstLife, InFlight
  <2>2. \A c, p, n : SnapCovers(c, p, n) => SnapCovers(c, p, n)'
    <3> SUFFICES ASSUME NEW c, NEW p, NEW n, SnapCovers(c, p, n) PROVE SnapCovers(c, p, n)' OBVIOUS
    <3>1. \A g \in AllFrames : g.ev \in Events =>
             phase'[g.ev] = phase[g.ev] \/ phase'[g.ev] \notin {"logged", "half", "done"}
      BY <1>3
    <3>2. QED BY <1>2, <3>1, CoveredKept DEF SnapCovers
  <2>3. \A x \in Events : phase'[x] = "drawn" =>
           /\ \A n \in DOMAIN snaps : seqOf'[x] > n
           /\ emit.at # "idle" => seqOf'[x] > emit.seq
    BY <1>1, <1>3 DEF FirstLife
  <2>4. QED BY <1>1, <1>2, <2>1, <2>2, <2>3 DEF FirstLife
<1>12. QED BY <1>4, <1>5, <1>6, <1>7, <1>8, <1>9, <1>10, <1>11

\* A frame for a call that has drawn its number.
LEMMA FrameFacts ==
  ASSUME AdmissionLogAssumption, LogIInv, NEW e \in Events, phase[e] = "drawn"
  PROVE  /\ Frame(seqOf[e], e) \in Frames
         /\ Frame(seqOf[e], e).ev \in Events <=> Frame(seqOf[e], e).seq > 0
         /\ LogShapes
<1>1. seqOf[e] \in Nat /\ seqOf[e] > 0 BY DEF LogIInv, Shapes, Phases
<1>2. QED BY <1>1 DEF Frame, Frames, LogIInv, Shapes

LEMMA PersistKept ==
  ASSUME AdmissionLogAssumption, LogIInv, NEW e \in Events, Persist(e) \/ PersistFails(e)
  PROVE  LogIInv'
<1>0. up = "run" /\ phase[e] = "drawn" BY DEF Persist, PersistFails
<1>1. PICK f : f = Frame(seqOf[e], e) OBVIOUS
<1>2. f \in Frames /\ (f.ev \in Events <=> f.seq > 0) /\ LogShapes /\ f.ev = e
  BY <1>0, <1>1, FrameFacts DEF Frame
<1>3. PICK sync : sync = (Kind[e] \in Disputes) OBVIOUS
<1>4. CASE Persist(e)
  <2>1. AppendFrame(f, sync) BY <1>1, <1>3, <1>4 DEF Persist
  <2>2. Added(f) /\ (sync /\ ~ replaced' => OnDisk(f.ev)') BY <1>2, <2>1, AppendAdds
  <2>3. Added(Frame(seqOf[e], e)) BY <1>1, <2>2 DEF Added
  <2>4. PICK w : w = IF Kind[e] = "override" THEN "done" ELSE "logged" OBVIOUS
  <2>5. /\ phase' = [phase EXCEPT ![e] = w] /\ seqOf' = [seqOf EXCEPT ![e] = 0]
        /\ UNCHANGED <<up, cell, nextSeq, snaps, emit, stops, emitted, acked, calm>>
    BY <1>4, <2>4 DEF Persist
  <2>6. w \in {"logged", "done", "lost"} /\ (w = "done" <=> Kind[e] = "override" /\ w # "lost")
    BY <2>4
  <2>7. w = "logged" /\ Kind[e] \in Disputes /\ ~ replaced' => OnDisk(e)' BY <1>2, <1>3, <2>2
  <2>8. QED BY <1>0, <2>3, <2>5, <2>6, <2>7, FrameKept
<1>5. CASE PersistFails(e)
  <2>1. /\ phase' = [phase EXCEPT ![e] = "lost"] /\ seqOf' = [seqOf EXCEPT ![e] = 0]
        /\ UNCHANGED <<up, cell, nextSeq, snaps, emit, stops, emitted, acked, calm>>
    BY <1>5 DEF PersistFails
  <2>2. CASE UNCHANGED logVars BY <1>0, <2>1, <2>2, NoFrameKept
  <2>3. CASE AppendHalfway(Frame(seqOf[e], e), Kind[e] \in Disputes)
    <3>1. AppendHalfway(f, sync) BY <1>1, <1>3, <2>3
    <3>2. Added(f) BY <1>2, <3>1, HalfwayAdds
    <3>3. Added(Frame(seqOf[e], e)) BY <1>1, <3>2 DEF Added
    <3>4. QED BY <1>0, <2>1, <3>3, FrameKept
  <2>4. QED BY <1>5, <2>2, <2>3 DEF PersistFails
<1>6. QED BY <1>4, <1>5

\* A half more in a cell.
LEMMA CellPlus ==
  ASSUME NEW c \in Seq(Halves), NEW h \in Halves
  PROVE  /\ Append(c, h) \in Seq(Halves)
         /\ Range(Append(c, h)) = Range(c) \cup {h}
         /\ NoRepeats(c) /\ h \notin Range(c) => NoRepeats(Append(c, h))
<1> DEFINE t == Append(c, h)
<1>1. /\ t \in Seq(Halves) /\ Len(c) \in Nat /\ DOMAIN c = 1..Len(c) /\ Len(t) = Len(c) + 1
      /\ DOMAIN t = 1..(Len(c) + 1) /\ (\A k \in 1..Len(c) : t[k] = c[k]) /\ t[Len(c) + 1] = h
  BY AppendProperties
<1> HIDE DEF t
<1>2. \A k \in DOMAIN t : k \in 1..Len(c) \/ k = Len(c) + 1 BY <1>1
<1>3. Range(t) = Range(c) \cup {h}
  <2>1. Len(c) + 1 \in DOMAIN t /\ \A k \in 1..Len(c) : k \in DOMAIN t BY <1>1
  <2>2. QED BY <1>1, <1>2, <2>1 DEF Range
<1>4. ASSUME NoRepeats(c), h \notin Range(c) PROVE NoRepeats(t)
  <2>1. \A k \in 1..Len(c) : t[k] # h BY <1>1, <1>4 DEF Range
  <2>2. QED BY <1>1, <1>2, <1>4, <2>1 DEF NoRepeats
<1>5. QED BY <1>1, <1>3, <1>4 DEF t

\* A call applies the half h to p's cell.
LEMMA ApplyKept ==
  ASSUME AdmissionLogAssumption, LogIInv, NEW e \in Events, up = "run",
         NEW h \in Halves, h[1] = e, NEW p \in Parties, PartyOf(h) = p, NEW w \in {"half", "done"},
         \/ h = <<e, "consumer">> /\ phase[e] = "logged" /\ (w = "half" <=> Seeder[e] # None)
         \/ h = <<e, "seeder">> /\ phase[e] = "half" /\ w = "done",
         cell' = [cell EXCEPT ![p] = Append(@, h)], phase' = [phase EXCEPT ![e] = w],
         acked' = acked \/ (acked' = acked \cup {e} /\ phase[e] = "logged" /\ Kind[e] \in Disputes),
         UNCHANGED <<up, seqOf, nextSeq, logVars, snaps, emit, stops, emitted, calm>>
  PROVE  LogIInv'
<1> USE DEF LogIInv
<1>1. /\ up' = up /\ seqOf' = seqOf /\ nextSeq' = nextSeq /\ snaps' = snaps /\ emit' = emit
      /\ stops' = stops /\ emitted' = emitted /\ calm' = calm /\ UNCHANGED logVars
      /\ phase \in [Events -> {"new", "drawn", "logged", "half", "done", "lost"}]
      /\ cell \in [Parties -> Seq(Halves)]
  BY DEF Shapes, Cells
<1>2. /\ LogShapes' = LogShapes /\ AllFrames' = AllFrames /\ Logged' = Logged
      /\ OneFrameEach' = OneFrameEach /\ NoneTorn' = NoneTorn
      /\ \A x \in Events : OnDisk(x)' = OnDisk(x)
      /\ active' = active /\ rotated' = rotated /\ lastSeq' = lastSeq /\ replaced' = replaced
  BY LogStays
<1>3. /\ phase'[e] = w /\ phase[e] \in {"logged", "half"}
      /\ \A x \in Events \ {e} : phase'[x] = phase[x]
  BY <1>1
<1>4. PICK c : c = cell[p] OBVIOUS
<1>5. c \in Seq(Halves) BY <1>1, <1>4
<1>6. PICK t : t = Append(c, h) OBVIOUS
<1>7. t \in Seq(Halves) /\ Range(t) = Range(c) \cup {h} /\ (NoRepeats(c) /\ h \notin Range(c) => NoRepeats(t))
  BY <1>5, <1>6, CellPlus
<1>8. cell' = [cell EXCEPT ![p] = t] BY <1>4, <1>6
<1>9. cell'[p] = t /\ \A x \in Parties \ {p} : cell'[x] = cell[x] BY <1>1, <1>8
<1>10. \A x \in Parties : Range(cell[x]) \subseteq Range(cell'[x]) BY <1>4, <1>7, <1>9
<1>11. Shapes'
  <2>1. cell' \in Cells BY <1>1, <1>7, <1>8 DEF Cells
  <2>2. phase' \in [Events -> {"new", "drawn", "logged", "half", "done", "lost"}] BY <1>1
  <2>3. acked' \in SUBSET Events BY DEF Shapes
  <2>4. QED BY <1>1, <1>2, <2>1, <2>2, <2>3, SMTT(60) DEF Shapes
<1>12. Phases'
  <2>1. w = "half" => Seeder[e] # None /\ Kind[e] # "override" BY DEF Phases
  <2>2. QED BY <1>1, <1>3, <2>1 DEF Phases
<1>13. OneFrame' BY <1>2, <1>3 DEF OneFrame
<1>14. \A g \in Halves : Applied(g) => Applied(g)' /\ g # h
  <2> SUFFICES ASSUME NEW g \in Halves, Applied(g) PROVE Applied(g)' /\ g # h OBVIOUS
  <2>1. g # h BY DEF Applied
  <2>2. CASE g[1] = e BY <1>3, <2>1, <2>2, HalfFacts DEF Applied
  <2>3. CASE g[1] # e BY <1>3, <2>3, HalfFacts DEF Applied
  <2>4. QED BY <2>1, <2>2, <2>3
<1>15. Applied(h)' BY <1>3 DEF Applied
<1>16. /\ \A n \in DOMAIN snaps : snaps[n].cells \in [Parties -> Seq(Halves)]
       /\ emit.cells \in [Parties -> Seq(Halves)]
  BY DEF Shapes, Cells
<1>17. OnlyApplied'
  <2> SUFFICES ASSUME NEW x \in Parties
               PROVE  /\ \A g \in Range(cell'[x]) : Applied(g)'
                      /\ \A g \in Range(emit.cells[x]) : Applied(g)'
                      /\ \A n \in DOMAIN snaps : \A g \in Range(snaps[n].cells[x]) : Applied(g)'
    BY <1>1 DEF OnlyApplied
  <2>1. \A g \in Range(cell[x]) : g \in Halves /\ Applied(g) BY <1>1, HalfFacts DEF OnlyApplied
  <2>2. \A g \in Range(emit.cells[x]) : g \in Halves /\ Applied(g) BY <1>16, HalfFacts DEF OnlyApplied
  <2>3. \A n \in DOMAIN snaps : \A g \in Range(snaps[n].cells[x]) : g \in Halves /\ Applied(g)
    BY <1>16, HalfFacts DEF OnlyApplied
  <2>4. \A g \in Range(cell'[x]) : g \in Range(cell[x]) \/ g = h BY <1>4, <1>7, <1>9
  <2>5. QED BY <1>14, <1>15, <2>1, <2>2, <2>3, <2>4
<1>18. Ahead'
  <2> SUFFICES ASSUME up = "run", ~ replaced PROVE Ahead' BY <1>1, <1>2 DEF Ahead
  <2>1. e \in Logged BY <1>3 DEF Ahead
  <2>2. \A x \in Parties : \A g \in Range(cell'[x]) : g \in Range(cell[x]) \/ g[1] \in Logged
    BY <1>4, <1>7, <1>9, <2>1
  <2>3. \A x \in Events : phase'[x] \in {"logged", "half"} => x \in Logged BY <1>3, <2>1 DEF Ahead
  <2>4. QED BY <1>1, <1>2, <2>2, <2>3 DEF Ahead
<1>19. Durable' BY <1>1, <1>2, <1>3 DEF Durable
<1>20. Exact'
  <2> SUFFICES ASSUME up = "run", stops <= 1, calm PROVE Exact' BY <1>1 DEF Exact
  <2>1. h \notin Range(c) BY <1>1, <1>4, <1>14, HalfFacts DEF OnlyApplied
  <2>2. \A x \in Parties : NoRepeats(cell'[x]) BY <1>4, <1>7, <1>9, <2>1 DEF Exact
  <2>3. h \in Range(cell'[p]) BY <1>7, <1>9
  <2>4. ASSUME NEW x \in Events, phase'[x] = "done", x \in Logged, NEW q \in Parties
        PROVE  Range(Share(q, x)) \subseteq Range(cell'[q])
    <3>1. CASE x # e BY <1>3, <1>10, <2>4, <3>1 DEF Exact
    <3>2. CASE x = e
      <4>1. Seeder[e] # None => h = <<e, "seeder">> /\ phase[e] = "half" BY <1>3, <2>4, <3>2
      <4>2. phase[e] = "half" => <<e, "consumer">> \in Range(cell[Consumer[e]]) BY DEF Exact
      <4>3. None \notin Parties /\ Consumer[e] \in Parties
        <5>1. Kind[e] # "override" BY <1>3 DEF Phases
        <5>2. QED BY <5>1 DEF AdmissionLogAssumption
      <4>4. h = <<e, "consumer">> => p = Consumer[e] BY DEF PartyOf
      <4>5. h = <<e, "seeder">> => p = Seeder[e] BY DEF PartyOf
      <4>6. Consumer[e] = q => <<e, "consumer">> \in Range(cell'[q])
        BY <1>10, <2>3, <4>2, <4>3, <4>4
      <4>7. Seeder[e] = q => <<e, "seeder">> \in Range(cell'[q])
        <5> HAVE Seeder[e] = q
        <5>1. Seeder[e] # None BY <4>3
        <5>2. h = <<e, "seeder">> /\ p = q BY <4>1, <4>5, <5>1
        <5>3. QED BY <2>3, <5>2
      <4>8. \A g \in Range(Share(q, e)) : \/ g = <<e, "consumer">> /\ Consumer[e] = q
                                          \/ g = <<e, "seeder">> /\ Seeder[e] = q
        BY ShareFacts
      <4>9. QED BY <3>2, <4>6, <4>7, <4>8
    <3>3. QED BY <3>1, <3>2
  <2>5. ASSUME NEW x \in Events, phase'[x] = "half" PROVE <<x, "consumer">> \in Range(cell'[Consumer[x]])
    <3>1. CASE x # e
      <4>1. Kind[x] # "override" BY <1>3, <2>5, <3>1 DEF Phases
      <4>2. Consumer[x] \in Parties BY <4>1 DEF AdmissionLogAssumption
      <4>3. <<x, "consumer">> \in Range(cell[Consumer[x]]) BY <1>3, <2>5, <3>1 DEF Exact
      <4>4. QED BY <1>10, <4>2, <4>3
    <3>2. CASE x = e
      <4>1. h = <<e, "consumer">> BY <1>3, <2>5, <3>2
      <4>2. p = Consumer[e] BY <4>1 DEF PartyOf
      <4>3. QED BY <2>3, <3>2, <4>1, <4>2
    <3>3. QED BY <3>1, <3>2
  <2>6. QED BY <1>2, <2>2, <2>4, <2>5 DEF Exact
<1>21. FirstLife'
  <2> SUFFICES ASSUME calm, stops = 0 PROVE FirstLife' BY <1>1 DEF FirstLife
  <2>1. emit.at # "copy" BY <1>3 DEF FirstLife, InFlight
  <2>2. \A x, q, n : SnapCovers(x, q, n) => SnapCovers(x, q, n)'
    <3> SUFFICES ASSUME NEW x, NEW q, NEW n, SnapCovers(x, q, n) PROVE SnapCovers(x, q, n)' OBVIOUS
    <3>1. \A g \in AllFrames : g.ev \in Events /\ g.seq <= n =>
             phase'[g.ev] = phase[g.ev] \/ phase'[g.ev] \notin {"logged", "half", "done"}
      BY <1>3 DEF SnapCovers, Covered
    <3>2. Covered(x, q, n, AllFrames, phase) BY DEF SnapCovers
    <3>3. Covered(x, q, n, AllFrames, phase') BY <3>1, <3>2, CoveredKept
    <3>4. QED BY <1>2, <3>3 DEF SnapCovers
  <2>3. \A x \in Events : phase'[x] = "drawn" => phase[x] = "drawn" BY <1>3
  <2>4. QED BY <1>1, <1>2, <2>1, <2>2, <2>3 DEF FirstLife
<1>22. QED BY <1>11, <1>12, <1>13, <1>17, <1>18, <1>19, <1>20, <1>21

\* applySettlement, applyTransfer, applyStarterGrant and applyDispute.
LEMMA AppliesKept ==
  ASSUME AdmissionLogAssumption, LogIInv, NEW e \in Events, Apply(e) \/ ApplySeeder(e)
  PROVE  LogIInv'
<1>1. phase[e] \in {"logged", "half"} BY DEF Apply, ApplySeeder
<1>2. Kind[e] # "override" BY <1>1 DEF LogIInv, Phases
<1>3. Consumer[e] \in Parties /\ (Seeder[e] # None => Seeder[e] \in Parties)
  BY <1>2 DEF AdmissionLogAssumption
<1>4. CASE Apply(e)
  <2>1. PICK h : h = <<e, "consumer">> OBVIOUS
  <2>2. PICK w : w = IF Seeder[e] # None THEN "half" ELSE "done" OBVIOUS
  <2>3. h \in Halves /\ h[1] = e /\ PartyOf(h) = Consumer[e] BY <2>1, HalfFacts DEF PartyOf
  <2>4. w \in {"half", "done"} /\ (w = "half" <=> Seeder[e] # None) BY <2>2
  <2>5. /\ up = "run" /\ phase[e] = "logged" /\ cell' = [cell EXCEPT ![Consumer[e]] = Append(@, h)]
        /\ phase' = [phase EXCEPT ![e] = w]
        /\ acked' = acked \/ (acked' = acked \cup {e} /\ Kind[e] \in Disputes)
        /\ UNCHANGED <<up, seqOf, nextSeq, logVars, snaps, emit, stops, emitted, calm>>
    BY <1>4, <2>1, <2>2 DEF Apply
  <2>6. QED BY <1>3, <2>1, <2>3, <2>4, <2>5, ApplyKept
<1>5. CASE ApplySeeder(e)
  <2>1. PICK h : h = <<e, "seeder">> OBVIOUS
  <2>2. h \in Halves /\ h[1] = e /\ PartyOf(h) = Seeder[e] BY <2>1, HalfFacts DEF PartyOf
  <2>3. /\ up = "run" /\ phase[e] = "half" /\ cell' = [cell EXCEPT ![Seeder[e]] = Append(@, h)]
        /\ phase' = [phase EXCEPT ![e] = "done"] /\ acked' = acked
        /\ UNCHANGED <<up, seqOf, nextSeq, logVars, snaps, emit, stops, emitted, calm>>
    BY <1>5, <2>1 DEF ApplySeeder
  <2>4. Seeder[e] \in Parties BY <1>3, <2>3 DEF LogIInv, Phases
  <2>5. QED BY <2>1, <2>2, <2>3, <2>4, ApplyKept
<1>6. QED BY <1>4, <1>5

-----------------------------------------------------------------------------
(* Snapshots. *)

\* The maximum is the only bound among the elements.
LEMMA MaxUnique ==
  \A S, m : S \subseteq Nat /\ m \in S /\ (\A y \in S : y <= m) => Max(S) = m
<1> SUFFICES ASSUME NEW S, NEW m, S \subseteq Nat, m \in S, \A y \in S : y <= m PROVE Max(S) = m
  OBVIOUS
<1>1. \E x \in S : \A y \in S : x >= y OBVIOUS
<1>2. Max(S) \in S /\ \A y \in S : Max(S) >= y BY <1>1 DEF Max
<1>3. Max(S) <= m /\ m <= Max(S) /\ Max(S) \in Nat /\ m \in Nat BY <1>2
<1>4. QED BY <1>3

\* Nothing of the emitter is where it is not.
LEMMA IdleFacts ==
  /\ NotEmitting.at = "idle" /\ NotEmitting.seq = 0 /\ NotEmitting.left = {}
  /\ NotEmitting.cells = [p \in Parties |-> <<>>]
  /\ NotEmitting.cells \in Cells /\ \A p \in Parties : Range(NotEmitting.cells[p]) = {}
<1>1. <<>> \in Seq(Halves) /\ DOMAIN <<>> = {} OBVIOUS
<1>2. /\ NotEmitting.at = "idle" /\ NotEmitting.seq = 0 /\ NotEmitting.left = {}
      /\ NotEmitting.cells = [p \in Parties |-> <<>>]
  BY DEF NotEmitting
<1>3. NotEmitting.cells \in Cells BY <1>1, <1>2 DEF Cells
<1>4. ASSUME NEW p \in Parties PROVE Range(NotEmitting.cells[p]) = {}
  <2>1. DOMAIN NotEmitting.cells[p] = {} BY <1>1, <1>2
  <2>2. QED BY <2>1 DEF Range
<1>5. QED BY <1>2, <1>3, <1>4

EmitType == [at : {"idle", "copy", "write", "rename", "prune"}, seq : Nat, cells : Cells,
             left : SUBSET Parties]

\* A step of the emitter that leaves the log, the calls and the cells alone.
LEMMA EmitterFrame ==
  ASSUME LogIInv, up = "run", UNCHANGED <<up, cell, phase, seqOf, nextSeq, logVars, stops, acked>>,
         emitted' \in 0..MaxSnapshots, calm' \in BOOLEAN, calm' => calm, emit' \in EmitType,
         emit'.at \in {"write", "rename", "prune"} => emit'.left = {},
         DOMAIN snaps' \subseteq Nat, Bounded(DOMAIN snaps'),
         \A n \in DOMAIN snaps' : snaps'[n].cells \in Cells /\ snaps'[n].whole = TRUE,
         \A p \in Parties : \A h \in Range(emit'.cells[p]) : Applied(h),
         \A n \in DOMAIN snaps' : \A p \in Parties : \A h \in Range(snaps'[n].cells[p]) : Applied(h)
  PROVE  /\ Shapes' /\ Phases' /\ OneFrame' /\ OnlyApplied' /\ Durable' /\ Exact'
         /\ Logged' = Logged /\ AllFrames' = AllFrames /\ NoneTorn' = NoneTorn /\ InFlight' = InFlight
         /\ active' = active /\ lastSeq' = lastSeq /\ replaced' = replaced /\ nextSeq' = nextSeq
         /\ phase' = phase /\ seqOf' = seqOf /\ cell' = cell /\ up' = up /\ stops' = stops
         /\ \A c, p, n : SnapCovers(c, p, n)' = SnapCovers(c, p, n)
<1> USE DEF LogIInv
<1>1. /\ up' = up /\ cell' = cell /\ phase' = phase /\ seqOf' = seqOf /\ nextSeq' = nextSeq /\ stops' = stops
      /\ acked' = acked /\ UNCHANGED logVars
  OBVIOUS
<1>2. /\ LogShapes' = LogShapes /\ AllFrames' = AllFrames /\ Logged' = Logged
      /\ OneFrameEach' = OneFrameEach /\ NoneTorn' = NoneTorn
      /\ \A x \in Events : OnDisk(x)' = OnDisk(x)
      /\ active' = active /\ rotated' = rotated /\ lastSeq' = lastSeq /\ replaced' = replaced
  BY LogStays
<1>3. Shapes' BY <1>1, <1>2 DEF Shapes, EmitType
<1>4. Phases' BY <1>1 DEF Phases
<1>5. OneFrame' BY <1>1, <1>2 DEF OneFrame
<1>6. OnlyApplied' BY <1>1 DEF OnlyApplied, Applied
<1>7. Durable' BY <1>1, <1>2 DEF Durable
<1>8. Exact' BY <1>1, <1>2 DEF Exact
<1>9. \A c, p, n : SnapCovers(c, p, n)' = SnapCovers(c, p, n) BY <1>1, <1>2 DEF SnapCovers
<1>10. InFlight' = InFlight BY <1>1 DEF InFlight
<1>11. QED BY <1>1, <1>2, <1>3, <1>4, <1>5, <1>6, <1>7, <1>8, <1>9, <1>10

LEMMA SnapStartKept == ASSUME AdmissionLogAssumption, LogIInv, SnapStart PROVE LogIInv'
<1> USE DEF LogIInv
<1>1. /\ up = "run" /\ emit.at = "idle" /\ snaps' = snaps
      /\ emit' = [NotEmitting EXCEPT !.at = "copy", !.seq = lastSeq, !.left = Parties]
      /\ calm' = (calm /\ InFlight = {}) /\ lastSeq \in Nat
      /\ UNCHANGED <<up, cell, phase, seqOf, nextSeq, logVars, stops, acked>>
  BY DEF SnapStart, Shapes, LogShapes
<1>2. emitted' \in 0..MaxSnapshots BY DEF SnapStart, Shapes, AdmissionLogAssumption
<1>3. emit'.at = "copy" /\ emit'.seq = lastSeq /\ emit'.left = Parties /\ emit'.cells = NotEmitting.cells
  BY <1>1 DEF NotEmitting
<1>4. emit' \in EmitType
  <2>1. NotEmitting.cells = [p \in Parties |-> <<>>] /\ NotEmitting.cells \in Cells BY IdleFacts
  <2>2. QED BY <1>1, <2>1 DEF EmitType, NotEmitting
<1>5. \A p \in Parties : Range(emit'.cells[p]) = {} BY <1>3, IdleFacts
<1>6. calm' \in BOOLEAN /\ (calm' => calm) BY <1>1 DEF Shapes
<1>7. /\ Shapes' /\ Phases' /\ OneFrame' /\ OnlyApplied' /\ Durable' /\ Exact'
      /\ Logged' = Logged /\ AllFrames' = AllFrames /\ NoneTorn' = NoneTorn /\ InFlight' = InFlight
      /\ active' = active /\ lastSeq' = lastSeq /\ replaced' = replaced /\ nextSeq' = nextSeq
      /\ phase' = phase /\ seqOf' = seqOf /\ cell' = cell /\ up' = up /\ stops' = stops
      /\ \A c, p, n : SnapCovers(c, p, n)' = SnapCovers(c, p, n)
  <2>1. \A p \in Parties : \A h \in Range(emit'.cells[p]) : Applied(h) BY <1>5
  <2>2. \A n \in DOMAIN snaps' : \A p \in Parties : \A h \in Range(snaps'[n].cells[p]) : Applied(h)
    BY <1>1 DEF OnlyApplied
  <2>3. /\ DOMAIN snaps' \subseteq Nat /\ Bounded(DOMAIN snaps')
        /\ \A n \in DOMAIN snaps' : snaps'[n].cells \in Cells /\ snaps'[n].whole = TRUE
    BY <1>1 DEF Shapes
  <2>4. emit'.at \in {"write", "rename", "prune"} => emit'.left = {} BY <1>3
  <2>5. QED BY <1>1, <1>2, <1>4, <1>6, <2>1, <2>2, <2>3, <2>4, EmitterFrame
<1>8. Ahead' BY <1>1, <1>3, <1>7 DEF Ahead
<1>9. FirstLife'
  <2> SUFFICES ASSUME calm', stops = 0 PROVE FirstLife' BY <1>1, <1>7 DEF FirstLife
  <2>1. calm /\ InFlight = {} BY <1>1
  <2>2. \A e \in Events : phase[e] # "drawn" BY <2>1 DEF InFlight
  <2>3. QED BY <1>1, <1>3, <1>7, <2>1, <2>2 DEF FirstLife
<1>10. QED BY <1>7, <1>8, <1>9

LEMMA SnapCopyKept == ASSUME AdmissionLogAssumption, LogIInv, NEW q \in Parties, SnapCopy(q) PROVE LogIInv'
<1> USE DEF LogIInv
<1>1. /\ up = "run" /\ emit.at = "copy" /\ q \in emit.left /\ snaps' = snaps /\ calm' = calm
      /\ emitted' = emitted
      /\ emit' = [emit EXCEPT !.cells[q] = cell[q], !.left = @ \ {q},
                              !.at = IF emit.left = {q} THEN "write" ELSE "copy"]
      /\ UNCHANGED <<up, cell, phase, seqOf, nextSeq, logVars, stops, acked>>
      /\ emit \in EmitType /\ cell \in Cells
  BY DEF SnapCopy, Shapes, EmitType
<1>2. /\ emit'.at = IF emit.left = {q} THEN "write" ELSE "copy"
      /\ emit'.seq = emit.seq /\ emit'.left = emit.left \ {q}
      /\ emit'.cells = [emit.cells EXCEPT ![q] = cell[q]]
  BY <1>1 DEF EmitType
<1>3. emit'.cells \in Cells BY <1>1, <1>2 DEF Cells, EmitType
<1>4. emit' \in EmitType
  <2>1. emit' = [at |-> emit'.at, seq |-> emit'.seq, cells |-> emit'.cells, left |-> emit'.left]
    BY <1>1 DEF EmitType
  <2>2. emit'.at \in {"copy", "write"} /\ emit'.seq \in Nat /\ emit'.left \in SUBSET Parties
    BY <1>1, <1>2 DEF EmitType
  <2>3. QED BY <1>3, <2>1, <2>2 DEF EmitType
<1>5. emit'.cells[q] = cell[q] /\ \A p \in Parties \ {q} : emit'.cells[p] = emit.cells[p]
  BY <1>1, <1>2 DEF Cells, EmitType
<1>6. /\ Shapes' /\ Phases' /\ OneFrame' /\ OnlyApplied' /\ Durable' /\ Exact'
      /\ Logged' = Logged /\ AllFrames' = AllFrames /\ NoneTorn' = NoneTorn /\ InFlight' = InFlight
      /\ active' = active /\ lastSeq' = lastSeq /\ replaced' = replaced /\ nextSeq' = nextSeq
      /\ phase' = phase /\ seqOf' = seqOf /\ cell' = cell /\ up' = up /\ stops' = stops
      /\ \A c, p, n : SnapCovers(c, p, n)' = SnapCovers(c, p, n)
  <2>1. \A p \in Parties : \A h \in Range(emit'.cells[p]) : Applied(h) BY <1>5 DEF OnlyApplied
  <2>2. \A n \in DOMAIN snaps' : \A p \in Parties : \A h \in Range(snaps'[n].cells[p]) : Applied(h)
    BY <1>1 DEF OnlyApplied
  <2>3. /\ DOMAIN snaps' \subseteq Nat /\ Bounded(DOMAIN snaps')
        /\ \A n \in DOMAIN snaps' : snaps'[n].cells \in Cells /\ snaps'[n].whole = TRUE
    BY <1>1 DEF Shapes
  <2>4. emit'.at \in {"write", "rename", "prune"} => emit'.left = {} BY <1>2
  <2>5. emitted' \in 0..MaxSnapshots /\ calm' \in BOOLEAN /\ (calm' => calm) BY <1>1 DEF Shapes
  <2>6. QED BY <1>1, <1>4, <2>1, <2>2, <2>3, <2>4, <2>5, EmitterFrame
<1>7. Ahead'
  <2> SUFFICES ASSUME ~ replaced PROVE Ahead' BY <1>6 DEF Ahead
  <2>1. \A p \in Parties \ emit'.left : p = q \/ p \in Parties \ emit.left BY <1>2
  <2>2. \A p \in Parties \ emit'.left : \A h \in Range(cell[p]) :
           h[1] \in Logged \/ h \in Range(emit'.cells[p])
    BY <1>1, <1>5, <2>1 DEF Ahead
  <2>3. QED BY <1>1, <1>6, <2>2 DEF Ahead
<1>8. FirstLife'
  <2> SUFFICES ASSUME calm, stops = 0 PROVE FirstLife' BY <1>1, <1>6 DEF FirstLife
  <2>1. InFlight = {} /\ emit.seq = lastSeq /\ \A f \in AllFrames : f.seq <= lastSeq
    BY <1>1 DEF FirstLife
  <2>2. \A e \in Events : phase[e] \notin {"drawn", "logged", "half"} BY <2>1 DEF InFlight
  <2>3. SnapCovers(cell[q], q, emit.seq)
    <3>1. NoRepeats(cell[q]) BY <1>1 DEF Exact
    <3>2. \A h \in Range(cell[q]) : \A f \in AllFrames : f.ev = h[1] => f.seq <= emit.seq BY <2>1
    <3>3. ASSUME NEW f \in AllFrames, f.ev \in Events
          PROVE  /\ phase[f.ev] \notin {"logged", "half"}
                 /\ phase[f.ev] = "done" => Range(Share(q, f.ev)) \subseteq Range(cell[q])
      <4>1. f.ev \in Logged BY LoggedIs
      <4>2. QED BY <1>1, <2>2, <3>3, <4>1 DEF Exact
    <3>4. QED BY <3>1, <3>2, <3>3 DEF SnapCovers, Covered
  <2>4. \A p \in Parties \ emit'.left : p = q \/ p \in Parties \ emit.left BY <1>2
  <2>5. \A p \in Parties \ emit'.left : SnapCovers(emit'.cells[p], p, emit.seq)
    <3> TAKE p \in Parties \ emit'.left
    <3>1. CASE p = q BY <1>5, <2>3, <3>1
    <3>2. CASE p # q
      <4>1. p \in Parties \ emit.left BY <2>4, <3>2
      <4>2. SnapCovers(emit.cells[p], p, emit.seq) BY <1>1, <4>1 DEF FirstLife
      <4>3. QED BY <1>5, <3>2, <4>2
    <3>3. QED BY <3>1, <3>2
  <2>6. \A p \in Parties \ emit'.left : SnapCovers(emit.cells[p], p, emit.seq)'
    <3> TAKE p \in Parties \ emit'.left
    <3>1. PICK c : c = emit'.cells[p] OBVIOUS
    <3>2. PICK n : n = emit.seq OBVIOUS
    <3>3. SnapCovers(c, p, n) BY <2>5, <3>1, <3>2
    <3>4. SnapCovers(c, p, n)' BY <1>6, <3>3
    <3>5. QED BY <1>2, <3>1, <3>2, <3>4 DEF SnapCovers
  <2>7. QED BY <1>1, <1>2, <1>6, <2>1, <2>2, <2>6 DEF FirstLife
<1>9. QED BY <1>6, <1>7, <1>8

\* writeSnapshot's temporary file, and a cycle that ends early.
LEMMA SnapWriteKept == ASSUME AdmissionLogAssumption, LogIInv, SnapWrite \/ SnapFails PROVE LogIInv'
<1> USE DEF LogIInv
<1>1. /\ up = "run" /\ snaps' = snaps /\ calm' = calm /\ emitted' = emitted
      /\ \/ emit.at = "write" /\ emit' = [emit EXCEPT !.at = "rename"]
         \/ emit' = NotEmitting
      /\ UNCHANGED <<up, cell, phase, seqOf, nextSeq, logVars, stops, acked>>
      /\ emit \in EmitType
  BY DEF SnapWrite, SnapFails, Shapes, EmitType
<1>2. \/ /\ emit.at = "write" /\ emit'.at = "rename" /\ emit'.seq = emit.seq
         /\ emit'.cells = emit.cells /\ emit'.left = emit.left
      \/ /\ emit'.at = "idle" /\ emit'.seq = 0 /\ emit'.left = {}
         /\ \A p \in Parties : Range(emit'.cells[p]) = {}
  BY <1>1, IdleFacts DEF EmitType
<1>3. emit' \in EmitType
  <2>1. CASE emit' = NotEmitting
    <3>1. NotEmitting.cells = [p \in Parties |-> <<>>] /\ NotEmitting.cells \in Cells BY IdleFacts
    <3>2. QED BY <2>1, <3>1 DEF EmitType, NotEmitting
  <2>2. CASE emit' = [emit EXCEPT !.at = "rename"] BY <1>1, <2>2 DEF EmitType
  <2>3. QED BY <1>1, <2>1, <2>2
<1>4. /\ Shapes' /\ Phases' /\ OneFrame' /\ OnlyApplied' /\ Durable' /\ Exact'
      /\ Logged' = Logged /\ AllFrames' = AllFrames /\ NoneTorn' = NoneTorn /\ InFlight' = InFlight
      /\ active' = active /\ lastSeq' = lastSeq /\ replaced' = replaced /\ nextSeq' = nextSeq
      /\ phase' = phase /\ seqOf' = seqOf /\ cell' = cell /\ up' = up /\ stops' = stops
      /\ \A c, p, n : SnapCovers(c, p, n)' = SnapCovers(c, p, n)
  <2>1. \A p \in Parties : \A h \in Range(emit'.cells[p]) : Applied(h) BY <1>2 DEF OnlyApplied
  <2>2. \A n \in DOMAIN snaps' : \A p \in Parties : \A h \in Range(snaps'[n].cells[p]) : Applied(h)
    BY <1>1 DEF OnlyApplied
  <2>3. /\ DOMAIN snaps' \subseteq Nat /\ Bounded(DOMAIN snaps')
        /\ \A n \in DOMAIN snaps' : snaps'[n].cells \in Cells /\ snaps'[n].whole = TRUE
    BY <1>1 DEF Shapes
  <2>4. emit'.at \in {"write", "rename", "prune"} => emit'.left = {} BY <1>2 DEF Phases
  <2>5. emitted' \in 0..MaxSnapshots /\ calm' \in BOOLEAN /\ (calm' => calm) BY <1>1 DEF Shapes
  <2>6. QED BY <1>1, <1>3, <2>1, <2>2, <2>3, <2>4, <2>5, EmitterFrame
<1>5. Ahead'
  <2>1. CASE emit'.at = "idle" BY <1>1, <1>4, <2>1 DEF Ahead
  <2>2. CASE emit'.at # "idle" BY <1>1, <1>2, <1>4, <2>2 DEF Ahead
  <2>3. QED BY <2>1, <2>2
<1>6. FirstLife'
  <2> SUFFICES ASSUME calm, stops = 0 PROVE FirstLife' BY <1>1, <1>4 DEF FirstLife
  <2>1. 0 <= lastSeq BY DEF Shapes, LogShapes
  <2>2. CASE emit'.at = "idle" BY <1>1, <1>2, <1>4, <2>1, <2>2 DEF FirstLife
  <2>3. CASE emit'.at # "idle"
    <3>1. emit.at = "write" /\ emit'.at = "rename" BY <1>2, <2>3
    <3>2. \A p \in Parties \ emit'.left : SnapCovers(emit.cells[p], p, emit.seq)'
      <4> TAKE p \in Parties \ emit'.left
      <4>1. PICK c : c = emit.cells[p] OBVIOUS
      <4>2. PICK n : n = emit.seq OBVIOUS
      <4>3. SnapCovers(c, p, n)
        <5>1. p \in Parties \ emit.left BY <1>2, <3>1
        <5>2. SnapCovers(emit.cells[p], p, emit.seq) BY <1>1, <3>1, <5>1 DEF FirstLife
        <5>3. QED BY <4>1, <4>2, <5>2
      <4>4. SnapCovers(c, p, n)' BY <1>4, <4>3
      <4>5. QED BY <1>2, <3>1, <4>1, <4>2, <4>4 DEF SnapCovers
    <3>3. QED BY <1>1, <1>2, <1>4, <3>1, <3>2 DEF FirstLife
  <2>4. QED BY <2>2, <2>3
<1>7. QED BY <1>4, <1>5, <1>6

\* The snapshot gets its name.
LEMMA SnapRenameKept == ASSUME AdmissionLogAssumption, LogIInv, SnapRename PROVE LogIInv'
<1> USE DEF LogIInv
<1>1. /\ up = "run" /\ emit.at = "rename" /\ calm' = calm /\ emitted' = emitted
      /\ snaps' = Put(snaps, emit.seq, [cells |-> emit.cells, whole |-> TRUE])
      /\ emit' = [emit EXCEPT !.at = "prune"]
      /\ UNCHANGED <<up, cell, phase, seqOf, nextSeq, logVars, stops, acked>>
      /\ emit \in EmitType /\ emit.left = {}
  BY DEF SnapRename, Shapes, EmitType, Phases
<1>2. /\ emit'.at = "prune" /\ emit'.seq = emit.seq /\ emit'.cells = emit.cells /\ emit'.left = {}
      /\ emit' \in EmitType
  BY <1>1 DEF EmitType
<1>3. PICK n0 \in Nat : n0 = emit.seq BY <1>1 DEF EmitType
<1>4. /\ DOMAIN snaps' = DOMAIN snaps \cup {n0}
      /\ snaps'[n0].cells = emit.cells /\ snaps'[n0].whole = TRUE
      /\ \A n \in DOMAIN snaps : n # n0 => snaps'[n] = snaps[n]
  BY <1>1, <1>3 DEF Put
<1>5. DOMAIN snaps \subseteq Nat /\ Bounded(DOMAIN snaps) BY DEF Shapes
<1>6. Bounded(DOMAIN snaps')
  <2>1. PICK b \in Nat : \A n \in DOMAIN snaps : n <= b BY <1>5 DEF Bounded
  <2>2. \A n \in DOMAIN snaps' : n <= b + n0 BY <1>4, <1>5, <2>1
  <2>3. b + n0 \in Nat OBVIOUS
  <2>4. QED BY <2>2, <2>3 DEF Bounded
<1>7. /\ Shapes' /\ Phases' /\ OneFrame' /\ OnlyApplied' /\ Durable' /\ Exact'
      /\ Logged' = Logged /\ AllFrames' = AllFrames /\ NoneTorn' = NoneTorn /\ InFlight' = InFlight
      /\ active' = active /\ lastSeq' = lastSeq /\ replaced' = replaced /\ nextSeq' = nextSeq
      /\ phase' = phase /\ seqOf' = seqOf /\ cell' = cell /\ up' = up /\ stops' = stops
      /\ \A c, p, n : SnapCovers(c, p, n)' = SnapCovers(c, p, n)
  <2>1. \A p \in Parties : \A h \in Range(emit'.cells[p]) : Applied(h) BY <1>2 DEF OnlyApplied
  <2>2. \A n \in DOMAIN snaps' : \A p \in Parties : \A h \in Range(snaps'[n].cells[p]) : Applied(h)
    BY <1>4 DEF OnlyApplied
  <2>3. /\ DOMAIN snaps' \subseteq Nat
        /\ \A n \in DOMAIN snaps' : snaps'[n].cells \in Cells /\ snaps'[n].whole = TRUE
    BY <1>1, <1>4, <1>5 DEF Shapes, EmitType
  <2>4. emit'.at \in {"write", "rename", "prune"} => emit'.left = {} BY <1>2
  <2>5. emitted' \in 0..MaxSnapshots /\ calm' \in BOOLEAN /\ (calm' => calm) BY <1>1 DEF Shapes
  <2>6. QED BY <1>1, <1>2, <1>6, <2>1, <2>2, <2>3, <2>4, <2>5, EmitterFrame
<1>8. Ahead'
  <2> SUFFICES ASSUME ~ replaced PROVE Ahead' BY <1>7 DEF Ahead
  <2>1. \A p \in Parties : \A h \in Range(cell[p]) : h[1] \in Logged \/ h \in Range(emit.cells[p])
    BY <1>1 DEF Ahead
  <2>2. PICK S : S = DOMAIN snaps' OBVIOUS
  <2>3. S \subseteq Nat /\ S # {} /\ n0 \in S BY <1>4, <1>5, <2>2
  <2>4. \A p \in Parties : \A h \in Range(cell[p]) :
           h[1] \in Logged \/ h \in Range(snaps'[Max(S)].cells[p])
    <3>1. CASE \A n \in DOMAIN snaps : n <= n0
      <4>1. \A n \in S : n <= n0 BY <1>4, <2>2, <3>1
      <4>2. Max(S) = n0 BY <2>3, <4>1, MaxUnique
      <4>3. QED BY <1>4, <2>1, <4>2
    <3>2. CASE ~ \A n \in DOMAIN snaps : n <= n0
      <4>1. PICK n \in DOMAIN snaps : ~ (n <= n0) BY <3>2
      <4>2. PICK D : D = DOMAIN snaps OBVIOUS
      <4>3. D \in SUBSET Nat /\ D # {} /\ Bounded(D) BY <1>5, <4>1, <4>2
      <4>4. PICK m : m = Max(D) OBVIOUS
      <4>5. m \in D /\ \A y \in D : y <= m BY <4>3, <4>4, MaxIs
      <4>6. n \in Nat /\ m \in Nat /\ n <= m BY <4>1, <4>2, <4>3, <4>5
      <4>7. m # n0 /\ n0 <= m BY <4>1, <4>6
      <4>8. S = D \cup {n0} BY <1>4, <2>2, <4>2
      <4>9. Max(S) = m BY <2>3, <4>5, <4>7, <4>8, MaxUnique
      <4>10. snaps'[m] = snaps[m] BY <1>4, <4>2, <4>5, <4>7
      <4>11. \A p \in Parties : \A h \in Range(cell[p]) : h[1] \in Logged \/ h \in Range(snaps[m].cells[p])
        BY <1>1, <4>2, <4>4 DEF Ahead
      <4>12. QED BY <4>9, <4>10, <4>11
    <3>3. QED BY <3>1, <3>2
  <2>5. \A e \in Events : phase[e] \in {"logged", "half"} => e \in Logged BY <1>1 DEF Ahead
  <2>6. QED BY <1>2, <1>7, <2>1, <2>2, <2>3, <2>4, <2>5 DEF Ahead
<1>9. FirstLife'
  <2> SUFFICES ASSUME calm, stops = 0 PROVE FirstLife' BY <1>1, <1>7 DEF FirstLife
  <2>1. ASSUME NEW n \in DOMAIN snaps', NEW p \in Parties PROVE SnapCovers(snaps[n].cells[p], p, n)'
    <3>1. PICK c : c = snaps'[n].cells[p] OBVIOUS
    <3>2. CASE n = n0
      <4>1. c = emit.cells[p] BY <1>4, <3>1, <3>2
      <4>2. SnapCovers(emit.cells[p], p, emit.seq) BY <1>1 DEF FirstLife
      <4>3. SnapCovers(c, p, n) BY <1>3, <3>2, <4>1, <4>2
      <4>4. SnapCovers(c, p, n)' BY <1>7, <4>3
      <4>5. QED BY <3>1, <4>4 DEF SnapCovers
    <3>3. CASE n # n0
      <4>1. n \in DOMAIN snaps /\ c = snaps[n].cells[p] BY <1>4, <3>1, <3>3
      <4>2. SnapCovers(c, p, n) BY <4>1 DEF FirstLife
      <4>3. SnapCovers(c, p, n)' BY <1>7, <4>2
      <4>4. QED BY <3>1, <4>3 DEF SnapCovers
    <3>4. QED BY <3>2, <3>3
  <2>2. \A n \in DOMAIN snaps' : n <= lastSeq BY <1>1, <1>3, <1>4 DEF FirstLife
  <2>3. \A e \in Events : phase[e] = "drawn" =>
           (\A n \in DOMAIN snaps' : seqOf[e] > n) /\ seqOf[e] > emit.seq
    BY <1>1, <1>3, <1>4 DEF FirstLife
  <2>4. emit.seq <= lastSeq BY <1>1 DEF FirstLife
  <2>5. QED BY <1>1, <1>2, <1>7, <2>1, <2>2, <2>3, <2>4 DEF FirstLife
<1>10. QED BY <1>7, <1>8, <1>9

\* The newest snapshot is among those that pruneSnapshots keeps.
LEMMA NewestFacts ==
  ASSUME AdmissionLogAssumption, Shapes
  PROVE  /\ Newest(SnapshotsRetained) \subseteq DOMAIN snaps
         /\ DOMAIN snaps # {} => /\ Newest(SnapshotsRetained) # {}
                                 /\ Max(Newest(SnapshotsRetained)) = Max(DOMAIN snaps)
<1>1. Newest(SnapshotsRetained) \subseteq DOMAIN snaps BY DEF Newest
<1>2. SUFFICES ASSUME DOMAIN snaps # {}
               PROVE  /\ Newest(SnapshotsRetained) # {}
                      /\ Max(Newest(SnapshotsRetained)) = Max(DOMAIN snaps)
  BY <1>1
<1>3. PICK D : D = DOMAIN snaps OBVIOUS
<1>4. D \in SUBSET Nat /\ D # {} /\ Bounded(D) BY <1>2, <1>3 DEF Shapes
<1>5. PICK m : m = Max(D) OBVIOUS
<1>6. m \in D /\ m \in Nat /\ \A y \in D : y <= m BY <1>4, <1>5, MaxIs
<1>7. {k \in D : k > m} = {}
  <2>1. \A k \in D : k \in Nat /\ k <= m BY <1>4, <1>6
  <2>2. \A k \in D : ~ (k > m) BY <1>6, <2>1
  <2>3. QED BY <2>2
<1>8. Cardinality({k \in D : k > m}) = 0 BY <1>7, FS_EmptySet
<1>9. SnapshotsRetained \in Nat /\ 0 < SnapshotsRetained BY DEF AdmissionLogAssumption
<1>10. m \in Newest(SnapshotsRetained) BY <1>3, <1>6, <1>8, <1>9 DEF Newest
<1>11. PICK N : N = Newest(SnapshotsRetained) OBVIOUS
<1>12. N \subseteq Nat /\ m \in N /\ \A y \in N : y <= m BY <1>1, <1>3, <1>4, <1>6, <1>10, <1>11
<1>13. Max(N) = m BY <1>12, MaxUnique
<1>14. QED BY <1>3, <1>5, <1>10, <1>11, <1>13

\* pruneSnapshots and the mark.
LEMMA SnapPruneKept == ASSUME AdmissionLogAssumption, LogIInv, SnapPrune PROVE LogIInv'
<1> USE DEF LogIInv
<1>0. PICK f : f = Frame(0, Mark) OBVIOUS
<1>1. /\ up = "run" /\ up' = up /\ emit.at = "prune" /\ calm' = calm /\ emitted' = emitted
      /\ snaps' = Restrict(snaps, Newest(SnapshotsRetained))
      /\ emit' = NotEmitting /\ AppendFrame(f, FALSE) /\ cell' = cell /\ phase' = phase /\ seqOf' = seqOf
      /\ nextSeq' = nextSeq /\ stops' = stops /\ acked' = acked
  BY <1>0 DEF SnapPrune
<1>2. f \in Frames /\ f.ev = Mark /\ f.seq = 0 /\ Mark \notin Events /\ Torn \notin Events /\ Mark # Torn
  BY <1>0 DEF Frame, Frames, AdmissionLogAssumption, Mark, Torn
<1>3. LogShapes BY DEF Shapes
<1>4. Added(f)
  <2>1. f.ev \in Events <=> f.seq > 0 BY <1>2
  <2>2. QED BY <1>1, <1>2, <1>3, <2>1, AppendAdds, Zenon
<1>5. /\ LogShapes'
      /\ lastSeq' >= lastSeq /\ lastSeq' \in {lastSeq, 0}
      /\ AllFrames' \subseteq AllFrames \cup {f}
      /\ ~ replaced' => /\ ~ replaced
                        /\ Logged \subseteq Logged'
                        /\ \A x \in Events : OnDisk(x) => OnDisk(x)'
      /\ OneFrameEach'
      /\ NoneTorn /\ (\A k \in DOMAIN active : active[k].ev # Torn) =>
            NoneTorn' /\ \A k \in DOMAIN active' : active'[k].ev # Torn
  BY <1>2, <1>4 DEF Added, OneFrame
<1>6. Logged' \cap Events \subseteq Logged
  <2>1. Logged' = {g.ev : g \in AllFrames'} BY DEF Logged, AllFrames, FramesOf
  <2>2. QED BY <1>2, <1>5, <2>1, LoggedIs
<1>7. PICK D : D = Newest(SnapshotsRetained) OBVIOUS
<1>8. D \subseteq DOMAIN snaps /\ (DOMAIN snaps # {} => D # {} /\ Max(D) = Max(DOMAIN snaps))
  BY <1>7, NewestFacts
<1>9. DOMAIN snaps' = D /\ \A n \in D : snaps'[n] = snaps[n] BY <1>1, <1>7 DEF Restrict
<1>10. /\ emit'.at = "idle" /\ emit'.seq = 0 /\ emit'.left = {} /\ emit'.cells \in Cells
       /\ emit'.cells = [p \in Parties |-> <<>>]
       /\ \A p \in Parties : Range(emit'.cells[p]) = {}
  BY <1>1, IdleFacts
<1>11. emit' \in EmitType BY <1>1, <1>10 DEF EmitType, NotEmitting
<1>12. Shapes'
  <2>1. Bounded(DOMAIN snaps')
    <3>1. PICK b \in Nat : \A n \in DOMAIN snaps : n <= b BY DEF Shapes, Bounded
    <3>2. QED BY <1>8, <1>9, <3>1 DEF Bounded
  <2>2. DOMAIN snaps' \subseteq Nat /\ \A n \in DOMAIN snaps' : snaps'[n].cells \in Cells /\ snaps'[n].whole = TRUE
    BY <1>8, <1>9 DEF Shapes
  <2>3. QED BY <1>1, <1>5, <1>11, <2>1, <2>2 DEF Shapes, EmitType
<1>13. Phases' BY <1>1, <1>10 DEF Phases
<1>14. OneFrame' BY <1>1, <1>5, <1>6 DEF OneFrame
<1>15. OnlyApplied'
  <2>1. \A h : Applied(h)' = Applied(h) BY <1>1 DEF Applied
  <2>2. QED BY <1>1, <1>8, <1>9, <1>10, <2>1 DEF OnlyApplied
<1>16. Ahead'
  <2> SUFFICES ASSUME ~ replaced' PROVE Ahead' BY DEF Ahead
  <2>1. ~ replaced /\ Logged \subseteq Logged' BY <1>5
  <2>2. DOMAIN snaps # {} => DOMAIN snaps' # {} /\ snaps'[Max(DOMAIN snaps')] = snaps[Max(DOMAIN snaps)]
    <3> HAVE DOMAIN snaps # {}
    <3>1. PICK S : S = DOMAIN snaps OBVIOUS
    <3>2. S \in SUBSET Nat /\ S # {} /\ Bounded(S) BY <3>1 DEF Shapes
    <3>3. D # {} /\ D \in SUBSET Nat /\ Bounded(D)
      <4>1. PICK b \in Nat : \A n \in S : n <= b BY <3>2 DEF Bounded
      <4>2. QED BY <1>8, <3>1, <3>2, <4>1 DEF Bounded
    <3>4. Max(D) \in D BY <3>3, MaxIs
    <3>5. QED BY <1>8, <1>9, <3>3, <3>4
  <2>3. QED BY <1>1, <1>10, <2>1, <2>2 DEF Ahead
<1>17. Durable' BY <1>1, <1>5 DEF Durable
<1>18. Exact' BY <1>1, <1>6 DEF Exact
<1>19. FirstLife'
  <2> SUFFICES ASSUME calm, stops = 0 PROVE FirstLife' BY <1>1 DEF FirstLife
  <2>1. NoneTorn' /\ \A k \in DOMAIN active' : active'[k].ev # Torn BY <1>1, <1>5 DEF FirstLife
  <2>2. /\ lastSeq <= nextSeq /\ lastSeq \in Nat /\ (\A g \in AllFrames : g.seq <= lastSeq)
        /\ (\A n \in DOMAIN snaps : n <= lastSeq)
    BY <1>1 DEF FirstLife, Shapes, LogShapes
  <2>3. lastSeq' = lastSeq BY <1>5, <2>2
  <2>4. \A g \in AllFrames' : g.seq <= lastSeq' BY <1>2, <1>5, <2>2, <2>3
  <2>5. ASSUME NEW n \in DOMAIN snaps', NEW p \in Parties PROVE SnapCovers(snaps[n].cells[p], p, n)'
    <3>1. PICK c : c = snaps[n].cells[p] OBVIOUS
    <3>2. n \in DOMAIN snaps /\ c = snaps'[n].cells[p] /\ n \in Nat BY <1>8, <1>9, <3>1 DEF Shapes
    <3>3. Covered(c, p, n, AllFrames, phase)
      <4>1. SnapCovers(snaps[n].cells[p], p, n) BY <3>2 DEF FirstLife
      <4>2. SnapCovers(c, p, n) BY <3>1, <4>1
      <4>3. QED BY <4>2 DEF SnapCovers
    <3>4. PICK fr, fr2 : fr = AllFrames /\ fr2 = AllFrames' OBVIOUS
    <3>5. \A g \in fr2 : \/ g \in fr
                         \/ ~ (g.seq <= n) /\ \A h \in Range(c) : h[1] # g.ev
                         \/ g.ev \notin Events /\ g.seq <= n
      BY <1>2, <1>5, <3>2, <3>4
    <3>6. Covered(c, p, n, fr2, phase) BY <3>3, <3>4, <3>5, CoveredKept
    <3>7. QED BY <1>1, <3>2, <3>4, <3>6 DEF SnapCovers
  <2>6. \A n \in DOMAIN snaps' : n <= lastSeq BY <1>8, <1>9, <2>2
  <2>7. \A e \in Events : phase[e] = "drawn" => \A n \in DOMAIN snaps' : seqOf[e] > n
    BY <1>1, <1>8, <1>9 DEF FirstLife
  <2>8. emit'.seq <= lastSeq BY <1>10, <2>2
  <2>9. QED BY <1>1, <1>10, <2>1, <2>2, <2>3, <2>4, <2>5, <2>6, <2>7, <2>8 DEF FirstLife
<1>20. QED BY <1>12, <1>13, <1>14, <1>15, <1>16, <1>17, <1>18, <1>19

-----------------------------------------------------------------------------
(* Stopping and starting. *)

\* What a crash or a shutdown leaves of the active file.
Left(t) == \E kept \in synced..Len(active) :
               /\ DOMAIN t = 1..Len(t) /\ Len(t) \in {kept, kept + 1}
               /\ \A k \in 1..kept : t[k] = active[k]
               /\ Len(t) = kept + 1 => t[kept + 1] = Frame(0, Torn)
               /\ IsFile(t)

LEMMA CrashLeaves ==
  ASSUME AdmissionLogAssumption, LogShapes, NEW kept \in synced..Len(active), NEW torn \in BOOLEAN
  PROVE  Left(SubSeq(active, 1, kept) \o (IF torn THEN <<Frame(0, Torn)>> ELSE <<>>))
<1>1. PICK s : s = active OBVIOUS
<1>2. PICK f : f = Frame(0, Torn) OBVIOUS
<1>3. f \in Frames /\ f.ev = Torn /\ f.seq = 0 /\ Torn \notin Events
  BY <1>2 DEF Frame, Frames, AdmissionLogAssumption
<1>4. s \in Seq(Frames) /\ Len(s) \in Nat /\ synced \in 0..Len(s) /\ DOMAIN s = 1..Len(s)
  BY <1>1 DEF LogShapes, IsFile
<1>5. kept \in Nat /\ kept <= Len(s) BY <1>1, <1>4
<1>6. PICK u : u = SubSeq(s, 1, kept) OBVIOUS
<1>7. u \in Seq(Frames) /\ Len(u) = kept /\ \A k \in 1..kept : u[k] = s[k]
  <2>1. CASE kept = 0 BY <1>4, <1>6, <2>1
  <2>2. CASE kept # 0
    <3>1. 1 \in 1..Len(s) /\ kept \in 1..Len(s) BY <1>4, <1>5, <2>2
    <3>2. QED BY <1>4, <1>5, <1>6, <3>1
  <2>3. QED BY <2>1, <2>2
<1>8. PICK t : t = u \o (IF torn THEN <<f>> ELSE <<>>) OBVIOUS
<1>9. /\ t \in Seq(Frames) /\ Len(t) \in {kept, kept + 1}
      /\ \A k \in 1..kept : t[k] = s[k]
      /\ Len(t) = kept + 1 => t[kept + 1] = f
  <2>1. CASE torn
    <3>1. <<f>> \in Seq(Frames) /\ Len(<<f>>) = 1 /\ <<f>>[1] = f BY <1>3
    <3>2. t = u \o <<f>> BY <1>8, <2>1
    <3>3. /\ t \in Seq(Frames) /\ Len(t) = kept + 1
          /\ \A k \in 1..(kept + 1) : t[k] = IF k <= kept THEN u[k] ELSE <<f>>[k - kept]
      BY <1>7, <3>1, <3>2, ConcatProperties
    <3>4. t[kept + 1] = f BY <1>5, <3>1, <3>3
    <3>5. \A k \in 1..kept : t[k] = s[k] BY <1>5, <1>7, <3>3
    <3>6. QED BY <3>3, <3>4, <3>5
  <2>2. CASE ~ torn
    <3>1. t = u BY <1>7, <1>8, <2>2
    <3>2. Len(t) # kept + 1 BY <1>5, <1>7, <3>1
    <3>3. QED BY <1>7, <3>1, <3>2
  <2>3. QED BY <2>1, <2>2
<1>10. DOMAIN t = 1..Len(t) BY <1>9
<1>11. IsFile(t)
  <2> SUFFICES ASSUME NEW k \in DOMAIN t PROVE t[k].ev \in Events <=> t[k].seq > 0
    BY <1>9 DEF IsFile
  <2>1. k \in 1..kept \/ (k = kept + 1 /\ Len(t) = kept + 1)
    <3>1. CASE Len(t) = kept
      <4>1. DOMAIN t = 1..kept BY <1>10, <3>1
      <4>2. QED BY <4>1
    <3>2. CASE Len(t) = kept + 1
      <4>1. DOMAIN t = 1..(kept + 1) BY <1>10, <3>2
      <4>2. k \in 1..kept \/ k = kept + 1 BY <1>5, <4>1
      <4>3. QED BY <3>2, <4>2
    <3>3. QED BY <1>9, <3>1, <3>2
  <2>2. CASE k \in 1..kept
    <3>1. k \in DOMAIN s /\ t[k] = s[k] BY <1>4, <1>5, <1>9, <2>2
    <3>2. QED BY <1>1, <3>1 DEF LogShapes, IsFile
  <2>3. CASE k = kept + 1 /\ Len(t) = kept + 1 BY <1>3, <1>9, <2>3
  <2>4. QED BY <2>1, <2>2, <2>3
<1>12. Left(t) BY <1>1, <1>2, <1>9, <1>10, <1>11 DEF Left
<1>13. QED BY <1>1, <1>2, <1>6, <1>8, <1>12

LEMMA CloseLeaves ==
  ASSUME LogShapes
  PROVE  Left(active)
<1>1. Len(active) \in synced..Len(active) /\ DOMAIN active = 1..Len(active) /\ IsFile(active)
  BY DEF LogShapes, IsFile
<1>2. Len(active) \in Nat BY DEF LogShapes, IsFile
<1>3. Len(active) # Len(active) + 1 BY <1>2
<1>4. QED BY <1>1, <1>3 DEF Left

\* What the log is then: some frames of events are gone, none that was synced.
LEMMA LeftFacts ==
  ASSUME AdmissionLogAssumption, LogShapes, Left(active'), synced' = Len(active'), lastSeq' = 0,
         rotated' = rotated, replaced' = replaced
  PROVE  /\ LogShapes' /\ NoneTorn' = NoneTorn
         /\ AllFrames' \subseteq AllFrames \cup {Frame(0, Torn)}
         /\ Logged' \cap Events \subseteq Logged
         /\ \A e \in Events : OnDisk(e) => OnDisk(e)'
         /\ OneFrameEach => OneFrameEach'
         /\ (\A k \in DOMAIN active : active[k].ev # Torn) =>
               \A k \in DOMAIN active' : active'[k].ev = Torn => k = Len(active')
<1>1. PICK s, t : s = active /\ t = active' OBVIOUS
<1>2. PICK f : f = Frame(0, Torn) OBVIOUS
<1>3. f.ev = Torn /\ f.seq = 0 /\ Torn \notin Events BY <1>2 DEF Frame, AdmissionLogAssumption
<1>4. PICK kept \in synced..Len(s) :
         /\ DOMAIN t = 1..Len(t) /\ Len(t) \in {kept, kept + 1}
         /\ \A k \in 1..kept : t[k] = s[k]
         /\ Len(t) = kept + 1 => t[kept + 1] = f
         /\ IsFile(t)
  BY <1>1, <1>2 DEF Left
<1>5. Len(s) \in Nat /\ synced \in 0..Len(s) /\ DOMAIN s = 1..Len(s) /\ Len(t) \in Nat
  BY <1>1, <1>4 DEF LogShapes, IsFile
<1>6. kept \in Nat /\ kept <= Len(s) /\ synced <= kept BY <1>4, <1>5
<1>7. \A k \in DOMAIN t : \/ k \in DOMAIN s /\ t[k] = s[k] /\ k <= kept
                          \/ k = kept + 1 /\ k = Len(t) /\ t[k] = f
  <2> TAKE k \in DOMAIN t
  <2>2. k \in 1..kept \/ (k = kept + 1 /\ Len(t) = kept + 1)
    <3>1. CASE Len(t) = kept
      <4>1. DOMAIN t = 1..kept BY <1>4, <3>1
      <4>2. QED BY <4>1
    <3>2. CASE Len(t) = kept + 1
      <4>1. DOMAIN t = 1..(kept + 1) BY <1>4, <3>2
      <4>2. k \in 1..kept \/ k = kept + 1 BY <1>6, <4>1
      <4>3. QED BY <3>2, <4>2
    <3>3. QED BY <1>4, <3>1, <3>2
  <2>3. CASE k \in 1..kept
    <3>1. k \in DOMAIN s /\ k <= kept BY <1>5, <1>6, <2>3
    <3>2. QED BY <1>4, <2>3, <3>1
  <2>4. CASE k = kept + 1 /\ Len(t) = kept + 1 BY <1>4, <2>4
  <2>5. QED BY <2>2, <2>3, <2>4
<1>8. LogShapes' BY <1>1, <1>4, <1>5 DEF LogShapes
<1>9. NoneTorn' = NoneTorn BY DEF NoneTorn
<1>10. Range(t) \subseteq Range(s) \cup {f} BY <1>7 DEF Range
<1>11. AllFrames' \subseteq AllFrames \cup {f}
  <2>1. ASSUME NEW g \in AllFrames' PROVE g \in AllFrames \cup {f}
    <3>1. (\E n \in DOMAIN rotated : g \in Range(rotated[n])) \/ g \in Range(t)
      BY <1>1, FramesIn DEF AllFrames
    <3>2. (\E n \in DOMAIN rotated : g \in Range(rotated[n])) \/ g \in Range(s) \/ g = f
      BY <1>10, <3>1
    <3>3. QED BY <1>1, <3>2, FramesIn DEF AllFrames
  <2>2. QED BY <2>1
<1>12. Logged' \cap Events \subseteq Logged
  <2>1. Logged' = {g.ev : g \in AllFrames'} BY DEF Logged, AllFrames, FramesOf
  <2>2. QED BY <1>3, <1>11, <2>1, LoggedIs
<1>13. ASSUME NEW e \in Events, OnDisk(e) PROVE OnDisk(e)'
  <2> DEFINE old == UNION {{g.ev : g \in Range(rotated[n])} : n \in DOMAIN rotated}
  <2>1. OnDisk(e) <=> e \in {s[k].ev : k \in 1..synced} \cup old BY <1>1 DEF OnDisk
  <2>2. OnDisk(e)' <=> e \in {t[k].ev : k \in 1..Len(t)} \cup old BY <1>1 DEF OnDisk
  <2> HIDE DEF old
  <2>3. \A k \in 1..synced : k \in 1..Len(t) /\ s[k] = t[k]
    <3>1. synced \in Nat /\ kept <= Len(t)
      <4>1. synced \in Nat BY <1>5
      <4>2. CASE Len(t) = kept BY <1>6, <4>1, <4>2
      <4>3. CASE Len(t) = kept + 1 BY <1>6, <4>1, <4>3
      <4>4. QED BY <1>4, <4>2, <4>3
    <3>2. \A k \in 1..synced : k \in 1..kept /\ k \in 1..Len(t) BY <1>5, <1>6, <3>1
    <3>3. QED BY <1>4, <3>2
  <2>4. QED BY <1>13, <2>1, <2>2, <2>3
<1>14. OneFrameEach => OneFrameEach'
  <2> HAVE OneFrameEach
  <2>1. \A k, l \in DOMAIN s : s[k].ev \in Events /\ s[k].ev = s[l].ev => k = l
    BY <1>1 DEF OneFrameEach
  <2>2. \A k, l \in DOMAIN t : t[k].ev \in Events /\ t[k].ev = t[l].ev => k = l
    BY <1>3, <1>7, <2>1
  <2>3. \A n \in DOMAIN rotated : \A k \in DOMAIN rotated[n], l \in DOMAIN t :
           rotated[n][k].ev \in Events => rotated[n][k].ev # t[l].ev
    <3> TAKE n \in DOMAIN rotated
    <3> TAKE k \in DOMAIN rotated[n], l \in DOMAIN t
    <3>1. \A j \in DOMAIN s : rotated[n][k].ev \in Events => rotated[n][k].ev # s[j].ev
      BY <1>1 DEF OneFrameEach
    <3>2. QED BY <1>3, <1>7, <3>1
  <2>4. QED BY <1>1, <2>2, <2>3 DEF OneFrameEach
<1>15. (\A k \in DOMAIN s : s[k].ev # Torn) => \A k \in DOMAIN t : t[k].ev = Torn => k = Len(t)
  BY <1>7
<1>16. QED BY <1>1, <1>2, <1>8, <1>9, <1>11, <1>12, <1>13, <1>14, <1>15

\* Crash and Close: the calls and the emitter are gone, the disk stays.
LEMMA StopKept == ASSUME AdmissionLogAssumption, LogIInv, CrashProcess \/ Close PROVE LogIInv'
<1> USE DEF LogIInv
<1>1. /\ up = "run" /\ stops < MaxStops /\ Halt
      /\ rotated' = rotated /\ replaced' = replaced /\ snaps' = snaps /\ emitted' = emitted
      /\ acked' = acked /\ calm' = calm
  BY DEF CrashProcess, Close
<1>2. LogShapes BY DEF Shapes
<1>3. Left(active') /\ synced' = Len(active')
  <2>1. CASE CrashProcess
    <3>1. PICK kept \in synced..Len(active), torn \in BOOLEAN :
             /\ active' = SubSeq(active, 1, kept) \o (IF torn THEN <<Frame(0, Torn)>> ELSE <<>>)
             /\ synced' = Len(active')
      BY <2>1 DEF CrashProcess
    <3>2. Left(SubSeq(active, 1, kept) \o (IF torn THEN <<Frame(0, Torn)>> ELSE <<>>))
      BY <1>2, CrashLeaves
    <3>3. QED BY <3>1, <3>2
  <2>2. CASE Close
    <3>1. active' = active /\ synced' = Len(active') BY <2>2 DEF Close
    <3>2. QED BY <1>2, <3>1, CloseLeaves
  <2>3. QED BY <2>1, <2>2
<1>4. /\ up' = "down" /\ cell' = [p \in Parties |-> <<>>] /\ emit' = NotEmitting
      /\ phase' = [e \in Events |-> IF e \in InFlight THEN "lost" ELSE phase[e]]
      /\ nextSeq' = 0 /\ lastSeq' = 0 /\ seqOf' = [e \in Events |-> 0] /\ stops' = stops + 1
  BY <1>1 DEF Halt
<1>5. /\ LogShapes' /\ NoneTorn' = NoneTorn
      /\ AllFrames' \subseteq AllFrames \cup {Frame(0, Torn)}
      /\ Logged' \cap Events \subseteq Logged
      /\ \A e \in Events : OnDisk(e) => OnDisk(e)'
      /\ OneFrameEach'
      /\ (\A k \in DOMAIN active : active[k].ev # Torn) =>
            \A k \in DOMAIN active' : active'[k].ev = Torn => k = Len(active')
  BY <1>1, <1>2, <1>3, <1>4, LeftFacts DEF OneFrame
<1>6. /\ emit'.at = "idle" /\ emit'.seq = 0 /\ emit'.left = {} /\ emit'.cells \in Cells
      /\ emit'.cells = [p \in Parties |-> <<>>]
      /\ \A p \in Parties : Range(emit'.cells[p]) = {} /\ Range(cell'[p]) = {}
      /\ cell' \in Cells
  BY <1>4, IdleFacts
<1>7. emit' \in EmitType BY <1>4, <1>6 DEF EmitType, NotEmitting
<1>8. \A e \in Events : /\ phase'[e] \in {"new", "done", "lost"}
                        /\ phase'[e] = phase[e] \/ (phase'[e] = "lost" /\ phase[e] \in {"drawn", "logged", "half"})
  <2> TAKE e \in Events
  <2>1. phase[e] \in {"new", "drawn", "logged", "half", "done", "lost"} BY DEF Shapes
  <2>2. e \in InFlight <=> phase[e] \in {"drawn", "logged", "half"} BY DEF InFlight
  <2>3. phase'[e] = IF e \in InFlight THEN "lost" ELSE phase[e] BY <1>4
  <2>4. CASE e \in InFlight
    <3>1. phase'[e] = "lost" BY <2>3, <2>4
    <3>2. QED BY <2>2, <2>4, <3>1
  <2>5. CASE e \notin InFlight
    <3>1. phase'[e] = phase[e] BY <2>3, <2>5
    <3>2. phase[e] \in {"new", "done", "lost"} BY <2>1, <2>2, <2>5
    <3>3. QED BY <3>1, <3>2
  <2>6. QED BY <2>4, <2>5
<1>9. phase' \in [Events -> {"new", "drawn", "logged", "half", "done", "lost"}]
  <2>1. DOMAIN phase' = Events /\ phase' = [e \in Events |-> phase'[e]] BY <1>4
  <2>2. QED BY <1>8, <2>1
<1>10. stops' \in 0..MaxStops /\ stops' > 0 BY <1>1, <1>4 DEF Shapes, AdmissionLogAssumption
<1>11. seqOf' \in [Events -> Nat] BY <1>4
<1>12. Shapes' BY <1>1, <1>4, <1>5, <1>6, <1>7, <1>9, <1>10, <1>11 DEF Shapes, EmitType
<1>13. Phases'
  <2>1. InFlight' = {} BY <1>8 DEF InFlight
  <2>2. QED BY <1>4, <1>6, <1>8, <1>10, <2>1 DEF Phases
<1>14. OneFrame'
  <2>1. \A e \in Events : phase'[e] \in {"new", "drawn"} => e \notin Logged'
    BY <1>5, <1>8 DEF OneFrame
  <2>2. QED BY <1>5, <2>1 DEF OneFrame
<1>15. OnlyApplied'
  <2>1. \A h : h[1] \in Events /\ Applied(h) => Applied(h)' BY <1>8 DEF Applied
  <2>2. ASSUME NEW n \in DOMAIN snaps, NEW p \in Parties, NEW h \in Range(snaps[n].cells[p])
        PROVE  Applied(h)'
    <3>1. Applied(h) BY DEF OnlyApplied
    <3>2. snaps[n].cells[p] \in Seq(Halves) BY DEF Shapes, Cells
    <3>3. h[1] \in Events BY <3>2, HalfFacts
    <3>4. QED BY <2>1, <3>1, <3>3
  <2>3. QED BY <1>1, <1>6, <2>2 DEF OnlyApplied
<1>16. Ahead' BY <1>4 DEF Ahead
<1>17. Durable'
  <2>1. ASSUME ~ replaced, NEW e \in Events, e \in acked \/ (Kind[e] \in Disputes /\ phase'[e] = "logged")
        PROVE  OnDisk(e)'
    BY <1>5, <1>8, <2>1 DEF Durable
  <2>2. QED BY <1>1, <2>1 DEF Durable
<1>18. Exact' BY <1>4 DEF Exact
<1>19. FirstLife'
  <2> SUFFICES ASSUME calm, stops = 0 PROVE FirstLife'
    BY <1>1, <1>4 DEF FirstLife, Shapes
  <2>1. NoneTorn' BY <1>5 DEF FirstLife
  <2>2. \A k \in DOMAIN active' : active'[k].ev = Torn => k = Len(active') BY <1>1, <1>5 DEF FirstLife
  <2>3. ASSUME NEW n \in DOMAIN snaps, NEW p \in Parties PROVE SnapCovers(snaps[n].cells[p], p, n)'
    <3>1. PICK c : c = snaps[n].cells[p] OBVIOUS
    <3>2. PICK fr, fr2 : fr = AllFrames /\ fr2 = AllFrames' OBVIOUS
    <3>3. PICK q, q2 : q = phase /\ q2 = phase' OBVIOUS
    <3>4. Covered(c, p, n, fr, q)
      <4>1. SnapCovers(snaps[n].cells[p], p, n) BY DEF FirstLife
      <4>2. SnapCovers(c, p, n) BY <3>1, <4>1
      <4>3. QED BY <3>2, <3>3, <4>2 DEF SnapCovers
    <3>5. n \in Nat BY DEF Shapes
    <3>6. \A g \in fr2 : g \in fr \/ (g.ev \notin Events /\ g.seq <= n)
      <4>1. Frame(0, Torn).ev \notin Events /\ Frame(0, Torn).seq <= n
        BY <3>5 DEF Frame, AdmissionLogAssumption
      <4>2. QED BY <1>5, <3>2, <4>1
    <3>7. \A g \in fr : g.ev \in Events /\ g.seq <= n =>
             q2[g.ev] = q[g.ev] \/ q2[g.ev] \notin {"logged", "half", "done"}
      BY <1>8, <3>3
    <3>8. Covered(c, p, n, fr2, q2) BY <3>4, <3>6, <3>7, CoveredKept
    <3>9. c = snaps'[n].cells[p] BY <1>1, <3>1
    <3>10. QED BY <3>2, <3>3, <3>8, <3>9 DEF SnapCovers
  <2>4. QED BY <1>1, <1>4, <2>1, <2>2, <2>3 DEF FirstLife
<1>20. QED BY <1>12, <1>13, <1>14, <1>15, <1>16, <1>17, <1>18, <1>19

\* readTLogFile returns the frames before the first torn one.
LEMMA WholeFacts ==
  ASSUME NEW s, IsFile(s)
  PROVE  /\ Whole(s) \in Seq(Frames)
         /\ \A k \in DOMAIN Whole(s) : k \in DOMAIN s /\ Whole(s)[k] = s[k] /\ s[k].ev # Torn
         /\ (\A k \in DOMAIN s : s[k].ev = Torn => k = Len(s)) =>
               \A k \in DOMAIN s : s[k].ev # Torn => k \in DOMAIN Whole(s)
<1>1. s \in Seq(Frames) /\ Len(s) \in Nat /\ DOMAIN s = 1..Len(s) /\ \A k \in DOMAIN s : s[k] \in Frames
  BY DEF IsFile
<1> DEFINE bad == {k \in DOMAIN s : s[k].ev = Torn}
<1>2. Whole(s) = IF bad = {} THEN s ELSE SubSeq(s, 1, Min(bad) - 1) BY DEF Whole
<1>3. CASE bad = {}
  <2>1. Whole(s) = s BY <1>2, <1>3
  <2>2. QED BY <1>1, <1>3, <2>1
<1>4. CASE bad # {}
  <2>1. bad \in SUBSET Nat BY <1>1
  <2>2. \E x \in bad : \A y \in bad : x <= y
    <3> HIDE DEF bad
    <3>1. QED BY <1>4, <2>1, NatMin
  <2>3. PICK m : m = Min(bad) OBVIOUS
  <2>4. m \in bad /\ \A y \in bad : m <= y
    <3> HIDE DEF bad
    <3>1. Min(bad) \in bad /\ \A y \in bad : Min(bad) <= y BY <2>2 DEF Min
    <3>2. QED BY <2>3, <3>1
  <2>5. m \in 1..Len(s) /\ s[m].ev = Torn BY <1>1, <2>4
  <2>6. Whole(s) = SubSeq(s, 1, m - 1) BY <1>2, <1>4, <2>3
  <2>7. PICK w : w = Whole(s) OBVIOUS
  <2>8. w \in Seq(Frames) /\ DOMAIN w = 1..(m - 1) /\ \A k \in 1..(m - 1) : w[k] = s[k]
    <3>1. m - 1 \in Int /\ 1 \in Int /\ \A k \in 1..(m - 1) : s[k] \in Frames BY <1>1, <2>5
    <3>2. /\ w \in Seq(Frames)
          /\ Len(w) = IF 1 <= m - 1 THEN (m - 1) - 1 + 1 ELSE 0
          /\ \A k \in 1..((m - 1) - 1 + 1) : w[k] = s[1 + k - 1]
      BY <2>6, <2>7, <3>1, SubSeqProperties
    <3>3. Len(w) = m - 1 BY <2>5, <3>2
    <3>4. (m - 1) - 1 + 1 = m - 1 /\ \A k \in 1..(m - 1) : 1 + k - 1 = k BY <2>5
    <3>5. \A k \in 1..(m - 1) : w[k] = s[k] BY <3>2, <3>4
    <3>6. DOMAIN w = 1..(m - 1) BY <3>2, <3>3
    <3>7. QED BY <3>2, <3>5, <3>6
  <2>9. \A k \in 1..(m - 1) : k \in DOMAIN s /\ s[k].ev # Torn
    <3> TAKE k \in 1..(m - 1)
    <3>1. k \in DOMAIN s /\ ~ (m <= k) BY <1>1, <2>5
    <3>2. k \notin bad BY <2>4, <3>1
    <3>3. QED BY <3>1, <3>2
  <2>10. (\A k \in DOMAIN s : s[k].ev = Torn => k = Len(s)) =>
            \A k \in DOMAIN s : s[k].ev # Torn => k \in 1..(m - 1)
    <3> HAVE \A k \in DOMAIN s : s[k].ev = Torn => k = Len(s)
    <3>1. m = Len(s) BY <1>1, <2>5
    <3>2. \A k \in DOMAIN s : s[k].ev # Torn => k # m BY <2>5
    <3>3. QED BY <1>1, <3>1, <3>2
  <2>11. QED BY <2>7, <2>8, <2>9, <2>10
<1>5. QED BY <1>3, <1>4

\* enumerateTLogFiles lists every file of the log once.
LEMMA FilesFacts ==
  ASSUME LogShapes
  PROVE  \E last \in Nat :
            /\ LogFiles \in Seq(Seq(Frames)) /\ DOMAIN LogFiles = 1..(last + 1)
            /\ LogFiles[last + 1] = active
            /\ \A n \in DOMAIN rotated : n + 1 \in 1..last /\ LogFiles[n + 1] = rotated[n]
            /\ \A a \in 1..last : a - 1 \notin DOMAIN rotated => LogFiles[a] = <<>>
<1>1. PICK D : D = DOMAIN rotated \cup {0} OBVIOUS
<1>2. D \in SUBSET Nat /\ D # {} BY <1>1 DEF LogShapes
<1>3. Bounded(D)
  <2>1. PICK b \in Nat : \A n \in DOMAIN rotated : n <= b BY DEF LogShapes, Bounded
  <2>2. QED BY <1>1, <2>1 DEF Bounded
<1>4. PICK m : m = Max(D) OBVIOUS
<1>5. m \in Nat /\ \A n \in DOMAIN rotated : n \in Nat /\ n <= m
  <2>1. m \in D /\ \A n \in D : n <= m BY <1>2, <1>3, <1>4, MaxIs
  <2>2. QED BY <1>1, <1>2, <2>1
<1>6. PICK old : old = [k \in 1..(m + 1) |-> IF k - 1 \in DOMAIN rotated THEN rotated[k - 1] ELSE <<>>]
  OBVIOUS
<1>7. LogFiles = old \o <<active>> BY <1>1, <1>4, <1>6 DEF LogFiles
<1>8. old \in Seq(Seq(Frames)) /\ Len(old) = m + 1 /\ DOMAIN old = 1..(m + 1)
  <2>1. \A k \in 1..(m + 1) : old[k] \in Seq(Frames)
    <3> TAKE k \in 1..(m + 1)
    <3>1. CASE k - 1 \in DOMAIN rotated
      <4>1. old[k] = rotated[k - 1] BY <1>6, <3>1
      <4>2. QED BY <3>1, <4>1 DEF LogShapes, IsFile
    <3>2. CASE k - 1 \notin DOMAIN rotated
      <4>1. old[k] = <<>> BY <1>6, <3>2
      <4>2. <<>> \in Seq(Frames) OBVIOUS
      <4>3. QED BY <4>1, <4>2
    <3>3. QED BY <3>1, <3>2
  <2>2. old \in [1..(m + 1) -> Seq(Frames)]
    <3>1. DOMAIN old = 1..(m + 1) /\ old = [k \in 1..(m + 1) |-> old[k]] BY <1>6
    <3>2. QED BY <2>1, <3>1
  <2>3. m + 1 \in Nat BY <1>5
  <2>4. QED BY <2>2, <2>3
<1>9. PICK s : s = active OBVIOUS
<1>10. <<s>> \in Seq(Seq(Frames)) /\ Len(<<s>>) = 1 /\ <<s>>[1] = s BY <1>9 DEF LogShapes, IsFile
<1>11. PICK fs : fs = LogFiles OBVIOUS
<1>12. /\ fs \in Seq(Seq(Frames)) /\ Len(fs) = (m + 1) + 1
       /\ \A k \in 1..((m + 1) + 1) : fs[k] = IF k <= m + 1 THEN old[k] ELSE <<s>>[k - (m + 1)]
  <2>1. fs = old \o <<s>> BY <1>7, <1>9, <1>11
  <2>2. QED BY <1>8, <1>10, <2>1, ConcatProperties
<1>13. DOMAIN fs = 1..((m + 1) + 1) BY <1>12
<1>14. fs[(m + 1) + 1] = s BY <1>5, <1>10, <1>12
<1>15. \A k \in 1..(m + 1) : fs[k] = old[k] BY <1>5, <1>12
<1>16. \A n \in DOMAIN rotated : n + 1 \in 1..(m + 1) /\ fs[n + 1] = rotated[n]
  <2> TAKE n \in DOMAIN rotated
  <2>1. n + 1 \in 1..(m + 1) /\ (n + 1) - 1 = n BY <1>5
  <2>2. old[n + 1] = rotated[n] BY <1>6, <2>1
  <2>3. QED BY <1>15, <2>1, <2>2
<1>17. \A a \in 1..(m + 1) : a - 1 \notin DOMAIN rotated => fs[a] = <<>> BY <1>6, <1>15
<1>18. m + 1 \in Nat BY <1>5
<1>19. QED BY <1>9, <1>11, <1>12, <1>13, <1>14, <1>16, <1>17, <1>18

KeyOf == [f \in Frames |-> f.ev]

\* What replay reads: frames of the log, each event's once, and all of them when no frame is torn
\* but at the end of the active file.
LEMMA LogFramesFacts ==
  ASSUME LogShapes
  PROVE  /\ LogFrames \in Seq(Frames)
         /\ Range(LogFrames) \subseteq AllFrames
         /\ NoneTorn /\ (\A k \in DOMAIN active : active[k].ev = Torn => k = Len(active)) =>
               \A f \in AllFrames : f.ev # Torn => f \in Range(LogFrames)
         /\ OneFrameEach => OnceBy(LogFrames, KeyOf, Events)
<1>1. PICK last \in Nat :
         /\ LogFiles \in Seq(Seq(Frames)) /\ DOMAIN LogFiles = 1..(last + 1)
         /\ LogFiles[last + 1] = active
         /\ \A n \in DOMAIN rotated : n + 1 \in 1..last /\ LogFiles[n + 1] = rotated[n]
         /\ \A a \in 1..last : a - 1 \notin DOMAIN rotated => LogFiles[a] = <<>>
  BY FilesFacts
<1>2. PICK fs : fs = LogFiles OBVIOUS
<1>3. IsFile(<<>>)
  <2>1. <<>> \in Seq(Frames) /\ DOMAIN <<>> = {} OBVIOUS
  <2>2. QED BY <2>1 DEF IsFile
<1>4. \A a \in DOMAIN fs : \/ a - 1 \in DOMAIN rotated /\ a \in 1..last /\ fs[a] = rotated[a - 1]
                           \/ fs[a] = <<>>
                           \/ a = last + 1 /\ fs[a] = active
  <2> TAKE a \in DOMAIN fs
  <2>1. a \in 1..(last + 1) BY <1>1, <1>2
  <2>2. CASE a = last + 1 BY <1>1, <1>2, <2>2
  <2>3. CASE a # last + 1
    <3>1. a \in 1..last /\ (a - 1) + 1 = a BY <2>1, <2>3
    <3>2. CASE a - 1 \in DOMAIN rotated
      <4>1. LogFiles[(a - 1) + 1] = rotated[a - 1] BY <1>1, <3>2
      <4>2. QED BY <1>2, <3>1, <3>2, <4>1
    <3>3. CASE a - 1 \notin DOMAIN rotated BY <1>1, <1>2, <3>1, <3>3
    <3>4. QED BY <3>2, <3>3
  <2>4. QED BY <2>2, <2>3
<1>5. \A a \in DOMAIN fs : IsFile(fs[a]) BY <1>3, <1>4 DEF LogShapes
<1>6. PICK parts : parts = [a \in DOMAIN fs |-> Whole(fs[a])] OBVIOUS
<1>7. LogFrames = FlattenSeq(parts) BY <1>2, <1>6 DEF LogFrames
<1>8. DOMAIN parts = DOMAIN fs /\ \A a \in DOMAIN fs : parts[a] = Whole(fs[a]) /\ parts[a] \in Seq(Frames)
  BY <1>5, <1>6, WholeFacts
<1>9. parts \in Seq(Seq(Frames))
  <2>1. DOMAIN fs = 1..(last + 1) /\ last + 1 \in Nat BY <1>1, <1>2
  <2>2. parts \in [1..(last + 1) -> Seq(Frames)]
    <3>1. parts = [a \in DOMAIN fs |-> parts[a]] BY <1>6, <1>8
    <3>2. QED BY <1>8, <2>1, <3>1
  <2>3. QED BY <2>1, <2>2
<1>10. /\ LogFrames \in Seq(Frames)
       /\ Range(LogFrames) = UNION {Range(parts[a]) : a \in DOMAIN parts}
       /\ (\A a \in DOMAIN parts : OnceBy(parts[a], KeyOf, Events)) /\ Apart(parts, KeyOf, Events)
          => OnceBy(LogFrames, KeyOf, Events)
  BY <1>7, <1>9, FlattenFacts
<1>11. \A a \in DOMAIN fs : \A k \in DOMAIN parts[a] :
          /\ k \in DOMAIN fs[a] /\ parts[a][k] = fs[a][k] /\ fs[a][k].ev # Torn
          /\ KeyOf[parts[a][k]] = fs[a][k].ev
  <2> TAKE a \in DOMAIN fs
  <2> TAKE k \in DOMAIN parts[a]
  <2>1. k \in DOMAIN fs[a] /\ parts[a][k] = fs[a][k] /\ fs[a][k].ev # Torn BY <1>5, <1>8, WholeFacts
  <2>2. fs[a][k] \in Frames BY <1>5, <2>1 DEF IsFile
  <2>3. QED BY <2>1, <2>2 DEF KeyOf
<1>12. \A a \in DOMAIN fs : fs[a] = <<>> => DOMAIN fs[a] = {} OBVIOUS
<1>13. Range(LogFrames) \subseteq AllFrames
  <2>1. ASSUME NEW g \in Range(LogFrames) PROVE g \in AllFrames
    <3>1. PICK a \in DOMAIN fs : g \in Range(parts[a]) BY <1>8, <1>10
    <3>2. PICK k \in DOMAIN parts[a] : g = parts[a][k] BY <3>1 DEF Range
    <3>3. k \in DOMAIN fs[a] /\ g = fs[a][k] BY <1>11, <3>2
    <3>4. g \in Range(fs[a]) BY <3>3 DEF Range
    <3>5. (\E n \in DOMAIN rotated : g \in Range(rotated[n])) \/ g \in Range(active)
      BY <1>4, <1>12, <3>3, <3>4
    <3>6. QED BY <3>5, FramesIn DEF AllFrames
  <2>2. QED BY <2>1
<1>14. NoneTorn /\ (\A k \in DOMAIN active : active[k].ev = Torn => k = Len(active)) =>
          \A f \in AllFrames : f.ev # Torn => f \in Range(LogFrames)
  <2> HAVE NoneTorn /\ (\A k \in DOMAIN active : active[k].ev = Torn => k = Len(active))
  <2> SUFFICES ASSUME NEW f \in AllFrames, f.ev # Torn PROVE f \in Range(LogFrames) OBVIOUS
  <2>1. \E a \in DOMAIN fs : \E k \in DOMAIN fs[a] :
           f = fs[a][k] /\ \A l \in DOMAIN fs[a] : fs[a][l].ev = Torn => l = Len(fs[a])
    <3>1. (\E n \in DOMAIN rotated : f \in Range(rotated[n])) \/ f \in Range(active)
      BY FramesIn DEF AllFrames
    <3>2. CASE f \in Range(active)
      <4>1. last + 1 \in DOMAIN fs /\ fs[last + 1] = active BY <1>1, <1>2
      <4>2. PICK k \in DOMAIN active : f = active[k] BY <3>2 DEF Range
      <4>3. QED BY <4>1, <4>2
    <3>3. CASE \E n \in DOMAIN rotated : f \in Range(rotated[n])
      <4>1. PICK n \in DOMAIN rotated : f \in Range(rotated[n]) BY <3>3
      <4>2. PICK a : a = n + 1 OBVIOUS
      <4>3. a \in DOMAIN fs /\ fs[a] = rotated[n]
        <5>1. a \in 1..last /\ LogFiles[a] = rotated[n] BY <1>1, <4>2
        <5>2. a \in 1..(last + 1) BY <5>1
        <5>3. QED BY <1>1, <1>2, <5>1, <5>2
      <4>4. PICK k \in DOMAIN rotated[n] : f = rotated[n][k] BY <4>1 DEF Range
      <4>5. \A l \in DOMAIN rotated[n] : rotated[n][l].ev # Torn BY DEF NoneTorn
      <4>6. QED BY <4>3, <4>4, <4>5
    <3>4. QED BY <3>1, <3>2, <3>3
  <2>2a. PICK a \in DOMAIN fs : \E k \in DOMAIN fs[a] :
           f = fs[a][k] /\ \A l \in DOMAIN fs[a] : fs[a][l].ev = Torn => l = Len(fs[a])
    BY <2>1
  <2>2. PICK k \in DOMAIN fs[a] :
           f = fs[a][k] /\ \A l \in DOMAIN fs[a] : fs[a][l].ev = Torn => l = Len(fs[a])
    BY <2>2a
  <2>3. k \in DOMAIN parts[a] BY <1>5, <1>8, <2>2, WholeFacts
  <2>4. f = parts[a][k] BY <1>11, <2>2, <2>3
  <2>5. f \in Range(parts[a]) BY <2>3, <2>4 DEF Range
  <2>6. QED BY <1>8, <1>10, <2>5
<1>15. OneFrameEach => OnceBy(LogFrames, KeyOf, Events)
  <2> HAVE OneFrameEach
  <2>1. ASSUME NEW a \in DOMAIN fs, NEW i \in DOMAIN fs[a], NEW j \in DOMAIN fs[a],
               fs[a][i].ev \in Events, fs[a][i].ev = fs[a][j].ev
        PROVE  i = j
    BY <1>4, <1>12, <2>1 DEF OneFrameEach
  <2>2. ASSUME NEW a \in DOMAIN fs, NEW b \in DOMAIN fs, a # b, NEW i \in DOMAIN fs[a], NEW j \in DOMAIN fs[b],
               fs[a][i].ev \in Events
        PROVE  fs[a][i].ev # fs[b][j].ev
    <3>1. a \in Int /\ b \in Int BY <1>1, <1>2
    <3>2. CASE a = last + 1 /\ fs[a] = active
      <4>1. b - 1 \in DOMAIN rotated /\ fs[b] = rotated[b - 1] BY <1>4, <1>12, <2>2, <3>2
      <4>2. QED BY <2>2, <3>2, <4>1 DEF OneFrameEach
    <3>3. CASE a - 1 \in DOMAIN rotated /\ fs[a] = rotated[a - 1]
      <4>1. CASE b = last + 1 /\ fs[b] = active BY <2>2, <3>3, <4>1 DEF OneFrameEach
      <4>2. CASE b - 1 \in DOMAIN rotated /\ fs[b] = rotated[b - 1]
        <5>1. a - 1 # b - 1 BY <2>2, <3>1
        <5>2. QED BY <2>2, <3>3, <4>2, <5>1 DEF OneFrameEach
      <4>3. QED BY <1>4, <1>12, <4>1, <4>2
    <3>4. QED BY <1>4, <1>12, <3>2, <3>3
  <2>3. ASSUME NEW a \in DOMAIN parts PROVE OnceBy(parts[a], KeyOf, Events)
    BY <1>8, <1>11, <2>1 DEF OnceBy
  <2>4. Apart(parts, KeyOf, Events) BY <1>8, <1>11, <2>2 DEF Apart
  <2>5. QED BY <1>10, <2>3, <2>4
<1>16. QED BY <1>10, <1>13, <1>14, <1>15

\* What replay applies to p's cell when it starts behind frame number start.
Calls(fs, start) == {k \in DOMAIN fs : NotCovered(fs[k], start) /\ Kind[fs[k].ev] # "override"}
Replayed(p, fs, start) ==
    FlattenSeq([k \in DOMAIN fs |-> IF k \in Calls(fs, start) THEN Share(p, fs[k].ev) ELSE <<>>])

Id == [h \in Halves |-> h]

\* Distinct halves are kept apart as OnceBy understands it.
LEMMA OnceRepeats == \A c \in Seq(Halves) : NoRepeats(c) <=> OnceBy(c, Id, Halves)
<1> TAKE c \in Seq(Halves)
<1>1. \A i \in DOMAIN c : c[i] \in Halves /\ Id[c[i]] = c[i] BY DEF Id
<1>2. QED BY <1>1 DEF NoRepeats, OnceBy

LEMMA ReplayFacts ==
  ASSUME NEW fs \in Seq(Frames), OnceBy(fs, KeyOf, Events), NEW start \in Nat, NEW p,
         \A k \in DOMAIN fs : fs[k].ev \in Events <=> fs[k].seq > 0
  PROVE  /\ Replayed(p, fs, start) \in Seq(Halves)
         /\ NoRepeats(Replayed(p, fs, start))
         /\ \A h : h \in Range(Replayed(p, fs, start)) <=>
                \E k \in Calls(fs, start) : h \in Range(Share(p, fs[k].ev))
         /\ Cardinality(Calls(fs, start)) \in Nat
         /\ \A k \in Calls(fs, start) : fs[k].ev \in Events
<1>1. Len(fs) \in Nat /\ DOMAIN fs = 1..Len(fs) /\ \A k \in DOMAIN fs : fs[k] \in Frames OBVIOUS
<1>2. PICK calls : calls = Calls(fs, start) OBVIOUS
<1>3. calls \subseteq DOMAIN fs /\ \A k \in calls : fs[k].ev \in Events
  <2>1. \A k \in calls : k \in DOMAIN fs /\ fs[k].seq > start BY <1>2 DEF Calls, NotCovered
  <2>2. \A k \in calls : fs[k].seq > 0
    <3> TAKE k \in calls
    <3>1. fs[k].seq \in Nat BY <1>1, <2>1 DEF Frames
    <3>2. QED BY <2>1, <3>1
  <2>3. QED BY <2>1, <2>2
<1>4. Cardinality(calls) \in Nat
  <2>1. IsFiniteSet(1..Len(fs)) BY <1>1, FS_Interval
  <2>2. IsFiniteSet(calls) BY <1>1, <1>3, <2>1, FS_Subset
  <2>3. QED BY <2>2, FS_CardinalityType
<1>5. PICK parts : parts = [k \in DOMAIN fs |-> IF k \in calls THEN Share(p, fs[k].ev) ELSE <<>>] OBVIOUS
<1>6. Replayed(p, fs, start) = FlattenSeq(parts) BY <1>2, <1>5 DEF Replayed
<1>7. DOMAIN parts = DOMAIN fs
      /\ (\A k \in calls : parts[k] = Share(p, fs[k].ev))
      /\ \A k \in DOMAIN fs : k \notin calls => parts[k] = <<>>
  BY <1>3, <1>5
<1>8. \A k \in DOMAIN fs : parts[k] \in Seq(Halves) /\ NoRepeats(parts[k])
  <2> TAKE k \in DOMAIN fs
  <2>1. CASE k \in calls BY <1>3, <1>7, <2>1, ShareFacts
  <2>2. CASE k \notin calls
    <3>1. <<>> \in Seq(Halves) /\ DOMAIN <<>> = {} OBVIOUS
    <3>2. NoRepeats(<<>>) BY <3>1 DEF NoRepeats
    <3>3. QED BY <1>7, <2>2, <3>1, <3>2
  <2>3. QED BY <2>1, <2>2
<1>9. parts \in Seq(Seq(Halves))
  <2>1. parts = [k \in DOMAIN fs |-> parts[k]] BY <1>5, <1>7
  <2>2. parts \in [1..Len(fs) -> Seq(Halves)] BY <1>1, <1>8, <2>1
  <2>3. QED BY <1>1, <2>2
<1>10. /\ FlattenSeq(parts) \in Seq(Halves)
       /\ Range(FlattenSeq(parts)) = UNION {Range(parts[a]) : a \in DOMAIN parts}
       /\ (\A a \in DOMAIN parts : OnceBy(parts[a], Id, Halves)) /\ Apart(parts, Id, Halves)
          => OnceBy(FlattenSeq(parts), Id, Halves)
  BY <1>9, FlattenFacts
<1>11. \A k \in DOMAIN fs : k \notin calls => DOMAIN parts[k] = {} /\ Range(parts[k]) = {}
  <2>1. DOMAIN <<>> = {} OBVIOUS
  <2>2. \A k \in DOMAIN fs : k \notin calls => DOMAIN parts[k] = {} BY <1>7, <2>1
  <2>3. QED BY <2>2 DEF Range
<1>12. \A h : h \in Range(FlattenSeq(parts)) <=> \E k \in calls : h \in Range(Share(p, fs[k].ev))
  <2>1. \A h : h \in Range(FlattenSeq(parts)) <=> \E k \in DOMAIN fs : h \in Range(parts[k])
    BY <1>7, <1>10
  <2>2. QED BY <1>3, <1>7, <1>11, <2>1
<1>13. \A k \in DOMAIN fs : \A i \in DOMAIN parts[k] : k \in calls /\ parts[k][i][1] = fs[k].ev
  <2> TAKE k \in DOMAIN fs
  <2> TAKE i \in DOMAIN parts[k]
  <2>1. k \in calls BY <1>11
  <2>2. parts[k][i] \in Range(parts[k]) BY DEF Range
  <2>3. parts[k][i] \in Range(Share(p, fs[k].ev)) BY <1>7, <2>1, <2>2
  <2>4. parts[k][i] = <<fs[k].ev, "consumer">> \/ parts[k][i] = <<fs[k].ev, "seeder">>
    BY <2>3, ShareFacts
  <2>5. QED BY <2>1, <2>4
<1>14. Apart(parts, Id, Halves)
  <2> SUFFICES ASSUME NEW a \in DOMAIN fs, NEW b \in DOMAIN fs, a # b,
                      NEW i \in DOMAIN parts[a], NEW j \in DOMAIN parts[b]
               PROVE  Id[parts[a][i]] # Id[parts[b][j]]
    BY <1>7 DEF Apart
  <2>1. parts[a][i] \in Halves /\ parts[b][j] \in Halves BY <1>8
  <2>2. Id[parts[a][i]] = parts[a][i] /\ Id[parts[b][j]] = parts[b][j] BY <2>1 DEF Id
  <2>3. a \in calls /\ b \in calls /\ parts[a][i][1] = fs[a].ev /\ parts[b][j][1] = fs[b].ev BY <1>13
  <2>4. fs[a].ev \in Events /\ KeyOf[fs[a]] = fs[a].ev /\ KeyOf[fs[b]] = fs[b].ev
    BY <1>1, <1>3, <2>3 DEF KeyOf
  <2>5. fs[a].ev # fs[b].ev BY <2>4 DEF OnceBy
  <2>6. QED BY <2>2, <2>3, <2>5
<1>15. OnceBy(FlattenSeq(parts), Id, Halves) BY <1>7, <1>8, <1>10, <1>14, OnceRepeats
<1>16. NoRepeats(FlattenSeq(parts)) BY <1>10, <1>15, OnceRepeats
<1>17. QED BY <1>2, <1>3, <1>4, <1>6, <1>10, <1>12, <1>16

\* The frames of the log have numbers when they are an event's.
LEMMA FrameNumbers ==
  ASSUME LogShapes
  PROVE  \A f \in AllFrames : f \in Frames /\ (f.ev \in Events <=> f.seq > 0)
<1> SUFFICES ASSUME NEW f \in AllFrames PROVE f \in Frames /\ (f.ev \in Events <=> f.seq > 0) OBVIOUS
<1>1. \E s : IsFile(s) /\ f \in Range(s) BY FramesIn DEF AllFrames, LogShapes
<1>2. PICK s : IsFile(s) /\ f \in Range(s) BY <1>1
<1>3. PICK k \in DOMAIN s : f = s[k] BY <1>2 DEF Range
<1>4. QED BY <1>2, <1>3 DEF IsFile

\* StartupReplay.
LEMMA StartupKept == ASSUME AdmissionLogAssumption, LogIInv, StartupReplay PROVE LogIInv'
<1> USE DEF LogIInv
<1>1. /\ up = "down" /\ UNCHANGED logVars
      /\ phase' = phase /\ seqOf' = seqOf /\ snaps' = snaps /\ emit' = emit /\ stops' = stops
      /\ emitted' = emitted /\ acked' = acked /\ calm' = calm
  BY DEF StartupReplay
<1>2. /\ LogShapes /\ LogShapes' /\ AllFrames' = AllFrames /\ Logged' = Logged /\ OneFrameEach'
      /\ \A e \in Events : OnDisk(e)' = OnDisk(e)
      /\ replaced' = replaced
  BY <1>1, LogStays DEF Shapes, OneFrame
<1>3. \A e \in Events : phase[e] \in {"new", "done", "lost"}
  <2> TAKE e \in Events
  <2>1. e \notin InFlight BY <1>1 DEF Phases
  <2>2. QED BY <2>1 DEF InFlight, Shapes
<1>4. emit.at = "idle" /\ stops > 0 BY <1>1 DEF Phases
<1>5. InFlight' = InFlight BY <1>1 DEF InFlight
<1>6. OneFrame' BY <1>1, <1>2 DEF OneFrame
<1>7. Durable' BY <1>1, <1>2 DEF Durable
<1>8. \A h : Applied(h)' = Applied(h) BY <1>1 DEF Applied
<1>9. CASE up' = "failed" /\ UNCHANGED <<cell, nextSeq>>
  <2>1. Shapes' BY <1>1, <1>2, <1>9 DEF Shapes
  <2>2. Phases' BY <1>1, <1>3, <1>4, <1>5, <1>9 DEF Phases
  <2>3. OnlyApplied' BY <1>1, <1>8, <1>9 DEF OnlyApplied
  <2>4. Ahead' /\ Exact' BY <1>9 DEF Ahead, Exact
  <2>5. FirstLife' BY <1>1, <1>4, <1>9 DEF FirstLife
  <2>6. QED BY <1>6, <1>7, <2>1, <2>2, <2>3, <2>4, <2>5
<1>10. CASE up' # "failed"
  <2>1. PICK fs : fs = LogFrames OBVIOUS
  <2>2. PICK start : start = IF DOMAIN snaps = {} THEN 0 ELSE Max(DOMAIN snaps) OBVIOUS
  <2> DEFINE restored(p) == IF DOMAIN snaps = {} THEN <<>> ELSE snaps[start].cells[p]
  <2>3. {n \in DOMAIN snaps : snaps[n].whole} = DOMAIN snaps BY DEF Shapes
  <2>4. /\ up' = "run"
        /\ cell' = [p \in Parties |-> restored(p) \o Replayed(p, fs, start)]
        /\ nextSeq' = Cardinality(Calls(fs, start))
    <3> DEFINE usable == {n \in DOMAIN snaps : snaps[n].whole}
               from == IF usable = {} THEN 0 ELSE Max(usable)
    <3>1. \/ /\ up' = "run"
             /\ cell' = [p \in Parties |-> (IF usable = {} THEN <<>> ELSE snaps[from].cells[p])
                                            \o Replayed(p, LogFrames, from)]
             /\ nextSeq' = Cardinality(Calls(LogFrames, from))
          \/ up' = "failed"
      BY Zenon DEF StartupReplay, Replayed, Calls
    <3>2. usable = DOMAIN snaps BY <2>3
    <3> HIDE DEF usable
    <3>3. from = start BY <2>2, <3>2
    <3> HIDE DEF from
    <3>4. cell' = [p \in Parties |-> restored(p) \o Replayed(p, fs, start)]
      <4> HIDE DEF restored
      <4>1. \A p : (IF usable = {} THEN <<>> ELSE snaps[from].cells[p]) = restored(p) BY <3>2, <3>3 DEF restored
      <4>2. cell' = [p \in Parties |-> (IF usable = {} THEN <<>> ELSE snaps[from].cells[p])
                                       \o Replayed(p, LogFrames, from)]
        BY <1>10, <3>1
      <4>3. QED BY <2>1, <3>3, <4>1, <4>2
    <3>5. QED BY <1>10, <2>1, <3>1, <3>3, <3>4
  <2>5. /\ start \in Nat /\ (DOMAIN snaps = {} => start = 0)
        /\ DOMAIN snaps # {} => start \in DOMAIN snaps /\ start = Max(DOMAIN snaps)
    <3>1. CASE DOMAIN snaps = {} BY <2>2, <3>1
    <3>2. CASE DOMAIN snaps # {}
      <4>1. PICK S : S = DOMAIN snaps OBVIOUS
      <4>2. S \in SUBSET Nat /\ S # {} /\ Bounded(S) BY <3>2, <4>1 DEF Shapes
      <4>3. Max(S) \in S BY <4>2, MaxIs
      <4>4. QED BY <2>2, <3>2, <4>1, <4>2, <4>3
    <3>3. QED BY <3>1, <3>2
  <2>6. /\ fs \in Seq(Frames) /\ Range(fs) \subseteq AllFrames
        /\ NoneTorn /\ (\A k \in DOMAIN active : active[k].ev = Torn => k = Len(active)) =>
              \A f \in AllFrames : f.ev # Torn => f \in Range(fs)
        /\ OnceBy(fs, KeyOf, Events)
    BY <1>2, <2>1, LogFramesFacts DEF OneFrame
  <2>7. \A k \in DOMAIN fs : fs[k] \in AllFrames /\ fs[k] \in Frames /\ (fs[k].ev \in Events <=> fs[k].seq > 0)
    <3> TAKE k \in DOMAIN fs
    <3>1. fs[k] \in Range(fs) BY DEF Range
    <3>2. QED BY <1>2, <2>6, <3>1, FrameNumbers
  <2>8. \A p \in Parties :
           /\ Replayed(p, fs, start) \in Seq(Halves)
           /\ NoRepeats(Replayed(p, fs, start))
           /\ \A h : h \in Range(Replayed(p, fs, start)) <=>
                  \E k \in Calls(fs, start) : h \in Range(Share(p, fs[k].ev))
    BY <2>5, <2>6, <2>7, ReplayFacts
  <2>9. Cardinality(Calls(fs, start)) \in Nat /\ \A k \in Calls(fs, start) : fs[k].ev \in Events
    BY <2>5, <2>6, <2>7, ReplayFacts
  <2>10. \A p \in Parties : restored(p) \in Seq(Halves)
    <3>1. CASE DOMAIN snaps = {}
      <4>1. <<>> \in Seq(Halves) OBVIOUS
      <4>2. QED BY <3>1, <4>1
    <3>2. CASE DOMAIN snaps # {} BY <2>5, <3>2 DEF Shapes, Cells
    <3>3. QED BY <3>1, <3>2
  <2>11. \A p \in Parties : \A h : h \in Range(restored(p)) =>
            DOMAIN snaps # {} /\ h \in Range(snaps[start].cells[p])
    <3>1. DOMAIN <<>> = {} OBVIOUS
    <3>2. Range(<<>>) = {} BY <3>1 DEF Range
    <3>3. QED BY <3>2
  <2> HIDE DEF restored
  <2>12. \A p \in Parties :
            /\ cell'[p] \in Seq(Halves)
            /\ Range(cell'[p]) = Range(restored(p)) \cup Range(Replayed(p, fs, start))
    <3> TAKE p \in Parties
    <3>1. PICK b, r : b = restored(p) /\ r = Replayed(p, fs, start) OBVIOUS
    <3>2. cell'[p] = b \o r /\ b \in Seq(Halves) /\ r \in Seq(Halves) BY <2>4, <2>8, <2>10, <3>1
    <3>3. Range(b \o r) = Range(b) \cup Range(r) BY <3>2, RangeConcatenation
    <3>4. QED BY <3>1, <3>2, <3>3
  <2>13. \A p \in Parties : \A h \in Range(Replayed(p, fs, start)) :
            \E k \in Calls(fs, start) :
               /\ fs[k] \in AllFrames /\ fs[k].ev = h[1] /\ fs[k].seq > start /\ fs[k].ev \in Events
               /\ h \in Range(Share(p, fs[k].ev))
    <3> TAKE p \in Parties
    <3> TAKE h \in Range(Replayed(p, fs, start))
    <3>1. PICK k \in Calls(fs, start) : h \in Range(Share(p, fs[k].ev)) BY <2>8
    <3>2. k \in DOMAIN fs /\ fs[k].seq > start BY DEF Calls, NotCovered
    <3>3. h = <<fs[k].ev, "consumer">> \/ h = <<fs[k].ev, "seeder">> BY <3>1, ShareFacts
    <3>4. h[1] = fs[k].ev BY <3>3
    <3>5. QED BY <2>7, <2>9, <3>1, <3>2, <3>4
  <2>14. Shapes'
    <3>1. cell' \in Cells
      <4>1. cell' = [p \in Parties |-> cell'[p]] BY <2>4
      <4>2. QED BY <2>12, <4>1 DEF Cells
    <3>2. QED BY <1>1, <1>2, <2>4, <2>9, <3>1 DEF Shapes
  <2>15. Phases' BY <1>1, <1>3, <1>4, <2>4 DEF Phases
  <2>16. OnlyApplied'
    <3>1. ASSUME NEW p \in Parties, NEW h \in Range(cell'[p]) PROVE Applied(h)
      <4>1. CASE h \in Range(restored(p)) BY <2>5, <2>11, <4>1 DEF OnlyApplied
      <4>2. CASE h \in Range(Replayed(p, fs, start))
        <5>1. PICK k \in Calls(fs, start) : fs[k] \in AllFrames /\ fs[k].ev = h[1] /\ fs[k].ev \in Events
          BY <2>13, <4>2
        <5>2. h[1] \in Logged /\ h[1] \in Events BY <5>1, LoggedIs
        <5>3. phase[h[1]] \in {"done", "lost"} BY <1>3, <5>2 DEF OneFrame
        <5>4. QED BY <5>3 DEF Applied
      <4>3. QED BY <2>12, <4>1, <4>2
    <3>2. QED BY <1>1, <1>8, <3>1 DEF OnlyApplied
  <2>17. Ahead'
    <3>1. ASSUME NEW p \in Parties, NEW h \in Range(cell'[p])
          PROVE  \/ h[1] \in Logged
                 \/ DOMAIN snaps # {} /\ h \in Range(snaps[Max(DOMAIN snaps)].cells[p])
      <4>1. CASE h \in Range(restored(p)) BY <2>5, <2>11, <4>1
      <4>2. CASE h \in Range(Replayed(p, fs, start))
        <5>1. PICK k \in Calls(fs, start) : fs[k] \in AllFrames /\ fs[k].ev = h[1] BY <2>13, <4>2
        <5>2. QED BY <5>1, LoggedIs
      <4>3. QED BY <2>12, <4>1, <4>2
    <3>2. \A e \in Events : phase[e] \notin {"logged", "half"} BY <1>3
    <3>3. QED BY <1>1, <1>2, <1>4, <3>1, <3>2 DEF Ahead
  <2>18. Exact'
    <3> SUFFICES ASSUME stops <= 1, calm PROVE Exact' BY <1>1 DEF Exact
    <3>1. stops = 1 BY <1>4 DEF Shapes
    <3>2. /\ \A n \in DOMAIN snaps : \A p \in Parties : SnapCovers(snaps[n].cells[p], p, n)
          /\ NoneTorn /\ \A k \in DOMAIN active : active[k].ev = Torn => k = Len(active)
      BY <1>1, <3>1 DEF FirstLife
    <3>3. \A f \in AllFrames : f.ev # Torn => f \in Range(fs) BY <2>6, <3>2
    <3>4. ASSUME NEW p \in Parties PROVE NoRepeats(cell'[p])
      <4>1. PICK b, r : b = restored(p) /\ r = Replayed(p, fs, start) OBVIOUS
      <4>2. b \in Seq(Halves) /\ r \in Seq(Halves) /\ cell'[p] = b \o r BY <2>4, <2>8, <2>10, <4>1
      <4>3. NoRepeats(r) BY <2>8, <4>1
      <4>4. NoRepeats(b)
        <5>1. CASE DOMAIN snaps = {}
          <6>1. DOMAIN <<>> = {} OBVIOUS
          <6>2. DOMAIN b = {} BY <4>1, <5>1, <6>1 DEF restored
          <6>3. QED BY <6>2 DEF NoRepeats
        <5>2. CASE DOMAIN snaps # {}
          <6>1. SnapCovers(snaps[start].cells[p], p, start) BY <2>5, <3>2, <5>2
          <6>2. b = snaps[start].cells[p] BY <4>1, <5>2 DEF restored
          <6>3. QED BY <6>1, <6>2 DEF SnapCovers, Covered
        <5>3. QED BY <5>1, <5>2
      <4>5. \A x \in Range(b), y \in Range(r) : x # y
        <5> SUFFICES ASSUME NEW x \in Range(b), x \in Range(r) PROVE FALSE OBVIOUS
        <5>1. DOMAIN snaps # {} /\ x \in Range(snaps[start].cells[p]) BY <2>11, <4>1
        <5>2. SnapCovers(snaps[start].cells[p], p, start) BY <2>5, <3>2, <5>1
        <5>3. \A f \in AllFrames : f.ev = x[1] => f.seq <= start BY <5>1, <5>2 DEF SnapCovers, Covered
        <5>4. PICK k \in Calls(fs, start) : fs[k] \in AllFrames /\ fs[k].ev = x[1] /\ fs[k].seq > start
          BY <2>13, <4>1
        <5>5. fs[k].seq \in Nat BY <1>2, <5>4, FrameNumbers DEF Frames
        <5>6. QED BY <2>5, <5>3, <5>4, <5>5
      <4>6. \A x \in Range(b), y \in Range(r) : Id[x] # Id[y]
        <5> TAKE x \in Range(b), y \in Range(r)
        <5>1. x \in Halves /\ y \in Halves BY <4>2, HalfFacts
        <5>2. QED BY <4>5, <5>1 DEF Id
      <4>7. OnceBy(b, Id, Halves) /\ OnceBy(r, Id, Halves) BY <4>2, <4>3, <4>4, OnceRepeats
      <4>8. OnceBy(b \o r, Id, Halves) BY <4>2, <4>6, <4>7, OnceConcat
      <4>9. b \o r \in Seq(Halves) BY <4>2
      <4>10. QED BY <4>2, <4>8, <4>9, OnceRepeats
    <3>5. ASSUME NEW e \in Events, phase[e] = "done", e \in Logged, NEW p \in Parties
          PROVE  Range(Share(p, e)) \subseteq Range(cell'[p])
      <4>1. PICK f \in AllFrames : f.ev = e BY <3>5, LoggedIs
      <4>2. e # Torn BY DEF AdmissionLogAssumption
      <4>3. f \in Range(fs) BY <3>3, <4>1, <4>2
      <4>4. PICK k \in DOMAIN fs : fs[k] = f BY <4>3 DEF Range
      <4>5. f.seq \in Nat /\ f.seq > 0 BY <1>2, <4>1, FrameNumbers DEF Frames
      <4>6. CASE f.seq <= start
        <5>1. DOMAIN snaps # {} /\ start \in DOMAIN snaps
          <6>1. start # 0 BY <4>5, <4>6
          <6>2. QED BY <2>5, <6>1
        <5>2. SnapCovers(snaps[start].cells[p], p, start) BY <3>2, <5>1
        <5>3. Range(Share(p, e)) \subseteq Range(snaps[start].cells[p])
          BY <3>5, <4>1, <4>6, <5>2 DEF SnapCovers, Covered
        <5>4. restored(p) = snaps[start].cells[p] BY <5>1 DEF restored
        <5>5. QED BY <2>12, <5>3, <5>4
      <4>7. CASE ~ (f.seq <= start) /\ Kind[e] # "override"
        <5>1. f.seq > start BY <2>5, <4>5, <4>7
        <5>2. k \in Calls(fs, start) BY <4>1, <4>4, <4>7, <5>1 DEF Calls, NotCovered
        <5>3. Range(Share(p, e)) \subseteq Range(Replayed(p, fs, start)) BY <2>8, <4>1, <4>4, <5>2
        <5>4. QED BY <2>12, <5>3
      <4>8. CASE Kind[e] = "override"
        <5>1. Consumer[e] = None /\ Seeder[e] = None /\ p # None
          BY <4>8 DEF AdmissionLogAssumption, Settlements
        <5>2. QED BY <5>1, ShareFacts
      <4>9. QED BY <4>6, <4>7, <4>8
    <3>6. \A e \in Events : phase[e] # "half" BY <1>3
    <3>7. QED BY <1>1, <1>2, <3>4, <3>5, <3>6 DEF Exact
  <2>19. FirstLife' BY <1>1, <1>4, <2>4 DEF FirstLife
  <2>20. QED BY <1>6, <1>7, <2>14, <2>15, <2>16, <2>17, <2>18, <2>19
<1>11. (up' = "failed" /\ UNCHANGED <<cell, nextSeq>>) \/ up' = "run" BY DEF StartupReplay
<1>12. QED BY <1>9, <1>10, <1>11

-----------------------------------------------------------------------------
(* The invariant and what follows from it. *)

LEMMA LogStarts == AdmissionLogAssumption /\ LogInit => LogIInv
<1> SUFFICES ASSUME AdmissionLogAssumption, LogInit PROVE LogIInv OBVIOUS
<1>1. /\ up = "run" /\ cell = [p \in Parties |-> <<>>] /\ phase = [e \in Events |-> "new"]
      /\ seqOf = [e \in Events |-> 0] /\ nextSeq = 0 /\ lastSeq = 0 /\ rotated = <<>> /\ active = <<>>
      /\ synced = 0 /\ snaps = <<>> /\ emit = NotEmitting /\ stops = 0 /\ emitted = 0 /\ acked = {}
      /\ calm = TRUE /\ replaced = FALSE
  BY DEF LogInit
<1>2. /\ DOMAIN <<>> = {} /\ Len(<<>>) = 0 /\ <<>> \in Seq(Frames) /\ <<>> \in Seq(Halves)
  OBVIOUS
<1>3. Range(<<>>) = {} BY <1>2 DEF Range
<1>4. DOMAIN rotated = {} /\ DOMAIN active = {} /\ DOMAIN snaps = {} BY <1>1, <1>2
<1>5. /\ emit.at = "idle" /\ emit.seq = 0 /\ emit.left = {} /\ emit.cells \in Cells
      /\ emit.cells = [p \in Parties |-> <<>>]
      /\ \A p \in Parties : Range(emit.cells[p]) = {} /\ Range(cell[p]) = {} /\ DOMAIN cell[p] = {}
      /\ cell \in Cells
  BY <1>1, <1>2, <1>3, IdleFacts
<1>6. emit \in EmitType BY <1>1, <1>5 DEF EmitType, NotEmitting
<1>7. AllFrames = {} /\ Logged = {}
  <2>1. AllFrames = {}
    <3>1. Range(active) = {} BY <1>1, <1>3
    <3>2. \A g : g \notin AllFrames BY <1>4, <3>1, FramesIn DEF AllFrames
    <3>3. QED BY <3>2
  <2>2. QED BY <2>1, LoggedIs
<1>8. Bounded({})
  <2>1. 0 \in Nat OBVIOUS
  <2>2. QED BY <2>1 DEF Bounded
<1>9. LogShapes
  <2>1. IsFile(active) BY <1>1, <1>2, <1>4 DEF IsFile
  <2>2. synced \in 0..Len(active) BY <1>1, <1>2
  <2>3. QED BY <1>1, <1>4, <1>8, <2>1, <2>2 DEF LogShapes
<1>10. Shapes
  <2>1. MaxSnapshots \in Nat /\ MaxStops \in Nat BY DEF AdmissionLogAssumption
  <2>2. /\ phase \in [Events -> {"new", "drawn", "logged", "half", "done", "lost"}]
        /\ seqOf \in [Events -> Nat] /\ nextSeq \in Nat
        /\ stops \in 0..MaxStops /\ emitted \in 0..MaxSnapshots
    BY <1>1, <2>1
  <2>3. QED BY <1>1, <1>4, <1>5, <1>6, <1>8, <1>9, <2>2 DEF Shapes, EmitType
<1>11. \A e \in Events : phase[e] = "new" BY <1>1
<1>12. Phases BY <1>1, <1>5, <1>11 DEF Phases
<1>13. OneFrame BY <1>4, <1>7 DEF OneFrame, OneFrameEach
<1>14. OnlyApplied BY <1>4, <1>5 DEF OnlyApplied
<1>15. Ahead BY <1>5, <1>11 DEF Ahead
<1>16. Durable BY <1>1, <1>11 DEF Durable
<1>17. Exact BY <1>5, <1>11 DEF Exact, NoRepeats
<1>18. FirstLife
  <2>1. NoneTorn BY <1>4 DEF NoneTorn
  <2>2. QED BY <1>1, <1>4, <1>5, <1>7, <1>11, <2>1 DEF FirstLife
<1>19. QED BY <1>10, <1>12, <1>13, <1>14, <1>15, <1>16, <1>17, <1>18 DEF LogIInv

LEMMA LogSteps == AdmissionLogAssumption /\ LogIInv /\ [LogNext]_persistVars => LogIInv'
<1> SUFFICES ASSUME AdmissionLogAssumption, LogIInv, [LogNext]_persistVars PROVE LogIInv' OBVIOUS
<1>1. CASE \E e \in Events : DrawSeq(e) \/ Persist(e) \/ PersistFails(e) \/ Apply(e) \/ ApplySeeder(e)
  <2>1. PICK e \in Events : DrawSeq(e) \/ Persist(e) \/ PersistFails(e) \/ Apply(e) \/ ApplySeeder(e)
    BY <1>1
  <2>2. CASE DrawSeq(e) BY <2>2, DrawSeqKept
  <2>3. CASE Persist(e) \/ PersistFails(e) BY <2>3, PersistKept
  <2>4. CASE Apply(e) \/ ApplySeeder(e) BY <2>4, AppliesKept
  <2>5. QED BY <2>1, <2>2, <2>3, <2>4
<1>2. CASE Flush BY <1>2, FlushKept
<1>3. CASE SnapStart BY <1>3, SnapStartKept
<1>4. CASE \E p \in Parties : SnapCopy(p) BY <1>4, SnapCopyKept
<1>5. CASE SnapWrite \/ SnapFails BY <1>5, SnapWriteKept
<1>6. CASE SnapRename BY <1>6, SnapRenameKept
<1>7. CASE SnapPrune BY <1>7, SnapPruneKept
<1>8. CASE CrashProcess \/ Close BY <1>8, StopKept
<1>9. CASE StartupReplay BY <1>9, StartupKept
<1>10. CASE UNCHANGED persistVars
  <2>1. /\ UNCHANGED logVars
        /\ UNCHANGED <<up, cell, phase, seqOf, nextSeq, snaps, emit, stops, emitted, acked, calm>>
    BY <1>10 DEF persistVars
  <2>2. /\ LogShapes' = LogShapes /\ AllFrames' = AllFrames /\ Logged' = Logged
        /\ OneFrameEach' = OneFrameEach /\ NoneTorn' = NoneTorn
        /\ \A e \in Events : OnDisk(e)' = OnDisk(e)
        /\ active' = active /\ lastSeq' = lastSeq /\ replaced' = replaced
    BY <2>1, LogStays
  <2>3. Shapes' BY <2>1, <2>2 DEF LogIInv, Shapes
  <2>4. InFlight' = InFlight BY <2>1 DEF InFlight
  <2>5. Phases' /\ OneFrame' BY <2>1, <2>2, <2>4 DEF LogIInv, Phases, OneFrame
  <2>6. OnlyApplied'
    <3>1. \A h : Applied(h)' = Applied(h) BY <2>1 DEF Applied
    <3>2. QED BY <2>1, <3>1 DEF LogIInv, OnlyApplied
  <2>7. Ahead' /\ Durable' /\ Exact' BY <2>1, <2>2 DEF LogIInv, Ahead, Durable, Exact
  <2>8. FirstLife'
    <3>1. \A c, p, n : SnapCovers(c, p, n)' = SnapCovers(c, p, n) BY <2>1, <2>2 DEF SnapCovers
    <3>2. \A n \in DOMAIN snaps' : \A p \in Parties : SnapCovers(snaps[n].cells[p], p, n)' = SnapCovers(snaps[n].cells[p], p, n)
      BY <2>1, <2>2 DEF SnapCovers
    <3>3. \A p \in Parties : SnapCovers(emit.cells[p], p, emit.seq)' = SnapCovers(emit.cells[p], p, emit.seq)
      BY <2>1, <2>2 DEF SnapCovers
    <3>4. QED BY <2>1, <2>2, <2>4, <3>2, <3>3 DEF LogIInv, FirstLife
  <2>9. QED BY <2>3, <2>5, <2>6, <2>7, <2>8 DEF LogIInv
<1>11. QED BY <1>1, <1>2, <1>3, <1>4, <1>5, <1>6, <1>7, <1>8, <1>9, <1>10 DEF LogNext

\* The invariant gives what the run checks of the disk.
LEMMA LogImplied == ASSUME AdmissionLogAssumption, LogIInv PROVE LogInv
<1> USE DEF LogIInv
<1>1. LogTypeOK BY DEF Shapes, LogShapes, IsFile, Frames, Cells, LogTypeOK
<1>2. WriteAhead
  <2> SUFFICES ASSUME up = "run", ~ replaced, NEW p \in Parties, NEW h \in Range(cell[p])
               PROVE  h[1] \in Logged \/ h \in Snapshotted(p)
    BY DEF WriteAhead
  <2>1. h[1] \in Logged \/ (DOMAIN snaps # {} /\ h \in Range(snaps[Max(DOMAIN snaps)].cells[p]))
    BY DEF Ahead
  <2>2. CASE DOMAIN snaps # {} /\ h \in Range(snaps[Max(DOMAIN snaps)].cells[p])
    <3>1. PICK S : S = DOMAIN snaps OBVIOUS
    <3>2. S \in SUBSET Nat /\ S # {} /\ Bounded(S) BY <2>2, <3>1 DEF Shapes
    <3>3. Max(S) \in S BY <3>2, MaxIs
    <3>4. QED BY <2>2, <3>1, <3>3 DEF Snapshotted
  <2>3. QED BY <2>1, <2>2
<1>3. DisputesDurable
  <2>1. \A e \in acked : e \in Events BY DEF Shapes
  <2>2. QED BY <2>1 DEF DisputesDurable, Durable
<1>4. SnapshotsWhole BY DEF SnapshotsWhole, Shapes
<1>5. QED BY <1>1, <1>2, <1>3, <1>4 DEF LogInv

\* And what it checks of a recovery.
LEMMA RecoveryImplied == ASSUME AdmissionLogAssumption, LogIInv PROVE RecoveryExact
<1> USE DEF LogIInv
<1>1. LogShapes BY DEF Shapes
<1>2. \A e : e \in {f.ev : f \in Range(LogFrames)} => e \in Logged
  BY <1>1, LogFramesFacts, LoggedIs
<1>3. QED BY <1>2 DEF RecoveryExact, Exact, NoRepeats

\* Counts are numbers, and a count of more kinds is no smaller.
LEMMA CountFacts ==
  ASSUME NEW p \in Parties, cell[p] \in Seq(Halves)
  PROVE  /\ \A kinds : Count(p, kinds) \in Nat
         /\ Clean(p) <= Settled(p)
<1>1. PICK c : c = cell[p] OBVIOUS
<1> DEFINE At(kinds) == {k \in DOMAIN c : c[k][2] = "consumer" /\ Kind[c[k][1]] \in kinds}
<1>2. IsFiniteSet(DOMAIN c)
  <2>1. Len(c) \in Nat /\ DOMAIN c = 1..Len(c) BY <1>1
  <2>2. QED BY <2>1, FS_Interval
<1>3. \A kinds : Count(p, kinds) = Cardinality(At(kinds)) BY <1>1 DEF Count
<1>4. \A kinds : At(kinds) \subseteq DOMAIN c OBVIOUS
<1>5. At({"clean"}) \subseteq At(Settlements) BY DEF Settlements
<1> HIDE DEF At
<1>6. \A kinds : IsFiniteSet(At(kinds)) BY <1>2, <1>4, FS_Subset
<1>7. \A kinds : Count(p, kinds) \in Nat BY <1>3, <1>6, FS_CardinalityType
<1>8. Cardinality(At({"clean"})) <= Cardinality(At(Settlements)) BY <1>5, <1>6, FS_Subset
<1>9. QED BY <1>3, <1>7, <1>8 DEF Clean, Settled

\* Percentages.
LEMMA Percent ==
  \A a \in Nat, s \in Nat \ {0} : a \div s \in Nat /\ (a <= 100 * s => a \div s \in 0..100)
OBVIOUS

\* The signals are percentages of whatever a cell holds.
LEMMA ScoreImplied == ASSUME AdmissionLogAssumption, LogIInv PROVE ScoreInRange
<1> SUFFICES ASSUME NEW p \in Parties
             PROVE  /\ LocalScore(p) \in 0..100
                    /\ Settled(p) > 0 => Reliability(p) \in 0..100 /\ DisputeRate(p) \in 0..100
  BY DEF ScoreInRange
<1>1. cell[p] \in Seq(Halves) BY DEF LogIInv, Shapes, Cells
<1>2. PICK s, c, f, u : /\ s = Settled(p) /\ c = Clean(p)
                        /\ f = Count(p, {"filed"}) /\ u = Count(p, {"upheld"})
  OBVIOUS
<1>3. s \in Nat /\ c \in Nat /\ f \in Nat /\ u \in Nat /\ c <= s
  BY <1>1, <1>2, CountFacts DEF Settled, Clean
<1>4. ASSUME s > 0 PROVE Reliability(p) \in 0..100
  <2>1. 100 * c \in Nat /\ 100 * c <= 100 * s /\ s \in Nat \ {0} BY <1>3, <1>4
  <2>2. (100 * c) \div s \in 0..100 BY <2>1, Percent
  <2>3. QED BY <1>2, <2>2 DEF Reliability
<1>5. ASSUME s > 0 PROVE DisputeRate(p) \in 0..100
  <2> DEFINE net == f - u
             open == IF net < 0 THEN 0 ELSE net
             rate == (100 * open) \div s
  <2>1. 100 * open \in Nat /\ s \in Nat \ {0} BY <1>3, <1>5
  <2>2. rate \in Nat
    <3> HIDE DEF open
    <3>1. QED BY <2>1, Percent
  <2>3. DisputeRate(p) = IF rate > 100 THEN 100 ELSE rate BY <1>2 DEF DisputeRate
  <2> HIDE DEF rate
  <2>4. QED BY <2>2, <2>3
<1>6. NetFlowNorm(p) \in {0, 25, 50, 75, 100} BY DEF NetFlowNorm
<1>7. CushionNorm(p) \in {0, 45, 50, 60} BY DEF CushionNorm
<1>8. LocalScore(p) \in 0..100
  <2>1. PICK x \in 0..3600 : x = 30 * NetFlowNorm(p) + 10 * CushionNorm(p)
    <3>1. 30 * NetFlowNorm(p) + 10 * CushionNorm(p) \in 0..3600 BY <1>6, <1>7
    <3>2. QED BY <3>1, SMTT(60)
  <2>2. LocalScore(p) = IF s = 0 THEN (x * 100) \div (60 * 100)
                        ELSE (30 * Reliability(p) + 10 * (100 - DisputeRate(p)) + x) \div 100
    BY <1>2, <2>1, SMTT(60) DEF LocalScore
  <2>3. CASE s = 0
    <3>1. (x * 100) \div (60 * 100) \in 0..100
      <4>1. x * 100 \in Nat /\ x * 100 <= 100 * 6000 /\ 60 * 100 = 6000 OBVIOUS
      <4>2. QED BY <4>1, Percent
    <3>2. QED BY <2>2, <2>3, <3>1
  <2>4. CASE s # 0
    <3>1. Reliability(p) \in 0..100 /\ DisputeRate(p) \in 0..100 BY <1>3, <1>4, <1>5, <2>4
    <3>2. PICK r, d \in 0..100 : r = Reliability(p) /\ d = DisputeRate(p) BY <3>1, SMTT(60)
    <3>3. PICK y \in 0..7600 : y = 30 * r + 10 * (100 - d) + x BY SMTT(60)
    <3>4. y \div 100 \in 0..100 OBVIOUS
    <3>5. QED BY <2>2, <2>4, <3>2, <3>3, <3>4, SMTT(60)
  <2>5. QED BY <2>3, <2>4
<1>9. QED BY <1>2, <1>4, <1>5, <1>8

\* Every reachable state satisfies the invariant.
LEMMA LogInvariance == LogSpec => []LogIInv
<1> USE AdmissionLogAssumption
<1>1. LogInit => LogIInv BY LogStarts
<1>2. LogIInv /\ [LogNext]_persistVars => LogIInv' BY LogSteps
<1>3. QED BY <1>1, <1>2, PTL DEF LogSpec

\* The disk holds what a crash must not take: what the cells hold is in the log or in a snapshot,
\* an acknowledged dispute is on stable storage, and snapshots can be read.
THEOREM LogIsSound == LogSpec => []LogInv
<1> USE AdmissionLogAssumption
<1>1. LogIInv => LogInv BY LogImplied
<1>2. LogSpec => []LogIInv BY LogInvariance
<1>3. QED BY <1>1, <1>2, PTL

\* After one stop, and with no call running while a snapshot was taken, StartupReplay counts every
\* event once in each of its cells and misses none that it can read from the log.
THEOREM RecoveryIsExact == LogSpec => []RecoveryExact
<1> USE AdmissionLogAssumption
<1>1. LogIInv => RecoveryExact BY RecoveryImplied
<1>2. LogSpec => []LogIInv BY LogInvariance
<1>3. QED BY <1>1, <1>2, PTL

\* ComputeLocalScore and the signals it is made of stay in [0, 1] whatever a cell holds.
THEOREM ScoresStayInRange == LogSpec => []ScoreInRange
<1> USE AdmissionLogAssumption
<1>1. LogIInv => ScoreInRange BY ScoreImplied
<1>2. LogSpec => []LogIInv BY LogInvariance
<1>3. QED BY <1>1, <1>2, PTL
=============================================================================
