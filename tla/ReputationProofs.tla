-------------------------- MODULE ReputationProofs --------------------------
(***************************************************************************)
(* Safety of the reputation subsystem for any set of identities, any       *)
(* configuration and any number of signals, breaches, operator calls,      *)
(* evaluator cycles, failures and days.                                    *)
(***************************************************************************)
EXTENDS Reputation, FiniteSetTheorems, SequenceTheorems, WellFoundedInduction, TLAPS

\* What the cache, a view of it and a snapshot of the rows may hold.
CachedEntry == [state : States, score : 0 .. 100, frozen : BOOLEAN]
Views == UNION {[D -> CachedEntry] : D \in SUBSET Ids}
Snaps == UNION {[D -> StateRow] : D \in SUBSET Ids}

Calls ==
    [kind : {"none", "breach", "freeze", "unfreeze"}, id : Ids \cup {NoRow},
     pc : {"none", "read", "write", "refresh", "load", "store", "notify"},
     cur : States, view : Views]
Cycles(t) ==
    [pc : {"idle", "flag", "judge", "notify", "publish"}, at : 0 .. t,
     flagged : SUBSET Ids, snap : Snaps, todo : SUBSET Ids, who : Ids \cup {NoRow}]

Shapes ==
    /\ op \in Calls /\ eval \in Cycles(now)
    /\ cache \in Views
    /\ freezes \in [Ids -> Int] /\ notices \in [Ids -> Int] /\ unheard \in [Ids -> Int]

\* The call that holds breachMu: which of its steps belong to which kind of call.
CallIsSound ==
    /\ op.pc = "none" <=> op.kind = "none"
    /\ op.pc # "none" => op.id \in Stored
    /\ op.pc \in {"read", "write"} => op.kind = "breach"
    /\ op.pc = "notify" => op.kind = "freeze"
    /\ DOMAIN op.view \subseteq Stored

\* The dates of a row, on day t.
DatedBy(r, t) == r.firstSeen <= t /\ \A k \in DOMAIN r.reasons : r.reasons[k].at <= t

\* A snapshot is a past of the table: its rows are there, with the reasons they had and more.
SnapshotIsPast ==
    \A i \in DOMAIN eval.snap :
        /\ i \in Stored /\ IsPrefix(eval.snap[i].reasons, row[i].reasons)
        /\ DatedBy(eval.snap[i], now)

\* What the evaluator still has to do.
EvalIsSound ==
    /\ eval.pc = "notify" <=> eval.who # NoRow
    /\ eval.pc \in {"judge", "notify"} => eval.todo \subseteq DOMAIN eval.snap

IInv ==
    /\ TypeOK /\ Shapes /\ CallIsSound /\ SnapshotIsPast /\ EvalIsSound
    /\ StateExplained /\ FreezeEarned /\ EachFreezeTold
-----------------------------------------------------------------------------
(* Sequences, unions of functions and largest elements.                    *)

\* A non-empty set of naturals has a least element.
LEMMA NatMin ==
  ASSUME NEW S \in SUBSET Nat, S # {}
  PROVE  \E x \in S : \A y \in S : x <= y
<1> DEFINE R == {ss \in Nat \X Nat : ss[1] < ss[2]}
<1>1. IsWellFoundedOn(R, Nat)
  BY NatLessThanWellFounded, Zenon DEF OpToRel
<1> HIDE DEF R
<1>2. PICK x \in S : \A y \in S : ~ (<<y, x>> \in R)
  BY <1>1, WFMin, Zenon
<1>3. \A y \in S : x <= y
  <2> TAKE y \in S
  <2>1. x \in Nat /\ y \in Nat OBVIOUS
  <2>2. <<y, x>> \in Nat \X Nat /\ <<y, x>>[1] = y /\ <<y, x>>[2] = x BY <2>1
  <2>3. y < x => <<y, x>> \in R BY <2>2 DEF R
  <2>4. ~ (y < x) BY <1>2, <2>3
  <2>5. QED BY <2>1, <2>4
<1>4. QED BY <1>3

\* A bounded set of naturals has a largest element, and Max is it.
LEMMA MaxExists ==
  ASSUME NEW n \in Nat, NEW S \in SUBSET (0 .. n), S # {}
  PROVE  Max(S) \in S /\ \A y \in S : y <= Max(S)
<1> DEFINE T == {n - x : x \in S}
<1>1. T \in SUBSET Nat
  <2> SUFFICES ASSUME NEW x \in S PROVE n - x \in Nat OBVIOUS
  <2>1. x \in 0 .. n OBVIOUS
  <2>2. QED BY <2>1
<1>2. PICK m \in T : \A y \in T : m <= y
  <2>1. T # {} OBVIOUS
  <2> HIDE DEF T
  <2>2. QED BY <1>1, <2>1, NatMin
<1>3. PICK x \in S : m = n - x BY <1>2
<1>4. ASSUME NEW y \in S PROVE y <= x
  <2>1. x \in 0 .. n /\ y \in 0 .. n OBVIOUS
  <2>2. m <= n - y BY <1>2
  <2>3. QED BY <2>1, <2>2, <1>3
<1>5. \E z \in S : \A y \in S : z >= y
  <2>1. \A y \in S : x >= y
    <3> TAKE y \in S
    <3>1. x \in 0 .. n /\ y \in 0 .. n OBVIOUS
    <3>2. QED BY <3>1, <1>4
  <2>2. QED BY <2>1
<1>6. Max(S) \in S /\ \A y \in S : Max(S) >= y BY <1>5 DEF Max
<1>7. ASSUME NEW y \in S PROVE y <= Max(S)
  <2>1. Max(S) \in 0 .. n /\ y \in 0 .. n BY <1>6
  <2>2. QED BY <1>6, <2>1
<1>8. QED BY <1>6, <1>7

\* Max is the only one.
LEMMA MaxIs ==
  ASSUME NEW n \in Nat, NEW S \in SUBSET (0 .. n), NEW m \in S, \A y \in S : y <= m
  PROVE  Max(S) = m
<1>1. Max(S) \in S /\ \A y \in S : y <= Max(S)
  <2>1. S # {} OBVIOUS
  <2>2. QED BY <2>1, MaxExists
<1>2. Max(S) \in 0 .. n /\ m \in 0 .. n BY <1>1
<1>3. QED BY <1>1, <1>2

\* A score is clamped.
LEMMA ClampType == ASSUME NEW x \in Int PROVE Clamp(x) \in 0 .. 100
<1>1. Min({100, x}) \in Int /\ Min({100, x}) <= 100
  <2>1. PICK y \in {100, x} : \A z \in {100, x} : y <= z OBVIOUS
  <2>2. Min({100, x}) \in {100, x} /\ \A z \in {100, x} : Min({100, x}) <= z BY <2>1 DEF Min
  <2>3. QED BY <2>2
<1> DEFINE y == Min({100, x})
<1> HIDE DEF y
<1>2. Max({0, y}) \in {0, y} /\ \A z \in {0, y} : Max({0, y}) >= z
  <2>1. y \in Int BY <1>1 DEF y
  <2>2. \E u \in {0, y} : \A z \in {0, y} : u >= z BY <2>1
  <2>3. QED BY <2>2 DEF Max
<1>3. QED BY <1>1, <1>2 DEF Clamp, y

-----------------------------------------------------------------------------
(* Reasons.                                                                *)

Reasons == Seq([kind : ReasonKinds, at : Nat])

\* What Append does to a list of reasons.
LEMMA AppendReason ==
  ASSUME NEW s \in Reasons, NEW kind \in ReasonKinds, NEW at \in Nat
  PROVE  /\ Append(s, Reason(kind, at)) \in Reasons
         /\ Len(s) \in Nat /\ Len(Append(s, Reason(kind, at))) = Len(s) + 1
         /\ DOMAIN s = 1 .. Len(s) /\ DOMAIN Append(s, Reason(kind, at)) = 1 .. Len(s) + 1
         /\ \A k \in 1 .. Len(s) : Append(s, Reason(kind, at))[k] = s[k]
         /\ Append(s, Reason(kind, at))[Len(s) + 1] = Reason(kind, at)
BY DEF Reasons, Reason

\* A reason of a list.
LEMMA ReasonAt ==
  ASSUME NEW s \in Reasons, NEW k \in DOMAIN s
  PROVE  s[k].kind \in ReasonKinds /\ s[k].at \in Nat
<1>1. k \in 1 .. Len(s) /\ Len(s) \in Nat BY DEF Reasons
<1>2. s[k] \in [kind : ReasonKinds, at : Nat] BY <1>1, ElementOfSeq DEF Reasons
<1>3. QED BY <1>2

\* A list is a prefix of another one that is as long and agrees on its positions.
LEMMA PrefixIs ==
  ASSUME NEW s \in Reasons, NEW t \in Reasons
  PROVE  IsPrefix(s, t) <=> Len(s) <= Len(t) /\ \A k \in 1 .. Len(s) : t[k] = s[k]
<1>1. Len(s) \in Nat /\ Len(t) \in Nat BY DEF Reasons
<1>2. SubSeq(s, 1, Len(s)) = [k \in 1 .. Len(s) |-> s[k]] BY <1>1 DEF Reasons
<1>3. ASSUME Len(s) <= Len(t) PROVE SubSeq(t, 1, Len(s)) = [k \in 1 .. Len(s) |-> t[k]]
  BY <1>1, <1>3 DEF Reasons
<1>4. QED BY <1>2, <1>3 DEF IsPrefix

\* The last reason of some kind is one of the list's, or 0.
LEMMA LastRange ==
  ASSUME NEW r, r.reasons \in Reasons, NEW kinds
  PROVE  LastAmong(r, kinds) \in 0 .. Len(r.reasons)
<1> DEFINE S == {0} \cup {k \in DOMAIN r.reasons : r.reasons[k].kind \in kinds}
<1>1. Len(r.reasons) \in Nat /\ DOMAIN r.reasons = 1 .. Len(r.reasons) BY DEF Reasons
<1>2. S \in SUBSET (0 .. Len(r.reasons)) /\ S # {} BY <1>1
<1>3. Max(S) \in S
  <2> HIDE DEF S
  <2>1. QED BY <1>1, <1>2, MaxExists
<1>4. QED BY <1>2, <1>3 DEF LastAmong

\* A reason that is appended is the last of its kind, and only of its kind.
LEMMA LastAppend ==
  ASSUME NEW r, r.reasons \in Reasons, NEW kind \in ReasonKinds, NEW at \in Nat,
         NEW q, q.reasons = Append(r.reasons, Reason(kind, at)), NEW kinds
  PROVE  LastAmong(q, kinds) = IF kind \in kinds THEN Len(r.reasons) + 1 ELSE LastAmong(r, kinds)
<1> DEFINE n == Len(r.reasons)
           S == {0} \cup {k \in DOMAIN r.reasons : r.reasons[k].kind \in kinds}
           T == {0} \cup {k \in DOMAIN q.reasons : q.reasons[k].kind \in kinds}
<1>1. /\ n \in Nat /\ DOMAIN r.reasons = 1 .. n /\ DOMAIN q.reasons = 1 .. n + 1
      /\ \A k \in 1 .. n : q.reasons[k] = r.reasons[k]
      /\ q.reasons[n + 1].kind = kind
  BY AppendReason DEF Reason
<1>2. T \in SUBSET (0 .. n + 1) BY <1>1
<1>3. CASE kind \in kinds
  <2>1. n + 1 \in T BY <1>1, <1>3
  <2>2. \A y \in T : y <= n + 1 BY <1>1, <1>2
  <2>3. n + 1 \in Nat BY <1>1
  <2> HIDE DEF T
  <2>4. Max(T) = n + 1 BY <1>2, <2>1, <2>2, <2>3, MaxIs
  <2>5. QED BY <1>3, <2>4 DEF LastAmong, T
<1>4. CASE kind \notin kinds
  <2>1. \A k \in DOMAIN q.reasons : q.reasons[k].kind \in kinds <=> k \in DOMAIN r.reasons /\ r.reasons[k].kind \in kinds
    BY <1>1, <1>4
  <2>2. T = S BY <1>1, <2>1
  <2>3. QED BY <1>4, <2>2 DEF LastAmong
<1>5. QED BY <1>3, <1>4

\* The announcements that are under way.
Unit(b) == IF b THEN 1 ELSE 0

\* A call of kind k about d and the evaluator about w: how many of them announce i.
Announcing(k, d, w, i) ==
    Cardinality({p \in {<<"call", k, d>>, <<"eval", "freeze", w>>} : p[2] = "freeze" /\ p[3] = i})

\* The count, as a sum.
LEMMA CountPair ==
  ASSUME NEW k, NEW d, NEW w, NEW i
  PROVE  Announcing(k, d, w, i) = Unit(k = "freeze" /\ d = i) + Unit(w = i)
<1> DEFINE a == <<"call", k, d>>
           b == <<"eval", "freeze", w>>
           S == {p \in {a, b} : p[2] = "freeze" /\ p[3] = i}
<1>1. a # b /\ a[2] = k /\ a[3] = d /\ b[2] = "freeze" /\ b[3] = w OBVIOUS
<1>2. (a \in S <=> k = "freeze" /\ d = i) /\ (b \in S <=> w = i) /\ S \subseteq {a, b} BY <1>1
<1> HIDE DEF a, b, S
<1>3. CASE ~(k = "freeze" /\ d = i) /\ w # i
  <2>1. S = {} BY <1>2, <1>3
  <2>2. QED BY <1>3, <2>1, FS_EmptySet DEF Announcing, Unit, S, a, b
<1>4. CASE (k = "freeze" /\ d = i) /\ w # i
  <2>1. S = {a} BY <1>2, <1>4
  <2>2. Cardinality(S) = 1 BY <2>1, FS_Singleton
  <2>3. QED BY <1>4, <2>2 DEF Announcing, Unit, S, a, b
<1>5. CASE ~(k = "freeze" /\ d = i) /\ w = i
  <2>1. S = {b} BY <1>2, <1>5
  <2>2. Cardinality(S) = 1 BY <2>1, FS_Singleton
  <2>3. QED BY <1>5, <2>2 DEF Announcing, Unit, S, a, b
<1>6. CASE (k = "freeze" /\ d = i) /\ w = i
  <2>1. S = {a} \cup {b} /\ b \notin {a} BY <1>1, <1>2, <1>6
  <2>2. Cardinality({a}) = 1 /\ IsFiniteSet({a}) BY FS_Singleton
  <2>3. Cardinality(S) = 2 BY <2>1, <2>2, FS_AddElement
  <2>4. QED BY <1>6, <2>3 DEF Announcing, Unit, S, a, b
<1>7. QED BY <1>3, <1>4, <1>5, <1>6

\* A score is a percentage.
LEMMA ScoreType ==
  ASSUME NEW r \in StateRow, NEW t \in Nat, t <= MaxTime, r.firstSeen <= MaxTime,
         \A k \in DOMAIN r.reasons : r.reasons[k].at <= MaxTime
  PROVE  ComputeScore(r, t) \in 0 .. 100
<1> USE ReputationAssumption
<1> DEFINE audits == AuditTimes(r.reasons)
           penalty == IF audits = {} THEN 0 ELSE Recency(t - Max(audits))
<1>0. MaxTime \in Nat /\ r.firstSeen \in Nat BY DEF StateRow
<1>1. audits \in SUBSET (0 .. MaxTime)
  <2>1. ASSUME NEW k \in DOMAIN r.reasons PROVE r.reasons[k].at \in 0 .. MaxTime
    <3>1. r.reasons \in Reasons BY DEF StateRow, Reasons
    <3>2. r.reasons[k].at \in Nat BY <3>1, ReasonAt
    <3>3. QED BY <1>0, <3>2
  <2>2. QED BY <2>1 DEF AuditTimes
<1>2. penalty \in 0 .. 100
  <2>1. CASE audits = {} BY <2>1
  <2>2. CASE audits # {}
    <3> HIDE DEF audits
    <3>1. Max(audits) \in 0 .. MaxTime BY <1>0, <1>1, <2>2, MaxExists
    <3> DEFINE d == t - Max(audits)
    <3>2. (IF d < 0 THEN 0 ELSE d) \in 0 .. MaxTime BY <1>0, <3>1
    <3> HIDE DEF d
    <3>3. Recency(d) \in 0 .. 100 BY <3>2 DEF Recency
    <3>4. QED BY <2>2, <3>3 DEF d
  <2>3. QED BY <2>1, <2>2
<1>3. Longevity(t - r.firstSeen) \in 0 .. 100
  <2> DEFINE d == t - r.firstSeen
  <2>1. d \in Int /\ d <= MaxTime BY <1>0, SMTT(30)
  <2> HIDE DEF d
  <2>2. d <= 0 \/ d \in 1 .. MaxTime BY <1>0, <2>1, SMTT(30)
  <2>3. Longevity(d) \in 0 .. 100 BY <2>2 DEF Longevity
  <2>4. QED BY <2>3 DEF d
<1> DEFINE bonus == Longevity(t - r.firstSeen)
<1> HIDE DEF penalty, bonus
<1>4. (20 * bonus - 40 * penalty) \in Int
  <2>1. bonus \in 0 .. 100 BY <1>3 DEF bonus
  <2>2. QED BY <1>2, <2>1
<1>5. (20 * bonus - 40 * penalty) \div 100 \in Int BY <1>4
<1>6. 30 + 30 + 20 + (20 * bonus - 40 * penalty) \div 100 \in Int BY <1>5
<1>7. Clamp(30 + 30 + 20 + (20 * bonus - 40 * penalty) \div 100) \in 0 .. 100 BY <1>6, ClampType
<1>8. QED BY <1>7 DEF ComputeScore, bonus, penalty

-----------------------------------------------------------------------------
(* Rows: whoever writes one adds at most one reason, and for a cause.      *)

Explained(r) ==
    LET frozenAt == LastAmong(r, {"freeze", "freeze_repeat"})
    IN  /\ r.state = "FROZEN" <=> frozenAt > LastAmong(r, {"unfreeze"})
        /\ r.state = "AUDIT" => LastAmong(r, AuditKinds) > LastAmong(r, {"unfreeze", "audit_cleared"})
Recents(s, k, at) == {j \in 1 .. k - 1 : s[j].kind \in AuditKinds /\ s[j].at > at - Recent}
Earned(s) ==
    \A k \in DOMAIN s : s[k].kind = "freeze_repeat" => Cardinality(Recents(s, k, s[k].at)) >= Repeats

\* The causes of a reason.
Cause(i, st, kind, at) ==
    /\ \/ kind \in AuditKinds /\ Ensured(i).state # "FROZEN" /\ st = "AUDIT"
       \/ kind \in AuditKinds /\ st = Ensured(i).state
       \/ kind \in {"freeze", "freeze_repeat"} /\ st = "FROZEN"
       \/ kind = "unfreeze" /\ st = "OK"
       \/ kind = "audit_cleared" /\ Ensured(i).state # "FROZEN" /\ st = "OK"
    /\ kind = "freeze_repeat" => i \in DOMAIN eval.snap /\ FreezeDue(eval.snap[i], at)

Writes(i, st, kind, at) ==
    row' = [row EXCEPT ![i] = Moved(i, st, kind, at)] /\ Cause(i, st, kind, at)

RowStep ==
    \/ row' = row
    \/ \E i \in Ids : row' = [row EXCEPT ![i] = Ensured(i)]
    \/ \E i \in Ids, st \in States, kind \in ReasonKinds, at \in 0 .. now : Writes(i, st, kind, at)

\* An identity's row, or the one it gets.
LEMMA EnsuredType ==
  ASSUME TypeOK, NEW i \in Ids
  PROVE  /\ Ensured(i) \in StateRow /\ DatedBy(Ensured(i), now) /\ Ensured(i).reasons \in Reasons
         /\ row[i] # NoRow => Ensured(i) = row[i]
         /\ row[i] = NoRow => Ensured(i) = [state |-> "OK", firstSeen |-> now, reasons |-> <<>>]
<1>1. now \in Nat BY ReputationAssumption DEF TypeOK
<1>2. CASE row[i] = NoRow
  <2>1. Ensured(i) = [state |-> "OK", firstSeen |-> now, reasons |-> <<>>]
    BY <1>2 DEF Ensured, Fresh
  <2>2. <<>> \in Seq([kind : ReasonKinds, at : Nat]) /\ DOMAIN <<>> = {} OBVIOUS
  <2>3. QED BY <1>1, <1>2, <2>1, <2>2 DEF StateRow, States, DatedBy, Reasons
<1>3. CASE row[i] # NoRow
  <2>1. row[i] \in StateRow /\ DatedBy(row[i], now) BY <1>3 DEF TypeOK, Stored, Dated, DatedBy
  <2>2. Ensured(i) = row[i] BY <1>3 DEF Ensured
  <2>3. QED BY <1>3, <2>1, <2>2 DEF StateRow, Reasons
<1>4. QED BY <1>2, <1>3

\* A row keeps its dates while days pass.
LEMMA DatesStay ==
  ASSUME NEW r \in StateRow, NEW t \in Nat, NEW u \in Nat, t <= u, DatedBy(r, t)
  PROVE  DatedBy(r, u)
<1>1. r.firstSeen \in Nat /\ r.reasons \in Reasons BY DEF StateRow, Reasons
<1>2. \A k \in DOMAIN r.reasons : r.reasons[k].at \in Nat BY <1>1, ReasonAt
<1>3. QED BY <1>1, <1>2 DEF DatedBy

\* A row with another state and one more reason.
WithReason(e, st, kind, at) == [e EXCEPT !.state = st, !.reasons = Append(@, Reason(kind, at))]

\* Such a row is typed and dated, and has the new reason last.
LEMMA RowChange ==
  ASSUME NEW e \in StateRow, NEW st \in States, NEW kind \in ReasonKinds, NEW at \in Nat,
         NEW t \in Nat, at <= t, DatedBy(e, t)
  PROVE  /\ WithReason(e, st, kind, at) \in StateRow /\ DatedBy(WithReason(e, st, kind, at), t)
         /\ WithReason(e, st, kind, at).state = st
         /\ WithReason(e, st, kind, at).reasons = Append(e.reasons, Reason(kind, at))
<1> DEFINE q == WithReason(e, st, kind, at)
<1>1. e.reasons \in Reasons /\ e.firstSeen \in Nat BY DEF StateRow, Reasons
<1>2. Append(e.reasons, Reason(kind, at)) \in Reasons BY <1>1, AppendReason
<1>3. /\ q.state = st /\ q.firstSeen = e.firstSeen
      /\ q.reasons = Append(e.reasons, Reason(kind, at))
      /\ q = [state |-> st, firstSeen |-> e.firstSeen, reasons |-> Append(e.reasons, Reason(kind, at))]
  <2> DEFINE x == Append(e.reasons, Reason(kind, at))
             f == [e EXCEPT !.state = st]
  <2>1. q = [f EXCEPT !.reasons = x] BY Zenon DEF WithReason
  <2> HIDE DEF x, q
  <2>2. f = [state |-> st, firstSeen |-> e.firstSeen, reasons |-> e.reasons] BY DEF StateRow
  <2> HIDE DEF f
  <2>3. q = [state |-> st, firstSeen |-> e.firstSeen, reasons |-> x] BY <2>1, <2>2
  <2>4. QED BY <2>3 DEF x
<1> HIDE DEF q
<1>9. /\ DOMAIN e.reasons = 1 .. Len(e.reasons) /\ Len(e.reasons) \in Nat
      /\ \A k \in 1 .. Len(e.reasons) : q.reasons[k] = e.reasons[k]
  <2> DEFINE s == e.reasons
             x == Append(s, Reason(kind, at))
  <2>1. q.reasons = x BY <1>3
  <2>2. s \in Reasons BY <1>1
  <2> HIDE DEF s
  <2>3. DOMAIN s = 1 .. Len(s) /\ Len(s) \in Nat /\ \A k \in 1 .. Len(s) : x[k] = s[k]
    BY <2>2, AppendReason
  <2> HIDE DEF x
  <2>4. QED BY <2>1, <2>3 DEF s
<1>4. q \in StateRow BY <1>1, <1>2, <1>3 DEF StateRow, Reasons
<1>5. \A k \in DOMAIN q.reasons : q.reasons[k].at <= t
  <2> TAKE k \in DOMAIN q.reasons
  <2>1. CASE k \in DOMAIN e.reasons
    BY <1>9, <2>1 DEF DatedBy
  <2>2. CASE k = Len(e.reasons) + 1
    BY <1>1, <1>3, <2>2, AppendReason DEF Reason
  <2>3. k \in DOMAIN e.reasons \/ k = Len(e.reasons) + 1
    BY <1>1, <1>3, AppendReason
  <2>4. QED BY <2>1, <2>2, <2>3
<1>6. DatedBy(q, t) BY <1>3, <1>5 DEF DatedBy
<1>7. QED BY <1>3, <1>4, <1>6 DEF q

\* A row with its new reason.
LEMMA MovedType ==
  ASSUME TypeOK, NEW i \in Ids, NEW st \in States, NEW kind \in ReasonKinds, NEW at \in 0 .. now
  PROVE  /\ Moved(i, st, kind, at) \in StateRow /\ DatedBy(Moved(i, st, kind, at), now)
         /\ Moved(i, st, kind, at).state = st
         /\ Moved(i, st, kind, at).reasons = Append(Ensured(i).reasons, Reason(kind, at))
<1>1. now \in Nat /\ at \in Nat /\ at <= now BY ReputationAssumption DEF TypeOK
<1>2. Ensured(i) \in StateRow /\ DatedBy(Ensured(i), now) BY EnsuredType
<1>3. Moved(i, st, kind, at) = WithReason(Ensured(i), st, kind, at) BY DEF Moved, WithReason
<1>4. QED BY <1>1, <1>2, <1>3, RowChange

\* A list is a prefix of itself and of what it becomes.
LEMMA PrefixSelf == ASSUME NEW s \in Reasons PROVE IsPrefix(s, s)
<1>1. Len(s) \in Nat BY DEF Reasons
<1>2. QED BY <1>1, PrefixIs

\* A list is a prefix of what an append makes of it.
LEMMA PrefixAppend ==
  ASSUME NEW s \in Reasons, NEW kind \in ReasonKinds, NEW at \in Nat
  PROVE  IsPrefix(s, Append(s, Reason(kind, at)))
<1> DEFINE t == Append(s, Reason(kind, at))
<1>1. /\ t \in Reasons /\ Len(s) \in Nat /\ Len(t) = Len(s) + 1
      /\ \A k \in 1 .. Len(s) : t[k] = s[k]
  BY AppendReason
<1> HIDE DEF t
<1>2. IsPrefix(s, t) BY <1>1, PrefixIs
<1>3. QED BY <1>2 DEF t

\* A prefix of a prefix is a prefix.
LEMMA PrefixTrans ==
  ASSUME NEW s \in Reasons, NEW t \in Reasons, NEW u \in Reasons, IsPrefix(s, t), IsPrefix(t, u)
  PROVE  IsPrefix(s, u)
<1>1. Len(s) \in Nat /\ Len(t) \in Nat /\ Len(u) \in Nat BY DEF Reasons
<1>2. QED BY <1>1, PrefixIs

\* What a write leaves of the table: only one row may differ, and that one is as before or has
\* one more reason.
Rewritten(i, q) == row' = [row EXCEPT ![i] = q]

\* No write takes a row, or a reason of a row, out of the table.
LEMMA RowKeeps ==
  ASSUME TypeOK, RowStep, now' \in Nat, now <= now'
  PROVE  /\ row' \in [Ids -> StateRow \cup {NoRow}]
         /\ \A i \in Ids : row'[i] # NoRow => DatedBy(row'[i], now')
         /\ \A i \in Stored : row'[i] # NoRow /\ IsPrefix(row[i].reasons, row'[i].reasons)
<1>0. row \in [Ids -> StateRow \cup {NoRow}] /\ now \in Nat /\ NoRow \notin StateRow
  BY ReputationAssumption DEF TypeOK
<1>3. \A i \in Ids : row[i] # NoRow => row[i] \in StateRow /\ row[i].reasons \in Reasons /\ DatedBy(row[i], now')
  <2> SUFFICES ASSUME NEW i \in Ids, row[i] # NoRow
               PROVE row[i] \in StateRow /\ row[i].reasons \in Reasons /\ DatedBy(row[i], now')
    OBVIOUS
  <2>1. row[i] \in StateRow /\ DatedBy(row[i], now) BY <1>0 DEF TypeOK, Stored, Dated, DatedBy
  <2>2. QED BY <1>0, <2>1, DatesStay DEF StateRow, Reasons
<1>4. CASE row' = row
  <2>1. \A i \in Stored : IsPrefix(row[i].reasons, row[i].reasons) BY <1>3, PrefixSelf DEF Stored
  <2>2. QED BY <1>0, <1>3, <1>4, <2>1 DEF Stored
<1>5. ASSUME NEW i \in Ids, NEW q \in StateRow, DatedBy(q, now), Rewritten(i, q),
             row[i] # NoRow => IsPrefix(row[i].reasons, q.reasons)
      PROVE  /\ row' \in [Ids -> StateRow \cup {NoRow}]
             /\ \A j \in Ids : row'[j] # NoRow => DatedBy(row'[j], now')
             /\ \A j \in Stored : row'[j] # NoRow /\ IsPrefix(row[j].reasons, row'[j].reasons)
  <2>1. row' \in [Ids -> StateRow \cup {NoRow}] BY <1>0, <1>5 DEF Rewritten
  <2>2. \A j \in Ids : row'[j] = IF j = i THEN q ELSE row[j] BY <1>0, <1>5 DEF Rewritten
  <2>3. DatedBy(q, now') BY <1>0, <1>5, DatesStay
  <2>4. \A j \in Ids : row'[j] # NoRow => DatedBy(row'[j], now')
    BY <1>3, <2>2, <2>3
  <2>5. ASSUME NEW j \in Stored PROVE row'[j] # NoRow /\ IsPrefix(row[j].reasons, row'[j].reasons)
    <3>1. j \in Ids /\ row[j] # NoRow BY <2>5 DEF Stored
    <3>2. CASE j = i BY <1>0, <1>5, <2>2, <3>1, <3>2
    <3>3. CASE j # i
      <4>1. IsPrefix(row[j].reasons, row[j].reasons) BY <1>3, <3>1, PrefixSelf
      <4>2. QED BY <2>2, <3>1, <3>3, <4>1
    <3>4. QED BY <3>2, <3>3
  <2>6. QED BY <2>1, <2>4, <2>5
<1>6. ASSUME NEW i \in Ids
      PROVE row[i] # NoRow => IsPrefix(row[i].reasons, Ensured(i).reasons)
  BY <1>3, EnsuredType, PrefixSelf
<1>7. ASSUME NEW i \in Ids, NEW st \in States, NEW kind \in ReasonKinds, NEW at \in 0 .. now
      PROVE row[i] # NoRow => IsPrefix(row[i].reasons, Moved(i, st, kind, at).reasons)
  <2> SUFFICES ASSUME row[i] # NoRow PROVE IsPrefix(row[i].reasons, Moved(i, st, kind, at).reasons)
    OBVIOUS
  <2>1. row[i].reasons \in Reasons /\ at \in Nat BY <1>0, <1>3
  <2>2. Moved(i, st, kind, at).reasons = Append(row[i].reasons, Reason(kind, at))
    BY MovedType, EnsuredType
  <2>3. QED BY <2>1, <2>2, PrefixAppend
<1>8. CASE \E i \in Ids : row' = [row EXCEPT ![i] = Ensured(i)]
  <2>1. PICK i \in Ids : Rewritten(i, Ensured(i)) BY <1>8 DEF Rewritten
  <2>2. Ensured(i) \in StateRow /\ DatedBy(Ensured(i), now) BY EnsuredType
  <2>3. row[i] # NoRow => IsPrefix(row[i].reasons, Ensured(i).reasons) BY <1>6
  <2>4. QED BY <1>5, <2>1, <2>2, <2>3
<1>9. CASE \E i \in Ids, st \in States, kind \in ReasonKinds, at \in 0 .. now : Writes(i, st, kind, at)
  <2>1. PICK i \in Ids, st \in States, kind \in ReasonKinds, at \in 0 .. now : Writes(i, st, kind, at)
    BY <1>9
  <2>2. Rewritten(i, Moved(i, st, kind, at)) BY <2>1 DEF Writes, Rewritten
  <2>3. Moved(i, st, kind, at) \in StateRow /\ DatedBy(Moved(i, st, kind, at), now) BY MovedType
  <2>4. row[i] # NoRow => IsPrefix(row[i].reasons, Moved(i, st, kind, at).reasons) BY <1>7
  <2>5. QED BY <1>5, <2>2, <2>3, <2>4
<1>10. QED BY <1>4, <1>8, <1>9 DEF RowStep

-----------------------------------------------------------------------------
(* States and their reasons.                                               *)

\* A reason with a cause explains the state that is written with it.
LEMMA ExplainedMove ==
  ASSUME NEW e \in StateRow, Explained(e),
         NEW st \in States, NEW kind \in ReasonKinds, NEW at \in Nat,
         NEW q, q.state = st, q.reasons = Append(e.reasons, Reason(kind, at)),
         \/ kind \in AuditKinds /\ e.state # "FROZEN" /\ st = "AUDIT"
         \/ kind \in AuditKinds /\ st = e.state
         \/ kind \in {"freeze", "freeze_repeat"} /\ st = "FROZEN"
         \/ kind = "unfreeze" /\ st = "OK"
         \/ kind = "audit_cleared" /\ e.state # "FROZEN" /\ st = "OK"
  PROVE  Explained(q)
<1> DEFINE n == Len(e.reasons)
           F == {"freeze", "freeze_repeat"}
           U == {"unfreeze"}
           C == {"unfreeze", "audit_cleared"}
<1>1. e.reasons \in Reasons /\ n \in Nat BY DEF StateRow, Reasons
<1>2. \A K : LastAmong(e, K) \in 0 .. n BY <1>1, LastRange
<1>3. \A K : LastAmong(q, K) = IF kind \in K THEN n + 1 ELSE LastAmong(e, K)
  <2> TAKE K
  <2>1. QED BY <1>1, LastAppend
<1>4. /\ LastAmong(e, F) \in 0 .. n /\ LastAmong(e, U) \in 0 .. n /\ LastAmong(e, C) \in 0 .. n
      /\ LastAmong(e, AuditKinds) \in 0 .. n
  BY <1>2
<1>5. /\ LastAmong(q, F) = IF kind \in F THEN n + 1 ELSE LastAmong(e, F)
      /\ LastAmong(q, U) = IF kind \in U THEN n + 1 ELSE LastAmong(e, U)
      /\ LastAmong(q, C) = IF kind \in C THEN n + 1 ELSE LastAmong(e, C)
      /\ LastAmong(q, AuditKinds) = IF kind \in AuditKinds THEN n + 1 ELSE LastAmong(e, AuditKinds)
  BY <1>3
<1>6. /\ e.state = "FROZEN" <=> LastAmong(e, F) > LastAmong(e, U)
      /\ e.state = "AUDIT" => LastAmong(e, AuditKinds) > LastAmong(e, C)
  BY DEF Explained
<1> SUFFICES /\ st = "FROZEN" <=> LastAmong(q, F) > LastAmong(q, U)
             /\ st = "AUDIT" => LastAmong(q, AuditKinds) > LastAmong(q, C)
  BY DEF Explained
<1> HIDE DEF n
<1>7. CASE kind \in AuditKinds /\ e.state # "FROZEN" /\ st = "AUDIT"
  BY <1>1, <1>4, <1>5, <1>6, <1>7 DEF AuditKinds
<1>8. CASE kind \in AuditKinds /\ st = e.state
  BY <1>1, <1>4, <1>5, <1>6, <1>8 DEF AuditKinds
<1>9. CASE kind \in F /\ st = "FROZEN"
  BY <1>1, <1>4, <1>5, <1>6, <1>9 DEF AuditKinds
<1>10. CASE kind = "unfreeze" /\ st = "OK"
  BY <1>1, <1>4, <1>5, <1>6, <1>10 DEF AuditKinds
<1>11. CASE kind = "audit_cleared" /\ e.state # "FROZEN" /\ st = "OK"
  BY <1>1, <1>4, <1>5, <1>6, <1>11 DEF AuditKinds
<1>12. QED BY <1>7, <1>8, <1>9, <1>10, <1>11

\* A row without reasons is that of an identity that is OK.
LEMMA ExplainedFresh ==
  ASSUME NEW t
  PROVE  Explained([state |-> "OK", firstSeen |-> t, reasons |-> <<>>])
<1> DEFINE r == [state |-> "OK", firstSeen |-> t, reasons |-> <<>>]
<1>1. r.reasons \in Reasons /\ Len(r.reasons) = 0 /\ r.state = "OK" BY DEF Reasons
<1> HIDE DEF r
<1>2. \A K : LastAmong(r, K) \in 0 .. 0 BY <1>1, LastRange
<1>3. LastAmong(r, {"freeze", "freeze_repeat"}) = 0 /\ LastAmong(r, {"unfreeze"}) = 0
  BY <1>2
<1>4. Explained(r) BY <1>1, <1>3 DEF Explained
<1>5. QED BY <1>4 DEF r

\* The freezes of a list stay earned when a reason is added, if that one is earned too.
LEMMA EarnedAppend ==
  ASSUME NEW s \in Reasons, Earned(s), NEW kind \in ReasonKinds, NEW at \in Nat,
         kind = "freeze_repeat" => Cardinality(Recents(s, Len(s) + 1, at)) >= Repeats
  PROVE  Earned(Append(s, Reason(kind, at)))
<1> DEFINE t == Append(s, Reason(kind, at))
<1>1. /\ Len(s) \in Nat /\ DOMAIN s = 1 .. Len(s) /\ DOMAIN t = 1 .. Len(s) + 1
      /\ \A k \in 1 .. Len(s) : t[k] = s[k]
      /\ t[Len(s) + 1].kind = kind /\ t[Len(s) + 1].at = at
  BY AppendReason DEF Reason
<1> HIDE DEF t
<1>2. ASSUME NEW k \in 1 .. Len(s) + 1, NEW u PROVE Recents(t, k, u) = Recents(s, k, u)
  BY <1>1 DEF Recents
<1>3. ASSUME NEW k \in DOMAIN t, t[k].kind = "freeze_repeat"
      PROVE  Cardinality(Recents(t, k, t[k].at)) >= Repeats
  <2>1. CASE k \in 1 .. Len(s)
    <3>1. t[k] = s[k] /\ k \in DOMAIN s BY <1>1, <2>1
    <3>2. Cardinality(Recents(s, k, s[k].at)) >= Repeats BY <1>3, <3>1 DEF Earned
    <3>3. Recents(t, k, t[k].at) = Recents(s, k, s[k].at) BY <1>1, <1>2, <3>1
    <3>4. QED BY <3>2, <3>3
  <2>2. CASE k = Len(s) + 1
    <3>1. Recents(t, k, at) = Recents(s, k, at) BY <1>1, <1>2, <2>2
    <3>2. QED BY <1>1, <1>3, <2>2, <3>1
  <2>3. QED BY <1>1, <2>1, <2>2
<1>4. Earned(t) BY <1>3 DEF Earned
<1>5. QED BY <1>4 DEF t

\* What a row was judged on is still there when the freeze is written.
LEMMA StrikesStay ==
  ASSUME NEW r, r.reasons \in Reasons, NEW s \in Reasons, IsPrefix(r.reasons, s), NEW at \in Nat,
         FreezeDue(r, at)
  PROVE  Cardinality(Recents(s, Len(s) + 1, at)) >= Repeats
<1> DEFINE p == r.reasons
           S == Strikes(r, at)
           T == Recents(s, Len(s) + 1, at)
<1>1. Len(p) \in Nat /\ DOMAIN p = 1 .. Len(p) /\ Len(s) \in Nat BY DEF Reasons
<1>2. Len(p) <= Len(s) /\ \A k \in 1 .. Len(p) : s[k] = p[k] BY PrefixIs
<1>3. S \subseteq T BY <1>1, <1>2 DEF Strikes, Recents
<1>4. T \subseteq 1 .. Len(s) BY <1>1 DEF Recents
<1>5. IsFiniteSet(1 .. Len(s))
  <2>1. 1 \in Int /\ Len(s) \in Int BY <1>1
  <2>2. QED BY <2>1, FS_Interval
<1> HIDE DEF S, T
<1>6. IsFiniteSet(T) BY <1>4, <1>5, FS_Subset
<1>7. IsFiniteSet(S) /\ Cardinality(S) <= Cardinality(T) BY <1>3, <1>6, FS_Subset
<1>8. Cardinality(S) >= Repeats BY DEF FreezeDue, S
<1>9. Cardinality(S) \in Nat /\ Cardinality(T) \in Nat BY <1>6, <1>7, FS_CardinalityType
<1>10. Repeats \in Nat BY ReputationAssumption
<1>11. Cardinality(T) >= Repeats BY <1>7, <1>8, <1>9, <1>10
<1>12. QED BY <1>11 DEF T

Justified(r) == Explained(r) /\ Earned(r.reasons)

\* The invariant's verdicts, row by row.
LEMMA VerdictsByRow ==
  ASSUME StateExplained, FreezeEarned
  PROVE  \A i \in Stored : Justified(row[i])
BY DEF StateExplained, FreezeEarned, Justified, Explained, Earned, Recents

\* Whatever is written, every row stays justified.
LEMMA RowVerdicts ==
  ASSUME TypeOK, Shapes, SnapshotIsPast, StateExplained, FreezeEarned, RowStep
  PROVE  \A i \in Ids : row'[i] # NoRow => Justified(row'[i])
<1>0. row \in [Ids -> StateRow \cup {NoRow}] /\ now \in Nat
  BY ReputationAssumption DEF TypeOK
<1>1. \A i \in Ids : row[i] # NoRow => Justified(row[i]) BY VerdictsByRow DEF Stored
<1>2. \A i \in Ids : Justified(Ensured(i))
  <2> TAKE i \in Ids
  <2>1. CASE row[i] # NoRow BY <1>1, <2>1 DEF Ensured
  <2>2. CASE row[i] = NoRow
    <3>1. Explained(Ensured(i)) BY <2>2, EnsuredType, ExplainedFresh
    <3>2. Ensured(i).reasons = <<>> BY <2>2, EnsuredType
    <3>3. Earned(<<>>) BY DEF Earned
    <3>4. QED BY <3>1, <3>2, <3>3 DEF Justified
  <2>3. QED BY <2>1, <2>2
<1>3. ASSUME NEW i \in Ids, NEW q, row' = [row EXCEPT ![i] = q], Justified(q)
      PROVE  \A j \in Ids : row'[j] # NoRow => Justified(row'[j])
  <2>1. \A j \in Ids : row'[j] = IF j = i THEN q ELSE row[j] BY <1>0, <1>3
  <2>2. QED BY <1>1, <1>3, <2>1
<1>4. CASE row' = row BY <1>1, <1>4
<1>5. CASE \E i \in Ids : row' = [row EXCEPT ![i] = Ensured(i)]
  BY <1>2, <1>3, <1>5
<1>6. CASE \E i \in Ids, st \in States, kind \in ReasonKinds, at \in 0 .. now : Writes(i, st, kind, at)
  <2>1. PICK i \in Ids, st \in States, kind \in ReasonKinds, at \in 0 .. now : Writes(i, st, kind, at)
    BY <1>6
  <2> DEFINE e == Ensured(i)
             q == Moved(i, st, kind, at)
  <2>2. row' = [row EXCEPT ![i] = q] /\ Cause(i, st, kind, at) BY <2>1 DEF Writes
  <2>3. /\ e \in StateRow /\ e.reasons \in Reasons /\ at \in Nat
        /\ q.state = st /\ q.reasons = Append(e.reasons, Reason(kind, at))
        /\ Explained(e) /\ Earned(e.reasons)
    BY <1>0, <1>2, EnsuredType, MovedType DEF Justified
  <2>4. \/ kind \in AuditKinds /\ e.state # "FROZEN" /\ st = "AUDIT"
        \/ kind \in AuditKinds /\ st = e.state
        \/ kind \in {"freeze", "freeze_repeat"} /\ st = "FROZEN"
        \/ kind = "unfreeze" /\ st = "OK"
        \/ kind = "audit_cleared" /\ e.state # "FROZEN" /\ st = "OK"
    BY <2>2, Zenon DEF Cause
  <2>5. kind = "freeze_repeat" => Cardinality(Recents(e.reasons, Len(e.reasons) + 1, at)) >= Repeats
    <3> SUFFICES ASSUME kind = "freeze_repeat"
                 PROVE  Cardinality(Recents(e.reasons, Len(e.reasons) + 1, at)) >= Repeats
      OBVIOUS
    <3>1. i \in DOMAIN eval.snap /\ FreezeDue(eval.snap[i], at) BY <2>2 DEF Cause
    <3>2. row[i] # NoRow /\ IsPrefix(eval.snap[i].reasons, row[i].reasons)
      BY <3>1 DEF SnapshotIsPast, Stored
    <3>3. e = row[i] BY <3>2, EnsuredType
    <3>4. eval.snap[i].reasons \in Reasons
      <4>1. eval.snap \in Snaps BY DEF Shapes, Cycles
      <4>2. eval.snap[i] \in StateRow BY <3>1, <4>1 DEF Snaps
      <4>3. QED BY <4>2 DEF StateRow, Reasons
    <3> HIDE DEF e
    <3>5. QED BY <2>3, <3>1, <3>2, <3>3, <3>4, StrikesStay
  <2> HIDE DEF e, q
  <2>6. Explained(q) BY <2>3, <2>4, ExplainedMove
  <2>7. Earned(q.reasons) BY <2>3, <2>5, EarnedAppend
  <2>8. Justified(q) BY <2>6, <2>7 DEF Justified
  <2>9. QED BY <1>3, <2>2, <2>8
<1>7. QED BY <1>4, <1>5, <1>6 DEF RowStep
-----------------------------------------------------------------------------
(* Who writes rows.                                                        *)

\* appendReason on a row, as a write that keeps the state.
LEMMA SameState ==
  ASSUME NEW e \in StateRow, NEW x
  PROVE  [e EXCEPT !.reasons = x] = [e EXCEPT !.state = e.state, !.reasons = x]
<1> DEFINE f == [e EXCEPT !.state = e.state]
<1>1. f = e BY DEF StateRow
<1>2. [e EXCEPT !.state = e.state, !.reasons = x] = [f EXCEPT !.reasons = x] BY Zenon
<1>3. QED BY <1>1, <1>2, Zenon

\* Every step of the program writes the rows in one of the three ways, and for a cause.
LEMMA RowSteps ==
  ASSUME TypeOK, Shapes, CallIsSound, SnapshotIsPast, EvalIsSound, [Next]_vars
  PROVE  RowStep
<1> USE ReputationAssumption
<1>0. /\ now \in Nat /\ now \in 0 .. now /\ eval.at \in 0 .. now /\ Targets \subseteq Ids
      /\ eval.todo \subseteq Ids /\ op.id \in Ids \cup {NoRow}
  <2>1. now \in Nat /\ now \in 0 .. now /\ Targets \subseteq Ids BY DEF TypeOK
  <2>2. op.id \in Ids \cup {NoRow} BY SMTT(30) DEF Shapes, Calls
  <2>3. eval.at \in 0 .. now /\ eval.todo \subseteq Ids BY SMTT(30) DEF Shapes, Cycles
  <2>4. QED BY <2>1, <2>2, <2>3
<1>1. \A i \in Stored : i \in Ids /\ Ensured(i) = row[i] BY DEF Stored, Ensured
<1>2. ASSUME NEW i \in Targets, NEW s \in Signals, Record(i, s) PROVE RowStep
  BY <1>0, <1>2 DEF Record, RowStep
<1>3. ASSUME NEW i \in Targets, BreachBegin(i) PROVE RowStep
  BY <1>0, <1>3 DEF BreachBegin, RowStep
<1>4. ASSUME NEW i \in Targets, Freeze(i) PROVE RowStep
  <2>1. CASE CanTransition(Ensured(i).state, "FROZEN")
    <3>1. Writes(i, "FROZEN", "freeze", now) BY <1>4, <2>1 DEF Freeze, Writes, Cause, AuditKinds
    <3>2. i \in Ids /\ "FROZEN" \in States /\ "freeze" \in ReasonKinds BY <1>0 DEF States, ReasonKinds
    <3>3. QED BY <1>0, <3>1, <3>2 DEF RowStep
  <2>2. CASE ~CanTransition(Ensured(i).state, "FROZEN") BY <1>4, <2>2 DEF Freeze, RowStep
  <2>3. QED BY <2>1, <2>2
<1>5. ASSUME NEW i \in Targets, Unfreeze(i) PROVE RowStep
  <2>1. CASE row[i] # NoRow /\ row[i].state = "FROZEN"
    <3>1. Writes(i, "OK", "unfreeze", now) BY <1>5, <2>1 DEF Unfreeze, Writes, Cause, AuditKinds
    <3>2. i \in Ids /\ "OK" \in States /\ "unfreeze" \in ReasonKinds BY <1>0 DEF States, ReasonKinds
    <3>3. QED BY <1>0, <3>1, <3>2 DEF RowStep
  <2>2. CASE ~(row[i] # NoRow /\ row[i].state = "FROZEN") BY <1>5, <2>2 DEF Unfreeze, RowStep
  <2>3. QED BY <2>1, <2>2
<1>6. ASSUME BreachWrite PROVE RowStep
  <2>1. op.id \in Stored BY <1>6 DEF BreachWrite, CallIsSound
  <2>2. op.id \in Ids /\ Ensured(op.id) = row[op.id] /\ "breach" \in ReasonKinds /\ "AUDIT" \in States
    BY <1>1, <2>1 DEF ReasonKinds, AuditKinds, States
  <2>3. row[op.id] \in StateRow BY <2>1 DEF Stored, TypeOK
  <2>4. CASE row' = [row EXCEPT ![op.id].reasons = Append(@, Reason("breach", now))]
    <3>1. row' = [row EXCEPT ![op.id] = Moved(op.id, row[op.id].state, "breach", now)]
      <4> DEFINE e == row[op.id]
                 x == Append(e.reasons, Reason("breach", now))
      <4>1. row' = [row EXCEPT ![op.id] = [e EXCEPT !.reasons = x]] BY <2>4, Zenon
      <4>2. Moved(op.id, e.state, "breach", now) = [e EXCEPT !.state = e.state, !.reasons = x]
        BY <2>2, Zenon DEF Moved
      <4>3. [e EXCEPT !.reasons = x] = [e EXCEPT !.state = e.state, !.reasons = x]
        BY <2>3, SameState, Zenon
      <4>4. QED BY <4>1, <4>2, <4>3, Zenon
    <3>2. Cause(op.id, row[op.id].state, "breach", now) BY <2>2 DEF Cause, AuditKinds
    <3>3. row[op.id].state \in States BY <2>3 DEF StateRow
    <3>4. QED BY <1>0, <2>2, <3>1, <3>2, <3>3 DEF RowStep, Writes
  <2>5. CASE /\ CanTransition(row[op.id].state, "AUDIT")
             /\ row' = [row EXCEPT ![op.id] = Moved(op.id, "AUDIT", "breach", now)]
    <3>1. Writes(op.id, "AUDIT", "breach", now)
      BY <2>2, <2>5 DEF Writes, Cause, AuditKinds, CanTransition
    <3>2. QED BY <1>0, <2>2, <3>1 DEF RowStep
  <2>6. CASE row' = row BY <2>6 DEF RowStep
  <2>7. QED BY <1>6, <2>4, <2>5, <2>6, Zenon DEF BreachWrite
<1>7. ASSUME NEW i \in Ids, EvalAudit(i) PROVE RowStep
  <2>1. CASE CanTransition(Ensured(i).state, "AUDIT")
    <3>1. Writes(i, "AUDIT", "zscore", eval.at)
      BY <1>7, <2>1 DEF EvalAudit, Writes, Cause, AuditKinds, CanTransition
    <3>2. "AUDIT" \in States /\ "zscore" \in ReasonKinds BY DEF States, ReasonKinds, AuditKinds
    <3>3. QED BY <1>0, <3>1, <3>2 DEF RowStep
  <2>2. CASE ~CanTransition(Ensured(i).state, "AUDIT") BY <1>7, <2>2 DEF EvalAudit, RowStep
  <2>3. QED BY <2>1, <2>2
<1>8. ASSUME NEW i \in Ids, EvalFreeze(i) PROVE RowStep
  <2>1. i \in DOMAIN eval.snap /\ FreezeDue(eval.snap[i], eval.at) BY <1>8 DEF EvalFreeze, EvalIsSound
  <2>2. CASE CanTransition(row[i].state, "FROZEN")
    <3>1. Writes(i, "FROZEN", "freeze_repeat", eval.at)
      BY <1>8, <2>1, <2>2 DEF EvalFreeze, Writes, Cause, AuditKinds
    <3>2. "FROZEN" \in States /\ "freeze_repeat" \in ReasonKinds BY DEF States, ReasonKinds
    <3>3. QED BY <1>0, <3>1, <3>2 DEF RowStep
  <2>3. CASE ~CanTransition(row[i].state, "FROZEN") BY <1>8, <2>3 DEF EvalFreeze, RowStep
  <2>4. QED BY <2>2, <2>3
<1>9. ASSUME NEW i \in Ids, EvalClear(i) PROVE RowStep
  <2>1. i \in DOMAIN eval.snap BY <1>9 DEF EvalClear, EvalIsSound
  <2>2. Ensured(i) = row[i] BY <1>1, <2>1 DEF SnapshotIsPast
  <2>3. CASE CanTransition(row[i].state, "OK")
    <3>1. Writes(i, "OK", "audit_cleared", eval.at)
      BY <1>9, <2>2, <2>3 DEF EvalClear, Writes, Cause, AuditKinds, CanTransition
    <3>2. "OK" \in States /\ "audit_cleared" \in ReasonKinds BY DEF States, ReasonKinds
    <3>3. QED BY <1>0, <3>1, <3>2 DEF RowStep
  <2>4. CASE ~CanTransition(row[i].state, "OK") BY <1>9, <2>4 DEF EvalClear, RowStep
  <2>5. QED BY <2>3, <2>4
<1>10. CASE UNCHANGED vars BY <1>10 DEF vars, RowStep
<1>11. CASE BreachRead \/ RefreshRead \/ RefreshLoad \/ RefreshStore \/ FreezeNotify
  BY <1>11 DEF BreachRead, RefreshRead, RefreshLoad, RefreshStore, FreezeNotify, RowStep
<1>12. CASE EvalFlag \/ EvalReload \/ EvalNotify \/ EvalRecompute \/ EvalPublish
  BY <1>12 DEF EvalFlag, EvalReload, EvalNotify, EvalRecompute, EvalPublish, RowStep
<1>13. CASE EvalFails \/ Restart \/ DayPasses
  BY <1>13 DEF EvalFails, Restart, DayPasses, RowStep
<1>14. QED
  BY <1>2, <1>3, <1>4, <1>5, <1>6, <1>7, <1>8, <1>9, <1>10, <1>11, <1>12, <1>13
  DEF Next, CallStep, EvalStep
-----------------------------------------------------------------------------
(* The cache, the views of it and the snapshots.                           *)

\* Nothing is cached when the program starts.
LEMMA NoView == <<>> \in Views /\ <<>> \in Snaps /\ DOMAIN <<>> = {}
<1>1. <<>> \in [{} -> CachedEntry] /\ <<>> \in [{} -> StateRow] /\ DOMAIN <<>> = {} OBVIOUS
<1>2. {} \in SUBSET Ids OBVIOUS
<1>3. QED BY <1>1, <1>2 DEF Views, Snaps

\* An entry that is published is typed.
LEMMA EntryType ==
  ASSUME NEW st \in States, NEW sc \in 0 .. 100 PROVE Entry(st, sc) \in CachedEntry
BY DEF Entry, CachedEntry

\* What a view holds.
LEMMA ViewIs ==
  ASSUME NEW v \in Views
  PROVE  DOMAIN v \subseteq Ids /\ \A i \in DOMAIN v : v[i] \in CachedEntry
BY DEF Views

\* A function from identities to entries is a view.
LEMMA ViewMade ==
  ASSUME NEW D \in SUBSET Ids, NEW v \in [D -> CachedEntry]
  PROVE  v \in Views
BY DEF Views

\* What a snapshot holds.
LEMMA SnapIs ==
  ASSUME NEW v \in Snaps
  PROVE  DOMAIN v \subseteq Ids /\ \A i \in DOMAIN v : v[i] \in StateRow
BY DEF Snaps

\* The published score of an identity.
LEMMA PublishedScore ==
  ASSUME TypeOK, Shapes, NEW i \in Ids
  PROVE  /\ Score(i) \in 0 .. 100 /\ score[i] # NoRow => score[i] \in 0 .. 100
         /\ DefaultScore \in 0 .. 100
         /\ (IF score[i] # NoRow THEN score[i] ELSE Score(i)) \in 0 .. 100
<1>1. DefaultScore \in 0 .. 100 BY ReputationAssumption
<1>2. score[i] # NoRow => score[i] \in 0 .. 100 BY DEF TypeOK
<1>3. i \in DOMAIN cache => cache[i].score \in 0 .. 100 BY ViewIs DEF Shapes, CachedEntry
<1>4. QED BY <1>1, <1>2, <1>3 DEF Score

\* The days.
LEMMA Days ==
  ASSUME TypeOK, [Next]_vars
  PROVE  now \in Nat /\ now' \in Nat /\ now <= now' /\ now' \in 0 .. MaxTime
<1>1. now \in 0 .. MaxTime /\ MaxTime \in Nat BY ReputationAssumption DEF TypeOK
<1>2. now' = now \/ (now < MaxTime /\ now' = now + 1)
  BY DEF Next, CallStep, EvalStep, Record, BreachBegin, Freeze, Unfreeze, BreachRead, BreachWrite,
         RefreshRead, RefreshLoad, RefreshStore, FreezeNotify, EvalFlag, EvalReload, EvalNotify,
         EvalRecompute, EvalPublish, EvalAudit, EvalFreeze, EvalClear, EvalFails, Restart, DayPasses,
         NoEval, NoCall, vars
<1>3. QED BY <1>1, <1>2

\* What is published is typed and is about identities that have rows.
LEMMA CacheSteps ==
  ASSUME TypeOK, Shapes, CallIsSound, SnapshotIsPast, [Next]_vars
  PROVE  /\ cache' \in Views /\ DOMAIN cache' \subseteq Stored
         /\ score' \in [Ids -> 0 .. 100 \cup {NoRow}]
<1>0. /\ cache \in Views /\ DOMAIN cache \subseteq Stored /\ score \in [Ids -> 0 .. 100 \cup {NoRow}]
      /\ Stored \subseteq Ids
  BY DEF TypeOK, Shapes, Stored
<1>1. CASE UNCHANGED <<cache, score>> BY <1>0, <1>1
<1>2. CASE RefreshStore
  BY <1>0, <1>2 DEF RefreshStore, NoEval, Shapes, Calls, CallIsSound
<1>3. CASE Restart
  <2> DEFINE f == [i \in Stored |-> Entry(row[i].state, IF score[i] # NoRow THEN score[i] ELSE DefaultScore)]
  <2>1. ASSUME NEW i \in Stored
        PROVE  Entry(row[i].state, IF score[i] # NoRow THEN score[i] ELSE DefaultScore) \in CachedEntry
    <3>1. row[i].state \in States BY DEF TypeOK, Stored, StateRow
    <3>2. (IF score[i] # NoRow THEN score[i] ELSE DefaultScore) \in 0 .. 100 BY <1>0, PublishedScore
    <3>3. QED BY <3>1, <3>2, EntryType
  <2>2. f \in [Stored -> CachedEntry] BY <2>1
  <2>3. cache' = f /\ score' = score /\ DOMAIN f = Stored BY <1>3 DEF Restart
  <2> HIDE DEF f
  <2>4. QED BY <1>0, <2>2, <2>3, ViewMade
<1>4. CASE EvalPublish
  <2> DEFINE D == DOMAIN eval.snap
             fresh == [i \in D |-> ComputeScore(eval.snap[i], eval.at)]
             f == [i \in D |-> Entry(eval.snap[i].state, fresh[i])]
  <2>1. eval.snap \in Snaps /\ D \subseteq Ids /\ D \subseteq Stored BY SnapIs DEF Shapes, Cycles, SnapshotIsPast
  <2>2. ASSUME NEW i \in D PROVE fresh[i] \in 0 .. 100 /\ eval.snap[i].state \in States
    <3>1. eval.snap[i] \in StateRow /\ DatedBy(eval.snap[i], now) BY <2>1, SnapIs DEF SnapshotIsPast
    <3>2. /\ MaxTime \in Nat /\ now \in 0 .. MaxTime /\ eval.at \in 0 .. now
      BY ReputationAssumption DEF TypeOK, Shapes, Cycles
    <3>3. DatedBy(eval.snap[i], MaxTime) /\ eval.at \in Nat /\ eval.at <= MaxTime
      BY <3>1, <3>2, DatesStay
    <3>4. ComputeScore(eval.snap[i], eval.at) \in 0 .. 100 BY <3>1, <3>3, ScoreType DEF DatedBy
    <3>5. QED BY <3>1, <3>4 DEF StateRow
  <2>3. score' = [i \in Ids |-> IF i \in D THEN fresh[i] ELSE score[i]] /\ cache' = f
    BY <1>4 DEF EvalPublish
  <2>4. DOMAIN fresh = D OBVIOUS
  <2>5. score' \in [Ids -> 0 .. 100 \cup {NoRow}]
    <3> HIDE DEF fresh, D
    <3>1. QED BY <1>0, <2>2, <2>3
  <2>6. f \in [D -> CachedEntry] /\ DOMAIN f = D
    <3>1. \A i \in D : Entry(eval.snap[i].state, fresh[i]) \in CachedEntry BY <2>2, EntryType
    <3> HIDE DEF fresh, D
    <3>2. QED BY <3>1
  <2> HIDE DEF f, D
  <2>7. QED BY <2>1, <2>3, <2>5, <2>6, ViewMade
<1>5. QED
  BY <1>1, <1>2, <1>3, <1>4
  DEF Next, CallStep, EvalStep, Record, BreachBegin, Freeze, Unfreeze, BreachRead, BreachWrite,
      RefreshRead, RefreshLoad, FreezeNotify, EvalFlag, EvalReload, EvalNotify,
      EvalRecompute, EvalAudit, EvalFreeze, EvalClear, EvalFails, DayPasses,
      NoEval, NoCall, vars
-----------------------------------------------------------------------------
(* The call that holds breachMu.                                           *)

\* Rows stay, so what a call is about keeps its row.
Kept == Stored \subseteq Stored'

CallGoesOn(kind, id, pc, cur, view) ==
    op' = [kind |-> kind, id |-> id, pc |-> pc, cur |-> cur, view |-> view]

\* A call that goes on with another view.
LEMMA PcAndView ==
  ASSUME NEW o \in Calls, NEW pc, NEW v
  PROVE  [o EXCEPT !.pc = pc, !.view = v]
           = [kind |-> o.kind, id |-> o.id, pc |-> pc, cur |-> o.cur, view |-> v]
<1> DEFINE g == [o EXCEPT !.pc = pc]
<1>1. g = [kind |-> o.kind, id |-> o.id, pc |-> pc, cur |-> o.cur, view |-> o.view] BY DEF Calls
<1> HIDE DEF g
<1>2. [g EXCEPT !.view = v] = [kind |-> o.kind, id |-> o.id, pc |-> pc, cur |-> o.cur, view |-> v]
  BY <1>1
<1>3. QED BY <1>2, Zenon DEF g

\* The next step of a call, field by field.
LEMMA CallMade ==
  ASSUME NEW kind, NEW id, NEW pc, NEW cur, NEW view, CallGoesOn(kind, id, pc, cur, view),
         kind \in {"breach", "freeze", "unfreeze"}, id \in Stored',
         pc \in {"read", "write", "refresh", "load", "store", "notify"}, cur \in States,
         view \in Views, DOMAIN view \subseteq Stored',
         pc \in {"read", "write"} => kind = "breach", pc = "notify" => kind = "freeze"
  PROVE  op' \in Calls /\ CallIsSound'
<1>1. id \in Ids BY DEF Stored
<1>2. /\ op'.kind = kind /\ op'.id = id /\ op'.pc = pc /\ op'.cur = cur /\ op'.view = view
  BY DEF CallGoesOn
<1>3. op' \in Calls BY <1>1 DEF CallGoesOn, Calls
<1>4. CallIsSound' BY <1>2 DEF CallIsSound
<1>5. QED BY <1>3, <1>4

\* A call that returns leaves no call behind.
LEMMA CallEnds == ASSUME op' = NoOp PROVE op' \in Calls /\ CallIsSound'
BY NoView DEF NoOp, Calls, CallIsSound, States

\* A call that waits stays sound while the table grows.
LEMMA CallStays ==
  ASSUME op' = op, Shapes, CallIsSound, Kept PROVE op' \in Calls /\ CallIsSound'
BY DEF Shapes, CallIsSound, Kept

\* Every step leaves the call that holds breachMu sound.
LEMMA CallSteps ==
  ASSUME TypeOK, Shapes, CallIsSound, Kept, row' \in [Ids -> StateRow \cup {NoRow}], [Next]_vars
  PROVE  op' \in Calls /\ CallIsSound'
<1> USE ReputationAssumption
<1>0. /\ op \in Calls /\ op = [kind |-> op.kind, id |-> op.id, pc |-> op.pc, cur |-> op.cur, view |-> op.view]
      /\ op.kind \in {"none", "breach", "freeze", "unfreeze"} /\ op.cur \in States /\ op.view \in Views
  BY DEF Shapes, Calls
<1>1. /\ NoOp.view = <<>> /\ NoOp.cur = "OK" /\ "OK" \in States /\ <<>> \in Views /\ DOMAIN <<>> = {}
  BY NoView DEF NoOp, States
<1>2. ASSUME op.pc # "none"
      PROVE  /\ op.id \in Stored /\ op.id \in Stored' /\ op.id \in Ids /\ op.kind # "none"
             /\ row[op.id].state \in States /\ DOMAIN op.view \subseteq Stored'
  <2>1. op.id \in Stored /\ op.kind # "none" /\ DOMAIN op.view \subseteq Stored BY <1>2 DEF CallIsSound
  <2>2. row[op.id].state \in States BY <2>1 DEF Stored, TypeOK, StateRow
  <2>3. QED BY <2>1, <2>2 DEF Kept, Stored
<1>16. op \in Calls BY DEF Shapes
<1>17. op.pc # "none" => op.kind \in {"breach", "freeze", "unfreeze"} BY <1>0, <1>2
<1>3. CASE op' = op BY <1>3, CallStays
<1>4. CASE op' = NoOp BY <1>4, CallEnds
<1>5. ASSUME NEW i \in Targets, BreachBegin(i) PROVE op' \in Calls /\ CallIsSound'
  <2>1. CallGoesOn("breach", i, "read", "OK", <<>>) BY <1>5, ZenonT(60) DEF BreachBegin, NoOp, CallGoesOn
  <2>2. i \in Stored'
    <3>1. row'[i] = Ensured(i) /\ i \in Ids BY <1>5 DEF BreachBegin, TypeOK
    <3>2. QED BY <3>1, EnsuredType DEF Stored
  <2>3. QED BY <1>1, <2>1, <2>2, CallMade
<1>6. ASSUME NEW i \in Targets, Freeze(i) PROVE op' \in Calls /\ CallIsSound'
  <2>1. CASE CanTransition(Ensured(i).state, "FROZEN")
    <3>1. CallGoesOn("freeze", i, "refresh", "OK", <<>>) BY <1>6, <2>1, ZenonT(60) DEF Freeze, NoOp, CallGoesOn
    <3>2. i \in Stored'
      <4>1. row'[i] = Moved(i, "FROZEN", "freeze", now) /\ i \in Ids BY <1>6, <2>1 DEF Freeze, TypeOK
      <4>2. "FROZEN" \in States /\ "freeze" \in ReasonKinds /\ now \in 0 .. now
        BY DEF States, ReasonKinds, TypeOK
      <4>3. row'[i] \in StateRow BY <4>1, <4>2, MovedType
      <4>4. QED BY <4>1, <4>3 DEF Stored
    <3>3. QED BY <1>1, <3>1, <3>2, CallMade
  <2>2. CASE ~CanTransition(Ensured(i).state, "FROZEN") BY <1>3, <1>6, <2>2 DEF Freeze
  <2>3. QED BY <2>1, <2>2
<1>7. ASSUME NEW i \in Targets, Unfreeze(i) PROVE op' \in Calls /\ CallIsSound'
  <2>1. CASE row[i] # NoRow
    <3>1. CallGoesOn("unfreeze", i, "refresh", "OK", <<>>) BY <1>7, <2>1, ZenonT(60) DEF Unfreeze, NoOp, CallGoesOn
    <3>2. i \in Stored' BY <2>1 DEF Kept, Stored
    <3>3. QED BY <1>1, <3>1, <3>2, CallMade
  <2>2. CASE row[i] = NoRow BY <1>3, <1>7, <2>2 DEF Unfreeze
  <2>3. QED BY <2>1, <2>2
<1>8. ASSUME BreachRead PROVE op' \in Calls /\ CallIsSound'
  <2>1. CASE row[op.id].state = "FROZEN" BY <1>4, <1>8, <2>1 DEF BreachRead, Return
  <2>2. CASE row[op.id].state # "FROZEN"
    <3>1. CallGoesOn(op.kind, op.id, "write", row[op.id].state, op.view)
      BY <1>0, <1>8, <2>2, ZenonT(60) DEF BreachRead, CallGoesOn, Calls
    <3>2. op.kind = "breach" /\ op.pc # "none" BY <1>8 DEF BreachRead, CallIsSound
    <3>3. QED BY <1>0, <1>2, <3>1, <3>2, CallMade, SMTT(60)
  <2>3. QED BY <2>1, <2>2
<1>9. ASSUME BreachWrite PROVE op' \in Calls /\ CallIsSound'
  <2>1. CASE op' = [op EXCEPT !.pc = "refresh"]
    <3>1. CallGoesOn(op.kind, op.id, "refresh", op.cur, op.view) BY <1>0, <2>1, SMTT(60) DEF CallGoesOn, Calls
    <3>2. op.pc # "none" BY <1>9 DEF BreachWrite
    <3>3. op.cur \in States /\ op.view \in Views BY <1>0
    <3>4. QED BY <1>2, <1>17, <3>1, <3>2, <3>3, CallMade, SMTT(60)
  <2>2. QED BY <1>4, <1>9, <2>1 DEF BreachWrite, Goto, Return
<1>10. ASSUME RefreshRead PROVE op' \in Calls /\ CallIsSound'
  <2>1. CallGoesOn(op.kind, op.id, "load", row[op.id].state, op.view)
    BY <1>0, <1>10, ZenonT(60) DEF RefreshRead, CallGoesOn, Calls
  <2>2. op.pc # "none" BY <1>10 DEF RefreshRead
  <2>3. QED BY <1>0, <1>2, <2>1, <2>2, CallMade, SMTT(60)
<1>11. ASSUME RefreshLoad PROVE op' \in Calls /\ CallIsSound'
  <2> DEFINE sc == IF score[op.id] # NoRow THEN score[op.id] ELSE Score(op.id)
             D == DOMAIN cache \cup {op.id}
             v == [i \in D |-> IF i = op.id THEN Entry(op.cur, sc) ELSE cache[i]]
  <2>1. op.pc # "none" BY <1>11 DEF RefreshLoad
  <2>2. op.id \in Ids BY <1>2, <2>1
  <2>3. sc \in 0 .. 100 BY <2>2, PublishedScore, Zenon
  <2>4. Entry(op.cur, sc) \in CachedEntry BY <1>0, <2>3, EntryType
  <2>5. DOMAIN cache \subseteq Ids /\ \A i \in DOMAIN cache : cache[i] \in CachedEntry
    BY ViewIs DEF Shapes
  <2>6. op' = [op EXCEPT !.pc = "store", !.view = v] BY <1>11 DEF RefreshLoad
  <2> HIDE DEF sc
  <2>7. v \in [D -> CachedEntry] /\ DOMAIN v = D /\ D \in SUBSET Ids BY <2>2, <2>4, <2>5
  <2>8. D \subseteq Stored' BY <1>2, <2>1 DEF TypeOK, Kept
  <2> HIDE DEF v, D
  <2>9. v \in Views BY <2>7, ViewMade
  <2>10. CallGoesOn(op.kind, op.id, "store", op.cur, v)
    BY <1>16, <2>6, PcAndView, ZenonT(60) DEF CallGoesOn
  <2>11. op.cur \in States /\ DOMAIN v \subseteq Stored' BY <1>0, <2>7, <2>8
  <2>12. QED BY <1>2, <1>17, <2>1, <2>9, <2>10, <2>11, CallMade, SMTT(60)
<1>12. ASSUME RefreshStore PROVE op' \in Calls /\ CallIsSound'
  <2>1. CASE op.kind = "freeze"
    <3>1. op' = [op EXCEPT !.pc = "notify", !.view = <<>>] /\ op.pc # "none"
      BY <1>12, <2>1 DEF RefreshStore
    <3>2. CallGoesOn(op.kind, op.id, "notify", op.cur, <<>>)
      BY <1>16, <3>1, PcAndView, ZenonT(60) DEF CallGoesOn
    <3>3. QED BY <1>0, <1>1, <1>2, <2>1, <3>1, <3>2, CallMade
  <2>2. CASE op.kind # "freeze" BY <1>4, <1>12, <2>2 DEF RefreshStore, Return
  <2>3. QED BY <2>1, <2>2
<1>13. CASE FreezeNotify \/ Restart BY <1>4, <1>13 DEF FreezeNotify, Restart, Return
<1>14. CASE (\E i \in Targets, s \in Signals : Record(i, s)) \/ EvalStep \/ EvalFails \/ DayPasses \/ UNCHANGED vars
  BY <1>3, <1>14
  DEF Record, EvalStep, EvalFlag, EvalReload, EvalNotify, EvalRecompute, EvalPublish, EvalAudit,
      EvalFreeze, EvalClear, EvalFails, DayPasses, NoCall, vars
<1>15. QED
  BY <1>5, <1>6, <1>7, <1>8, <1>9, <1>10, <1>11, <1>12, <1>13, <1>14 DEF Next, CallStep
-----------------------------------------------------------------------------
(* The evaluator.                                                          *)

\* The rows after a step hold what sn says of the rows before it.
StillPast(sn) ==
    \A i \in DOMAIN sn : /\ i \in Stored' /\ IsPrefix(sn[i].reasons, row'[i].reasons)
                         /\ DatedBy(sn[i], now')

\* A step on the table leaves an older snapshot, and one taken now, in its past.
LEMMA SnapshotsAge ==
  ASSUME TypeOK, Shapes, SnapshotIsPast, now' \in Nat, now <= now',
         row' \in [Ids -> StateRow \cup {NoRow}],
         \A i \in Stored : row'[i] # NoRow /\ IsPrefix(row[i].reasons, row'[i].reasons)
  PROVE  StillPast(eval.snap) /\ StillPast(<<>>) /\ StillPast(Snapshot) /\ Snapshot \in Snaps
<1>0. /\ row \in [Ids -> StateRow \cup {NoRow}] /\ now \in Nat /\ eval.snap \in Snaps
  BY ReputationAssumption DEF TypeOK, Shapes, Cycles
<1>1. \A i \in Stored : /\ i \in Ids /\ i \in Stored' /\ row[i] \in StateRow /\ row[i].reasons \in Reasons
                        /\ row'[i].reasons \in Reasons
  BY <1>0 DEF Stored, StateRow, Reasons
<1>2. ASSUME NEW i \in DOMAIN eval.snap
      PROVE  /\ i \in Stored' /\ IsPrefix(eval.snap[i].reasons, row'[i].reasons)
             /\ DatedBy(eval.snap[i], now')
  <2>1. eval.snap[i] \in StateRow /\ i \in Stored BY <1>0, SnapIs DEF SnapshotIsPast
  <2>2. eval.snap[i].reasons \in Reasons BY <2>1 DEF StateRow, Reasons
  <2>3. IsPrefix(eval.snap[i].reasons, row[i].reasons) /\ DatedBy(eval.snap[i], now)
    BY DEF SnapshotIsPast
  <2>4. IsPrefix(eval.snap[i].reasons, row'[i].reasons) BY <1>1, <2>1, <2>2, <2>3, PrefixTrans
  <2>5. DatedBy(eval.snap[i], now') BY <1>0, <2>1, <2>3, DatesStay
  <2>6. QED BY <1>1, <2>1, <2>4, <2>5
<1>3. StillPast(eval.snap) BY <1>2 DEF StillPast
<1>4. StillPast(<<>>) BY NoView DEF StillPast
<1>5. DOMAIN Snapshot = Stored /\ \A i \in Stored : Snapshot[i] = row[i] BY DEF Snapshot
<1>6. Snapshot \in Snaps
  <2>1. Snapshot \in [Stored -> StateRow] BY <1>1 DEF Snapshot
  <2>2. Stored \in SUBSET Ids BY DEF Stored
  <2>3. QED BY <2>1, <2>2 DEF Snaps
<1>7. StillPast(Snapshot)
  <2>1. ASSUME NEW i \in Stored PROVE DatedBy(row[i], now')
    <3>1. DatedBy(row[i], now) BY DEF TypeOK, Dated, DatedBy
    <3>2. QED BY <1>0, <1>1, <3>1, DatesStay
  <2>2. QED BY <1>1, <1>5, <2>1 DEF StillPast
<1>8. QED BY <1>3, <1>4, <1>6, <1>7

CycleGoesOn(pc, at, flagged, snap, todo, who) ==
    eval' = [pc |-> pc, at |-> at, flagged |-> flagged, snap |-> snap, todo |-> todo, who |-> who]

\* The next step of a cycle, field by field.
LEMMA CycleMade ==
  ASSUME NEW pc \in {"idle", "flag", "judge", "notify", "publish"}, NEW at \in 0 .. now',
         NEW flagged \in SUBSET Ids, NEW snap \in Snaps, NEW todo \in SUBSET Ids,
         NEW who \in Ids \cup {NoRow}, CycleGoesOn(pc, at, flagged, snap, todo, who),
         StillPast(snap), pc = "notify" <=> who # NoRow,
         pc \in {"judge", "notify"} => todo \subseteq DOMAIN snap
  PROVE  eval' \in Cycles(now') /\ SnapshotIsPast' /\ EvalIsSound'
<1>1. /\ eval'.pc = pc /\ eval'.at = at /\ eval'.flagged = flagged /\ eval'.snap = snap
      /\ eval'.todo = todo /\ eval'.who = who
  BY DEF CycleGoesOn
<1>2. eval' \in Cycles(now') BY DEF CycleGoesOn, Cycles
<1>3. SnapshotIsPast' BY <1>1 DEF SnapshotIsPast, StillPast
<1>4. EvalIsSound' BY <1>1 DEF EvalIsSound
<1>5. QED BY <1>2, <1>3, <1>4

\* Two or three fields of a cycle's record that change together.
LEMMA CycleReload ==
  ASSUME NEW t, NEW e \in Cycles(t), NEW pc, NEW snap, NEW todo
  PROVE  [e EXCEPT !.pc = pc, !.snap = snap, !.todo = todo]
           = [pc |-> pc, at |-> e.at, flagged |-> e.flagged, snap |-> snap, todo |-> todo, who |-> e.who]
<1> DEFINE f == [e EXCEPT !.pc = pc]
<1>1. f = [pc |-> pc, at |-> e.at, flagged |-> e.flagged, snap |-> e.snap, todo |-> e.todo, who |-> e.who]
  BY DEF Cycles
<1> HIDE DEF f
<1> DEFINE g == [f EXCEPT !.snap = snap]
<1>2. g = [pc |-> pc, at |-> e.at, flagged |-> e.flagged, snap |-> snap, todo |-> e.todo, who |-> e.who]
  BY <1>1
<1> HIDE DEF g
<1>3. [g EXCEPT !.todo = todo] = [pc |-> pc, at |-> e.at, flagged |-> e.flagged, snap |-> snap, todo |-> todo, who |-> e.who]
  BY <1>2
<1>4. QED BY <1>3, Zenon DEF f, g

\* As EvalFreeze changes them.
LEMMA CycleFreeze ==
  ASSUME NEW t, NEW e \in Cycles(t), NEW pc, NEW who, NEW todo
  PROVE  [e EXCEPT !.pc = pc, !.who = who, !.todo = todo]
           = [pc |-> pc, at |-> e.at, flagged |-> e.flagged, snap |-> e.snap, todo |-> todo, who |-> who]
<1> DEFINE f == [e EXCEPT !.pc = pc]
<1>1. f = [pc |-> pc, at |-> e.at, flagged |-> e.flagged, snap |-> e.snap, todo |-> e.todo, who |-> e.who]
  BY DEF Cycles
<1> HIDE DEF f
<1> DEFINE g == [f EXCEPT !.who = who]
<1>2. g = [pc |-> pc, at |-> e.at, flagged |-> e.flagged, snap |-> e.snap, todo |-> e.todo, who |-> who]
  BY <1>1
<1> HIDE DEF g
<1>3. [g EXCEPT !.todo = todo] = [pc |-> pc, at |-> e.at, flagged |-> e.flagged, snap |-> e.snap, todo |-> todo, who |-> who]
  BY <1>2
<1>4. QED BY <1>3, Zenon DEF f, g

\* As EvalNotify changes them.
LEMMA CycleNotify ==
  ASSUME NEW t, NEW e \in Cycles(t), NEW pc, NEW who
  PROVE  [e EXCEPT !.pc = pc, !.who = who]
           = [pc |-> pc, at |-> e.at, flagged |-> e.flagged, snap |-> e.snap, todo |-> e.todo, who |-> who]
<1> DEFINE f == [e EXCEPT !.pc = pc]
<1>1. f = [pc |-> pc, at |-> e.at, flagged |-> e.flagged, snap |-> e.snap, todo |-> e.todo, who |-> e.who]
  BY DEF Cycles
<1> HIDE DEF f
<1>2. [f EXCEPT !.who = who] = [pc |-> pc, at |-> e.at, flagged |-> e.flagged, snap |-> e.snap, todo |-> e.todo, who |-> who]
  BY <1>1
<1>3. QED BY <1>2, Zenon DEF f

\* As EvalRecompute changes them.
LEMMA CycleRecompute ==
  ASSUME NEW t, NEW e \in Cycles(t), NEW pc, NEW snap, NEW flagged
  PROVE  [e EXCEPT !.pc = pc, !.snap = snap, !.flagged = flagged]
           = [pc |-> pc, at |-> e.at, flagged |-> flagged, snap |-> snap, todo |-> e.todo, who |-> e.who]
<1> DEFINE f == [e EXCEPT !.pc = pc]
<1>1. f = [pc |-> pc, at |-> e.at, flagged |-> e.flagged, snap |-> e.snap, todo |-> e.todo, who |-> e.who]
  BY DEF Cycles
<1> HIDE DEF f
<1> DEFINE g == [f EXCEPT !.snap = snap]
<1>2. g = [pc |-> pc, at |-> e.at, flagged |-> e.flagged, snap |-> snap, todo |-> e.todo, who |-> e.who]
  BY <1>1
<1> HIDE DEF g
<1>3. [g EXCEPT !.flagged = flagged] = [pc |-> pc, at |-> e.at, flagged |-> flagged, snap |-> snap, todo |-> e.todo, who |-> e.who]
  BY <1>2
<1>4. QED BY <1>3, Zenon DEF f, g

\* One identity less to do.
LEMMA CycleTodo ==
  ASSUME NEW t, NEW e \in Cycles(t), NEW todo
  PROVE  [e EXCEPT !.todo = todo]
           = [pc |-> e.pc, at |-> e.at, flagged |-> e.flagged, snap |-> e.snap, todo |-> todo, who |-> e.who]
BY DEF Cycles

\* Outliers are identities.
LEMMA OutlierIds == \A s, t : Outliers(s, t) \subseteq Ids
BY Zenon DEF Outliers

\* Every step leaves the evaluator sound and its snapshot in the past of the table.
LEMMA EvalSteps ==
  ASSUME TypeOK, Shapes, SnapshotIsPast, EvalIsSound, now \in Nat, now' \in Nat, now <= now', [Next]_vars,
         StillPast(eval.snap), StillPast(<<>>), StillPast(Snapshot), Snapshot \in Snaps
  PROVE  eval' \in Cycles(now') /\ SnapshotIsPast' /\ EvalIsSound'
<1> DEFINE Goal == eval' \in Cycles(now') /\ SnapshotIsPast' /\ EvalIsSound'
<1>0. /\ eval \in Cycles(now) /\ eval.at \in 0 .. now' /\ eval.flagged \in SUBSET Ids /\ eval.snap \in Snaps
      /\ eval.todo \in SUBSET Ids /\ eval.who \in Ids \cup {NoRow}
  BY DEF Shapes, Cycles
<1>1. eval = [pc |-> eval.pc, at |-> eval.at, flagged |-> eval.flagged, snap |-> eval.snap,
              todo |-> eval.todo, who |-> eval.who]
  BY DEF Shapes, Cycles
<1>2. eval.pc = "notify" <=> eval.who # NoRow BY DEF EvalIsSound
<1>3. CASE eval' = eval
  <2>1. CycleGoesOn(eval.pc, eval.at, eval.flagged, eval.snap, eval.todo, eval.who)
    BY <1>1, <1>3 DEF CycleGoesOn
  <2>2. eval.pc \in {"idle", "flag", "judge", "notify", "publish"} BY DEF TypeOK
  <2>3. eval.pc \in {"judge", "notify"} => eval.todo \subseteq DOMAIN eval.snap BY DEF EvalIsSound
  <2>4. QED BY <1>0, <1>2, <2>1, <2>2, <2>3, CycleMade
<1>4. CASE eval' = Idle
  <2>1. CycleGoesOn("idle", 0, {}, <<>>, {}, NoRow) BY <1>4 DEF Idle, CycleGoesOn
  <2>2. 0 \in 0 .. now' OBVIOUS
  <2>3. QED BY <2>1, <2>2, NoView, CycleMade
<1>5. ASSUME EvalFlag PROVE Goal
  <2> DEFINE F == UNION {Outliers(s, now) : s \in PrimarySignals}
             T == {i \in F : row[i] = NoRow \/ row[i].state = "OK"}
  <2>1. F \in SUBSET Ids /\ T \in SUBSET Ids BY OutlierIds
  <2>2. eval' = [Idle EXCEPT !.pc = "flag", !.at = now, !.flagged = F, !.todo = T] BY <1>5 DEF EvalFlag
  <2> HIDE DEF F, T
  <2>3. CycleGoesOn("flag", now, F, <<>>, T, NoRow) BY <2>2 DEF Idle, CycleGoesOn
  <2>4. now \in 0 .. now' OBVIOUS
  <2>5. QED BY <2>1, <2>3, <2>4, NoView, CycleMade
<1>6. ASSUME NEW i \in Ids, EvalAudit(i) PROVE Goal
  <2>1. eval' = [eval EXCEPT !.todo = eval.todo \ {i}] /\ eval.pc = "flag" BY <1>6 DEF EvalAudit
  <2>2. CycleGoesOn("flag", eval.at, eval.flagged, eval.snap, eval.todo \ {i}, eval.who)
    BY <1>0, <2>1, CycleTodo DEF CycleGoesOn
  <2>3. eval.todo \ {i} \in SUBSET Ids BY <1>0
  <2>4. QED BY <1>0, <1>2, <2>1, <2>2, <2>3, CycleMade
<1>7. ASSUME EvalReload PROVE Goal
  <2> DEFINE T == {i \in Stored : FreezeDue(row[i], eval.at)
                                    \/ (ClearDue(row[i], eval.at) /\ i \notin eval.flagged)}
  <2>1. eval' = [eval EXCEPT !.pc = "judge", !.snap = Snapshot, !.todo = T] /\ eval.pc = "flag"
    BY <1>7 DEF EvalReload
  <2>2. T \in SUBSET Ids /\ T \subseteq DOMAIN Snapshot BY DEF Stored, Snapshot
  <2> HIDE DEF T
  <2>3. CycleGoesOn("judge", eval.at, eval.flagged, Snapshot, T, eval.who)
    BY <1>0, <2>1, CycleReload DEF CycleGoesOn
  <2>4. QED BY <1>0, <1>2, <2>1, <2>2, <2>3, CycleMade
<1>8. ASSUME NEW i \in Ids, EvalFreeze(i) PROVE Goal
  <2>1. eval.pc = "judge" /\ eval.todo \subseteq DOMAIN eval.snap BY <1>8 DEF EvalFreeze, EvalIsSound
  <2>2. eval.todo \ {i} \in SUBSET Ids /\ eval.todo \ {i} \subseteq DOMAIN eval.snap BY <1>0, <2>1
  <2>3. CASE eval' = [eval EXCEPT !.pc = "notify", !.who = i, !.todo = eval.todo \ {i}]
    <3>1. CycleGoesOn("notify", eval.at, eval.flagged, eval.snap, eval.todo \ {i}, i)
      BY <1>0, <2>3, CycleFreeze DEF CycleGoesOn
    <3>2. i # NoRow BY ReputationAssumption
    <3>3. QED BY <1>0, <2>2, <3>1, <3>2, CycleMade
  <2>4. CASE eval' = [eval EXCEPT !.todo = eval.todo \ {i}]
    <3>1. CycleGoesOn("judge", eval.at, eval.flagged, eval.snap, eval.todo \ {i}, eval.who)
      BY <1>0, <2>1, <2>4, CycleTodo DEF CycleGoesOn
    <3>2. QED BY <1>0, <1>2, <2>1, <2>2, <3>1, CycleMade
  <2>5. QED BY <1>8, <2>3, <2>4 DEF EvalFreeze
<1>9. ASSUME EvalNotify PROVE Goal
  <2>1. eval.pc = "notify" /\ eval.todo \subseteq DOMAIN eval.snap BY <1>9 DEF EvalNotify, EvalIsSound
  <2>2. CycleGoesOn("judge", eval.at, eval.flagged, eval.snap, eval.todo, NoRow)
    BY <1>0, <1>9, CycleNotify DEF EvalNotify, CycleGoesOn
  <2>3. QED BY <1>0, <2>1, <2>2, CycleMade
<1>10. ASSUME NEW i \in Ids, EvalClear(i) PROVE Goal
  <2>1. eval.pc = "judge" /\ eval.todo \subseteq DOMAIN eval.snap BY <1>10 DEF EvalClear, EvalIsSound
  <2>2. eval.todo \ {i} \in SUBSET Ids /\ eval.todo \ {i} \subseteq DOMAIN eval.snap BY <1>0, <2>1
  <2>3. CycleGoesOn("judge", eval.at, eval.flagged, eval.snap, eval.todo \ {i}, eval.who)
    BY <1>0, <1>10, <2>1, CycleTodo DEF CycleGoesOn, EvalClear
  <2>4. QED BY <1>0, <1>2, <2>1, <2>2, <2>3, CycleMade
<1>11. ASSUME EvalRecompute PROVE Goal
  <2>1. eval.pc = "judge" BY <1>11 DEF EvalRecompute
  <2>2. CycleGoesOn("publish", eval.at, {}, Snapshot, eval.todo, eval.who)
    BY <1>0, <1>11, CycleRecompute DEF EvalRecompute, CycleGoesOn
  <2>3. QED BY <1>0, <1>2, <2>1, <2>2, CycleMade
<1>12. CASE EvalPublish \/ EvalFails \/ Restart BY <1>4, <1>12 DEF EvalPublish, EvalFails, Restart
<1>13. CASE \/ \E i \in Targets, s \in Signals : Record(i, s)
            \/ \E i \in Targets : BreachBegin(i) \/ Freeze(i) \/ Unfreeze(i)
            \/ CallStep \/ DayPasses \/ UNCHANGED vars
  BY <1>3, <1>13
  DEF Record, BreachBegin, Freeze, Unfreeze, CallStep, BreachRead, BreachWrite, RefreshRead, RefreshLoad,
      RefreshStore, FreezeNotify, DayPasses, NoEval, vars
<1>14. QED
  BY <1>5, <1>6, <1>7, <1>8, <1>9, <1>10, <1>11, <1>12, <1>13 DEF Next, EvalStep
-----------------------------------------------------------------------------
(* Announcements.                                                          *)

\* What is under way, as a sum.
LEMMA PendingIs ==
  \A i \in Ids : Pending(i) = Unit(op.kind = "freeze" /\ op.id = i) + Unit(eval.who = i)
<1> TAKE i \in Ids
<1>1. Pending(i) = Announcing(op.kind, op.id, eval.who, i) BY DEF Pending, Announcing
<1>2. QED BY <1>1, CountPair

\* The same after a step.
LEMMA PendingNext ==
  \A i \in Ids : Pending(i)' = Unit(op'.kind = "freeze" /\ op'.id = i) + Unit(eval'.who = i)
<1> TAKE i \in Ids
<1>1. Pending(i)' = Announcing(op'.kind, op'.id, eval'.who, i) BY DEF Pending, Announcing
<1>2. QED BY <1>1, CountPair

Balance(i) == freezes[i] = notices[i] + unheard[i] + Unit(op.kind = "freeze" /\ op.id = i) + Unit(eval.who = i)

\* The same freezes, notices and announcements as before.
QuietTell ==
    /\ UNCHANGED <<freezes, notices, unheard>>
    /\ \A i \in Ids : (op'.kind = "freeze" /\ op'.id = i) <=> (op.kind = "freeze" /\ op.id = i)
    /\ \A i \in Ids : eval'.who = i <=> eval.who = i

Counters ==
    freezes' \in [Ids -> Int] /\ notices' \in [Ids -> Int] /\ unheard' \in [Ids -> Int]

\* One more freeze and one more announcement, or one announcement less and one more notice.
LEMMA TallyUp ==
  ASSUME NEW f \in Int, NEW n \in Int, NEW u \in Int, NEW a \in Int, NEW b \in Int, NEW c \in Int,
         NEW d \in Int, NEW e \in Int, f = n + u + a + b, c + d = a + b + e
  PROVE  f + e = n + u + c + d
OBVIOUS

\* An announcement that has become a notice.
LEMMA TallyDown ==
  ASSUME NEW f \in Int, NEW n \in Int, NEW u \in Int, NEW a \in Int, NEW b \in Int, NEW c \in Int,
         NEW d \in Int, NEW e \in Int, f = n + u + a + b, a + b = c + d + e
  PROVE  f = (n + e) + u + c + d
OBVIOUS

\* Every step keeps freezes, notices, lost notices and announcements under way in balance.
LEMMA TellSteps ==
  ASSUME TypeOK, Shapes, CallIsSound, EvalIsSound, [Next]_vars, \A i \in Ids : Balance(i)
  PROVE  Counters /\ \A i \in Ids : Balance(i)'
<1>0. /\ freezes \in [Ids -> Int] /\ notices \in [Ids -> Int] /\ unheard \in [Ids -> Int]
      /\ NoRow \notin Ids /\ Targets \subseteq Ids
  BY ReputationAssumption DEF Shapes
<1>1. \A b : Unit(b) \in Int BY DEF Unit
<1>2. CASE QuietTell
  <2>1. Counters BY <1>0, <1>2 DEF QuietTell, Counters
  <2>2. ASSUME NEW i \in Ids PROVE Balance(i)'
    <3>1. Unit(op'.kind = "freeze" /\ op'.id = i) = Unit(op.kind = "freeze" /\ op.id = i)
      BY <1>2 DEF QuietTell, Unit
    <3>2. Unit(eval'.who = i) = Unit(eval.who = i) BY <1>2 DEF QuietTell, Unit
    <3>3. freezes' = freezes /\ notices' = notices /\ unheard' = unheard BY <1>2 DEF QuietTell
    <3>4. QED BY <3>1, <3>2, <3>3 DEF Balance
  <2>3. QED BY <2>1, <2>2
<1>3. op = NoOp => op.kind # "freeze" BY DEF NoOp
<1>4. eval.pc # "notify" => eval.who = NoRow BY DEF EvalIsSound
<1>5. NoOp.kind # "freeze" /\ Idle.who = NoRow BY DEF NoOp, Idle
<1>6. op \in Calls /\ eval \in Cycles(now) BY DEF Shapes
<1>7. ASSUME NEW i \in Ids, \A j \in Ids : freezes'[j] = IF j = i THEN freezes[j] + 1 ELSE freezes[j],
             freezes' \in [Ids -> Int], UNCHANGED <<notices, unheard>>,
             \/ /\ eval' = eval /\ op.kind # "freeze" /\ op'.kind = "freeze" /\ op'.id = i
             \/ /\ op' = op /\ eval.who = NoRow /\ eval'.who = i
      PROVE  Counters /\ \A j \in Ids : Balance(j)'
  <2>1. Counters BY <1>0, <1>7 DEF Counters
  <2>2. ASSUME NEW j \in Ids PROVE Balance(j)'
    <3> DEFINE A == Unit(op.kind = "freeze" /\ op.id = j)
               B == Unit(eval.who = j)
               C == Unit(op'.kind = "freeze" /\ op'.id = j)
               D == Unit(eval'.who = j)
               d == Unit(j = i)
    <3>1. /\ freezes[j] = notices[j] + unheard[j] + A + B
          /\ freezes[j] \in Int /\ notices[j] \in Int /\ unheard[j] \in Int
      BY <1>0 DEF Balance
    <3>2. A \in Int /\ B \in Int /\ C \in Int /\ D \in Int /\ d \in Int BY DEF Unit
    <3>3. C + D = A + B + d
      <4>1. CASE eval' = eval /\ op.kind # "freeze" /\ op'.kind = "freeze" /\ op'.id = i
        <5>1. A = 0 BY <4>1 DEF Unit
        <5>2. C = d BY <4>1 DEF Unit
        <5>3. D = B BY <4>1
        <5> HIDE DEF A, B, C, D, d
        <5>4. QED BY <3>2, <5>1, <5>2, <5>3
      <4>2. CASE op' = op /\ eval.who = NoRow /\ eval'.who = i
        <5>1. B = 0 BY <1>0, <4>2 DEF Unit
        <5>2. D = d BY <4>2 DEF Unit
        <5>3. C = A BY <4>2
        <5> HIDE DEF A, B, C, D, d
        <5>4. QED BY <3>2, <5>1, <5>2, <5>3
      <4>3. QED BY <1>7, <4>1, <4>2
    <3>4. freezes'[j] = freezes[j] + d
      <4>1. freezes'[j] = IF j = i THEN freezes[j] + 1 ELSE freezes[j] BY <1>7
      <4>2. QED BY <3>1, <4>1 DEF Unit
    <3>5. UNCHANGED <<notices, unheard>> BY <1>7
    <3> HIDE DEF A, B, C, D, d
    <3>6. freezes'[j] = notices[j] + unheard[j] + C + D BY <3>1, <3>2, <3>3, <3>4, TallyUp
    <3>7. QED BY <3>5, <3>6 DEF Balance, C, D
  <2>3. QED BY <2>1, <2>2
<1>8. ASSUME NEW i \in Ids, \A j \in Ids : notices'[j] = IF j = i THEN notices[j] + 1 ELSE notices[j],
             notices' \in [Ids -> Int], UNCHANGED <<freezes, unheard>>,
             \/ /\ eval' = eval /\ op'.kind # "freeze" /\ op.kind = "freeze" /\ op.id = i
             \/ /\ op' = op /\ eval'.who = NoRow /\ eval.who = i
      PROVE  Counters /\ \A j \in Ids : Balance(j)'
  <2>1. Counters BY <1>0, <1>8 DEF Counters
  <2>2. ASSUME NEW j \in Ids PROVE Balance(j)'
    <3> DEFINE A == Unit(op.kind = "freeze" /\ op.id = j)
               B == Unit(eval.who = j)
               C == Unit(op'.kind = "freeze" /\ op'.id = j)
               D == Unit(eval'.who = j)
               d == Unit(j = i)
    <3>1. /\ freezes[j] = notices[j] + unheard[j] + A + B
          /\ freezes[j] \in Int /\ notices[j] \in Int /\ unheard[j] \in Int
      BY <1>0 DEF Balance
    <3>2. A \in Int /\ B \in Int /\ C \in Int /\ D \in Int /\ d \in Int BY DEF Unit
    <3>3. A + B = C + D + d
      <4>1. CASE eval' = eval /\ op'.kind # "freeze" /\ op.kind = "freeze" /\ op.id = i
        <5>1. C = 0 BY <4>1 DEF Unit
        <5>2. A = d BY <4>1 DEF Unit
        <5>3. D = B BY <4>1
        <5> HIDE DEF A, B, C, D, d
        <5>4. QED BY <3>2, <5>1, <5>2, <5>3
      <4>2. CASE op' = op /\ eval'.who = NoRow /\ eval.who = i
        <5>1. D = 0 BY <1>0, <4>2 DEF Unit
        <5>2. B = d BY <4>2 DEF Unit
        <5>3. C = A BY <4>2
        <5> HIDE DEF A, B, C, D, d
        <5>4. QED BY <3>2, <5>1, <5>2, <5>3
      <4>3. QED BY <1>8, <4>1, <4>2
    <3>4. notices'[j] = notices[j] + d
      <4>1. notices'[j] = IF j = i THEN notices[j] + 1 ELSE notices[j] BY <1>8
      <4>2. QED BY <3>1, <4>1 DEF Unit
    <3>5. UNCHANGED <<freezes, unheard>> BY <1>8
    <3> HIDE DEF A, B, C, D, d
    <3>6. freezes[j] = notices'[j] + unheard[j] + C + D BY <3>1, <3>2, <3>3, <3>4, TallyDown
    <3>7. QED BY <3>5, <3>6 DEF Balance, C, D
  <2>3. QED BY <2>1, <2>2
<1>9. ASSUME NEW i \in Targets, Freeze(i) PROVE Counters /\ \A j \in Ids : Balance(j)'
  <2>1. CASE CanTransition(Ensured(i).state, "FROZEN")
    <3>1. freezes' = [freezes EXCEPT ![i] = freezes[i] + 1] /\ UNCHANGED <<notices, unheard>>
      BY <1>9, <2>1 DEF Freeze, CountFreeze
    <3>2. freezes' \in [Ids -> Int] /\ \A j \in Ids : freezes'[j] = IF j = i THEN freezes[j] + 1 ELSE freezes[j]
      BY <1>0, <3>1
    <3>3. eval' = eval /\ op.kind # "freeze" /\ op'.kind = "freeze" /\ op'.id = i
      BY <1>3, <1>9, <2>1 DEF Freeze, NoEval, NoOp
    <3>4. i \in Ids BY <1>0
    <3>5. QED BY <1>7, <3>1, <3>2, <3>3, <3>4
  <2>2. CASE ~CanTransition(Ensured(i).state, "FROZEN")
    <3>1. QuietTell BY <1>9, <2>2 DEF Freeze, NoEval, QuietTell
    <3>2. QED BY <1>2, <3>1
  <2>3. QED BY <2>1, <2>2
<1>10. ASSUME FreezeNotify PROVE Counters /\ \A j \in Ids : Balance(j)'
  <2>1. op.id \in Ids /\ op.kind = "freeze" BY <1>10 DEF FreezeNotify, CallIsSound, Stored
  <2>2. notices' = [notices EXCEPT ![op.id] = notices[op.id] + 1] /\ UNCHANGED <<freezes, unheard>>
    BY <1>10 DEF FreezeNotify
  <2>3. notices' \in [Ids -> Int] /\ \A j \in Ids : notices'[j] = IF j = op.id THEN notices[j] + 1 ELSE notices[j]
    BY <1>0, <2>1, <2>2
  <2>4. eval' = eval /\ op'.kind # "freeze" BY <1>5, <1>10 DEF FreezeNotify, NoEval, Return
  <2>5. QED BY <1>8, <2>1, <2>2, <2>3, <2>4
<1>11. ASSUME NEW i \in Ids, EvalFreeze(i) PROVE Counters /\ \A j \in Ids : Balance(j)'
  <2>1. eval.who = NoRow /\ op' = op /\ UNCHANGED <<notices, unheard>> BY <1>4, <1>11 DEF EvalFreeze, NoCall
  <2>2. CASE CanTransition(row[i].state, "FROZEN")
    <3>1. freezes' = [freezes EXCEPT ![i] = freezes[i] + 1] BY <1>11, <2>2 DEF EvalFreeze, CountFreeze
    <3>2. freezes' \in [Ids -> Int] /\ \A j \in Ids : freezes'[j] = IF j = i THEN freezes[j] + 1 ELSE freezes[j]
      BY <1>0, <3>1
    <3>3. eval' = [eval EXCEPT !.pc = "notify", !.who = i, !.todo = eval.todo \ {i}]
      BY <1>11, <2>2 DEF EvalFreeze
    <3>4. eval'.who = i
      <4>1. CycleGoesOn("notify", eval.at, eval.flagged, eval.snap, eval.todo \ {i}, i)
        BY <1>6, <3>3, CycleFreeze DEF CycleGoesOn
      <4>2. QED BY <4>1 DEF CycleGoesOn
    <3>5. QED BY <1>7, <2>1, <3>1, <3>2, <3>4
  <2>3. CASE ~CanTransition(row[i].state, "FROZEN")
    <3>1. eval'.who = eval.who BY <1>6, <1>11, <2>3 DEF EvalFreeze, Cycles
    <3>2. QuietTell BY <1>11, <2>1, <2>3, <3>1 DEF EvalFreeze, QuietTell
    <3>3. QED BY <1>2, <3>2
  <2>4. QED BY <2>2, <2>3
<1>12. ASSUME EvalNotify PROVE Counters /\ \A j \in Ids : Balance(j)'
  <2>1. eval.who \in Ids
    <3>1. eval.who \in Ids \cup {NoRow} /\ eval.who # NoRow BY <1>6, <1>12 DEF EvalNotify, EvalIsSound, Cycles
    <3>2. QED BY <3>1
  <2>2. notices' = [notices EXCEPT ![eval.who] = notices[eval.who] + 1] /\ UNCHANGED <<freezes, unheard>> /\ op' = op
    BY <1>12 DEF EvalNotify, NoCall
  <2>3. notices' \in [Ids -> Int] /\ \A j \in Ids : notices'[j] = IF j = eval.who THEN notices[j] + 1 ELSE notices[j]
    BY <1>0, <2>1, <2>2
  <2>4. eval' = [eval EXCEPT !.pc = "judge", !.who = NoRow] BY <1>12 DEF EvalNotify
  <2>5. eval'.who = NoRow
    <3>1. CycleGoesOn("judge", eval.at, eval.flagged, eval.snap, eval.todo, NoRow)
      BY <1>6, <2>4, CycleNotify DEF CycleGoesOn
    <3>2. QED BY <3>1 DEF CycleGoesOn
  <2>6. QED BY <1>8, <2>1, <2>2, <2>3, <2>5
<1>13. ASSUME Restart PROVE Counters /\ \A j \in Ids : Balance(j)'
  <2>1. /\ unheard' = [i \in Ids |-> freezes[i] - notices[i]] /\ UNCHANGED <<freezes, notices>>
        /\ op'.kind # "freeze" /\ eval'.who = NoRow
    BY <1>5, <1>13 DEF Restart
  <2>2. Counters BY <1>0, <2>1 DEF Counters
  <2>3. ASSUME NEW j \in Ids PROVE Balance(j)'
    <3>1. unheard'[j] = freezes[j] - notices[j] /\ freezes[j] \in Int /\ notices[j] \in Int BY <1>0, <2>1
    <3>2. Unit(op'.kind = "freeze" /\ op'.id = j) = 0 /\ Unit(eval'.who = j) = 0 BY <1>0, <2>1 DEF Unit
    <3>3. freezes[j] = notices[j] + unheard'[j] + 0 + 0 BY <3>1
    <3>4. QED BY <2>1, <3>2, <3>3 DEF Balance
  <2>4. QED BY <2>2, <2>3
<1>14. CASE \/ \E i \in Targets, s \in Signals : Record(i, s)
            \/ DayPasses \/ UNCHANGED vars
  <2>1. QuietTell BY <1>14 DEF Record, DayPasses, vars, QuietTell
  <2>2. QED BY <1>2, <2>1
<1>15. ASSUME NEW i \in Targets, BreachBegin(i) \/ Unfreeze(i) PROVE Counters /\ \A j \in Ids : Balance(j)'
  <2>1. op' = op \/ (op.kind # "freeze" /\ op'.kind # "freeze")
    BY <1>3, <1>15 DEF BreachBegin, Unfreeze, NoOp
  <2>2. eval' = eval /\ UNCHANGED <<freezes, notices, unheard>> BY <1>15 DEF BreachBegin, Unfreeze, NoEval
  <2>3. QuietTell BY <2>1, <2>2 DEF QuietTell
  <2>4. QED BY <1>2, <2>3
<1>16. ASSUME BreachRead \/ BreachWrite \/ RefreshRead \/ RefreshLoad \/ RefreshStore
       PROVE  Counters /\ \A j \in Ids : Balance(j)'
  <2>1. eval' = eval /\ UNCHANGED <<freezes, notices, unheard>>
    BY <1>16 DEF BreachRead, BreachWrite, RefreshRead, RefreshLoad, RefreshStore, NoEval
  <2>2. (op'.kind = op.kind /\ op'.id = op.id) \/ (op.kind # "freeze" /\ op'.kind # "freeze")
    <3>1. CASE BreachRead BY <1>5, <1>6, <3>1 DEF BreachRead, Return, Calls, CallIsSound
    <3>2. CASE BreachWrite BY <1>5, <1>6, <3>2 DEF BreachWrite, Return, Goto, Calls, CallIsSound
    <3>3. CASE RefreshRead BY <1>6, <3>3 DEF RefreshRead, Calls
    <3>4. CASE RefreshLoad
      <4>1. PICK v : op' = [op EXCEPT !.pc = "store", !.view = v] BY <3>4, Zenon DEF RefreshLoad
      <4>2. CallGoesOn(op.kind, op.id, "store", op.cur, v) BY <1>6, <4>1, PcAndView DEF CallGoesOn
      <4>3. QED BY <4>2 DEF CallGoesOn
    <3>5. CASE RefreshStore
      <4>1. CASE op.kind = "freeze"
        <5>1. op' = [op EXCEPT !.pc = "notify", !.view = <<>>] BY <3>5, <4>1 DEF RefreshStore
        <5>2. CallGoesOn(op.kind, op.id, "notify", op.cur, <<>>) BY <1>6, <5>1, PcAndView DEF CallGoesOn
        <5>3. QED BY <5>2 DEF CallGoesOn
      <4>2. CASE op.kind # "freeze" BY <1>5, <3>5, <4>2 DEF RefreshStore, Return
      <4>3. QED BY <4>1, <4>2
    <3>6. QED BY <1>16, <3>1, <3>2, <3>3, <3>4, <3>5
  <2>3. QuietTell BY <2>1, <2>2 DEF QuietTell
  <2>4. QED BY <1>2, <2>3
<1>17. ASSUME \/ EvalFlag \/ EvalReload \/ EvalRecompute \/ EvalPublish \/ EvalFails
              \/ \E i \in Ids : EvalAudit(i) \/ EvalClear(i)
       PROVE  Counters /\ \A j \in Ids : Balance(j)'
  <2>1. op' = op /\ UNCHANGED <<freezes, notices, unheard>>
    BY <1>17 DEF EvalFlag, EvalReload, EvalRecompute, EvalPublish, EvalFails, EvalAudit, EvalClear, NoCall
  <2>2. eval'.who = eval.who
    <3>1. CASE EvalFlag BY <1>4, <3>1 DEF EvalFlag, Idle
    <3>2. CASE EvalReload
      <4> DEFINE T == {i \in Stored : FreezeDue(row[i], eval.at)
                                        \/ (ClearDue(row[i], eval.at) /\ i \notin eval.flagged)}
      <4>1. eval' = [eval EXCEPT !.pc = "judge", !.snap = Snapshot, !.todo = T] BY <3>2 DEF EvalReload
      <4> HIDE DEF T
      <4>2. CycleGoesOn("judge", eval.at, eval.flagged, Snapshot, T, eval.who)
        BY <1>6, <4>1, CycleReload DEF CycleGoesOn
      <4>3. QED BY <4>2 DEF CycleGoesOn
    <3>3. CASE EvalRecompute
      <4>1. CycleGoesOn("publish", eval.at, {}, Snapshot, eval.todo, eval.who)
        BY <1>6, <3>3, CycleRecompute DEF EvalRecompute, CycleGoesOn
      <4>2. QED BY <4>1 DEF CycleGoesOn
    <3>4. CASE EvalPublish BY <1>4, <1>5, <3>4 DEF EvalPublish
    <3>5. CASE EvalFails BY <1>4, <1>5, <3>5 DEF EvalFails
    <3>6. CASE \E i \in Ids : EvalAudit(i) \/ EvalClear(i)
      <4>1. PICK i \in Ids : eval' = [eval EXCEPT !.todo = eval.todo \ {i}]
        BY <3>6 DEF EvalAudit, EvalClear
      <4>2. QED BY <1>6, <4>1 DEF Cycles
    <3>7. QED BY <1>17, <3>1, <3>2, <3>3, <3>4, <3>5, <3>6
  <2>3. QuietTell BY <2>1, <2>2 DEF QuietTell
  <2>4. QED BY <1>2, <2>3
<1>18. QED
  BY <1>9, <1>10, <1>11, <1>12, <1>13, <1>14, <1>15, <1>16, <1>17 DEF Next, CallStep, EvalStep
-----------------------------------------------------------------------------
(* The theorems.                                                           *)

\* Every step preserves the inductive invariant.
LEMMA NextInv == ASSUME IInv, [Next]_vars PROVE IInv'
<1> USE DEF IInv
<1>1. RowStep BY RowSteps
<1>2. now \in Nat /\ now' \in Nat /\ now <= now' /\ now' \in 0 .. MaxTime BY Days
<1>3. /\ row' \in [Ids -> StateRow \cup {NoRow}]
      /\ \A i \in Ids : row'[i] # NoRow => DatedBy(row'[i], now')
      /\ \A i \in Stored : row'[i] # NoRow /\ IsPrefix(row[i].reasons, row'[i].reasons)
  BY <1>1, <1>2, RowKeeps
<1>4. Kept BY <1>3 DEF Kept, Stored
<1>5. \A i \in Ids : row'[i] # NoRow => Justified(row'[i]) BY <1>1, RowVerdicts
<1>6. /\ cache' \in Views /\ DOMAIN cache' \subseteq Stored
      /\ score' \in [Ids -> 0 .. 100 \cup {NoRow}]
  BY CacheSteps
<1>7. op' \in Calls /\ CallIsSound' BY <1>3, <1>4, CallSteps
<1>8. eval' \in Cycles(now') /\ SnapshotIsPast' /\ EvalIsSound'
  <2>1. StillPast(eval.snap) /\ StillPast(<<>>) /\ StillPast(Snapshot) /\ Snapshot \in Snaps
    BY <1>2, <1>3, SnapshotsAge
  <2>2. QED BY <1>2, <2>1, EvalSteps
<1>9. Counters /\ \A i \in Ids : Balance(i)'
  <2>1. \A i \in Ids : Balance(i)
    <3> TAKE i \in Ids
    <3>1. freezes[i] = notices[i] + unheard[i] + Pending(i) BY DEF EachFreezeTold
    <3>2. notices[i] \in Int /\ unheard[i] \in Int BY DEF Shapes
    <3>3. Pending(i) = Unit(op.kind = "freeze" /\ op.id = i) + Unit(eval.who = i) BY PendingIs
    <3>4. Unit(op.kind = "freeze" /\ op.id = i) \in Int /\ Unit(eval.who = i) \in Int BY DEF Unit
    <3>5. QED BY <3>1, <3>2, <3>3, <3>4 DEF Balance
  <2>2. QED BY <2>1, TellSteps
<1>10. TypeOK'
  <2>1. \A i \in DOMAIN cache' : cache'[i] \in [state : States, score : 0 .. 100, frozen : BOOLEAN]
    BY <1>6, ViewIs DEF CachedEntry
  <2>2. \A i \in Stored' : Dated(row[i])' BY <1>3 DEF Stored, Dated, DatedBy
  <2>3. op'.kind \in {"none", "breach", "freeze", "unfreeze"} BY <1>7 DEF Calls
  <2>4. eval'.pc \in {"idle", "flag", "judge", "notify", "publish"} /\ eval'.todo \subseteq Ids
    BY <1>8 DEF Cycles
  <2>5. DOMAIN cache' \subseteq Stored' BY <1>4, <1>6 DEF Kept
  <2>6. QED BY <1>2, <1>3, <1>6, <2>1, <2>2, <2>3, <2>4, <2>5 DEF TypeOK
<1>11. Shapes' BY <1>6, <1>7, <1>8, <1>9 DEF Shapes, Counters
<1>12. StateExplained' BY <1>5 DEF StateExplained, Justified, Explained, Stored
<1>13. FreezeEarned' BY <1>5 DEF FreezeEarned, Justified, Earned, Recents, Stored
<1>14. EachFreezeTold'
  <2> SUFFICES ASSUME NEW i \in Ids PROVE freezes'[i] = notices'[i] + unheard'[i] + Pending(i)'
    BY DEF EachFreezeTold
  <2>1. freezes'[i] = notices'[i] + unheard'[i] + Unit(op'.kind = "freeze" /\ op'.id = i) + Unit(eval'.who = i)
    BY <1>9 DEF Balance
  <2>2. notices'[i] \in Int /\ unheard'[i] \in Int BY <1>9 DEF Counters
  <2>3. Pending(i)' = Unit(op'.kind = "freeze" /\ op'.id = i) + Unit(eval'.who = i) BY PendingNext
  <2>4. Unit(op'.kind = "freeze" /\ op'.id = i) \in Int /\ Unit(eval'.who = i) \in Int BY DEF Unit
  <2>5. QED BY <2>1, <2>2, <2>3, <2>4
<1>15. QED BY <1>7, <1>8, <1>10, <1>11, <1>12, <1>13, <1>14

\* The program starts with it.
LEMMA InitInv == ASSUME Init PROVE IInv
<1> USE ReputationAssumption
<1>1. /\ now = 0 /\ score = [i \in Ids |-> NoRow] /\ cache = <<>> /\ op = NoOp /\ eval = Idle
      /\ freezes = [i \in Ids |-> 0] /\ notices = [i \in Ids |-> 0] /\ unheard = [i \in Ids |-> 0]
  BY DEF Init
<1> DEFINE f == [state |-> "OK", firstSeen |-> 0, reasons |-> <<>>]
<1>2. row = [i \in Ids |-> IF History[i] > 0 THEN f ELSE NoRow] BY DEF Init
<1>3. f \in StateRow /\ DatedBy(f, 0) /\ f.reasons = <<>> /\ f.state = "OK"
  <2>1. <<>> \in Seq([kind : ReasonKinds, at : Nat]) /\ DOMAIN <<>> = {} OBVIOUS
  <2>2. QED BY <2>1 DEF StateRow, States, DatedBy
<1>4. Justified(f)
  <2>1. Earned(<<>>) BY DEF Earned
  <2>2. Explained(f) BY ExplainedFresh
  <2>3. QED BY <1>3, <2>1, <2>2 DEF Justified
<1> HIDE DEF f
<1>5. row \in [Ids -> StateRow \cup {NoRow}] /\ \A i \in Stored : row[i] = f BY <1>2, <1>3 DEF Stored
<1>6. TypeOK
  <2>1. \A i \in Stored : Dated(row[i]) BY <1>1, <1>3, <1>5 DEF Dated, DatedBy
  <2>2. DOMAIN cache = {} BY <1>1, NoView
  <2>3. score \in [Ids -> 0 .. 100 \cup {NoRow}] BY <1>1
  <2>4. op.kind = "none" /\ eval.pc = "idle" /\ eval.todo = {} BY <1>1 DEF NoOp, Idle
  <2>5. now \in 0 .. MaxTime BY <1>1
  <2>6. QED BY <1>5, <2>1, <2>2, <2>3, <2>4, <2>5 DEF TypeOK
<1>7. Shapes
  <2>1. op \in Calls BY <1>1, NoView DEF NoOp, Calls, States
  <2>2. eval \in Cycles(now) BY <1>1, NoView DEF Idle, Cycles
  <2>3. QED BY <1>1, <2>1, <2>2, NoView DEF Shapes
<1>8. CallIsSound BY <1>1, NoView DEF CallIsSound, NoOp
<1>9. SnapshotIsPast /\ EvalIsSound BY <1>1, NoView DEF SnapshotIsPast, EvalIsSound, Idle
<1>10. StateExplained /\ FreezeEarned
  <2>1. \A i \in Stored : Justified(row[i]) BY <1>4, <1>5
  <2>2. StateExplained BY <2>1 DEF StateExplained, Justified, Explained
  <2>3. FreezeEarned BY <2>1 DEF FreezeEarned, Justified, Earned, Recents
  <2>4. QED BY <2>2, <2>3
<1>11. EachFreezeTold
  <2> SUFFICES ASSUME NEW i \in Ids PROVE freezes[i] = notices[i] + unheard[i] + Pending(i)
    BY DEF EachFreezeTold
  <2>1. op.kind # "freeze" /\ eval.who = NoRow BY <1>1 DEF NoOp, Idle
  <2>2. Pending(i) = Unit(op.kind = "freeze" /\ op.id = i) + Unit(eval.who = i) BY PendingIs
  <2>3. Pending(i) = 0 BY <2>1, <2>2 DEF Unit
  <2>4. QED BY <1>1, <2>3
<1>12. QED BY <1>6, <1>7, <1>8, <1>9, <1>10, <1>11 DEF IInv

\* Whatever the evaluator, the breaches and the operator do to each other, every state has the
\* reasons that explain it, every freeze the evaluator decides is earned, and every freeze is
\* announced once (transition, clearFrozen, runOneCycle, notifyFreeze).
THEOREM ReputationIsSound == Spec => []ReputationInv
<1>1. Init => IInv BY InitInv
<1>2. IInv /\ [Next]_vars => IInv' BY NextInv
<1>3. IInv => ReputationInv BY DEF IInv, ReputationInv
<1>4. QED BY <1>1, <1>2, <1>3, PTL DEF Spec

\* The audit trail is append-only: no write, from whatever snapshot, drops a row or a reason.
THEOREM AuditTrailGrows == Spec => ReasonsAppendOnly
<1>1. Init => IInv BY InitInv
<1>2. IInv /\ [Next]_vars => IInv' BY NextInv
<1>3. IInv /\ [Next]_vars => [\A i \in Stored : row'[i] # NoRow /\ IsPrefix(row[i].reasons, row'[i].reasons)]_vars
  <2> SUFFICES ASSUME IInv, [Next]_vars
               PROVE  \A i \in Stored : row'[i] # NoRow /\ IsPrefix(row[i].reasons, row'[i].reasons)
    OBVIOUS
  <2>1. RowStep BY RowSteps DEF IInv
  <2>2. now' \in Nat /\ now <= now' BY Days DEF IInv
  <2>3. QED BY <2>1, <2>2, RowKeeps DEF IInv
<1>4. QED BY <1>1, <1>2, <1>3, PTL DEF Spec, ReasonsAppendOnly
=============================================================================
