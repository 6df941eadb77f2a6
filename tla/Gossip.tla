------------------------------- MODULE Gossip -------------------------------
(* The federation's gossip among trackers (tracker/internal/federation):     *)
(* root attestations and their archive, equivocation evidence and depeering, *)
(* revocations, the exchange of known peers, the replay filter in front of   *)
(* all of them.  Every link is an ordered stream that may break; each end of *)
(* it has a recv loop of its own, so that a tracker handles one frame per    *)
(* link at a time and frames of different links concurrently.                *)
(*                                                                           *)
(* A payload is identified with its hash.  One hour of roots is modelled.    *)
EXTENDS Integers, Sequences, FiniteSets, FiniteSetsExt, SequencesExt, Functions, TLC

CONSTANTS
    Trackers,
    Roots,          \* values a tracker may publish for the hour
    FirstRoot,      \* the one it publishes first
    Identities,     \* identities that may be frozen
    Strangers,      \* trackers known from gossip only
    NoRoot,         \* nothing archived
    Publishers, Freezers, Emitters, \* bound: who originates roots, revocations and exchanges
    Edges,          \* the pairs of trackers that allowlist each other
    DedupeCap,      \* capacity of the replay filter
    StartedAt,      \* StartedAt[t]: when t was opened, the last_seen of its allowlist rows
    MaxGossip,      \* bound: payloads that enter the mesh (an exchange counts twice) and faults
    MaxFaults,      \* bound: broken links, refused frames, failed writes, operator actions
    MaxCutoff       \* bound: the pruner's cutoff; each of its runs counts as an event

ASSUME GossipAssumption ==
    /\ Edges \subseteq {l \in SUBSET Trackers : Cardinality(l) = 2}
    /\ DedupeCap \in Nat \ {0}
    /\ StartedAt \in [Trackers -> Nat]
    /\ NoRoot \notin Roots /\ FirstRoot \in Roots
    /\ Trackers \cap Strangers = {}
    /\ Publishers \cup Freezers \cup Emitters \subseteq Trackers
    /\ MaxGossip \in Nat /\ MaxFaults \in Nat /\ MaxCutoff \in Nat

VARIABLES
    up,         \* the pairs whose connection is up
    chan,       \* chan[<<t, u>>]: frames from t that u has not read
    busy,       \* busy[<<t, u>>]: the payload from t that u's recv loop is handling, or NoFrame
    seen,       \* seen[t]: the replay filter, newest first
    registered, \* registered[t]: the peers in t's registry
    roots,      \* roots[t][x]: the root of x that t has archived
    revoked,    \* revoked[t]: the revocations t has archived, as <<issuer, identity>>
    flagged,    \* flagged[t]: the equivocation flags of t's PeerHealth
    known,      \* known[t]: the rows of known_peers
    published,  \* published[x]: the roots x has published
    issued,     \* the revocations that were issued
    cutoff,     \* the pruner deletes gossip rows last seen before this
    originated, faults

gossipVars == <<up, chan, busy, seen, registered, roots, revoked, flagged, known, published, issued,
                cutoff, originated, faults>>

\* A fault, within its bounds.
Fault ==
    /\ faults < MaxFaults /\ originated + faults + cutoff < MaxGossip
    /\ faults' = faults + 1

Peered == {e \in Trackers \X Trackers : {e[1], e[2]} \in Edges}
Peers(t) == {u \in Trackers : {t, u} \in Edges}

Root(x, r) == [kind |-> "root", of |-> x, root |-> r]
Evidence(x, r1, r2) == [kind |-> "evidence", of |-> x, first |-> r1, second |-> r2]
Revocation(x, i) == [kind |-> "revocation", of |-> x, id |-> i]
Exchange(rows) == [kind |-> "exchange", rows |-> rows]
NoFrame == [kind |-> "none"]

KnownPeer(last, health, source) == [last |-> last, health |-> health, source |-> source]

GossipInit ==
    /\ up = Edges
    /\ chan = [e \in Peered |-> <<>>]
    /\ busy = [e \in Peered |-> NoFrame]
    /\ seen = [t \in Trackers |-> <<>>]
    /\ registered = [t \in Trackers |-> Peers(t)]
    /\ roots = [t \in Trackers |-> [x \in Trackers |-> NoRoot]]
    /\ revoked = [t \in Trackers |-> {}]
    /\ flagged = [t \in Trackers |-> {}]
    \* Open seeds the allowlist; the rows of strangers are left from an earlier run.
    /\ known = [t \in Trackers |->
                   [x \in Peers(t) \cup (IF t \in Emitters THEN Strangers ELSE {}) |->
                       IF x \in Strangers THEN KnownPeer(0, 1, "gossip")
                       ELSE KnownPeer(StartedAt[t], 1, "allowlist")]]
    /\ published = [x \in Trackers |-> {}]
    /\ issued = {}
    /\ cutoff = 0 /\ originated = 0 /\ faults = 0

-----------------------------------------------------------------------------
(* Dedupe and Forward. *)

MarkNothing(filter, m) == filter

\* A payload seen again moves to the front; a full filter drops its oldest entry.
Mark(filter, m) ==
    LET others == RemoveFirst(filter, m)
    IN  SubSeq(<<m>> \o others, 1, IF Len(others) < DedupeCap THEN Len(others) + 1 ELSE DedupeCap)

Seen(t, m) == \E k \in DOMAIN seen[t] : seen[t][k] = m

ActivePeers(t) == {u \in Trackers : {t, u} \in up}

\* The frame is signed again and sent to every active peer, the one it came from included.
Forward(t, m, onto) ==
    [e \in Peered |-> IF e[1] = t /\ e[2] \in ActivePeers(t) THEN Append(onto[e], m) ELSE onto[e]]

\* Registry.Depeer closes the connection: what was in flight on it is lost.
Depeered(t, x, onto) ==
    [e \in Peered |-> IF {e[1], e[2]} = {t, x} /\ x \in registered[t] THEN <<>> ELSE onto[e]]

-----------------------------------------------------------------------------
(* Originating payloads. *)

\* An event of some weight, within the bound.
Originate(weight) ==
    /\ originated + faults + cutoff + weight <= MaxGossip
    /\ originated' = originated + weight

\* PublishHour.  A tracker whose ledger was restored may publish another root for the hour.
PublishHour(t, r) ==
    /\ Originate(1)
    /\ published[t] = {} => r = FirstRoot
    /\ published' = [published EXCEPT ![t] = @ \cup {r}]
    /\ seen' = [seen EXCEPT ![t] = Mark(@, Root(t, r))]
    /\ chan' = Forward(t, Root(t, r), chan)
    /\ UNCHANGED <<up, busy, registered, roots, revoked, flagged, known, issued, cutoff, faults>>

\* OnFreeze.  A failed archive write does not keep peers from learning.
OnFreeze(t, i) ==
    /\ Originate(1)
    /\ <<t, i>> \notin issued
    /\ issued' = issued \cup {<<t, i>>}
    /\ \/ /\ revoked' = [revoked EXCEPT ![t] = @ \cup {<<t, i>>}]
          /\ UNCHANGED faults
       \/ /\ originated + 1 + faults + cutoff < MaxGossip
          /\ faults < MaxFaults /\ faults' = faults + 1
          /\ UNCHANGED revoked
    /\ seen' = [seen EXCEPT ![t] = Mark(@, Revocation(t, i))]
    /\ chan' = Forward(t, Revocation(t, i), chan)
    /\ UNCHANGED <<up, busy, registered, roots, flagged, known, published, cutoff>>

Score(t, x) == IF x \in flagged[t] THEN 0 ELSE 1

\* EmitNow: every row gets the current score, in the archive and in the payload.
EmitNow(t) ==
    LET rows == [x \in DOMAIN known[t] |-> [known[t][x] EXCEPT !.health = Score(t, x)]]
        m == Exchange([x \in DOMAIN rows |-> <<rows[x].last, rows[x].health>>])
    IN  /\ Originate(2)
        /\ known' = [known EXCEPT ![t] = rows]
        /\ seen' = [seen EXCEPT ![t] = Mark(@, m)]
        /\ chan' = Forward(t, m, chan)
        /\ UNCHANGED <<up, busy, registered, roots, revoked, flagged, published, issued, cutoff,
                       faults>>

-----------------------------------------------------------------------------
(* The recv loop of t for the link from u: makeDispatcher. *)

\* The replay filter is asked ...
DispatchGossip(u, t) ==
    /\ chan[<<u, t>>] # <<>> /\ busy[<<u, t>>] = NoFrame
    /\ chan' = [chan EXCEPT ![<<u, t>>] = Tail(@)]
    /\ busy' = [busy EXCEPT ![<<u, t>>] = IF Seen(t, Head(chan[<<u, t>>])) THEN NoFrame
                                          ELSE Head(chan[<<u, t>>])]
    /\ UNCHANGED <<up, seen, registered, roots, revoked, flagged, known, published, issued, cutoff,
                   originated, faults>>

\* ... after the rate limiter, which may refuse the frame.
RateLimited(u, t) ==
    /\ chan[<<u, t>>] # <<>> /\ busy[<<u, t>>] = NoFrame
    /\ Fault
    /\ chan' = [chan EXCEPT ![<<u, t>>] = Tail(@)]
    /\ UNCHANGED <<up, busy, seen, registered, roots, revoked, flagged, known, published, issued,
                   cutoff, originated>>

\* The loop is done with its payload, which is marked whatever becomes of it.
Handling(u, t, m) ==
    /\ busy[<<u, t>>] = m
    /\ busy' = [busy EXCEPT ![<<u, t>>] = NoFrame]

\* PutPeerRoot refuses a second root for the hour; the same root again is no conflict.
Conflicts(t, x, r) == roots[t][x] \notin {NoRoot, r}

\* A relayed attestation: its tracker is not the sender of the envelope.
ApplyRelayed(u, t, m) ==
    /\ m.kind = "root" /\ m.of # u
    /\ Handling(u, t, m)
    /\ seen' = [seen EXCEPT ![t] = Mark(@, m)]
    /\ UNCHANGED <<up, chan, registered, roots, revoked, flagged, known, published, issued, cutoff,
                   originated, faults>>

\* Apply: archive and forward.
Apply(u, t, m) ==
    /\ m.kind = "root" /\ m.of = u /\ ~Conflicts(t, u, m.root)
    /\ Handling(u, t, m)
    /\ roots' = [roots EXCEPT ![t][u] = m.root]
    /\ seen' = [seen EXCEPT ![t] = Mark(@, m)]
    /\ chan' = Forward(t, m, chan)
    /\ UNCHANGED <<up, registered, revoked, flagged, known, published, issued, cutoff, originated,
                   faults>>

\* OnLocalConflict: the evidence goes out before the offender's connection is closed.
OnLocalConflict(u, t, m) ==
    LET evidence == Evidence(u, roots[t][u], m.root)
    IN  /\ m.kind = "root" /\ m.of = u /\ Conflicts(t, u, m.root)
        /\ Handling(u, t, m)
        /\ seen' = [seen EXCEPT ![t] = Mark(Mark(@, m), evidence)]
        /\ chan' = Depeered(t, u, Forward(t, evidence, chan))
        /\ registered' = [registered EXCEPT ![t] = @ \ {u}]
        /\ up' = IF u \in registered[t] THEN up \ {{t, u}} ELSE up
        /\ flagged' = [flagged EXCEPT ![t] = @ \cup {u}]
        /\ UNCHANGED <<roots, revoked, known, published, issued, cutoff, originated, faults>>

\* OnIncomingEvidence: evidence about the tracker itself is only counted.
OnIncomingEvidence(u, t, m) ==
    /\ m.kind = "evidence"
    /\ Handling(u, t, m)
    /\ seen' = [seen EXCEPT ![t] = Mark(@, m)]
    /\ IF m.of = t THEN UNCHANGED <<chan, registered, up, flagged>>
       ELSE /\ chan' = Depeered(t, m.of, Forward(t, m, chan))
            /\ registered' = [registered EXCEPT ![t] = @ \ {m.of}]
            /\ up' = IF m.of \in registered[t] THEN up \ {{t, m.of}} ELSE up
            /\ flagged' = [flagged EXCEPT ![t] = @ \cup {m.of}]
    /\ UNCHANGED <<roots, revoked, known, published, issued, cutoff, originated, faults>>

OnIncomingDirectOnly(u, t, m) ==
    /\ m.kind = "revocation"
    /\ Handling(u, t, m)
    /\ seen' = [seen EXCEPT ![t] = Mark(@, m)]
    /\ IF m.of # u THEN UNCHANGED <<revoked, chan>>
       ELSE /\ revoked' = [revoked EXCEPT ![t] = @ \cup {<<m.of, m.id>>}]
            /\ chan' = Forward(t, m, chan)
    /\ UNCHANGED <<up, registered, roots, flagged, known, published, issued, cutoff, originated,
                   faults>>

\* OnIncoming of a revocation: the issuer must be in the registry.
OnIncoming(u, t, m) ==
    /\ m.kind = "revocation"
    /\ Handling(u, t, m)
    /\ seen' = [seen EXCEPT ![t] = Mark(@, m)]
    /\ IF m.of \notin registered[t] THEN UNCHANGED <<revoked, chan>>
       ELSE /\ revoked' = [revoked EXCEPT ![t] = @ \cup {<<m.of, m.id>>}]
            /\ chan' = Forward(t, m, chan)
    /\ UNCHANGED <<up, registered, roots, flagged, known, published, issued, cutoff, originated,
                   faults>>

UpsertBlindly(rows, x, last, health) ==
    KnownPeer(last, health, IF x \in DOMAIN rows THEN rows[x].source ELSE "gossip")

\* The row that UpsertKnownPeer leaves for x: the latest last_seen wins, an allowlist row stays one.
Upsert(rows, x, last, health) ==
    IF x \notin DOMAIN rows THEN KnownPeer(last, health, "gossip")
    ELSE IF last >= rows[x].last THEN KnownPeer(last, health, rows[x].source)
    ELSE rows[x]

\* OnIncoming of an exchange: the rows are merged, the tracker's own is skipped.
MergeExchange(u, t, m) ==
    /\ m.kind = "exchange"
    /\ Handling(u, t, m)
    /\ known' = [known EXCEPT ![t] =
                    [x \in DOMAIN @ \cup (DOMAIN m.rows \ {t}) |->
                        IF x \in DOMAIN m.rows \ {t} THEN Upsert(@, x, m.rows[x][1], m.rows[x][2])
                        ELSE @[x]]]
    /\ seen' = [seen EXCEPT ![t] = Mark(@, m)]
    /\ chan' = Forward(t, m, chan)
    /\ UNCHANGED <<up, registered, roots, revoked, flagged, published, issued, cutoff, originated,
                   faults>>

\* A failed archive write: the payload is marked, but neither kept nor forwarded.
ArchiveFails(u, t, m) ==
    /\ m.kind \in {"root", "revocation"}
    /\ Fault
    /\ Handling(u, t, m)
    /\ seen' = [seen EXCEPT ![t] = Mark(@, m)]
    /\ UNCHANGED <<up, chan, registered, roots, revoked, flagged, known, published, issued, cutoff,
                   originated>>

Handle(u, t) ==
    LET m == busy[<<u, t>>]
    IN  /\ m # NoFrame
        /\ \/ ApplyRelayed(u, t, m)
           \/ Apply(u, t, m)
           \/ OnLocalConflict(u, t, m)
           \/ OnIncomingEvidence(u, t, m)
           \/ OnIncoming(u, t, m)
           \/ MergeExchange(u, t, m)

-----------------------------------------------------------------------------
(* Links, the operator and the pruner. *)

\* A connection breaks; what was in flight on it is lost.
Drop(l) ==
    /\ l \in up
    /\ Fault
    /\ up' = up \ {l}
    /\ chan' = [e \in Peered |-> IF {e[1], e[2]} = l THEN <<>> ELSE chan[e]]
    /\ UNCHANGED <<busy, seen, registered, roots, revoked, flagged, known, published, issued,
                   cutoff, originated>>

\* A dialer brings the connection back.  Only the end that accepts looks at its registry.
Reconnect(t, u) ==
    /\ {t, u} \in Edges \ up /\ t \in registered[u]
    /\ up' = up \cup {{t, u}}
    /\ UNCHANGED <<chan, busy, seen, registered, roots, revoked, flagged, known, published, issued,
                   cutoff, originated, faults>>

\* The process starts again: the archives are kept, filter, flags and connections are not, and the
\* allowlist is registered and seeded again.
Restart(t) ==
    /\ Fault
    /\ seen' = [seen EXCEPT ![t] = <<>>]
    /\ registered' = [registered EXCEPT ![t] = Peers(t)]
    /\ flagged' = [flagged EXCEPT ![t] = {}]
    /\ known' = [known EXCEPT ![t] = [x \in DOMAIN @ |-> IF x \in Peers(t)
                                                      THEN Upsert(@, x, StartedAt[t] + 1, 1)
                                                      ELSE @[x]]]
    /\ up' = {l \in up : t \notin l}
    /\ chan' = [e \in Peered |-> IF t \in {e[1], e[2]} THEN <<>> ELSE chan[e]]
    /\ busy' = [e \in Peered |-> IF e[2] = t THEN NoFrame ELSE busy[e]]
    /\ UNCHANGED <<roots, revoked, published, issued, cutoff, originated>>

\* ClearEquivocation.
ClearEquivocation(t, x) ==
    /\ x \in flagged[t]
    /\ Fault
    /\ flagged' = [flagged EXCEPT ![t] = @ \ {x}]
    /\ UNCHANGED <<up, chan, busy, seen, registered, roots, revoked, known, published, issued,
                   cutoff, originated>>

\* DeleteStaleKnownPeers: allowlist rows are immune.
Prune(t) ==
    /\ cutoff < MaxCutoff /\ originated + faults + cutoff < MaxGossip
    /\ cutoff' = cutoff + 1
    /\ known' = [known EXCEPT ![t] = Restrict(@, {x \in DOMAIN @ : @[x].source = "allowlist"
                                                                    \/ @[x].last >= cutoff + 1})]
    /\ UNCHANGED <<up, chan, busy, seen, registered, roots, revoked, flagged, published, issued,
                   originated, faults>>

-----------------------------------------------------------------------------
GossipNext ==
    \/ \E t \in Publishers, r \in Roots : PublishHour(t, r)
    \/ \E t \in Freezers, i \in Identities : OnFreeze(t, i)
    \/ \E t \in Emitters : EmitNow(t) \/ Prune(t)
    \/ \E t \in Trackers : Restart(t)
    \/ \E e \in Peered : \/ DispatchGossip(e[1], e[2]) \/ RateLimited(e[1], e[2])
                         \/ Handle(e[1], e[2])
                         \/ busy[e] # NoFrame /\ ArchiveFails(e[1], e[2], busy[e])
                         \/ Reconnect(e[1], e[2]) \/ ClearEquivocation(e[1], e[2])
    \/ \E l \in Edges : Drop(l)

GossipSpec == GossipInit /\ [][GossipNext]_gossipVars

\* Every recv loop runs, and so does every dialer.
GossipFairSpec ==
    /\ GossipSpec
    /\ WF_gossipVars(\E e \in Peered : DispatchGossip(e[1], e[2]) \/ Handle(e[1], e[2]))

-----------------------------------------------------------------------------
(* Properties. *)

Rows == [last : Nat, health : {0, 1}, source : {"allowlist", "gossip"}]

\* The archives have their shapes and the replay filter stays within its cap.
GossipTypeOK ==
    /\ up \subseteq Edges
    /\ seen \in [Trackers -> Seq(UNION {Range(seen[t]) : t \in Trackers})]
    /\ \A t \in Trackers : Len(seen[t]) <= DedupeCap
    /\ registered \in [Trackers -> SUBSET Trackers]
    /\ roots \in [Trackers -> [Trackers -> Roots \cup {NoRoot}]]
    /\ revoked \in [Trackers -> SUBSET (Trackers \X Identities)]
    /\ flagged \in [Trackers -> SUBSET Trackers]
    /\ \A t \in Trackers : /\ Peers(t) \subseteq DOMAIN known[t]
                           /\ DOMAIN known[t] \subseteq Trackers \cup Strangers
                           /\ Range(known[t]) \subseteq Rows
    /\ published \in [Trackers -> SUBSET Roots]
    /\ originated \in 0..MaxGossip /\ faults \in 0..MaxFaults /\ cutoff \in 0..MaxCutoff

Quiet == \A e \in Peered : chan[e] = <<>> /\ busy[e] = NoFrame
Trusted == {t \in Trackers : \A u \in Trackers : t \notin flagged[u]}

\* A tracker is flagged and depeered for equivocation only if it has published two roots for the
\* hour: the same attestation coming in again is not a conflict (PutPeerRoot, OnLocalConflict,
\* OnIncomingEvidence), however the frames of several links interleave.
FlagIsEarned ==
    \A t, x \in Trackers : x \in flagged[t] => Cardinality(published[x]) > 1 /\ x # t

\* The first root archived for a tracker's hour stays: a second one becomes evidence.
FirstRootStays ==
    [][\A t, x \in Trackers : roots[t][x] # NoRoot => roots'[t][x] = roots[t][x]]_gossipVars

\* When the mesh has come to rest without faults, a revocation that an unflagged tracker issued is
\* archived there and at each of its unflagged peers, whatever else was flagged and closed.
RevocationReachesAll ==
    Quiet /\ faults = 0 =>
        \A v \in issued : v[1] \in Trusted =>
            \A t \in Trusted : t \in Peers(v[1]) \cup {v[1]} => v \in revoked[t]

\* Likewise, a conflict that one unflagged tracker has seen is known to its unflagged peers, and
\* so to all that are connected by them.
EvidenceReachesAll ==
    Quiet /\ faults = 0 =>
        \A t, u \in Trusted : u \in Peers(t) => flagged[t] \ {u} \subseteq flagged[u]

\* Merging and pruning never take an allowlisted peer from the table, never turn it into a gossip
\* row, and never move a row's last_seen back.
KnownPeersOnlyImprove ==
    [][\A t \in Trackers : \A x \in DOMAIN known[t] :
          \/ x \in DOMAIN known'[t] /\ known'[t][x].source = known[t][x].source
                                    /\ known'[t][x].last >= known[t][x].last
          \/ x \notin DOMAIN known'[t] /\ known[t][x].source = "gossip"]_gossipVars

\* Gossip dies out: no payload circulates for ever, although every tracker forwards to every peer
\* (the replay filter).
GossipDiesOut == []<>Quiet

\* Gossip is sound and complete: no tracker is flagged without two roots, and in a mesh at rest
\* revocations and evidence are everywhere (OnIncoming, OnLocalConflict, OnIncomingEvidence).
GossipInv == GossipTypeOK /\ FlagIsEarned /\ RevocationReachesAll /\ EvidenceReachesAll

\* The archives only improve: a root is never replaced, a known peer never made worse.
ArchivesOnlyImprove == FirstRootStays /\ KnownPeersOnlyImprove
=============================================================================
