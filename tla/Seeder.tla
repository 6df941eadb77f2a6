------------------------------- MODULE Seeder -------------------------------
(***************************************************************************)
(* A seeder serving brokered requests: the tracker's offer push and its    *)
(* deadline (server/push_offers.go), the plugin's offer handler and the    *)
(* acceptor it rebinds (seederflow/offer.go, rebinding_acceptor.go), the   *)
(* consumers' tunnels (internal/tunnel), the accept loop and the serving   *)
(* of one tunnel (run.go, serve.go), the claude subprocess in a folder per *)
(* consumer (ccbridge) and the janitor that reaps those folders.           *)
(*                                                                         *)
(* Every push is handled in a goroutine of its own, every accepted tunnel  *)
(* is served in one, and the accept loop, the janitor and the advertiser   *)
(* run beside them.  An action is one critical section, or one call that   *)
(* ends where another goroutine may interfere.  A listener is named after  *)
(* the request whose keys it was bound to; a tunnel <<r, n>> is the n-th   *)
(* connection the consumer of r opens with the keys of r.  Request bodies, *)
(* tokens, keys and the response stream are abstracted away; what may fail *)
(* in them is an alternative that draws on one budget of events.           *)
(***************************************************************************)
EXTENDS Integers, FiniteSets

CONSTANTS Requests,   \* the offers the broker pushes to this seeder
          Consumers,  \* the consumers' identities
          Consumer,   \* the consumer of each request
          Dials,      \* bound: tunnels a consumer opens with each assignment
          MaxEvents,  \* bound: failures, refusals and changes of availability
          None        \* no listener, no folder

ASSUME SeederAssumption ==
    /\ Consumer \in [Requests -> Consumers]
    /\ Dials \in [Requests -> Nat] /\ MaxEvents \in Nat
    /\ None \notin Requests \cup Consumers

VARIABLES
  blocked,     \* the gate is closed: conformance, activity, rate limit or window
  advertised,  \* what the last Advertise told the tracker
  push,        \* the tracker's side of each offer's stream
  handler,     \* HandleOffer of each offer: the step it is about to take
  prev,        \* the listener that Bind of this offer read before its factory ran
  cur,         \* RebindingAcceptor.cur
  closed,      \* RebindingAcceptor.closed
  open,        \* the listeners whose sockets are open
  reservations,\* Coordinator.reservations, by envelope hash
  loop,        \* the accept loop: the listener it blocks on, the tunnel it holds
  tun,         \* each tunnel as its consumer sees it
  serve,       \* Serve of each tunnel: its step and the reservation it was given
  active,      \* Coordinator.activeClients
  folders,     \* client folders on disk
  stale,       \* of those, the ones not touched within the janitor's grace
  doomed,      \* the folder Scan has judged and is about to remove
  relays,      \* requests with a live TURN session in the tracker's allocator
  reported,    \* usage reports the tracker received for each request
  events

vars == <<blocked, advertised, push, handler, prev, cur, closed, open,
          reservations, loop, tun, serve, active, folders, stale, doomed,
          relays, reported, events>>

Tunnels == UNION {{r} \X (1..Dials[r]) : r \in Requests}

Req(t) == t[1]

\* Steps of HandleOffer and of Serve, and a tunnel's states at the consumer.
HandlerSteps == {"none", "offered", "binding", "closing", "reserving", "deciding", "done"}
ServeSteps == {"none", "consume", "read", "prepare", "bridge", "report", "done"}
TunnelStates == {"none", "queued", "held", "refused", "served", "broken"}

\* The tunnels some goroutine of the seeder still has in hand.
InHand(t) == tun[t] \in {"queued", "held"}

\* The serves that have registered their consumer and not returned.
Serving == {t \in Tunnels : serve[t].step \in {"prepare", "bridge", "report"}}

\* A tunnel lives on the transport of its listener: closing one closes the other.
Alive(t) == InHand(t) /\ Req(t) \in open

Shapes ==
  /\ blocked \in BOOLEAN /\ advertised \in BOOLEAN /\ closed \in BOOLEAN
  /\ push \in [Requests -> {"none", "open", "accepted", "rejected"}]
  /\ handler \in [Requests -> HandlerSteps]
  /\ prev \in [Requests -> Requests \cup {None}]
  /\ cur \in Requests \cup {None}
  /\ open \subseteq Requests /\ reservations \subseteq Requests
  /\ loop \in [ln : Requests \cup {None}, holds : Tunnels \cup {None}]
  /\ tun \in [Tunnels -> TunnelStates]
  /\ serve \in [Tunnels -> [step : ServeSteps, res : Requests \cup {None}]]
  /\ active \in [Consumers -> Nat]
  /\ folders \subseteq Consumers /\ stale \subseteq folders
  /\ doomed \in Consumers \cup {None}
  /\ relays \subseteq Requests
  /\ reported \in [Requests -> Nat]

\* Offers, listeners, tunnels, serves and folders have their shapes.
TypeOK == Shapes /\ events \in 0..MaxEvents

Init ==
  /\ blocked = FALSE /\ advertised = FALSE /\ closed = FALSE
  /\ push = [r \in Requests |-> "none"]
  /\ handler = [r \in Requests |-> "none"]
  /\ prev = [r \in Requests |-> None]
  /\ cur = None /\ open = {} /\ reservations = {}
  /\ loop = [ln |-> None, holds |-> None]
  /\ tun = [t \in Tunnels |-> "none"]
  /\ serve = [t \in Tunnels |-> [step |-> "none", res |-> None]]
  /\ active = [c \in Consumers |-> 0]
  /\ folders = {} /\ stale = {} /\ doomed = None /\ relays = {}
  /\ reported = [r \in Requests |-> 0]
  /\ events = 0

Event == events < MaxEvents /\ events' = events + 1

-----------------------------------------------------------------------------
(* Availability and advertising: availability.go, conformance.go, run.go.  *)

gateVars == <<blocked, advertised>>
offerVars == <<push, handler, prev>>
acceptorVars == <<cur, closed, open>>
tunnelVars == <<loop, tun, serve>>
folderVars == <<active, folders, stale, doomed>>

\* availableLocked changes its answer: a session starts, ends or leaves its
\* grace, a rate limit is recorded or ages, the idle window opens or closes, a
\* conformance run fails or is reset.
Available ==
  /\ Event
  /\ blocked' = ~blocked
  /\ UNCHANGED <<advertised, reservations, relays, reported>>
  /\ UNCHANGED <<offerVars, acceptorVars, tunnelVars, folderVars>>

\* advertiseLoop: the tracker is told what the gate says now.
Advertise ==
  /\ advertised # ~blocked
  /\ advertised' = ~blocked
  /\ UNCHANGED <<blocked, reservations, relays, reported, events>>
  /\ UNCHANGED <<offerVars, acceptorVars, tunnelVars, folderVars>>

-----------------------------------------------------------------------------
(* The offer push, seen from the tracker: server/push_offers.go.           *)

\* PushOfferTo opens a stream to the connected seeder; the plugin's push
\* acceptor hands it to a goroutine of its own.  The broker picks seeders
\* that advertised themselves.
PushOfferTo(r) ==
  /\ push[r] = "none" /\ advertised
  /\ push' = [push EXCEPT ![r] = "open"]
  /\ handler' = [handler EXCEPT ![r] = "offered"]
  /\ UNCHANGED <<prev, gateVars, acceptorVars, reservations, tunnelVars, folderVars,
                 relays, reported, events>>

\* runOfferPush gives up: the deadline passes or the connection is lost, and
\* the broker reads a rejection.  The handler is not told.
OfferTimeout(r) ==
  /\ push[r] = "open"
  /\ Event
  /\ push' = [push EXCEPT ![r] = "rejected"]
  /\ UNCHANGED <<handler, prev, gateVars, acceptorVars, reservations, tunnelVars,
                 folderVars, relays, reported>>

-----------------------------------------------------------------------------
(* HandleOffer and RebindingAcceptor.Bind.                                 *)

\* The answer of HandleOffer reaches the broker if it still listens.
Answered(r, decision) ==
  push' = [push EXCEPT ![r] = IF @ = "open" THEN decision ELSE @]

\* The gate is closed, the model is not served, the consumer's key is missing,
\* keys cannot be made, or Bind fails.
RejectOffer(r) ==
  /\ handler[r] \in {"offered", "binding"}
  /\ \/ (handler[r] = "offered" /\ blocked) /\ UNCHANGED events
     \/ closed /\ UNCHANGED events
     \/ Event
  /\ handler' = [handler EXCEPT ![r] = "done"]
  /\ prev' = [prev EXCEPT ![r] = None]
  /\ Answered(r, "rejected")
  /\ UNCHANGED <<gateVars, acceptorVars, reservations, tunnelVars, folderVars,
                 relays, reported>>

\* The offer passes the gate, and Bind reads the listener it is to replace.
StartBind(r) ==
  /\ handler[r] = "offered" /\ ~blocked /\ ~closed
  /\ handler' = [handler EXCEPT ![r] = "binding"]
  /\ prev' = [prev EXCEPT ![r] = cur]
  /\ UNCHANGED <<push, gateVars, acceptorVars, reservations, tunnelVars, folderVars,
                 relays, reported, events>>

\* The factory has opened a listener for the keys of r; Bind installs it.
InstallListener(r) ==
  /\ handler[r] = "binding" /\ ~closed
  /\ handler' = [handler EXCEPT ![r] = "closing"]
  /\ cur' = r
  /\ open' = open \cup {r}
  /\ UNCHANGED <<push, prev, closed, gateVars, reservations, tunnelVars, folderVars,
                 relays, reported, events>>

\* Bind closes the listener it read at first, and with its transport every
\* tunnel that came through it.  A listener another Bind installed in the
\* meantime is not closed by anyone.
ClosePrevious(r) ==
  /\ handler[r] = "closing"
  /\ handler' = [handler EXCEPT ![r] = "reserving"]
  /\ prev' = [prev EXCEPT ![r] = None]
  /\ open' = open \ {prev[r]}
  /\ UNCHANGED <<push, cur, closed, gateVars, reservations, tunnelVars, folderVars,
                 relays, reported, events>>

\* HandleOffer registers the reservation under the offer's envelope hash.
\* Nothing but Serve ever removes it.
RegisterReservation(r) ==
  /\ handler[r] = "reserving"
  /\ handler' = [handler EXCEPT ![r] = "deciding"]
  /\ reservations' = reservations \cup {r}
  /\ UNCHANGED <<push, prev, gateVars, acceptorVars, tunnelVars, folderVars,
                 relays, reported, events>>

\* The decision is written back; too late, and the broker has moved on while
\* the reservation stays.
AcceptOffer(r) ==
  /\ handler[r] = "deciding"
  /\ handler' = [handler EXCEPT ![r] = "done"]
  /\ Answered(r, "accepted")
  /\ UNCHANGED <<prev, gateVars, acceptorVars, reservations, tunnelVars, folderVars,
                 relays, reported, events>>

-----------------------------------------------------------------------------
(* The consumer's side of a tunnel: tunnel/dial.go, holepunch.go.          *)

\* What the handshake with the listener of r comes to: the seeder's key is
\* pinned, so no other listener will do.
Handshake(t) ==
  tun' = [tun EXCEPT ![t] = IF Req(t) \in open THEN "queued" ELSE "broken"]

\* Dial with the keys of an accepted assignment; each of the consumer's HTTP
\* requests opens a tunnel of its own.
Dial(t) ==
  /\ push[Req(t)] = "accepted" /\ tun[t] = "none"
  /\ \A n \in 1..t[2] - 1 : tun[<<Req(t), n>>] # "none"
  /\ Handshake(t)
  /\ UNCHANGED <<gateVars, offerVars, acceptorVars, reservations, loop, serve,
                 folderVars, relays, reported, events>>

\* dialRendezvous: hole punching fails and a relay is asked for.  The tracker
\* grants one session per request, so a second dial is refused while the first
\* one's session lives.
DialRelay(t) ==
  /\ push[Req(t)] = "accepted" /\ tun[t] = "none"
  /\ \A n \in 1..t[2] - 1 : tun[<<Req(t), n>>] # "none"
  /\ Event
  /\ IF Req(t) \in relays
       THEN /\ tun' = [tun EXCEPT ![t] = "broken"]
            /\ UNCHANGED relays
       ELSE /\ relays' = relays \cup {Req(t)}
            /\ Handshake(t)
  /\ UNCHANGED <<gateVars, offerVars, acceptorVars, reservations, loop, serve,
                 folderVars, reported>>

\* Allocator.Sweep: an idle session passes its TTL.
SweepRelay(r) ==
  /\ r \in relays
  /\ relays' = relays \ {r}
  /\ UNCHANGED <<gateVars, offerVars, acceptorVars, reservations, tunnelVars,
                 folderVars, reported, events>>

\* The consumer stops waiting, or the transport is gone or idle: the tunnel
\* ends, whatever the seeder does with it later.
Expire(t) ==
  /\ InHand(t)
  /\ tun' = [tun EXCEPT ![t] = "broken"]
  /\ UNCHANGED <<gateVars, offerVars, acceptorVars, reservations, loop, serve,
                 folderVars, relays, reported, events>>

-----------------------------------------------------------------------------
(* The accept loop.                                                        *)

\* RebindingAcceptor.Accept reads the listener and blocks on it.
AwaitTunnel ==
  /\ loop.ln = None /\ loop.holds = None /\ cur # None
  /\ loop' = [loop EXCEPT !.ln = cur]
  /\ UNCHANGED <<gateVars, offerVars, acceptorVars, reservations, tun, serve,
                 folderVars, relays, reported, events>>

\* The listener it blocks on was closed; the loop backs off and tries again.
AcceptFails ==
  /\ loop.ln # None /\ loop.ln \notin open
  /\ loop' = [loop EXCEPT !.ln = None]
  /\ UNCHANGED <<gateVars, offerVars, acceptorVars, reservations, tun, serve,
                 folderVars, relays, reported, events>>

\* A tunnel of the listener is handed over.
AcceptTunnel(t) ==
  /\ loop.ln = Req(t) /\ Alive(t) /\ tun[t] = "queued"
  /\ loop' = [ln |-> None, holds |-> t]
  /\ tun' = [tun EXCEPT ![t] = "held"]
  /\ UNCHANGED <<gateVars, offerVars, acceptorVars, reservations, serve,
                 folderVars, relays, reported, events>>

\* The seeder's answer reaches a consumer whose tunnel still stands.
Told(t, state) ==
  tun' = [tun EXCEPT ![t] = IF Alive(t) THEN state
                            ELSE IF InHand(t) THEN "broken" ELSE @]

\* peekReservation finds none, or more than one: the tunnel is refused.
RefuseTunnel ==
  /\ loop.holds # None /\ Cardinality(reservations) # 1
  /\ Told(loop.holds, "refused")
  /\ loop' = [loop EXCEPT !.holds = None]
  /\ UNCHANGED <<gateVars, offerVars, acceptorVars, reservations, serve,
                 folderVars, relays, reported, events>>

\* peekReservation finds exactly one: a goroutine serves the tunnel under it,
\* whichever offer it belongs to.
DispatchTunnel ==
  /\ loop.holds # None
  /\ \E r \in reservations :
       /\ reservations = {r}
       /\ serve' = [serve EXCEPT ![loop.holds] = [step |-> "consume", res |-> r]]
  /\ loop' = [loop EXCEPT !.holds = None]
  /\ UNCHANGED <<gateVars, offerVars, acceptorVars, reservations, tun,
                 folderVars, relays, reported, events>>

-----------------------------------------------------------------------------
(* Serve.                                                                  *)

Step(t, s) == serve' = [serve EXCEPT ![t].step = s]

\* A serve that has returned and will not be looked at again.
Finish(t) == serve' = [serve EXCEPT ![t] = [step |-> "done", res |-> None]]

\* Mutant: the reservation is looked up and left for the end of the serve.
ConsumeReservationLater(t) ==
  /\ serve[t].step = "consume"
  /\ Step(t, "read")
  /\ UNCHANGED <<gateVars, offerVars, acceptorVars, reservations, loop, tun,
                 folderVars, relays, reported, events>>

\* consumeReservation: the one serve that removes it goes on; a serve that
\* peeked at the same reservation is refused.
ConsumeReservation(t) ==
  /\ serve[t].step = "consume"
  /\ IF serve[t].res \in reservations
       THEN Step(t, "read") /\ UNCHANGED tun
       ELSE Finish(t) /\ Told(t, "refused")
  /\ reservations' = reservations \ {serve[t].res}
  /\ UNCHANGED <<gateVars, offerVars, acceptorVars, loop, folderVars, relays,
                 reported, events>>

\* RegisterActive and UnregisterActive count the serves of a consumer.
RegisterActive(c) == active' = [active EXCEPT ![c] = @ + 1]

UnregisterActive(c) == active' = [active EXCEPT ![c] = @ - 1]

\* ReadRequest, buildBridgeRequest and SendOK: the tunnel is dead, the body is
\* not a /v1/messages request, or the consumer is registered as active.
ReadRequest(t) ==
  /\ serve[t].step = "read"
  /\ \/ /\ ~Alive(t)
        /\ Finish(t) /\ Told(t, "refused")
        /\ UNCHANGED <<active, events>>
     \/ /\ Alive(t) /\ Event
        /\ Finish(t) /\ Told(t, "refused")
        /\ UNCHANGED active
     \/ /\ Alive(t)
        /\ Step(t, "prepare")
        /\ RegisterActive(Consumer[serve[t].res])
        /\ UNCHANGED <<tun, events>>
  /\ UNCHANGED <<gateVars, offerVars, acceptorVars, reservations, loop, folders,
                 stale, doomed, relays, reported>>

\* ExecRunner.Run makes the client's folder, or touches it, and writes the
\* session file into it.
PrepareRun(t) ==
  /\ serve[t].step = "prepare"
  /\ Step(t, "bridge")
  /\ folders' = folders \cup {Consumer[serve[t].res]}
  /\ stale' = stale \ {Consumer[serve[t].res]}
  /\ UNCHANGED <<gateVars, offerVars, acceptorVars, reservations, loop, tun, active,
                 doomed, relays, reported, events>>

\* Mutant: the consumer stays registered when the bridge fails.
BridgeFailsActive(t) ==
  /\ serve[t].step = "bridge"
  /\ \/ (~Alive(t) \/ Consumer[serve[t].res] \notin folders) /\ UNCHANGED events
     \/ Event
  /\ Finish(t)
  /\ Told(t, "broken")
  /\ UNCHANGED <<gateVars, offerVars, acceptorVars, reservations, loop, active, folders,
                 stale, doomed, relays, reported>>

\* Mutant: a response that can no longer be written is not noticed.
BridgeFailsUnnoticed(t) ==
  /\ serve[t].step = "bridge"
  /\ Event
  /\ UnregisterActive(Consumer[serve[t].res])
  /\ Finish(t)
  /\ Told(t, "broken")
  /\ UNCHANGED <<gateVars, offerVars, acceptorVars, reservations, loop, folders,
                 stale, doomed, relays, reported>>

\* Bridge.Serve or the response stream fails: claude exits with an error, its
\* folder was removed under it, or the tunnel is gone.  No usage is reported.
BridgeFails(t) ==
  /\ serve[t].step = "bridge"
  /\ \/ (~Alive(t) \/ Consumer[serve[t].res] \notin folders) /\ UNCHANGED events
     \/ Event
  /\ UnregisterActive(Consumer[serve[t].res])
  /\ Finish(t)
  /\ Told(t, "broken")
  /\ UNCHANGED <<gateVars, offerVars, acceptorVars, reservations, loop, folders,
                 stale, doomed, relays, reported>>

\* Bridge.Serve returned the usage of the result event and the response is
\* closed; the consumer has it if the tunnel stood until then.
BridgeServes(t) ==
  /\ serve[t].step = "bridge" /\ Alive(t)
  /\ Consumer[serve[t].res] \in folders
  /\ Step(t, "report")
  /\ Told(t, "served")
  /\ UNCHANGED <<gateVars, offerVars, acceptorVars, reservations, loop,
                 folderVars, relays, reported, events>>

\* reportUsage signs with the reservation's key and calls the tracker once; a
\* call that fails, or a model without a mirrored price, is only logged.
ReportUsage(t) ==
  /\ serve[t].step = "report"
  /\ \/ Event /\ UNCHANGED reported
     \/ /\ UNCHANGED events
        /\ reported' = [reported EXCEPT ![serve[t].res] = @ + 1]
  /\ UnregisterActive(Consumer[serve[t].res])
  /\ Finish(t)
  /\ UNCHANGED <<gateVars, offerVars, acceptorVars, reservations, loop, tun, folders,
                 stale, doomed, relays>>

-----------------------------------------------------------------------------
(* The janitor, and closing the acceptor.                                  *)

\* A folder is not touched for the length of the grace, be it in use or not.
FolderAges(c) ==
  /\ c \in folders \ stale
  /\ stale' = stale \cup {c}
  /\ UNCHANGED <<gateVars, offerVars, acceptorVars, reservations, tunnelVars, active,
                 folders, doomed, relays, reported, events>>

\* Scan finds an old folder whose client IsActiveByHash denies.
Scan(c) ==
  /\ doomed = None /\ c \in stale /\ active[c] = 0
  /\ doomed' = c
  /\ UNCHANGED <<gateVars, offerVars, acceptorVars, reservations, tunnelVars, active,
                 folders, stale, relays, reported, events>>

\* Scan removes it, whatever has begun in it since.
RemoveFolder ==
  /\ doomed # None
  /\ folders' = folders \ {doomed}
  /\ stale' = stale \ {doomed}
  /\ doomed' = None
  /\ UNCHANGED <<gateVars, offerVars, acceptorVars, reservations, tunnelVars, active,
                 relays, reported, events>>

\* Coordinator.Close closes the acceptor: its current listener, and no other.
Close ==
  /\ ~closed /\ Event
  /\ closed' = TRUE
  /\ cur' = None
  /\ open' = open \ {cur}
  /\ UNCHANGED <<gateVars, offerVars, reservations, tunnelVars, folderVars, relays,
                 reported>>

-----------------------------------------------------------------------------
OfferStep(r) ==
  \/ OfferTimeout(r) \/ RejectOffer(r) \/ StartBind(r) \/ InstallListener(r)
  \/ ClosePrevious(r) \/ RegisterReservation(r) \/ AcceptOffer(r)

ServeStep(t) ==
  \/ ConsumeReservation(t) \/ ReadRequest(t) \/ PrepareRun(t) \/ BridgeFails(t)
  \/ BridgeServes(t) \/ ReportUsage(t)

LoopStep ==
  AwaitTunnel \/ AcceptFails \/ RefuseTunnel \/ DispatchTunnel
  \/ \E t \in Tunnels : AcceptTunnel(t)

JanitorStep == RemoveFolder \/ \E c \in Consumers : FolderAges(c) \/ Scan(c)

\* What the processes do of themselves once the rest of the world is quiet.
Progress ==
  \/ Advertise \/ LoopStep \/ JanitorStep
  \/ \E r \in Requests : OfferStep(r) \/ SweepRelay(r)
  \/ \E t \in Tunnels : ServeStep(t) \/ Expire(t)

Next ==
  \/ Progress
  \/ Available \/ Close
  \/ \E r \in Requests : PushOfferTo(r)
  \/ \E t \in Tunnels : Dial(t) \/ DialRelay(t)

Spec == Init /\ [][Next]_vars

\* Goroutines run, timers fire, and nothing else is assumed: neither that an
\* offer is made nor that a consumer dials.
FairSpec == Spec /\ WF_vars(Progress)

-----------------------------------------------------------------------------
(* Properties.                                                             *)

\* An offer is billed at most once, whatever tunnels its consumer opens: no
\* two serves hold one reservation, none holds one that is still registered,
\* and at most one usage report is sent under it (consumeReservation).
BilledOnce ==
  LET holds(t, r) == serve[t].res = r /\ serve[t].step # "consume" IN
  \A r \in Requests :
    /\ reported[r] <= 1
    /\ Cardinality({t \in Tunnels : holds(t, r)}) + reported[r]
         + (IF r \in reservations THEN 1 ELSE 0) <= 1

\* However Bind calls overlap, the listener the acceptor points at is open:
\* no Bind closes the listener another one has just installed.
CurrentIsOpen == cur # None => cur \in open

\* A consumer the broker told of an acceptance has a reservation waiting or
\* used: the decision never overtakes the registration (HandleOffer).
AcceptedIsReserved ==
  \A r \in Requests : push[r] = "accepted" =>
    \/ r \in reservations
    \/ reported[r] = 1
    \/ \E t \in Tunnels : serve[t].step # "none"

\* The janitor's view is exact: a client counts as active just while some
\* serve of it is under way, whichever way serves end (activeClients).
ActiveIsServing ==
  \A c \in Consumers :
    active[c] = Cardinality({t \in Serving : Consumer[serve[t].res] = c})

\* The broker is answered about every offer it pushed and every serve ends,
\* also when its tunnel or its client folder is gone: a serve that hung would
\* keep its client active, and its folder on disk, for ever.
EverythingEnds ==
  []<>(/\ \A r \in Requests : push[r] # "open"
       /\ \A t \in Tunnels : serve[t].step \in {"none", "done"})

\* What serving leaves behind is cleaned up: in the end every client folder is
\* removed and every relay session has expired (Janitor.Scan, Sweep).
Reaped == <>[](folders = {} /\ relays = {})

\* One reservation is billed at most once and the acceptor, the reservations and the table of
\* active clients fit the offers and serves there are (HandleOffer, Bind, Serve).
SeederInv == TypeOK /\ BilledOnce /\ CurrentIsOpen /\ AcceptedIsReserved /\ ActiveIsServing
=============================================================================
