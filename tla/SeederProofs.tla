---------------------------- MODULE SeederProofs ----------------------------
(***************************************************************************)
(* Safety of the seeder for any offers, consumers and tunnels, and any     *)
(* failures and refusals: an offer is billed at most once, the acceptor's  *)
(* listener is open, accepted offers have their reservation, and the table *)
(* of active clients counts the serves under way.                          *)
(***************************************************************************)
EXTENDS Seeder, FiniteSetTheorems, TLAPS

\* The steps of HandleOffer once Bind has installed the listener, and once the
\* reservation is registered.
Installed == {"closing", "reserving", "deciding", "done"}
Registered == {"deciding", "done"}

\* An offer is handled once.
HandledOnce == \A r \in Requests : push[r] = "none" => handler[r] = "none"

\* A listener is installed once: those that Bind has read, and the current
\* one, are of offers that have got as far, and no Bind is about to close the
\* current one.
BindsInOrder ==
  /\ cur # None => handler[cur] \in Installed
  /\ \A r \in Requests :
       /\ handler[r] \in {"binding", "closing"} /\ prev[r] # None => handler[prev[r]] \in Installed
       /\ handler[r] = "closing" /\ cur # None => prev[r] # cur

\* Reservations are of offers that have registered them.
ReservationsRegistered ==
  \A r \in Requests :
    (r \in reservations \/ reported[r] # 0 \/ \E t \in Tunnels : serve[t].res = r)
      => handler[r] \in Registered

\* The serve that has consumed the reservation of r.
Holds(t, r) == serve[t].res = r /\ serve[t].step # "consume"

\* A reservation is registered, held by one serve, or reported: one of them.
HeldOnce ==
  /\ \A r \in Requests : reported[r] \in {0, 1} /\ (r \in reservations => reported[r] = 0)
  /\ \A r \in Requests, t \in Tunnels :
       Holds(t, r) => /\ r \notin reservations /\ reported[r] = 0
                      /\ \A u \in Tunnels : Holds(u, r) => u = t

\* A serve under way has its reservation, any other has none.
ServesHaveReservations ==
  \A t \in Tunnels : serve[t].res = None <=> serve[t].step \in {"none", "done"}

\* A tunnel is accepted once and served once.
ServedOnce ==
  /\ \A t \in Tunnels : tun[t] \in {"none", "queued"} => serve[t].step = "none"
  /\ loop.holds # None => tun[loop.holds] \notin {"none", "queued"} /\ serve[loop.holds].step = "none"

\* What AcceptedIsReserved says holds from the registration on.
DecidingIsReserved ==
  \A r \in Requests : handler[r] = "deciding" =>
    \/ r \in reservations
    \/ reported[r] = 1
    \/ \E t \in Tunnels : serve[t].step # "none"

ClientServes(c) == {t \in Serving : Consumer[serve[t].res] = c}

\* At any time finitely many serves are under way.
ServingFinite == \A c \in Consumers : IsFiniteSet(ClientServes(c))

IInv ==
  /\ TypeOK /\ HandledOnce /\ BindsInOrder /\ CurrentIsOpen
  /\ ReservationsRegistered /\ HeldOnce /\ ServesHaveReservations /\ ServedOnce
  /\ DecidingIsReserved /\ AcceptedIsReserved
  /\ ServingFinite /\ ActiveIsServing

\* The inductive invariant holds before the first offer.
LEMMA InitIInv == Init => IInv
<1> SUFFICES ASSUME Init PROVE IInv OBVIOUS
<1> USE SeederAssumption
<1>1. Shapes
  BY DEF Init, Shapes, HandlerSteps, ServeSteps, TunnelStates
<1>2. TypeOK BY <1>1 DEF Init, TypeOK
<1>3. HandledOnce /\ BindsInOrder /\ CurrentIsOpen
  BY DEF Init, HandledOnce, BindsInOrder, CurrentIsOpen
<1>4. ReservationsRegistered /\ HeldOnce /\ ServesHaveReservations
  BY DEF Init, ReservationsRegistered, HeldOnce, Holds, ServesHaveReservations
<1>5. ServedOnce /\ DecidingIsReserved /\ AcceptedIsReserved
  BY DEF Init, ServedOnce, DecidingIsReserved, AcceptedIsReserved
<1>6. ServingFinite /\ ActiveIsServing
  <2>1. Serving = {} BY DEF Init, Serving
  <2>2. \A c \in Consumers : ClientServes(c) = {} BY <2>1 DEF ClientServes
  <2>3. QED BY <2>2, FS_EmptySet DEF Init, ServingFinite, ActiveIsServing, ClientServes
<1>7. QED BY <1>2, <1>3, <1>4, <1>5, <1>6 DEF IInv

-----------------------------------------------------------------------------
(* What the steps of a serve do.                                           *)

\* One serve changes and the others stay.
ServeMoves(t, step, res) ==
  /\ serve' \in [Tunnels -> [step : ServeSteps, res : Requests \cup {None}]]
  /\ \A u \in Tunnels \ {t} : serve'[u] = serve[u]
  /\ serve'[t].step = step /\ serve'[t].res = res

\* A step of a serve changes that serve only.
LEMMA StepMoves ==
  ASSUME Shapes, NEW t \in Tunnels, NEW step \in ServeSteps, Step(t, step)
  PROVE  ServeMoves(t, step, serve[t].res)
BY DEF Shapes, Step, ServeMoves

\* A serve that ends has given up its reservation.
LEMMA FinishMoves ==
  ASSUME Shapes, NEW t \in Tunnels, Finish(t)
  PROVE  ServeMoves(t, "done", None)
BY DEF Shapes, Finish, ServeMoves, ServeSteps

\* One tunnel changes, of those that are in hand, and is in hand no more.
LEMMA ToldMoves ==
  ASSUME Shapes, NEW t \in Tunnels, NEW state \in {"refused", "broken", "served"}, Told(t, state)
  PROVE  /\ tun' \in [Tunnels -> TunnelStates]
         /\ \A u \in Tunnels : tun'[u] \in {"none", "queued"} => tun[u] = tun'[u]
BY DEF Shapes, Told, TunnelStates

\* A handshake changes one tunnel.
LEMMA HandshakeMoves ==
  ASSUME Shapes, NEW t \in Tunnels, Handshake(t)
  PROVE  /\ tun' \in [Tunnels -> TunnelStates]
         /\ \A u \in Tunnels \ {t} : tun'[u] = tun[u]
BY DEF Shapes, Handshake, TunnelStates

-----------------------------------------------------------------------------
(* Types.                                                                  *)

\* An offer's steps keep the shapes.
LEMMA OfferShapes ==
  ASSUME Shapes, NEW r \in Requests, OfferStep(r) \/ PushOfferTo(r) \/ SweepRelay(r) PROVE Shapes'
<1> USE SeederAssumption DEF Shapes, gateVars, acceptorVars, tunnelVars, folderVars, offerVars
<1>1. CASE PushOfferTo(r) BY <1>1 DEF PushOfferTo, HandlerSteps
<1>2. CASE OfferTimeout(r) BY <1>2 DEF OfferTimeout
<1>3. CASE RejectOffer(r) BY <1>3 DEF RejectOffer, Answered, HandlerSteps
<1>4. CASE StartBind(r) BY <1>4 DEF StartBind, HandlerSteps
<1>5. CASE InstallListener(r) BY <1>5 DEF InstallListener, HandlerSteps
<1>6. CASE ClosePrevious(r) BY <1>6 DEF ClosePrevious, HandlerSteps
<1>7. CASE RegisterReservation(r) BY <1>7 DEF RegisterReservation, HandlerSteps
<1>8. CASE AcceptOffer(r) BY <1>8 DEF AcceptOffer, Answered, HandlerSteps
<1>9. CASE SweepRelay(r) BY <1>9 DEF SweepRelay
<1>10. QED BY <1>1, <1>2, <1>3, <1>4, <1>5, <1>6, <1>7, <1>8, <1>9 DEF OfferStep

\* So do the consumers' dials and the accept loop.
LEMMA TunnelShapes ==
  ASSUME Shapes,
         \/ LoopStep
         \/ \E t \in Tunnels : Dial(t) \/ DialRelay(t) \/ Expire(t)
  PROVE  Shapes'
<1> USE SeederAssumption DEF Shapes, gateVars, acceptorVars, folderVars, offerVars
<1>1. ASSUME NEW t \in Tunnels, Dial(t) PROVE Shapes'
  BY <1>1, HandshakeMoves DEF Dial
<1>2. ASSUME NEW t \in Tunnels, DialRelay(t) PROVE Shapes'
  <2>1. tun' \in [Tunnels -> TunnelStates]
    BY <1>2, HandshakeMoves DEF DialRelay, TunnelStates
  <2>2. relays' \subseteq Requests
    BY <1>2 DEF DialRelay, Req, Tunnels
  <2>3. QED BY <1>2, <2>1, <2>2 DEF DialRelay
<1>3. ASSUME NEW t \in Tunnels, Expire(t) PROVE Shapes'
  BY <1>3 DEF Expire, TunnelStates
<1>4. CASE AwaitTunnel \/ AcceptFails
  BY <1>4 DEF AwaitTunnel, AcceptFails
<1>5. CASE RefuseTunnel
  <2>1. tun' \in [Tunnels -> TunnelStates]
    BY <1>5, ToldMoves DEF RefuseTunnel
  <2>2. QED BY <1>5, <2>1 DEF RefuseTunnel
<1>6. CASE DispatchTunnel
  BY <1>6 DEF DispatchTunnel, ServeSteps
<1>7. ASSUME NEW t \in Tunnels, AcceptTunnel(t) PROVE Shapes'
  BY <1>7 DEF AcceptTunnel, TunnelStates
<1>8. QED BY <1>1, <1>2, <1>3, <1>4, <1>5, <1>6, <1>7 DEF LoopStep

\* A serve under way has a reservation, and its client is counted.
LEMMA ServingIsCounted ==
  ASSUME Shapes, ServesHaveReservations, ServingFinite, ActiveIsServing, NEW t \in Serving
  PROVE  /\ serve[t].res \in Requests /\ Consumer[serve[t].res] \in Consumers
         /\ active[Consumer[serve[t].res]] \in Nat \ {0}
<1>1. t \in Tunnels /\ serve[t].step \in {"prepare", "bridge", "report"} BY DEF Serving
<1>2. serve[t].res \in Requests
  BY <1>1 DEF Shapes, ServesHaveReservations
<1>3. Consumer[serve[t].res] \in Consumers BY <1>2, SeederAssumption
<1> DEFINE c == Consumer[serve[t].res]
<1>4. t \in ClientServes(c) BY DEF ClientServes
<1>5. IsFiniteSet(ClientServes(c)) BY <1>3 DEF ServingFinite
<1>6. Cardinality(ClientServes(c)) \in Nat /\ Cardinality(ClientServes(c)) # 0
  BY <1>4, <1>5, FS_EmptySet, FS_CardinalityType
<1>7. active[c] = Cardinality(ClientServes(c))
  BY <1>3 DEF ActiveIsServing, ClientServes
<1>8. QED BY <1>2, <1>3, <1>6, <1>7

\* A serve's end is counted.
LEMMA UnregisterMoves ==
  ASSUME active \in [Consumers -> Nat], NEW c \in Consumers, active[c] \in Nat \ {0}, UnregisterActive(c)
  PROVE  /\ active' \in [Consumers -> Nat]
         /\ active'[c] = active[c] - 1
         /\ \A d \in Consumers \ {c} : active'[d] = active[d]
<1>1. active[c] - 1 \in Nat OBVIOUS
<1>2. QED BY <1>1 DEF UnregisterActive

\* A serve's steps keep the shapes: UnregisterActive never goes below zero.
LEMMA ServeShapes ==
  ASSUME Shapes, ServesHaveReservations, ServingFinite, ActiveIsServing,
         NEW t \in Tunnels, ServeStep(t)
  PROVE  Shapes'
<1> USE SeederAssumption DEF Shapes, gateVars, acceptorVars, folderVars, offerVars
<1>1. serve' \in [Tunnels -> [step : ServeSteps, res : Requests \cup {None}]]
  <2>1. Finish(t) \/ \E step \in ServeSteps : Step(t, step)
    BY DEF ServeStep, ConsumeReservation, ReadRequest, PrepareRun, BridgeFails, BridgeServes,
       ReportUsage, ServeSteps
  <2>2. QED BY <2>1, FinishMoves, StepMoves DEF ServeMoves
<1>2. tun' \in [Tunnels -> TunnelStates]
  <2>1. UNCHANGED tun \/ \E state \in {"refused", "broken", "served"} : Told(t, state)
    BY DEF ServeStep, ConsumeReservation, ReadRequest, PrepareRun, BridgeFails, BridgeServes,
       ReportUsage
  <2>2. QED BY <2>1, ToldMoves
<1>3. CASE ConsumeReservation(t)
  BY <1>1, <1>2, <1>3 DEF ConsumeReservation
<1>4. CASE ReadRequest(t)
  <2>1. active' \in [Consumers -> Nat]
    BY <1>4 DEF ReadRequest, RegisterActive
  <2>2. QED BY <1>1, <1>2, <1>4, <2>1 DEF ReadRequest
<1>5. CASE PrepareRun(t)
  <2>1. t \in Serving BY <1>5 DEF PrepareRun, Serving
  <2>2. Consumer[serve[t].res] \in Consumers BY <2>1, ServingIsCounted
  <2>3. QED BY <1>1, <1>2, <1>5, <2>2 DEF PrepareRun
<1>6. CASE BridgeFails(t)
  <2>1. t \in Serving BY <1>6 DEF BridgeFails, Serving
  <2>2. active' \in [Consumers -> Nat]
    BY <1>6, <2>1, ServingIsCounted, UnregisterMoves DEF BridgeFails
  <2>3. QED BY <1>1, <1>2, <1>6, <2>2 DEF BridgeFails
<1>7. CASE BridgeServes(t)
  BY <1>1, <1>2, <1>7 DEF BridgeServes
<1>8. CASE ReportUsage(t)
  <2>1. t \in Serving BY <1>8 DEF ReportUsage, Serving
  <2>2. active' \in [Consumers -> Nat]
    BY <1>8, <2>1, ServingIsCounted, UnregisterMoves DEF ReportUsage
  <2>3. reported' \in [Requests -> Nat]
    BY <1>8 DEF ReportUsage
  <2>4. QED BY <1>1, <1>2, <1>8, <2>2, <2>3 DEF ReportUsage
<1>9. QED BY <1>3, <1>4, <1>5, <1>6, <1>7, <1>8 DEF ServeStep

\* Every step keeps the shapes.
LEMMA NextShapes ==
  ASSUME Shapes, ServesHaveReservations, ServingFinite, ActiveIsServing, [Next]_vars
  PROVE  Shapes'
<1> USE SeederAssumption
<1>1. CASE Available \/ Advertise
  BY <1>1 DEF Available, Advertise, Shapes, acceptorVars, folderVars, offerVars, tunnelVars
<1>2. CASE Close
  BY <1>2 DEF Close, Shapes, gateVars, folderVars, offerVars, tunnelVars
<1>3. CASE JanitorStep
  BY <1>3 DEF JanitorStep, RemoveFolder, FolderAges, Scan, Shapes, gateVars, acceptorVars, offerVars,
     tunnelVars
<1>4. CASE UNCHANGED vars
  BY <1>4 DEF vars, Shapes
<1>5. QED
  BY <1>1, <1>2, <1>3, <1>4, OfferShapes, TunnelShapes, ServeShapes DEF Next, Progress

\* Failures, refusals and changes of availability stay within their budget.
LEMMA NextEvents == events \in 0..MaxEvents /\ [Next]_vars => events' \in 0..MaxEvents
<1> SUFFICES ASSUME events \in 0..MaxEvents, [Next]_vars PROVE events' \in 0..MaxEvents OBVIOUS
<1>1. (Event \/ UNCHANGED events) => events' \in 0..MaxEvents
  BY SeederAssumption DEF Event
<1>2. ASSUME NEW r \in Requests, OfferStep(r) \/ PushOfferTo(r) \/ SweepRelay(r)
      PROVE  Event \/ UNCHANGED events
  BY <1>2 DEF OfferStep, PushOfferTo, SweepRelay, OfferTimeout, RejectOffer, StartBind,
     InstallListener, ClosePrevious, RegisterReservation, AcceptOffer
<1>3. ASSUME NEW t \in Tunnels, ServeStep(t) \/ Expire(t) \/ Dial(t) \/ DialRelay(t)
      PROVE  Event \/ UNCHANGED events
  BY <1>3 DEF ServeStep, ConsumeReservation, ReadRequest, PrepareRun, BridgeFails, BridgeServes,
     ReportUsage, Expire, Dial, DialRelay
<1>4. CASE LoopStep \/ JanitorStep
  BY <1>1, <1>4 DEF LoopStep, AwaitTunnel, AcceptFails, RefuseTunnel, DispatchTunnel, AcceptTunnel,
     JanitorStep, RemoveFolder, FolderAges, Scan
<1>5. CASE Advertise \/ Available \/ Close \/ UNCHANGED vars
  BY <1>1, <1>5 DEF Advertise, Available, Close, vars
<1>6. QED BY <1>1, <1>2, <1>3, <1>4, <1>5 DEF Next, Progress

-----------------------------------------------------------------------------
(* Offers and listeners.                                                   *)

\* Only the steps of an offer and Close touch the offers and the acceptor.
LEMMA OfferQuiet ==
  ASSUME [Next]_vars
  PROVE  \/ UNCHANGED <<push, handler, prev, cur, open>>
         \/ Close
         \/ \E r \in Requests : OfferStep(r) \/ PushOfferTo(r)
<1>1. \A t \in Tunnels : ServeStep(t) \/ Expire(t) \/ Dial(t) \/ DialRelay(t)
        => UNCHANGED <<push, handler, prev, cur, open>>
  BY DEF ServeStep, ConsumeReservation, ReadRequest, PrepareRun, BridgeFails, BridgeServes,
     ReportUsage, Expire, Dial, DialRelay, offerVars, acceptorVars
<1>2. LoopStep \/ JanitorStep => UNCHANGED <<push, handler, prev, cur, open>>
  BY DEF LoopStep, AwaitTunnel, AcceptFails, RefuseTunnel, DispatchTunnel, AcceptTunnel,
     JanitorStep, RemoveFolder, FolderAges, Scan, offerVars, acceptorVars
<1>3. QED
  BY <1>1, <1>2 DEF Next, Progress, Advertise, Available, SweepRelay, vars, offerVars, acceptorVars

\* A listener is read, replaced and closed by offers that come after its own.
LEMMA NextBind ==
  ASSUME Shapes, HandledOnce, BindsInOrder, CurrentIsOpen, [Next]_vars
  PROVE  HandledOnce' /\ BindsInOrder' /\ CurrentIsOpen'
<1> USE SeederAssumption DEF Shapes, HandledOnce, BindsInOrder, CurrentIsOpen, Installed
<1>1. CASE UNCHANGED <<push, handler, prev, cur, open>>
  BY <1>1
<1>2. CASE Close
  BY <1>2 DEF Close, offerVars
<1>3. ASSUME NEW r \in Requests, OfferStep(r) \/ PushOfferTo(r)
      PROVE  HandledOnce' /\ BindsInOrder' /\ CurrentIsOpen'
  <2>1. CASE PushOfferTo(r)
    BY <2>1 DEF PushOfferTo, acceptorVars
  <2>2. CASE OfferTimeout(r)
    BY <2>2 DEF OfferTimeout, acceptorVars
  <2>3. CASE RejectOffer(r)
    BY <2>3 DEF RejectOffer, Answered, acceptorVars
  <2>4. CASE StartBind(r)
    BY <2>4 DEF StartBind, acceptorVars
  <2>5. CASE InstallListener(r)
    BY <2>5 DEF InstallListener
  <2>6. CASE ClosePrevious(r)
    BY <2>6 DEF ClosePrevious
  <2>7. CASE RegisterReservation(r)
    BY <2>7 DEF RegisterReservation, acceptorVars
  <2>8. CASE AcceptOffer(r)
    BY <2>8 DEF AcceptOffer, Answered, acceptorVars
  <2>9. QED BY <1>3, <2>1, <2>2, <2>3, <2>4, <2>5, <2>6, <2>7, <2>8 DEF OfferStep
<1>4. QED BY OfferQuiet, <1>1, <1>2, <1>3

-----------------------------------------------------------------------------
(* Reservations.                                                           *)

\* Only these steps touch the reservations, the reports and the serves.
LEMMA HeldQuiet ==
  ASSUME [Next]_vars
  PROVE  \/ UNCHANGED <<reservations, reported, serve>>
         \/ \E r \in Requests : RegisterReservation(r)
         \/ DispatchTunnel
         \/ \E t \in Tunnels : ServeStep(t)
<1>1. \A t \in Tunnels : Expire(t) \/ Dial(t) \/ DialRelay(t)
        => UNCHANGED <<reservations, reported, serve>>
  BY DEF Expire, Dial, DialRelay
<1>2. JanitorStep => UNCHANGED <<reservations, reported, serve>>
  BY DEF JanitorStep, RemoveFolder, FolderAges, Scan, tunnelVars
<1>3. LoopStep => DispatchTunnel \/ UNCHANGED <<reservations, reported, serve>>
  BY DEF LoopStep, AwaitTunnel, AcceptFails, RefuseTunnel, AcceptTunnel
<1>4. \A r \in Requests : OfferStep(r) \/ PushOfferTo(r) \/ SweepRelay(r)
        => RegisterReservation(r) \/ UNCHANGED <<reservations, reported, serve>>
  BY DEF OfferStep, PushOfferTo, SweepRelay, OfferTimeout, RejectOffer, StartBind,
     InstallListener, ClosePrevious, AcceptOffer, tunnelVars
<1>5. QED
  BY <1>1, <1>2, <1>3, <1>4 DEF Next, Progress, Advertise, Available, Close, vars, tunnelVars

\* An offer stays registered; only RegisterReservation makes it so, and the
\* broker reads an acceptance from a registered offer.
LEMMA RegisteredStays ==
  ASSUME Shapes, HandledOnce, [Next]_vars, NEW r \in Requests
  PROVE  /\ handler[r] \in Registered => handler'[r] \in Registered
         /\ handler'[r] = "deciding" => handler[r] = "deciding" \/ RegisterReservation(r)
         /\ push'[r] = "accepted" => push[r] = "accepted" \/ handler[r] = "deciding"
<1> DEFINE Goal == /\ handler[r] \in Registered => handler'[r] \in Registered
                   /\ handler'[r] = "deciding" => handler[r] = "deciding" \/ RegisterReservation(r)
                   /\ push'[r] = "accepted" => push[r] = "accepted" \/ handler[r] = "deciding"
<1> SUFFICES Goal OBVIOUS
<1>1. CASE UNCHANGED <<push, handler, prev, cur, open>> BY <1>1
<1>2. CASE Close BY <1>2 DEF Close, offerVars
<1>3. ASSUME NEW q \in Requests, OfferStep(q) \/ PushOfferTo(q) PROVE Goal
  <2> USE DEF Shapes, Registered, HandledOnce
  <2>1. CASE PushOfferTo(q) BY <2>1 DEF PushOfferTo
  <2>2. CASE OfferTimeout(q) BY <2>2 DEF OfferTimeout
  <2>3. CASE RejectOffer(q) BY <2>3 DEF RejectOffer, Answered
  <2>4. CASE StartBind(q) BY <2>4 DEF StartBind
  <2>5. CASE InstallListener(q) BY <2>5 DEF InstallListener
  <2>6. CASE ClosePrevious(q) BY <2>6 DEF ClosePrevious
  <2>7. CASE RegisterReservation(q) BY <2>7 DEF RegisterReservation
  <2>8. CASE AcceptOffer(q) BY <2>8 DEF AcceptOffer, Answered
  <2>9. QED BY <1>3, <2>1, <2>2, <2>3, <2>4, <2>5, <2>6, <2>7, <2>8 DEF OfferStep
<1>4. QED BY OfferQuiet, <1>1, <1>2, <1>3

\* What the steps of a serve do to the reservation it was given.
Consumes(t) ==
  /\ serve[t].step = "consume" /\ serve[t].res \in reservations
  /\ ServeMoves(t, "read", serve[t].res)
  /\ reservations' = reservations \ {serve[t].res} /\ UNCHANGED reported

GoesOn(t) ==
  /\ serve[t].step \in {"read", "prepare", "bridge"}
  /\ \E s \in {"prepare", "bridge", "report"} : ServeMoves(t, s, serve[t].res)
  /\ UNCHANGED <<reservations, reported>>

Returns(t) ==
  /\ serve[t].step \notin {"none", "done"}
  /\ ServeMoves(t, "done", None)
  /\ UNCHANGED <<reservations, reported>>

Reports(t) ==
  /\ serve[t].step = "report"
  /\ ServeMoves(t, "done", None)
  /\ UNCHANGED reservations
  /\ reported' = [reported EXCEPT ![serve[t].res] = @ + 1]

\* What a step of a serve may do.
LEMMA ServeKinds ==
  ASSUME Shapes, NEW t \in Tunnels, ServeStep(t)
  PROVE  Consumes(t) \/ GoesOn(t) \/ Returns(t) \/ Reports(t)
<1> USE FinishMoves, StepMoves DEF ServeSteps
<1>1. CASE ConsumeReservation(t)
  <2>1. CASE serve[t].res \in reservations
    BY <1>1, <2>1 DEF ConsumeReservation, Consumes
  <2>2. CASE serve[t].res \notin reservations
    BY <1>1, <2>2 DEF ConsumeReservation, Returns
  <2>3. QED BY <2>1, <2>2
<1>2. CASE ReadRequest(t) BY <1>2 DEF ReadRequest, Returns, GoesOn
<1>3. CASE PrepareRun(t) BY <1>3 DEF PrepareRun, GoesOn
<1>4. CASE BridgeFails(t) BY <1>4 DEF BridgeFails, Returns
<1>5. CASE BridgeServes(t) BY <1>5 DEF BridgeServes, GoesOn, folderVars
<1>6. CASE ReportUsage(t) BY <1>6 DEF ReportUsage, Returns, Reports
<1>7. QED BY <1>1, <1>2, <1>3, <1>4, <1>5, <1>6 DEF ServeStep

\* A serve is dispatched for a tunnel that has none.
LEMMA DispatchMoves ==
  ASSUME Shapes, ServedOnce, DispatchTunnel
  PROVE  \E t \in Tunnels, r \in reservations :
           /\ t = loop.holds /\ serve[t].step = "none"
           /\ ServeMoves(t, "consume", r)
           /\ UNCHANGED <<reservations, reported, tun>>
BY SeederAssumption DEF Shapes, ServedOnce, DispatchTunnel, ServeMoves, ServeSteps

\* A serve has its reservation from dispatch to return.
LEMMA NextServes ==
  ASSUME Shapes, ServedOnce, ServesHaveReservations, [Next]_vars
  PROVE  ServesHaveReservations'
<1> USE SeederAssumption DEF ServesHaveReservations
<1>1. CASE UNCHANGED <<reservations, reported, serve>> BY <1>1
<1>2. ASSUME NEW r \in Requests, RegisterReservation(r) PROVE ServesHaveReservations'
  BY <1>2 DEF RegisterReservation, tunnelVars
<1>3. CASE DispatchTunnel
  BY <1>3, DispatchMoves DEF ServeMoves, Shapes
<1>4. ASSUME NEW t \in Tunnels, ServeStep(t) PROVE ServesHaveReservations'
  <2>1. CASE Consumes(t) BY <2>1 DEF Consumes, ServeMoves
  <2>2. CASE GoesOn(t) BY <2>2 DEF GoesOn, ServeMoves
  <2>3. CASE Returns(t) BY <2>3 DEF Returns, ServeMoves
  <2>4. CASE Reports(t) BY <2>4 DEF Reports, ServeMoves
  <2>5. QED BY <1>4, ServeKinds, <2>1, <2>2, <2>3, <2>4
<1>5. QED BY HeldQuiet, <1>1, <1>2, <1>3, <1>4

\* A reservation passes from the table to one serve and from it to the tracker.
LEMMA NextHeld ==
  ASSUME Shapes, ServedOnce, ServesHaveReservations, ReservationsRegistered, HeldOnce, [Next]_vars
  PROVE  HeldOnce'
<1> USE SeederAssumption DEF HeldOnce, Holds, Shapes
<1>1. CASE UNCHANGED <<reservations, reported, serve>> BY <1>1
<1>2. ASSUME NEW r \in Requests, RegisterReservation(r) PROVE HeldOnce'
  <2>1. r \notin reservations /\ reported[r] = 0 /\ \A t \in Tunnels : serve[t].res # r
    BY <1>2 DEF RegisterReservation, ReservationsRegistered, Registered
  <2>2. QED BY <1>2, <2>1 DEF RegisterReservation, tunnelVars
<1>3. CASE DispatchTunnel
  BY <1>3, DispatchMoves DEF ServeMoves
<1>4. ASSUME NEW t \in Tunnels, ServeStep(t) PROVE HeldOnce'
  <2>1. CASE Consumes(t)
    <3> DEFINE q == serve[t].res
    <3>1. q \in Requests /\ q \in reservations BY <2>1 DEF Consumes
    <3>2. \A u \in Tunnels : ~ Holds(u, q) BY <3>1
    <3>3. \A u \in Tunnels, r \in Requests : Holds(u, r)' => Holds(u, r) \/ (u = t /\ r = q)
      BY <2>1 DEF Consumes, ServeMoves
    <3>4. reservations' = reservations \ {q} /\ reported' = reported BY <2>1 DEF Consumes
    <3>5. QED BY <3>1, <3>2, <3>3, <3>4
  <2>2. CASE GoesOn(t)
    <3>1. \A u \in Tunnels, r \in Requests : Holds(u, r)' => Holds(u, r)
      BY <2>2 DEF GoesOn, ServeMoves
    <3>2. QED BY <2>2, <3>1 DEF GoesOn
  <2>3. CASE Returns(t)
    <3>1. \A u \in Tunnels, r \in Requests : Holds(u, r)' => Holds(u, r)
      BY <2>3 DEF Returns, ServeMoves
    <3>2. QED BY <2>3, <3>1 DEF Returns
  <2>4. CASE Reports(t)
    <3> DEFINE q == serve[t].res
    <3>1. q \in Requests /\ Holds(t, q) BY <2>4 DEF Reports, ServesHaveReservations
    <3>2. reported[q] = 0 /\ q \notin reservations BY <3>1
    <3>3. reported'[q] = 1 /\ \A r \in Requests \ {q} : reported'[r] = reported[r]
      BY <2>4, <3>1, <3>2 DEF Reports
    <3>4. \A u \in Tunnels, r \in Requests : Holds(u, r)' => Holds(u, r) /\ r # q
      BY <2>4, <3>1 DEF Reports, ServeMoves
    <3>5. reservations' = reservations BY <2>4 DEF Reports
    <3>6. QED BY <3>1, <3>2, <3>3, <3>4, <3>5
  <2>5. QED BY <1>4, ServeKinds, <2>1, <2>2, <2>3, <2>4
<1>5. QED BY HeldQuiet, <1>1, <1>2, <1>3, <1>4

\* Whoever has a reservation has it from the offer that registered it.
LEMMA NextRegistered ==
  ASSUME Shapes, HandledOnce, ServedOnce, ServesHaveReservations, ReservationsRegistered, [Next]_vars
  PROVE  ReservationsRegistered'
<1> DEFINE Known(r) == r \in reservations \/ reported[r] # 0 \/ \E t \in Tunnels : serve[t].res = r
<1> SUFFICES ASSUME NEW r \in Requests, Known(r)', ~ Known(r) PROVE handler'[r] \in Registered
  BY RegisteredStays DEF ReservationsRegistered
<1>1. CASE UNCHANGED <<reservations, reported, serve>> BY <1>1
<1>2. ASSUME NEW q \in Requests, RegisterReservation(q) PROVE handler'[r] \in Registered
  BY <1>2 DEF RegisterReservation, tunnelVars, Registered, Shapes
<1>3. CASE DispatchTunnel
  BY <1>3, DispatchMoves DEF ServeMoves
<1>4. ASSUME NEW t \in Tunnels, ServeStep(t) PROVE FALSE
  <2>1. CASE Consumes(t) BY <2>1 DEF Consumes, ServeMoves
  <2>2. CASE GoesOn(t) BY <2>2 DEF GoesOn, ServeMoves
  <2>3. CASE Returns(t) BY <2>3, SeederAssumption DEF Returns, ServeMoves
  <2>4. CASE Reports(t)
    <3>1. r # serve[t].res OBVIOUS
    <3>2. reported'[r] = reported[r] /\ reservations' = reservations
      BY <2>4, <3>1 DEF Reports, Shapes
    <3>3. \A u \in Tunnels : serve'[u].res # r
      BY <2>4, SeederAssumption DEF Reports, ServeMoves
    <3>4. QED BY <3>2, <3>3
  <2>5. QED BY <1>4, ServeKinds, <2>1, <2>2, <2>3, <2>4
<1>5. QED BY HeldQuiet, <1>1, <1>2, <1>3, <1>4

\* From the registration on the reservation is in the table, reported, or a
\* serve has started.
LEMMA NextAccepted ==
  ASSUME Shapes, HandledOnce, ServedOnce, DecidingIsReserved, AcceptedIsReserved, [Next]_vars
  PROVE  DecidingIsReserved' /\ AcceptedIsReserved'
<1> DEFINE Started == \E t \in Tunnels : serve[t].step # "none"
           Kept(r) == r \in reservations \/ reported[r] = 1 \/ Started
<1>1. ASSUME NEW r \in Requests, RegisterReservation(r) \/ Kept(r) PROVE Kept(r)'
  <2>1. CASE UNCHANGED <<reservations, reported, serve>>
    BY <1>1, <2>1 DEF RegisterReservation
  <2>2. ASSUME NEW q \in Requests, RegisterReservation(q) PROVE Kept(r)'
    BY <1>1, <2>2 DEF RegisterReservation, tunnelVars
  <2>3. CASE DispatchTunnel
    <3>1. PICK t \in Tunnels, q \in reservations : ServeMoves(t, "consume", q) BY <2>3, DispatchMoves
    <3>2. serve'[t].step # "none" BY <3>1 DEF ServeMoves
    <3>3. QED BY <3>2
  <2>4. ASSUME NEW t \in Tunnels, ServeStep(t) PROVE Kept(r)'
    <3>1. serve'[t].step # "none"
      BY <2>4, ServeKinds DEF Consumes, GoesOn, Returns, Reports, ServeMoves
    <3>2. QED BY <3>1
  <2>5. QED BY HeldQuiet, <2>1, <2>2, <2>3, <2>4
<1>2. ASSUME NEW r \in Requests, handler'[r] = "deciding" \/ push'[r] = "accepted" PROVE Kept(r)'
  <2>1. RegisterReservation(r) \/ handler[r] = "deciding" \/ push[r] = "accepted"
    BY <1>2, RegisteredStays
  <2>2. QED BY <1>1, <2>1 DEF DecidingIsReserved, AcceptedIsReserved
<1>3. QED BY <1>2 DEF DecidingIsReserved, AcceptedIsReserved

-----------------------------------------------------------------------------
(* Tunnels.                                                                *)

\* A tunnel that is served has left the queue, and is not dispatched again.
LEMMA NextServedOnce ==
  ASSUME Shapes, ServedOnce, [Next]_vars
  PROVE  ServedOnce'
<1> USE SeederAssumption DEF ServedOnce
<1>1. ASSUME NEW t \in Tunnels, ServeStep(t) PROVE ServedOnce'
  <2>1. loop' = loop
    BY <1>1 DEF ServeStep, ConsumeReservation, ReadRequest, PrepareRun, BridgeFails, BridgeServes,
       ReportUsage
  <2>2. UNCHANGED tun \/ \E state \in {"refused", "broken", "served"} : Told(t, state)
    BY <1>1 DEF ServeStep, ConsumeReservation, ReadRequest, PrepareRun, BridgeFails, BridgeServes,
       ReportUsage
  <2>3. \A u \in Tunnels : tun'[u] \in {"none", "queued"} => tun[u] = tun'[u]
    BY <2>2, ToldMoves
  <2>4. serve[t].step # "none" /\ \A u \in Tunnels \ {t} : serve'[u] = serve[u]
    BY <1>1, ServeKinds DEF Consumes, GoesOn, Returns, Reports, ServeMoves
  <2>5. QED BY <2>1, <2>3, <2>4 DEF Shapes
<1>2. ASSUME NEW t \in Tunnels, Dial(t) \/ DialRelay(t) PROVE ServedOnce'
  <2>1. tun[t] = "none" /\ UNCHANGED <<loop, serve>> BY <1>2 DEF Dial, DialRelay
  <2>2. \A u \in Tunnels \ {t} : tun'[u] = tun[u]
    BY <1>2, HandshakeMoves DEF Dial, DialRelay, Shapes
  <2>3. QED BY <2>1, <2>2 DEF Shapes
<1>3. ASSUME NEW t \in Tunnels, Expire(t) PROVE ServedOnce'
  BY <1>3 DEF Expire, Shapes
<1>4. CASE AwaitTunnel \/ AcceptFails
  BY <1>4 DEF AwaitTunnel, AcceptFails, Shapes
<1>5. CASE RefuseTunnel
  <2>1. \A u \in Tunnels : tun'[u] \in {"none", "queued"} => tun[u] = tun'[u]
    BY <1>5, ToldMoves DEF RefuseTunnel, Shapes
  <2>2. QED BY <1>5, <2>1 DEF RefuseTunnel, Shapes
<1>6. CASE DispatchTunnel
  <2>1. PICK t \in Tunnels, r \in reservations :
          t = loop.holds /\ t # None /\ ServeMoves(t, "consume", r) /\ UNCHANGED tun
    BY <1>6, DispatchMoves DEF DispatchTunnel
  <2>2. loop'.holds = None BY <1>6 DEF DispatchTunnel, Shapes
  <2>3. QED BY <2>1, <2>2 DEF ServeMoves
<1>7. ASSUME NEW t \in Tunnels, AcceptTunnel(t) PROVE ServedOnce'
  BY <1>7 DEF AcceptTunnel, Shapes
<1>8. CASE UNCHANGED <<loop, tun, serve>> BY <1>8
<1>9. ASSUME NEW r \in Requests, OfferStep(r) \/ PushOfferTo(r) \/ SweepRelay(r)
      PROVE  UNCHANGED <<loop, tun, serve>>
  BY <1>9 DEF OfferStep, PushOfferTo, SweepRelay, OfferTimeout, RejectOffer, StartBind,
     InstallListener, ClosePrevious, RegisterReservation, AcceptOffer, tunnelVars
<1>10. CASE JanitorStep \/ Advertise \/ Available \/ Close \/ UNCHANGED vars
  BY <1>8, <1>10 DEF JanitorStep, RemoveFolder, FolderAges, Scan, Advertise, Available, Close, vars,
     tunnelVars
<1>11. QED
  BY <1>1, <1>2, <1>3, <1>4, <1>5, <1>6, <1>7, <1>8, <1>9, <1>10 DEF Next, Progress, LoopStep

-----------------------------------------------------------------------------
(* Active clients.                                                         *)

\* A table whose counts are those of finite sets keeps them when one element
\* comes or goes together with its count.
LEMMA CountsAdd ==
  ASSUME NEW S, IsFiniteSet(S), NEW t, t \notin S
  PROVE  IsFiniteSet(S \cup {t}) /\ Cardinality(S \cup {t}) = Cardinality(S) + 1
BY FS_AddElement

\* A finite set with one element less.
LEMMA CountsRemove ==
  ASSUME NEW S, IsFiniteSet(S), NEW t \in S
  PROVE  IsFiniteSet(S \ {t}) /\ Cardinality(S \ {t}) = Cardinality(S) - 1
BY FS_RemoveElement

\* Steps that start or end no counted serve leave the counts alone.
LEMMA SameServes ==
  ASSUME ServingFinite, ActiveIsServing, active' = active,
         \A c \in Consumers : ClientServes(c)' = ClientServes(c)
  PROVE  ServingFinite' /\ ActiveIsServing'
BY DEF ServingFinite, ActiveIsServing, ClientServes

\* A serve that is not counted before its step nor after it.
LEMMA UncountedServe ==
  ASSUME NEW t \in Tunnels, NEW step, NEW res, ServeMoves(t, step, res),
         t \notin Serving, step \notin {"prepare", "bridge", "report"}
  PROVE  \A c \in Consumers : ClientServes(c)' = ClientServes(c)
<1>1. \A u \in Tunnels : u \in Serving' <=> u \in Serving
  BY DEF ServeMoves, Serving
<1>2. \A u \in Serving : serve'[u].res = serve[u].res
  BY DEF ServeMoves, Serving
<1>3. Serving \subseteq Tunnels /\ Serving' \subseteq Tunnels BY DEF Serving
<1>4. QED BY <1>1, <1>2, <1>3 DEF ClientServes

\* A serve that stays counted for the same client.
LEMMA CountedServe ==
  ASSUME NEW t \in Tunnels, NEW step, ServeMoves(t, step, serve[t].res),
         t \in Serving, step \in {"prepare", "bridge", "report"}
  PROVE  \A c \in Consumers : ClientServes(c)' = ClientServes(c)
<1>1. \A u \in Tunnels : u \in Serving' <=> u \in Serving
  BY DEF ServeMoves, Serving
<1>2. \A u \in Tunnels : serve'[u].res = serve[u].res
  BY DEF ServeMoves
<1>3. Serving \subseteq Tunnels /\ Serving' \subseteq Tunnels BY DEF Serving
<1>4. QED BY <1>1, <1>2, <1>3 DEF ClientServes

\* A request is read and its consumer registered.
LEMMA RegisterCounts ==
  ASSUME Shapes, ServingFinite, ActiveIsServing, NEW t \in Tunnels, t \notin Serving,
         serve[t].res \in Requests,
         ServeMoves(t, "prepare", serve[t].res), RegisterActive(Consumer[serve[t].res])
  PROVE  ServingFinite' /\ ActiveIsServing'
<1>1. PICK k \in Consumers : k = Consumer[serve[t].res] BY SeederAssumption
<1>2. active'[k] = active[k] + 1 /\ \A c \in Consumers \ {k} : active'[c] = active[c]
  BY <1>1 DEF RegisterActive, Shapes
<1>3. t \notin ClientServes(k) BY <1>1 DEF ClientServes
<1>4. Serving' = Serving \cup {t}
  BY DEF ServeMoves, Serving
<1>5. \A u \in Tunnels : serve'[u].res = serve[u].res
  BY DEF ServeMoves
<1>6. Serving \subseteq Tunnels BY DEF Serving
<1>7. ClientServes(k)' = ClientServes(k) \cup {t}
  BY <1>1, <1>4, <1>5, <1>6 DEF ClientServes
<1>8. \A c \in Consumers \ {k} : ClientServes(c)' = ClientServes(c)
  BY <1>1, <1>4, <1>5, <1>6 DEF ClientServes
<1>9. IsFiniteSet(ClientServes(k)') /\ active'[k] = Cardinality(ClientServes(k)')
  <2>1. IsFiniteSet(ClientServes(k)) /\ active[k] = Cardinality(ClientServes(k))
    BY <1>1 DEF ServingFinite, ActiveIsServing, ClientServes
  <2>2. QED BY <1>2, <1>3, <1>7, <2>1, CountsAdd
<1>10. \A c \in Consumers \ {k} :
         IsFiniteSet(ClientServes(c)') /\ active'[c] = Cardinality(ClientServes(c)')
  BY <1>2, <1>8 DEF ServingFinite, ActiveIsServing, ClientServes
<1>11. \A c \in Consumers :
         IsFiniteSet(ClientServes(c)') /\ active'[c] = Cardinality(ClientServes(c)')
  BY <1>9, <1>10
<1>12. QED BY <1>11 DEF ServingFinite, ActiveIsServing, ClientServes

\* A counted serve returns and its consumer is unregistered.
LEMMA UnregisterCounts ==
  ASSUME Shapes, ServesHaveReservations, ServingFinite, ActiveIsServing, NEW t \in Serving,
         ServeMoves(t, "done", None), UnregisterActive(Consumer[serve[t].res])
  PROVE  ServingFinite' /\ ActiveIsServing'
<1>1. PICK k \in Consumers : k = Consumer[serve[t].res] /\ active[k] \in Nat \ {0}
  BY ServingIsCounted
<1>2. active'[k] = active[k] - 1 /\ \A c \in Consumers \ {k} : active'[c] = active[c]
  BY <1>1, UnregisterMoves DEF Shapes
<1>3. t \in ClientServes(k) BY <1>1 DEF ClientServes
<1>4. Serving' = Serving \ {t}
  BY DEF ServeMoves, Serving
<1>5. \A u \in Serving \ {t} : serve'[u].res = serve[u].res
  BY DEF ServeMoves, Serving
<1>6. ClientServes(k)' = ClientServes(k) \ {t}
  BY <1>1, <1>4, <1>5 DEF ClientServes
<1>7. ASSUME NEW c \in Consumers \ {k} PROVE ClientServes(c)' = ClientServes(c)
  <2>1. t \notin ClientServes(c) BY <1>1 DEF ClientServes
  <2>2. \A u \in Serving \ {t} : u \in ClientServes(c)' <=> u \in ClientServes(c)
    BY <1>1, <1>4, <1>5 DEF ClientServes
  <2>3. QED BY <1>4, <2>1, <2>2 DEF ClientServes
<1>8. IsFiniteSet(ClientServes(k)') /\ active'[k] = Cardinality(ClientServes(k)')
  <2>1. IsFiniteSet(ClientServes(k)) /\ active[k] = Cardinality(ClientServes(k))
    BY <1>1 DEF ServingFinite, ActiveIsServing, ClientServes
  <2>2. QED BY <1>2, <1>3, <1>6, <2>1, CountsRemove
<1>9. \A c \in Consumers \ {k} :
        IsFiniteSet(ClientServes(c)') /\ active'[c] = Cardinality(ClientServes(c)')
  BY <1>2, <1>7 DEF ServingFinite, ActiveIsServing, ClientServes
<1>10. \A c \in Consumers :
         IsFiniteSet(ClientServes(c)') /\ active'[c] = Cardinality(ClientServes(c)')
  BY <1>8, <1>9
<1>11. QED BY <1>10 DEF ServingFinite, ActiveIsServing, ClientServes

\* RegisterActive and UnregisterActive follow the serves, whichever way they end.
LEMMA NextActive ==
  ASSUME Shapes, ServesHaveReservations, ServedOnce, ServingFinite, ActiveIsServing, [Next]_vars
  PROVE  ServingFinite' /\ ActiveIsServing'
<1>1. ASSUME active' = active, serve' = serve PROVE ServingFinite' /\ ActiveIsServing'
  BY <1>1, SameServes DEF ClientServes, Serving
<1>2. ASSUME NEW t \in Tunnels, ServeStep(t) PROVE ServingFinite' /\ ActiveIsServing'
  <2>1. CASE ConsumeReservation(t)
    <3>1. t \notin Serving /\ active' = active
      BY <2>1 DEF ConsumeReservation, Serving, folderVars
    <3>2. ServeMoves(t, "read", serve[t].res) \/ ServeMoves(t, "done", None)
      BY <2>1, StepMoves, FinishMoves DEF ConsumeReservation, ServeSteps
    <3>3. QED BY <3>1, <3>2, UncountedServe, SameServes
  <2>2. CASE ReadRequest(t)
    <3>1. t \notin Serving BY <2>2 DEF ReadRequest, Serving
    <3>2. CASE Finish(t) /\ active' = active
      BY <3>1, <3>2, FinishMoves, UncountedServe, SameServes
    <3>3. CASE Step(t, "prepare") /\ RegisterActive(Consumer[serve[t].res])
      <4>1. serve[t].res \in Requests
        BY <2>2 DEF ReadRequest, Shapes, ServesHaveReservations
      <4>2. QED BY <3>1, <3>3, <4>1, StepMoves, RegisterCounts DEF ServeSteps
    <3>4. QED BY <2>2, <3>2, <3>3 DEF ReadRequest
  <2>3. CASE PrepareRun(t)
    <3>1. t \in Serving /\ active' = active BY <2>3 DEF PrepareRun, Serving
    <3>2. ServeMoves(t, "bridge", serve[t].res)
      BY <2>3, StepMoves DEF PrepareRun, ServeSteps
    <3>3. QED BY <3>1, <3>2, CountedServe, SameServes
  <2>4. CASE BridgeFails(t) \/ ReportUsage(t)
    <3>1. t \in Serving BY <2>4 DEF BridgeFails, ReportUsage, Serving
    <3>2. ServeMoves(t, "done", None)
      BY <2>4, FinishMoves DEF BridgeFails, ReportUsage
    <3>3. UnregisterActive(Consumer[serve[t].res])
      BY <2>4 DEF BridgeFails, ReportUsage
    <3>4. QED BY <3>1, <3>2, <3>3, UnregisterCounts
  <2>5. CASE BridgeServes(t)
    <3>1. t \in Serving /\ active' = active BY <2>5 DEF BridgeServes, Serving, folderVars
    <3>2. ServeMoves(t, "report", serve[t].res)
      BY <2>5, StepMoves DEF BridgeServes, ServeSteps
    <3>3. QED BY <3>1, <3>2, CountedServe, SameServes
  <2>6. QED BY <1>2, <2>1, <2>2, <2>3, <2>4, <2>5 DEF ServeStep
<1>3. CASE DispatchTunnel
  <2>1. PICK t \in Tunnels, r \in reservations :
          serve[t].step = "none" /\ ServeMoves(t, "consume", r)
    BY <1>3, DispatchMoves
  <2>2. t \notin Serving BY <2>1 DEF Serving
  <2>3. active' = active BY <1>3 DEF DispatchTunnel, folderVars
  <2>4. QED BY <2>1, <2>2, <2>3, UncountedServe, SameServes
<1>4. ASSUME NEW t \in Tunnels, Expire(t) \/ Dial(t) \/ DialRelay(t) PROVE UNCHANGED active
  BY <1>4 DEF Expire, Dial, DialRelay, folderVars
<1>5. LoopStep \/ JanitorStep => UNCHANGED active
  BY DEF LoopStep, AwaitTunnel, AcceptFails, RefuseTunnel, DispatchTunnel, AcceptTunnel,
     JanitorStep, RemoveFolder, FolderAges, Scan, folderVars
<1>6. ASSUME NEW r \in Requests, OfferStep(r) \/ PushOfferTo(r) \/ SweepRelay(r)
      PROVE  UNCHANGED active
  BY <1>6 DEF OfferStep, PushOfferTo, SweepRelay, OfferTimeout, RejectOffer, StartBind,
     InstallListener, ClosePrevious, RegisterReservation, AcceptOffer, folderVars
<1>7. UNCHANGED active \/ \E t \in Tunnels : ServeStep(t)
  BY <1>4, <1>5, <1>6 DEF Next, Progress, Advertise, Available, Close, vars, folderVars
<1>8. UNCHANGED serve \/ DispatchTunnel \/ \E t \in Tunnels : ServeStep(t)
  BY HeldQuiet DEF RegisterReservation, tunnelVars
<1>9. QED BY <1>1, <1>2, <1>3, <1>7, <1>8

-----------------------------------------------------------------------------
(* The theorem.                                                            *)

\* One holder at most, and none while the reservation is registered or once it
\* is reported, is what BilledOnce counts.
LEMMA BilledOnceFollows == Shapes /\ HeldOnce => BilledOnce
<1> SUFFICES ASSUME Shapes, HeldOnce, NEW r \in Requests
             PROVE  /\ reported[r] <= 1
                    /\ Cardinality({t \in Tunnels : Holds(t, r)}) + reported[r]
                         + (IF r \in reservations THEN 1 ELSE 0) <= 1
  BY DEF BilledOnce, Holds
<1> DEFINE H == {t \in Tunnels : Holds(t, r)}
<1>1. reported[r] \in {0, 1} /\ (r \in reservations => reported[r] = 0)
  BY DEF HeldOnce
<1>2. CASE H = {}
  <2>1. Cardinality(H) = 0 BY <1>2, FS_EmptySet
  <2>2. QED BY <1>1, <2>1
<1>3. CASE H # {}
  <2>1. PICK t \in Tunnels : Holds(t, r) BY <1>3
  <2>2. H = {t} BY <2>1 DEF HeldOnce
  <2>3. Cardinality(H) = 1 BY <2>2, FS_Singleton
  <2>4. r \notin reservations /\ reported[r] = 0 BY <2>1 DEF HeldOnce
  <2>5. QED BY <2>3, <2>4
<1>4. QED BY <1>2, <1>3

\* Every step keeps the inductive invariant.
LEMMA Invariance == IInv /\ [Next]_vars => IInv'
<1> SUFFICES ASSUME IInv, [Next]_vars PROVE IInv' OBVIOUS
<1> USE DEF IInv
<1>1. TypeOK' BY NextShapes, NextEvents DEF TypeOK
<1>2. HandledOnce' /\ BindsInOrder' /\ CurrentIsOpen' BY NextBind DEF TypeOK
<1>3. ReservationsRegistered' /\ HeldOnce' BY NextRegistered, NextHeld DEF TypeOK
<1>4. ServesHaveReservations' /\ ServedOnce' BY NextServes, NextServedOnce DEF TypeOK
<1>5. DecidingIsReserved' /\ AcceptedIsReserved' BY NextAccepted DEF TypeOK
<1>6. ServingFinite' /\ ActiveIsServing' BY NextActive DEF TypeOK
<1>7. QED BY <1>1, <1>2, <1>3, <1>4, <1>5, <1>6

\* Whatever offers, consumers and tunnels there are and whatever fails: an
\* offer is billed at most once, the acceptor's listener is open, an accepted
\* offer has its reservation and the janitor's table counts the serves under
\* way (HandleOffer, Bind, Serve, activeClients).
THEOREM SeederIsSafe == Spec => []SeederInv
<1>1. IInv => SeederInv
  BY BilledOnceFollows DEF IInv, SeederInv, TypeOK
<1>2. QED BY InitIInv, Invariance, <1>1, PTL DEF Spec
=============================================================================
