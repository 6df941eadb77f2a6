--------------------------- MODULE FederationProofs ---------------------------
(***************************************************************************)
(* Safety of the federation of trackers.                                   *)
(*                                                                         *)
(* The links between two trackers (Peering), for any number of links,      *)
(* dialers and events: the map of live peers, the registry and the calls   *)
(* that stop peers agree, and Close finds no attach half done.             *)
(*                                                                         *)
(* The gossip over a mesh of any size (Gossip), in the second half: flags  *)
(* are earned, archives only improve, and a mesh that comes to rest        *)
(* without faults has brought revocations and evidence to their peers.     *)
(***************************************************************************)
EXTENDS Peering, Gossip, TLAPS, FiniteSetTheorems, SequenceTheorems, NaturalsInduction, WellFoundedInduction

\* The steps of an end once the peer is attached.
Attached == {"start"} \cup Running

\* The peer of the map is attached: whatever ends it takes it out, or marks it.
PeerIsAttached ==
    \A n \in Operated : peers[n] \in Links => link[peers[n]].end[n] \in Attached

\* A peer that is being stopped was attached and may have ended since; its link
\* is not dialled anew before the call that stops it has returned.
StoppedWasAttached ==
    \A n \in Operated :
        /\ closing[n].peer # None => link[closing[n].peer].end[n] \in Attached \cup {"off"}
        /\ \A k \in Callers : depeer[n][k].peer # None =>
               link[depeer[n][k].peer].end[n] \in Attached \cup {"off"}

\* The hook whose Depeer is under way is one of those that run.
HookIsCounted ==
    \A n \in Operated : depeer[n]["hook"].step # "idle" => hooks[n] > 0

IInv ==
    /\ TypeOK /\ RegistryShowsPeer /\ CloseFindsNoAttach /\ StoppedOnce
    /\ PeerIsAttached /\ StoppedWasAttached /\ HookIsCounted

-----------------------------------------------------------------------------
(* Links.                                                                  *)

\* What the configuration gives.
LEMMA Constants ==
    /\ Operated \subseteq Nodes /\ MaxEvents \in Nat /\ MaxDialers \in Nat /\ 1 \in 1..MaxDialers
    /\ Dead # None /\ Dead \notin Links /\ None \notin Links
BY PeeringAssumption DEF Links

\* One end takes a step and the others stay.
EndMoves(c, n, step) ==
    /\ link' \in [Links -> LinkRecord]
    /\ \A d \in Links, m \in Nodes :
          link'[d].end[m] = IF d = c /\ m = n THEN step ELSE link[d].end[m]

\* No end takes a step.
EndsStay ==
    /\ link' \in [Links -> LinkRecord]
    /\ \A d \in Links, m \in Nodes : link'[d].end[m] = link[d].end[m]

\* The fields an end that moves on keeps.
LEMMA GotoEndMoves ==
    ASSUME Shapes, NEW c \in Links, NEW n \in Nodes, NEW step \in Ends, GotoEnd(c, n, step)
    PROVE  EndMoves(c, n, step)
<1> DEFINE e == [link[c].end EXCEPT ![n] = step]
           r == [link[c] EXCEPT !.end = e]
<1>1. link[c] \in LinkRecord /\ link[c].end \in [Nodes -> Ends]
  BY DEF Shapes, LinkRecord
<1>2. e \in [Nodes -> Ends] /\ \A m \in Nodes : e[m] = IF m = n THEN step ELSE link[c].end[m]
  BY <1>1
<1>3. r \in LinkRecord /\ r.end = e
  BY <1>1, <1>2, SMTT(30) DEF LinkRecord
<1>4. link' = [link EXCEPT ![c] = r]
  BY Zenon DEF GotoEnd
<1> HIDE DEF e, r
<1>5. QED BY <1>2, <1>3, <1>4, SMTT(30) DEF Shapes, EndMoves

\* An end that lets go is off, whether its link is forgotten or not.
LEMMA LetGoMoves ==
    ASSUME Shapes, NEW c \in Links, NEW n \in Nodes, NEW l \in LinkRecord, l.end = link[c].end,
           link' = [link EXCEPT ![c] = LetGo(l, n)]
    PROVE  EndMoves(c, n, "off")
<1>1. LetGo(l, n) \in LinkRecord
  BY Constants DEF LetGo, LinkRecord, Unused, Ends
<1>2. LetGo(l, n).end = [l.end EXCEPT ![n] = "off"]
  BY DEF LetGo, LinkRecord, Unused
<1>3. link[c].end \in [Nodes -> Ends]
  BY DEF Shapes, LinkRecord
<1>4. QED BY <1>1, <1>2, <1>3 DEF Shapes, EndMoves

\* The record of a link that is down.
LEMMA DownRecord ==
    ASSUME Shapes, NEW c \in Links
    PROVE  Down(c) \in LinkRecord /\ Down(c).end = link[c].end /\ link[c] \in LinkRecord
<1>1. link[c] \in LinkRecord
  BY DEF Shapes
<1>2. QED BY <1>1, ZenonT(60) DEF LinkRecord, Down

\* Closing or losing a link moves no end.
LEMMA DownStays ==
    ASSUME Shapes, NEW c, link' = [link EXCEPT ![c].up = FALSE]
    PROVE  EndsStay
<1>1. CASE c \in Links
  <2>1. link' = [link EXCEPT ![c] = Down(c)]
    BY DEF Shapes, Down
  <2>2. QED BY <1>1, <2>1, DownRecord DEF Shapes, EndsStay
<1>2. CASE c \notin Links
  <2>1. link' = link
    BY <1>2 DEF Shapes
  <2>2. QED BY <2>1 DEF Shapes, EndsStay
<1>3. QED BY <1>1, <1>2

\* A registry that drops its peer moves no end but those the caller moved.
LEMMA RegistryDepeerStays ==
    ASSUME NEW n, NEW l \in [Links -> LinkRecord], RegistryDepeer(n, l)
    PROVE  /\ link' \in [Links -> LinkRecord]
           /\ \A d \in Links, m \in Nodes : link'[d].end[m] = l[d].end[m]
BY ZenonT(60) DEF RegistryDepeer, LinkRecord

\* The dispatcher returns to its receive loop, whatever it found.
LEMMA DispatchMoves ==
    ASSUME Shapes, NEW c \in Links, NEW n \in Nodes, Dispatch(c, n)
    PROVE  EndMoves(c, n, "on")
<1> DEFINE e == [link[c].end EXCEPT ![n] = "on"]
           r == [link[c] EXCEPT !.end = e]
           l == [link EXCEPT ![c].end[n] = "on"]
<1>1. link[c] \in LinkRecord /\ link[c].end \in [Nodes -> Ends]
  BY DEF Shapes, LinkRecord
<1>2. e \in [Nodes -> Ends] /\ \A m \in Nodes : e[m] = IF m = n THEN "on" ELSE link[c].end[m]
  BY <1>1 DEF Ends, Running
<1>3. r \in LinkRecord /\ r.end = e
  BY <1>1, <1>2 DEF LinkRecord
<1>4. l = [link EXCEPT ![c] = r]
  BY Zenon
<1>5. /\ l \in [Links -> LinkRecord]
      /\ \A d \in Links, m \in Nodes : l[d].end[m] = IF d = c /\ m = n THEN "on" ELSE link[d].end[m]
  <2> HIDE DEF e, r, l
  <2>1. QED BY <1>2, <1>3, <1>4 DEF Shapes
<1>6. link' = l \/ RegistryDepeer(n, l)
  BY Zenon DEF Dispatch
<1> HIDE DEF l
<1>7. /\ link' \in [Links -> LinkRecord]
      /\ \A d \in Links, m \in Nodes : link'[d].end[m] = l[d].end[m]
  BY <1>5, <1>6, RegistryDepeerStays
<1>8. QED BY <1>5, <1>7 DEF EndMoves

-----------------------------------------------------------------------------
(* Types.                                                                  *)

allVars == <<mapVars, dialers, callVars, healthVars>>

\* The inductive invariant holds when both trackers have started.
LEMMA InitIInv == Init => IInv
<1> SUFFICES ASSUME Init PROVE IInv OBVIOUS
<1> USE Constants
<1>1. Shapes
  BY DEF Init, Shapes, LinkRecord, Unused, Ends, Pending, NoCall
<1>2. TypeOK
  BY <1>1 DEF Init, TypeOK
<1>3. RegistryShowsPeer /\ CloseFindsNoAttach /\ HookIsCounted
  BY DEF Init, RegistryShowsPeer, CloseFindsNoAttach, HookIsCounted, NoCall,
     Callers
<1>4. StoppedOnce
  BY DEF Init, StoppedOnce, NoCall
<1>5. PeerIsAttached /\ StoppedWasAttached
  BY DEF Init, PeerIsAttached, StoppedWasAttached, NoCall
<1>6. QED BY <1>2, <1>3, <1>4, <1>5 DEF IInv

\* A step of an end keeps the shapes of everything.
LEMMA EndStepShapes ==
    ASSUME Shapes, NEW c \in Links, NEW n \in Nodes, EndStep(c, n) PROVE Shapes'
<1> USE Constants
<1>1. CASE /\ link' \in [Links -> LinkRecord]
           /\ UNCHANGED allVars
  BY <1>1 DEF Shapes, allVars, mapVars, callVars, healthVars
<1>2. CASE AcceptInbound(c, n) \/ SendAccept(c, n) \/ RecvAccept(c, n) \/ AttachElsewhere(c, n)
           \/ StartPeer(c, n)
  <2>1. PICK step \in {"auth", "attach", "on"} : GotoEnd(c, n, step)
    BY <1>2 DEF AcceptInbound, SendAccept, RecvAccept, AttachElsewhere, StartPeer
  <2>2. EndMoves(c, n, step)
    BY <2>1, GotoEndMoves DEF Ends, Handshaking, Running
  <2>3. QED
    BY <1>1, <1>2, <2>2 DEF EndMoves, AcceptInbound, SendAccept, RecvAccept, AttachElsewhere,
       StartPeer, allVars
<1>3. CASE HandshakeFails(c, n) \/ AttachRefused(c, n)
  <2>1. EndMoves(c, n, "off")
    BY <1>3, LetGoMoves, DownRecord DEF HandshakeFails, AttachRefused
  <2>2. QED BY <1>1, <1>3, <2>1 DEF EndMoves, HandshakeFails, AttachRefused, allVars
<1>4. CASE AttachPeer(c, n)
  <2>1. EndMoves(c, n, "start")
    BY <1>4, GotoEndMoves DEF AttachPeer, Ends
  <2>2. peers' \in [Operated -> Links \cup {Dead, None}] /\ hooks' \in [Operated -> Nat]
    BY <1>4 DEF AttachPeer, Shapes
  <2>3. reg' \in [Operated -> {None, Pending, Steady(Dead)} \cup {Steady(d) : d \in Links}]
    BY <1>4 DEF AttachPeer, Shapes
  <2>4. QED BY <1>4, <2>1, <2>2, <2>3 DEF EndMoves, AttachPeer, Shapes, healthVars
<1>5. CASE Dispatch(c, n)
  <2>2. EndMoves(c, n, "on")
    BY <1>5, DispatchMoves
  <2>3. reg' \in [Operated -> {None, Pending, Steady(Dead)} \cup {Steady(d) : d \in Links}]
    BY <1>5 DEF Dispatch, RegistryDepeer, Shapes
  <2>4. QED BY <1>5, <2>2, <2>3 DEF EndMoves, Dispatch, Shapes, callVars, healthVars
<1>6. CASE RecvEnds(c, n)
  <2>1. EndMoves(c, n, "off")
    BY <1>6, LetGoMoves, DownRecord DEF RecvEnds
  <2>2. peers' \in [Operated -> Links \cup {Dead, None}]
    BY <1>6 DEF RecvEnds, Shapes, Gone
  <2>3. reg' \in [Operated -> {None, Pending, Steady(Dead)} \cup {Steady(d) : d \in Links}]
    <3> SUFFICES ASSUME NEW m \in Operated
                 PROVE  reg'[m] \in {None, Pending, Steady(Dead)} \cup {Steady(d) : d \in Links}
      BY <1>6 DEF RecvEnds
    <3>1. reg[m] \in {None, Pending, Steady(Dead)} \cup {Steady(d) : d \in Links}
      BY DEF Shapes
    <3>2. reg'[m] = IF m = n /\ reg[m] # None THEN [reg[m] EXCEPT !.conn = Gone(@, c)] ELSE reg[m]
      BY <1>6 DEF RecvEnds
    <3>3. [Pending EXCEPT !.conn = Gone(@, c)] = Pending
      BY DEF Pending, Gone
    <3>4. \A d : [Steady(d) EXCEPT !.conn = Gone(@, c)] \in {Steady(d), Steady(Dead)}
      BY DEF Steady, Gone
    <3>5. QED BY <3>1, <3>2, <3>3, <3>4
  <2>4. QED BY <1>6, <2>1, <2>2, <2>3 DEF EndMoves, RecvEnds, Shapes, callVars, healthVars
<1>7. QED BY <1>2, <1>3, <1>4, <1>5, <1>6 DEF EndStep

\* Taking the peer out of the map keeps the shapes of the map and the calls.
LEMMA RemoveShapes ==
    ASSUME Shapes, NEW n \in Operated, NEW k \in Callers, RemovePeer(n, k)
    PROVE  /\ peers' \in [Operated -> Links \cup {Dead, None}]
           /\ depeer' \in [Operated -> [Callers -> [step : {"idle", "stop", "wait", "registry"},
                                                   peer : Links \cup {None}]]]
BY DEF RemovePeer, Shapes

\* So do the steps of Depeer, of which the last one of a hook's is its end.
LEMMA DepeerStepShapes ==
    ASSUME Shapes, HookIsCounted, NEW n \in Operated, NEW k \in Callers, DepeerStep(n, k)
    PROVE  Shapes'
<1> USE Constants
<1>1. depeer' \in [Operated -> [Callers -> [step : {"idle", "stop", "wait", "registry"},
                                           peer : Links \cup {None}]]]
  <2>1. PICK call \in [step : {"idle", "stop", "wait", "registry"}, peer : Links \cup {None}] :
          depeer' = [depeer EXCEPT ![n][k] = call]
    <3>1. CASE StopPeer(n, k)
      <4>1. depeer' = [depeer EXCEPT ![n][k] = [depeer[n][k] EXCEPT !.step = "wait"]]
        BY <3>1, Zenon DEF StopPeer
      <4>2. [depeer[n][k] EXCEPT !.step = "wait"]
              \in [step : {"idle", "stop", "wait", "registry"}, peer : Links \cup {None}]
        <5>1. depeer[n][k] \in [step : {"idle", "stop", "wait", "registry"}, peer : Links \cup {None}]
          BY DEF Shapes
        <5>2. QED BY <5>1
      <4>3. QED BY <4>1, <4>2
    <3>2. CASE StopWaits(n, k) \/ DepeerReturns(n, k)
      BY <3>2 DEF StopWaits, DepeerReturns, NoCall
    <3>3. QED BY <3>1, <3>2 DEF DepeerStep
  <2>2. QED BY <2>1 DEF Shapes
<1>2. CASE StopPeer(n, k)
  <2>1. link' \in [Links -> LinkRecord]
    BY <1>2, DownStays DEF StopPeer, EndsStay
  <2>2. QED BY <1>1, <1>2, <2>1 DEF StopPeer, Shapes, mapVars, healthVars
<1>3. CASE StopWaits(n, k)
  BY <1>1, <1>3 DEF StopWaits, Shapes, mapVars, healthVars
<1>4. CASE DepeerReturns(n, k)
  <2>1. link' \in [Links -> LinkRecord]
    BY <1>4, RegistryDepeerStays DEF DepeerReturns, Shapes
  <2>2. reg' \in [Operated -> {None, Pending, Steady(Dead)} \cup {Steady(d) : d \in Links}]
    BY <1>4 DEF DepeerReturns, RegistryDepeer, Shapes
  <2>3. k = "hook" => hooks[n] > 0
    BY <1>4 DEF DepeerReturns, HookIsCounted
  <2>4. hooks' \in [Operated -> Nat]
    BY <1>4, <2>3 DEF DepeerReturns, Shapes
  <2>5. QED BY <1>1, <1>4, <2>1, <2>2, <2>4 DEF DepeerReturns, Shapes, healthVars
<1>5. QED BY <1>2, <1>3, <1>4 DEF DepeerStep

\* Every step keeps the shapes.
LEMMA NextShapes == Shapes /\ HookIsCounted /\ [Next]_vars => Shapes'
<1> SUFFICES ASSUME Shapes, HookIsCounted, [Next]_vars PROVE Shapes' OBVIOUS
<1> USE Constants
<1>1. ASSUME NEW n \in Nodes, NEW k \in 1..MaxDialers, Dial(n, k) PROVE Shapes'
  <2>1. link' \in [Links -> LinkRecord]
    BY <1>1 DEF Dial, Shapes, LinkRecord, Ends, Handshaking
  <2>2. QED BY <1>1, <2>1 DEF Dial, Shapes, mapVars, callVars, healthVars
<1>2. ASSUME NEW c \in Links, IdleOut(c) \/ Break(c) PROVE Shapes'
  <2>1. EndsStay BY <1>2, DownStays DEF IdleOut, Break
  <2>2. QED BY <1>2, <2>1 DEF IdleOut, Break, EndsStay, Shapes, mapVars, callVars, healthVars
<1>3. ASSUME NEW n \in Operated, NEW c \in Links, Recv(c, n) PROVE Shapes'
  <2>1. EndMoves(c, n, "busy") BY <1>3, GotoEndMoves DEF Recv, Ends, Running
  <2>2. QED BY <1>3, <2>1 DEF Recv, EndMoves, Shapes, mapVars, callVars, healthVars
<1>4. ASSUME NEW n \in Operated, CloseStep(n) \/ CloseBegins(n) PROVE Shapes'
  <2>1. closing' \in [Operated -> [step : {"idle", "drain", "wait", "done"}, peer : Links \cup {None}]]
    <3>1. CASE CloseDrains(n) BY <3>1 DEF CloseDrains, Shapes
    <3>2. CASE CloseReturns(n) BY <3>2 DEF CloseReturns, Shapes
    <3>3. CASE CloseBegins(n) BY <3>3 DEF CloseBegins, Shapes
    <3>4. QED BY <1>4, <3>1, <3>2, <3>3 DEF CloseStep
  <2>2. peers' \in [Operated -> Links \cup {Dead, None}]
    BY <1>4 DEF CloseStep, CloseDrains, CloseReturns, CloseBegins, Shapes, mapVars
  <2>3. link' \in [Links -> LinkRecord]
    <3>1. UNCHANGED link \/ link' = [link EXCEPT ![closing[n].peer].up = FALSE]
      BY <1>4 DEF CloseStep, CloseDrains, CloseReturns, CloseBegins
    <3>2. QED BY <3>1, DownStays DEF EndsStay, Shapes
  <2>4. QED
    BY <1>4, <2>1, <2>2, <2>3 DEF CloseStep, CloseDrains, CloseReturns, CloseBegins, Shapes,
       mapVars, healthVars
<1>5. ASSUME NEW n \in Operated, HookPasses(n) PROVE Shapes'
  <2>1. hooks' \in [Operated -> Nat]
    BY <1>5 DEF HookPasses, Shapes
  <2>2. QED BY <1>5, <2>1 DEF HookPasses, Shapes, mapVars, healthVars
<1>6. ASSUME NEW n \in Operated, WatcherNotes(n) \/ ScoreChanges(n) PROVE Shapes'
  <2>1. low' \in [Operated -> BOOLEAN] /\ since' \in [Operated -> BOOLEAN]
    BY <1>6 DEF WatcherNotes, ScoreChanges, Shapes
  <2>2. QED BY <1>6, <2>1 DEF WatcherNotes, ScoreChanges, Shapes, mapVars, callVars
<1>7. ASSUME NEW n \in Operated, WatcherDepeers(n) \/ OperatorDepeers(n) \/ HookFails(n) PROVE Shapes'
  <2>1. since' \in [Operated -> BOOLEAN]
    BY <1>7 DEF WatcherDepeers, OperatorDepeers, HookFails, Shapes, healthVars
  <2>2. PICK k \in Callers : RemovePeer(n, k)
    BY <1>7 DEF WatcherDepeers, OperatorDepeers, HookFails, Callers
  <2>3. QED
    BY <1>7, <2>1, <2>2, RemoveShapes DEF WatcherDepeers, OperatorDepeers, HookFails, Shapes,
       healthVars
<1>8. ASSUME NEW n \in Operated, AddPeer(n) PROVE Shapes'
  <2>1. dialers' \in [Nodes -> 1..MaxDialers]
    BY <1>8 DEF AddPeer, Shapes
  <2>2. QED BY <1>8, <2>1 DEF AddPeer, Shapes, callVars, healthVars
<1>9. CASE UNCHANGED vars
  BY <1>9 DEF Shapes, vars
<1>10. QED
  BY <1>1, <1>2, <1>3, <1>4, <1>5, <1>6, <1>7, <1>8, <1>9, EndStepShapes, DepeerStepShapes
     DEF Next, Environment, DialStep

\* Faults, verdicts and operators' calls stay within their budget.
LEMMA NextHappened == happened \in 0..MaxEvents /\ [Next]_vars => happened' \in 0..MaxEvents
<1> SUFFICES ASSUME happened \in 0..MaxEvents, [Next]_vars PROVE happened' \in 0..MaxEvents OBVIOUS
<1>1. Event \/ UNCHANGED happened => happened' \in 0..MaxEvents
  BY Constants DEF Event
<1>2. \A c \in Links, n \in Nodes : EndStep(c, n) => UNCHANGED happened
  BY DEF EndStep, AcceptInbound, SendAccept, RecvAccept, HandshakeFails, AttachRefused, AttachPeer,
     AttachElsewhere, StartPeer, Dispatch, RecvEnds
<1>3. QED
  BY <1>1, <1>2
     DEF Next, Environment, DialStep, Dial, IdleOut, CloseStep, CloseDrains, CloseReturns, HookPasses,
         WatcherNotes, WatcherDepeers, DepeerStep, StopPeer, StopWaits, DepeerReturns, Break, Recv,
         OperatorDepeers, AddPeer, HookFails, ScoreChanges, CloseBegins, vars

-----------------------------------------------------------------------------
(* The map and the registry.                                               *)

\* The map and the registry change together: an attach writes both, the end of
\* a receive loop marks both, and whoever empties one entry leaves none to
\* compare it with.
LEMMA NextRegistry ==
    ASSUME Shapes, RegistryShowsPeer, [Next]_vars PROVE RegistryShowsPeer'
<1> USE Constants DEF RegistryShowsPeer, IsSteady
<1>1. CASE UNCHANGED mapVars
  BY <1>1 DEF mapVars
<1>2. ASSUME NEW n, NEW l, RegistryDepeer(n, l), UNCHANGED peers PROVE RegistryShowsPeer'
  <2>1. \A m \in Operated : reg'[m] = IF m = n THEN None ELSE reg[m]
    BY <1>2 DEF RegistryDepeer, Shapes
  <2>2. QED BY <1>2, <2>1
<1>3. ASSUME NEW n, peers' = [peers EXCEPT ![n] = None], UNCHANGED reg PROVE RegistryShowsPeer'
  BY <1>3 DEF Shapes
<1>4. ASSUME NEW c \in Links, NEW n \in Nodes, AttachPeer(c, n) PROVE RegistryShowsPeer'
  <2>1. \A m \in Operated : /\ peers'[m] = IF m = n THEN c ELSE peers[m]
                            /\ reg'[m] = IF m = n /\ reg[m] # None THEN Steady(c) ELSE reg[m]
    BY <1>4 DEF AttachPeer, Shapes
  <2>2. QED BY <2>1 DEF Steady
<1>5. ASSUME NEW c \in Links, NEW n \in Nodes, RecvEnds(c, n) PROVE RegistryShowsPeer'
  <2> SUFFICES ASSUME NEW m \in Operated, reg'[m] # None, reg'[m].state = "steady", peers'[m] # None
               PROVE  reg'[m].conn = peers'[m]
    OBVIOUS
  <2>1. CASE m # n \/ reg[m] = None
    BY <1>5, <2>1 DEF RecvEnds
  <2>2. CASE m = n /\ reg[m] # None
    <3>1. reg'[m] = [reg[m] EXCEPT !.conn = Gone(@, c)] /\ peers'[m] = Gone(peers[m], c)
      BY <1>5, <2>2 DEF RecvEnds
    <3>2. \/ reg[m] = Pending \/ \E d : reg[m] = Steady(d)
      <4>1. reg[m] \in {None, Pending, Steady(Dead)} \cup {Steady(d) : d \in Links}
        BY DEF Shapes
      <4>2. QED BY <2>2, <4>1
    <3>3. reg'[m].state = reg[m].state /\ reg'[m].conn = Gone(reg[m].conn, c)
      BY <3>1, <3>2 DEF Pending, Steady
    <3>4. QED BY <2>2, <3>1, <3>3 DEF Gone
  <2>3. QED BY <2>1, <2>2
<1>6. ASSUME NEW n \in Operated, AddPeer(n) PROVE RegistryShowsPeer'
  <2>1. \A m \in Operated : reg'[m] = IF m = n THEN Pending ELSE reg[m]
    BY <1>6 DEF AddPeer, Shapes
  <2>2. QED BY <1>6, <2>1 DEF AddPeer, Pending
<1>7. ASSUME NEW c \in Links, NEW n \in Nodes, EndStep(c, n) PROVE RegistryShowsPeer'
  BY <1>1, <1>2, <1>4, <1>5, <1>7
     DEF EndStep, AcceptInbound, SendAccept, RecvAccept, HandshakeFails, AttachRefused,
         AttachElsewhere, StartPeer, Dispatch, mapVars
<1>8. ASSUME NEW n \in Operated, NEW k \in Callers, DepeerStep(n, k) PROVE RegistryShowsPeer'
  BY <1>1, <1>2, <1>8 DEF DepeerStep, StopPeer, StopWaits, DepeerReturns
<1>9. ASSUME NEW n \in Operated,
             OperatorDepeers(n) \/ WatcherDepeers(n) \/ HookFails(n) \/ CloseBegins(n)
      PROVE  RegistryShowsPeer'
  BY <1>3, <1>9 DEF OperatorDepeers, WatcherDepeers, HookFails, CloseBegins, RemovePeer
<1>10. QED
  BY <1>1, <1>6, <1>7, <1>8, <1>9
     DEF Next, Environment, DialStep, Dial, IdleOut, CloseStep, CloseDrains, CloseReturns, HookPasses,
         WatcherNotes, Break, Recv, ScoreChanges, vars, mapVars

-----------------------------------------------------------------------------
(* Attaches and hooks under way.                                           *)

\* Hooks are counted from the attach that starts them to their end, and nothing
\* is attached once Close has begun.
LEMMA NextInflight ==
    ASSUME Shapes, CloseFindsNoAttach, HookIsCounted, [Next]_vars
    PROVE  CloseFindsNoAttach' /\ HookIsCounted'
<1> USE Constants DEF CloseFindsNoAttach, HookIsCounted, Inflight
<1>1. ASSUME UNCHANGED callVars,
             \A d \in Links, m \in Nodes : link'[d].end[m] = "start" => link[d].end[m] = "start"
      PROVE  CloseFindsNoAttach' /\ HookIsCounted'
  BY <1>1 DEF callVars
<1>2. ASSUME NEW c \in Links, NEW n \in Nodes, EndStep(c, n)
      PROVE  CloseFindsNoAttach' /\ HookIsCounted'
  <2>1. CASE AttachPeer(c, n)
    <3>1. EndMoves(c, n, "start") BY <2>1, GotoEndMoves DEF AttachPeer, Ends
    <3>2. closing[n].step = "idle" /\ UNCHANGED <<closing, depeer>> /\ n \in Operated
      BY <2>1 DEF AttachPeer, Closed
    <3>3. \A m \in Operated : hooks'[m] = IF m = n THEN hooks[m] + 1 ELSE hooks[m]
      BY <2>1 DEF AttachPeer, Shapes
    <3>4. \A m \in Operated : hooks[m] \in Nat
      BY DEF Shapes
    <3>5. HookIsCounted'
      BY <3>2, <3>3, <3>4
    <3>6. CloseFindsNoAttach'
      BY <3>1, <3>2, <3>3 DEF EndMoves
    <3>7. QED BY <3>5, <3>6
  <2>2. CASE AcceptInbound(c, n) \/ SendAccept(c, n) \/ RecvAccept(c, n) \/ AttachElsewhere(c, n)
             \/ StartPeer(c, n)
    <3>1. PICK step \in {"auth", "attach", "on"} : GotoEnd(c, n, step)
      BY <2>2 DEF AcceptInbound, SendAccept, RecvAccept, AttachElsewhere, StartPeer
    <3>2. EndMoves(c, n, step)
      BY <3>1, GotoEndMoves DEF Ends, Handshaking, Running
    <3>3. UNCHANGED callVars
      BY <2>2 DEF AcceptInbound, SendAccept, RecvAccept, AttachElsewhere, StartPeer
    <3>4. QED BY <1>1, <3>2, <3>3 DEF EndMoves
  <2>3. CASE HandshakeFails(c, n) \/ AttachRefused(c, n) \/ RecvEnds(c, n)
    <3>1. EndMoves(c, n, "off")
      BY <2>3, LetGoMoves, DownRecord DEF HandshakeFails, AttachRefused, RecvEnds
    <3>2. UNCHANGED callVars
      BY <2>3 DEF HandshakeFails, AttachRefused, RecvEnds
    <3>3. QED BY <1>1, <3>1, <3>2 DEF EndMoves
  <2>4. CASE Dispatch(c, n)
    <3>1. EndMoves(c, n, "on") BY <2>4, DispatchMoves
    <3>2. QED BY <1>1, <2>4, <3>1 DEF EndMoves, Dispatch
  <2>5. QED BY <1>2, <2>1, <2>2, <2>3, <2>4 DEF EndStep
<1>3. ASSUME NEW n \in Nodes, NEW k \in 1..MaxDialers, Dial(n, k)
      PROVE  CloseFindsNoAttach' /\ HookIsCounted'
  <2>1. \A d \in Links, m \in Nodes : link'[d].end[m] = "start" => link[d].end[m] = "start"
    BY <1>3 DEF Dial, Shapes
  <2>2. QED BY <1>1, <1>3, <2>1 DEF Dial
<1>4. ASSUME NEW c \in Links, IdleOut(c) \/ Break(c) PROVE CloseFindsNoAttach' /\ HookIsCounted'
  <2>1. EndsStay BY <1>4, DownStays DEF IdleOut, Break
  <2>2. QED BY <1>1, <1>4, <2>1 DEF IdleOut, Break, EndsStay
<1>5. ASSUME NEW n \in Operated, NEW c \in Links, Recv(c, n)
      PROVE  CloseFindsNoAttach' /\ HookIsCounted'
  <2>1. EndMoves(c, n, "busy") BY <1>5, GotoEndMoves DEF Recv, Ends, Running
  <2>2. QED BY <1>1, <1>5, <2>1 DEF Recv, EndMoves
<1>6. ASSUME NEW n \in Operated, CloseBegins(n) \/ CloseStep(n)
      PROVE  CloseFindsNoAttach' /\ HookIsCounted'
  <2>1. EndsStay
    <3>1. UNCHANGED link \/ link' = [link EXCEPT ![closing[n].peer].up = FALSE]
      BY <1>6 DEF CloseStep, CloseDrains, CloseReturns, CloseBegins
    <3>2. QED BY <3>1, DownStays DEF EndsStay, Shapes
  <2>2. UNCHANGED <<hooks, depeer>>
    BY <1>6 DEF CloseStep, CloseDrains, CloseReturns, CloseBegins
  <2>3. \A m \in Operated \ {n} : closing'[m] = closing[m]
    BY <1>6 DEF CloseStep, CloseDrains, CloseReturns, CloseBegins, Shapes
  <2>4. CASE CloseBegins(n)
    <3>1. closing'[n].step = "drain" BY <2>4 DEF CloseBegins, Shapes
    <3>2. CloseFindsNoAttach'
      BY <2>1, <2>2, <2>3, <3>1 DEF EndsStay
    <3>3. QED BY <2>2, <3>2
  <2>5. CASE CloseDrains(n)
    BY <2>1, <2>2, <2>3, <2>5 DEF EndsStay, CloseDrains
  <2>6. CASE CloseReturns(n)
    BY <2>1, <2>2, <2>3, <2>6 DEF EndsStay, CloseReturns
  <2>7. QED BY <1>6, <2>4, <2>5, <2>6 DEF CloseStep
<1>7. ASSUME NEW n \in Operated, NEW k \in Callers, DepeerStep(n, k)
      PROVE  CloseFindsNoAttach' /\ HookIsCounted'
  <2>1. EndsStay /\ UNCHANGED closing
    <3>1. CASE StopPeer(n, k)
      BY <3>1, DownStays DEF StopPeer
    <3>2. CASE StopWaits(n, k)
      BY <3>2 DEF StopWaits, EndsStay, Shapes
    <3>3. CASE DepeerReturns(n, k)
      BY <3>3, RegistryDepeerStays DEF DepeerReturns, EndsStay, Shapes
    <3>4. QED BY <1>7, <3>1, <3>2, <3>3 DEF DepeerStep
  <2>2. \A m \in Operated, j \in Callers : m # n \/ j # k => depeer'[m][j] = depeer[m][j]
    BY <1>7 DEF DepeerStep, StopPeer, StopWaits, DepeerReturns, Shapes
  <2>3. CASE StopPeer(n, k) \/ StopWaits(n, k)
    <3>1. depeer[n][k].step # "idle" /\ UNCHANGED hooks
      BY <2>3 DEF StopPeer, StopWaits
    <3>2. QED BY <2>1, <2>2, <3>1 DEF EndsStay, Callers
  <2>4. CASE DepeerReturns(n, k)
    <3>1. /\ depeer[n][k].step = "registry" /\ depeer'[n][k].step = "idle"
          /\ \A m \in Operated : hooks'[m] = IF m = n /\ k = "hook" THEN hooks[m] - 1 ELSE hooks[m]
      BY <2>4 DEF DepeerReturns, NoCall, Shapes
    <3>2. \A m \in Operated : hooks[m] \in Nat
      BY DEF Shapes
    <3>3. HookIsCounted'
      BY <2>2, <3>1, <3>2 DEF Callers
    <3>4. CloseFindsNoAttach'
      BY <2>1, <3>1, <3>2 DEF EndsStay
    <3>5. QED BY <3>3, <3>4
  <2>5. QED BY <1>7, <2>3, <2>4 DEF DepeerStep
<1>8. ASSUME NEW n \in Operated, HookPasses(n) PROVE CloseFindsNoAttach' /\ HookIsCounted'
  <2>1. \A m \in Operated : hooks[m] \in Nat /\ hooks'[m] = IF m = n THEN hooks[m] - 1 ELSE hooks[m]
    BY <1>8 DEF HookPasses, Shapes
  <2>2. UNCHANGED <<link, depeer, closing>>
    BY <1>8 DEF HookPasses
  <2>3. hooks[n] > (IF depeer[n]["hook"].step = "idle" THEN 0 ELSE 1)
    BY <1>8 DEF HookPasses
  <2>4. QED BY <2>1, <2>2, <2>3
<1>9. ASSUME NEW n \in Operated, NEW k \in Callers, RemovePeer(n, k), UNCHANGED <<link, hooks, closing>>,
             k = "hook" => hooks[n] > 0
      PROVE  CloseFindsNoAttach' /\ HookIsCounted'
  <2>1. \A m \in Operated, j \in Callers : m # n \/ j # k => depeer'[m][j] = depeer[m][j]
    BY <1>9 DEF RemovePeer, Shapes
  <2>2. QED BY <1>9, <2>1 DEF Callers
<1>10. ASSUME NEW n \in Operated,
              OperatorDepeers(n) \/ WatcherDepeers(n) \/ HookFails(n)
       PROVE  CloseFindsNoAttach' /\ HookIsCounted'
  BY <1>9, <1>10 DEF OperatorDepeers, WatcherDepeers, HookFails, Callers
<1>11. CASE UNCHANGED <<link, callVars>>
  BY <1>1, <1>11
<1>12. QED
  BY <1>2, <1>3, <1>4, <1>5, <1>6, <1>7, <1>8, <1>10, <1>11
     DEF Next, Environment, DialStep, WatcherNotes, ScoreChanges, AddPeer, vars, callVars

-----------------------------------------------------------------------------
(* Stopping peers.                                                         *)

\* StoppedOnce, call by call.
Stops ==
    \A n \in Operated :
        /\ closing[n].peer # None =>
              /\ peers[n] # closing[n].peer
              /\ \A k \in Callers : depeer[n][k].peer # closing[n].peer
        /\ \A k \in Callers : depeer[n][k].peer # None =>
              /\ peers[n] # depeer[n][k].peer
              /\ \A j \in Callers \ {k} : depeer[n][j].peer # depeer[n][k].peer

\* The same, in the form the steps use.
LEMMA StopsForm == StoppedOnce <=> Stops
BY DEF StoppedOnce, Stops, Callers

Stopping == Stops /\ PeerIsAttached /\ StoppedWasAttached

\* The ends of peers that are attached, or were, stay attached or go off.
EndsKept ==
    \A d \in Links, m \in Operated :
        /\ link[d].end[m] \in Attached => link'[d].end[m] \in Attached
        /\ link[d].end[m] = "off" => link'[d].end[m] = "off"

\* A step that attaches and removes no peer and keeps the ends is harmless.
LEMMA KeptStops ==
    ASSUME Shapes, Stopping, EndsKept, UNCHANGED peers,
           \A n \in Operated : closing'[n].peer \in {closing[n].peer, None},
           \A n \in Operated, k \in Callers : depeer'[n][k].peer \in {depeer[n][k].peer, None}
    PROVE  Stopping'
<1>1. \A n \in Operated : /\ closing[n].peer \in Links \cup {None}
                          /\ \A k \in Callers : depeer[n][k].peer \in Links \cup {None}
  BY DEF Shapes
<1>2. Stops'
  BY DEF Stopping, Stops
<1>3. PeerIsAttached'
  BY DEF Stopping, PeerIsAttached, EndsKept
<1>4. StoppedWasAttached'
  BY <1>1 DEF Stopping, StoppedWasAttached, EndsKept
<1>5. QED BY <1>2, <1>3, <1>4 DEF Stopping

\* Nobody stops, and the map does not have, a link whose end is not attached.
LEMMA NotStopped ==
    ASSUME Shapes, Stopping, NEW c \in Links, NEW n \in Operated,
           link[c].end[n] \notin Attached \cup {"off"}
    PROVE  /\ peers[n] # c /\ closing[n].peer # c
           /\ \A k \in Callers : depeer[n][k].peer # c
BY Constants DEF Stopping, PeerIsAttached, StoppedWasAttached, Shapes

\* An end that is not attached may take any step.
LEMMA OtherEndMoves ==
    ASSUME Shapes, Stopping, NEW c \in Links, NEW n \in Nodes, NEW step, EndMoves(c, n, step),
           link[c].end[n] \notin Attached \cup {"off"}, UNCHANGED <<peers, closing, depeer>>
    PROVE  Stopping'
<1> USE Constants
<1>1. Stops' BY DEF Stopping, Stops
<1>2. \A m \in Operated : m = n => /\ peers[m] # c /\ closing[m].peer # c
                                  /\ \A k \in Callers : depeer[m][k].peer # c
  BY NotStopped
<1>3. PeerIsAttached'
  BY <1>2 DEF Stopping, PeerIsAttached, EndMoves
<1>4. \A m \in Operated : /\ closing[m].peer \in Links \cup {None}
                          /\ \A k \in Callers : depeer[m][k].peer \in Links \cup {None}
  BY DEF Shapes
<1>5. StoppedWasAttached'
  BY <1>2, <1>4 DEF Stopping, StoppedWasAttached, EndMoves
<1>6. QED BY <1>1, <1>3, <1>5 DEF Stopping

\* A step of an end.
LEMMA EndStepStops ==
    ASSUME Shapes, Stopping, NEW c \in Links, NEW n \in Nodes, EndStep(c, n) PROVE Stopping'
<1> USE Constants
<1>0. UNCHANGED <<closing, depeer>>
  BY DEF EndStep, AcceptInbound, SendAccept, RecvAccept, HandshakeFails, AttachRefused, AttachPeer,
     AttachElsewhere, StartPeer, Dispatch, RecvEnds, callVars
<1>1. CASE AcceptInbound(c, n) \/ SendAccept(c, n) \/ RecvAccept(c, n) \/ AttachElsewhere(c, n)
  <2>1. PICK step \in {"auth", "attach", "on"} : GotoEnd(c, n, step)
    BY <1>1 DEF AcceptInbound, SendAccept, RecvAccept, AttachElsewhere
  <2>2. EndMoves(c, n, step)
    BY <2>1, GotoEndMoves DEF Ends, Handshaking, Running
  <2>3. link[c].end[n] \notin Attached \cup {"off"} /\ UNCHANGED peers
    BY <1>1 DEF AcceptInbound, SendAccept, RecvAccept, AttachElsewhere, Attached, Running, mapVars
  <2>4. QED BY <1>0, <2>2, <2>3, OtherEndMoves
<1>2. CASE HandshakeFails(c, n) \/ AttachRefused(c, n)
  <2>1. EndMoves(c, n, "off")
    BY <1>2, LetGoMoves, DownRecord DEF HandshakeFails, AttachRefused
  <2>2. link[c].end[n] \notin Attached \cup {"off"} /\ UNCHANGED peers
    BY <1>2 DEF HandshakeFails, AttachRefused, Attached, Running, mapVars
  <2>3. QED BY <1>0, <2>1, <2>2, OtherEndMoves
<1>3. CASE StartPeer(c, n)
  <2>1. EndMoves(c, n, "on")
    BY <1>3, GotoEndMoves DEF StartPeer, Ends, Running
  <2>2. EndsKept
    BY <1>3, <2>1 DEF StartPeer, EndMoves, EndsKept, Attached, Running
  <2>3. UNCHANGED peers BY <1>3 DEF StartPeer, mapVars
  <2>4. QED BY <1>0, <2>2, <2>3, KeptStops
<1>4. CASE Dispatch(c, n)
  <2>1. EndMoves(c, n, "on") BY <1>4, DispatchMoves
  <2>2. EndsKept
    BY <1>4, <2>1 DEF Dispatch, EndMoves, EndsKept, Attached, Running
  <2>3. UNCHANGED peers BY <1>4 DEF Dispatch
  <2>4. QED BY <1>0, <2>2, <2>3, KeptStops
<1>5. CASE AttachPeer(c, n)
  <2>1. EndMoves(c, n, "start") /\ n \in Operated
    BY <1>5, GotoEndMoves DEF AttachPeer, Ends
  <2>2. \A m \in Operated : peers'[m] = IF m = n THEN c ELSE peers[m]
    BY <1>5 DEF AttachPeer, Shapes
  <2>3. /\ closing[n].peer # c
        /\ \A k \in Callers : depeer[n][k].peer # c
    BY <1>5, <2>1, NotStopped DEF AttachPeer, Attached, Running
  <2>4. Stops'
    BY <1>0, <2>2, <2>3 DEF Stopping, Stops
  <2>5. PeerIsAttached'
    BY <2>1, <2>2 DEF Stopping, PeerIsAttached, EndMoves, Attached
  <2>6. \A m \in Operated : /\ closing[m].peer \in Links \cup {None}
                            /\ \A k \in Callers : depeer[m][k].peer \in Links \cup {None}
    BY DEF Shapes
  <2>7. StoppedWasAttached'
    BY <1>0, <2>1, <2>6 DEF Stopping, StoppedWasAttached, EndMoves, Attached
  <2>8. QED BY <2>4, <2>5, <2>7 DEF Stopping
<1>6. CASE RecvEnds(c, n)
  <2>1. EndMoves(c, n, "off")
    BY <1>6, LetGoMoves, DownRecord DEF RecvEnds
  <2>2. \A m \in Operated : peers'[m] = IF m = n /\ peers[m] = c THEN Dead ELSE peers[m]
    BY <1>6 DEF RecvEnds, Gone
  <2>3. \A m \in Operated : /\ closing[m].peer \in Links \cup {None}
                            /\ \A k \in Callers : depeer[m][k].peer \in Links \cup {None}
    BY DEF Shapes
  <2>4. Stops'
    BY <1>0, <2>2, <2>3 DEF Stopping, Stops
  <2>5. PeerIsAttached'
    BY <2>1, <2>2 DEF Stopping, PeerIsAttached, EndMoves
  <2>6. StoppedWasAttached'
    BY <1>0, <2>1, <2>3 DEF Stopping, StoppedWasAttached, EndMoves
  <2>7. QED BY <2>4, <2>5, <2>6 DEF Stopping
<1>7. QED BY <1>1, <1>2, <1>3, <1>4, <1>5, <1>6 DEF EndStep

\* Whoever takes the peer out of the map is the only one to stop it.
LEMMA TakenStops ==
    ASSUME Shapes, Stopping, EndsStay, NEW n \in Operated, peers' = [peers EXCEPT ![n] = None],
           NEW taken, taken = (IF peers[n] \in Links THEN peers[n] ELSE None),
           \/ /\ UNCHANGED closing
              /\ \E k \in Callers :
                    /\ depeer'[n][k].peer = taken
                    /\ \A m \in Operated, j \in Callers :
                          m # n \/ j # k => depeer'[m][j] = depeer[m][j]
           \/ /\ UNCHANGED depeer
              /\ closing'[n].peer = taken
              /\ \A m \in Operated \ {n} : closing'[m] = closing[m]
    PROVE  Stopping'
<1> USE Constants
<1>1. \A m \in Operated : peers'[m] = IF m = n THEN None ELSE peers[m]
  BY DEF Shapes
<1>2. /\ closing[n].peer # None => closing[n].peer # taken
      /\ \A k \in Callers : depeer[n][k].peer # None => depeer[n][k].peer # taken
  BY DEF Stopping, Stops
<1>3. taken # None => link[taken].end[n] \in Attached /\ taken \in Links
  BY DEF Stopping, PeerIsAttached
<1>4. \A m \in Operated : /\ closing[m].peer \in Links \cup {None}
                          /\ \A k \in Callers : depeer[m][k].peer \in Links \cup {None}
  BY DEF Shapes
<1>5. Stops'
  BY <1>1, <1>2 DEF Stopping, Stops
<1>6. PeerIsAttached'
  BY <1>1 DEF Stopping, PeerIsAttached, EndsStay
<1>7. StoppedWasAttached'
  BY <1>3, <1>4 DEF Stopping, StoppedWasAttached, EndsStay
<1>8. QED BY <1>5, <1>6, <1>7 DEF Stopping

\* Every step keeps what is known of the peers that are stopped.
LEMMA NextStops == ASSUME Shapes, Stopping, [Next]_vars PROVE Stopping'
<1> USE Constants
<1>1. ASSUME EndsStay, UNCHANGED <<peers, closing, depeer>> PROVE Stopping'
  <2>1. EndsKept BY <1>1 DEF EndsStay, EndsKept
  <2>2. QED BY <1>1, <2>1, KeptStops
<1>2. ASSUME NEW n \in Nodes, NEW k \in 1..MaxDialers, Dial(n, k) PROVE Stopping'
  <2>1. PICK c \in Links :
          /\ Free(c)
          /\ link' = [link EXCEPT ![c] =
                        [by |-> n, dialer |-> k, up |-> TRUE,
                         end |-> [m \in Nodes |-> IF m = n THEN "hello" ELSE "incoming"]]]
    BY <1>2 DEF Dial
  <2>2. UNCHANGED <<peers, closing, depeer>>
    BY <1>2 DEF Dial, mapVars, callVars
  <2>3. \A d \in Links \ {c} : link'[d] = link[d]
    BY <2>1 DEF Shapes
  <2>4. \A m \in Operated : /\ peers[m] # c /\ closing[m].peer # c
                            /\ \A j \in Callers : depeer[m][j].peer # c
    BY <2>1 DEF Free, Stopping, PeerIsAttached, Attached, Running
  <2>5. Stops' BY <2>2 DEF Stopping, Stops
  <2>6. PeerIsAttached' BY <2>2, <2>3, <2>4 DEF Stopping, PeerIsAttached
  <2>7. \A m \in Operated : /\ closing[m].peer \in Links \cup {None}
                            /\ \A j \in Callers : depeer[m][j].peer \in Links \cup {None}
    BY DEF Shapes
  <2>8. StoppedWasAttached' BY <2>2, <2>3, <2>4, <2>7 DEF Stopping, StoppedWasAttached
  <2>9. QED BY <2>5, <2>6, <2>8 DEF Stopping
<1>3. ASSUME NEW c \in Links, IdleOut(c) \/ Break(c) PROVE Stopping'
  <2>1. EndsStay BY <1>3, DownStays DEF IdleOut, Break
  <2>2. QED BY <1>1, <1>3, <2>1 DEF IdleOut, Break, mapVars, callVars
<1>4. ASSUME NEW n \in Operated, NEW c \in Links, Recv(c, n) PROVE Stopping'
  <2>1. EndMoves(c, n, "busy") BY <1>4, GotoEndMoves DEF Recv, Ends, Running
  <2>2. EndsKept BY <1>4, <2>1 DEF Recv, EndMoves, EndsKept, Attached, Running
  <2>3. UNCHANGED <<peers, closing, depeer>> BY <1>4 DEF Recv, mapVars, callVars
  <2>4. QED BY <2>2, <2>3, KeptStops
<1>5. ASSUME NEW n \in Operated, CloseStep(n) PROVE Stopping'
  <2>1. EndsStay
    <3>1. UNCHANGED link \/ link' = [link EXCEPT ![closing[n].peer].up = FALSE]
      BY <1>5 DEF CloseStep, CloseDrains, CloseReturns
    <3>2. QED BY <3>1, DownStays DEF EndsStay, Shapes
  <2>2. EndsKept BY <2>1 DEF EndsStay, EndsKept
  <2>3. UNCHANGED <<peers, depeer>>
    BY <1>5 DEF CloseStep, CloseDrains, CloseReturns, mapVars
  <2>4. \A m \in Operated : closing'[m].peer \in {closing[m].peer, None}
    <3>1. CASE CloseDrains(n) BY <3>1 DEF CloseDrains, Shapes
    <3>2. CASE CloseReturns(n) BY <3>2 DEF CloseReturns, Shapes
    <3>3. QED BY <1>5, <3>1, <3>2 DEF CloseStep
  <2>5. QED BY <2>2, <2>3, <2>4, KeptStops
<1>6. ASSUME NEW n \in Operated, NEW k \in Callers, DepeerStep(n, k) PROVE Stopping'
  <2>1. EndsStay /\ UNCHANGED <<peers, closing>>
    <3>1. CASE StopPeer(n, k)
      BY <3>1, DownStays DEF StopPeer, mapVars
    <3>2. CASE StopWaits(n, k)
      BY <3>2 DEF StopWaits, EndsStay, Shapes, mapVars
    <3>3. CASE DepeerReturns(n, k)
      BY <3>3, RegistryDepeerStays DEF DepeerReturns, EndsStay, Shapes
    <3>4. QED BY <1>6, <3>1, <3>2, <3>3 DEF DepeerStep
  <2>2. EndsKept BY <2>1 DEF EndsStay, EndsKept
  <2>3. \A m \in Operated, j \in Callers : depeer'[m][j].peer \in {depeer[m][j].peer, None}
    <3>1. CASE StopPeer(n, k) BY <3>1 DEF StopPeer, Shapes
    <3>2. CASE StopWaits(n, k) BY <3>2 DEF StopWaits, Shapes
    <3>3. CASE DepeerReturns(n, k) BY <3>3 DEF DepeerReturns, NoCall, Shapes
    <3>4. QED BY <1>6, <3>1, <3>2, <3>3 DEF DepeerStep
  <2>4. QED BY <2>1, <2>2, <2>3, KeptStops
<1>7. ASSUME NEW n \in Operated, NEW k \in Callers, RemovePeer(n, k), UNCHANGED <<link, closing>>
      PROVE  Stopping'
  <2>1. EndsStay BY <1>7 DEF EndsStay, Shapes
  <2>2. depeer'[n][k].peer = IF peers[n] \in Links THEN peers[n] ELSE None
    BY <1>7 DEF RemovePeer, Shapes
  <2>3. \A m \in Operated, j \in Callers : m # n \/ j # k => depeer'[m][j] = depeer[m][j]
    BY <1>7 DEF RemovePeer, Shapes
  <2>4. peers' = [peers EXCEPT ![n] = None] BY <1>7 DEF RemovePeer
  <2>5. QED BY <1>7, <2>1, <2>2, <2>3, <2>4, TakenStops
<1>8. ASSUME NEW n \in Operated, OperatorDepeers(n) \/ WatcherDepeers(n) \/ HookFails(n)
      PROVE  Stopping'
  BY <1>7, <1>8 DEF OperatorDepeers, WatcherDepeers, HookFails, Callers
<1>9. ASSUME NEW n \in Operated, CloseBegins(n) PROVE Stopping'
  <2>1. EndsStay BY <1>9 DEF CloseBegins, EndsStay, Shapes
  <2>2. closing'[n].peer = IF peers[n] \in Links THEN peers[n] ELSE None
    BY <1>9 DEF CloseBegins, Shapes
  <2>3. \A m \in Operated \ {n} : closing'[m] = closing[m]
    BY <1>9 DEF CloseBegins, Shapes
  <2>4. peers' = [peers EXCEPT ![n] = None] /\ UNCHANGED depeer BY <1>9 DEF CloseBegins
  <2>5. QED BY <2>1, <2>2, <2>3, <2>4, TakenStops
<1>10. CASE UNCHANGED <<link, peers, closing, depeer>>
  <2>1. EndsStay BY <1>10 DEF EndsStay, Shapes
  <2>2. QED BY <1>1, <1>10, <2>1
<1>11. QED
  BY <1>2, <1>3, <1>4, <1>5, <1>6, <1>8, <1>9, <1>10, EndStepStops
     DEF Next, Environment, DialStep, HookPasses, WatcherNotes, ScoreChanges, AddPeer, vars, mapVars,
         callVars

-----------------------------------------------------------------------------
(* The theorem.                                                            *)

\* The inductive invariant holds in every state of every run.
LEMMA Invariance == Spec => []IInv
<1>1. IInv /\ [Next]_vars => IInv'
  <2> SUFFICES ASSUME IInv, [Next]_vars PROVE IInv' OBVIOUS
  <2>1. TypeOK' BY NextShapes, NextHappened DEF IInv, TypeOK
  <2>2. RegistryShowsPeer' BY NextRegistry DEF IInv, TypeOK
  <2>3. CloseFindsNoAttach' /\ HookIsCounted' BY NextInflight DEF IInv, TypeOK
  <2>4. Stopping' BY NextStops, StopsForm DEF IInv, TypeOK, Stopping
  <2>5. StoppedOnce' BY <2>4, StopsForm, PTL DEF Stopping
  <2>6. QED BY <2>1, <2>2, <2>3, <2>4, <2>5 DEF IInv, Stopping
<1>2. QED BY InitIInv, <1>1, PTL DEF Spec

\* For any number of links, dialers and calls: the registry shows the peer that
\* gossip is sent to, Close stops its peers only when no attach and no hook is
\* under way, and no peer is stopped by two calls or is still in the map while
\* it is stopped (attachPeer, Registry, Depeer, Close).
THEOREM PeeringIsSafe == Spec => []PeeringInv
<1>1. IInv => PeeringInv BY DEF IInv, PeeringInv
<1>2. QED BY <1>1, Invariance, PTL

-----------------------------------------------------------------------------
(* Gossip, a specification of its own.                                       *)

\* What an exchange carries: a last_seen and a health for each peer it names.
Offers == UNION {[D -> Nat \X {0, 1}] : D \in SUBSET (Trackers \cup Strangers)}

\* What travels: the frames of the four kinds.
Payloads ==
    [kind : {"root"}, of : Trackers, root : Roots]
    \cup [kind : {"evidence"}, of : Trackers, first : Roots, second : Roots]
    \cup [kind : {"revocation"}, of : Trackers, id : Identities]
    \cup [kind : {"exchange"}, rows : Offers]

\* The payloads of a link that its reader has not yet dealt with.
PendingOn(e) == Range(chan[e]) \cup {busy[e]}

\* Frames, filters and tables have their shapes.
GossipShapes ==
    /\ up \subseteq Edges
    /\ chan \in [Peered -> Seq(Payloads)]
    /\ busy \in [Peered -> Payloads \cup {NoFrame}]
    /\ seen \in [Trackers -> Seq(Payloads)]
    /\ \A t \in Trackers : Len(seen[t]) <= DedupeCap
    /\ registered \in [Trackers -> SUBSET Trackers]
    /\ roots \in [Trackers -> [Trackers -> Roots \cup {NoRoot}]]
    /\ revoked \in [Trackers -> SUBSET (Trackers \X Identities)]
    /\ flagged \in [Trackers -> SUBSET Trackers]
    /\ published \in [Trackers -> SUBSET Roots]
    /\ issued \subseteq Trackers \X Identities
    /\ originated \in Nat /\ faults \in Nat /\ cutoff \in Nat
    /\ originated <= MaxGossip /\ faults <= MaxFaults /\ cutoff <= MaxCutoff

\* The known peers of a tracker: its allowlist rows are all there.
Tables ==
    /\ DOMAIN known = Trackers
    /\ \A t \in Trackers :
          /\ known[t] \in [DOMAIN known[t] -> Rows]
          /\ Peers(t) \subseteq DOMAIN known[t]
          /\ DOMAIN known[t] \subseteq Trackers \cup Strangers
          /\ \A x \in Peers(t) : known[t][x].source = "allowlist"

\* What a payload says about roots is true.
SoundIn(m, pub) ==
    /\ m.kind = "root" => m.root \in pub[m.of]
    /\ m.kind = "evidence" => m.first # m.second /\ {m.first, m.second} \subseteq pub[m.of]

\* Everything on a link is true, and so is every archived root.
PendingTrue == \A e \in Peered : \A m \in PendingOn(e) : SoundIn(m, published)
ArchivedTrue == \A t, x \in Trackers : roots[t][x] # NoRoot => roots[t][x] \in published[x]
\* A flag names another tracker, which has published two roots.
Earned ==
    \A t, x \in Trackers : x \in flagged[t] => x # t /\ \E r, q \in published[x] : r # q
Finite == \A x \in Trackers : IsFiniteSet(published[x])

\* What is on the links, in the archives and in the flags is true.
Truth == PendingTrue /\ ArchivedTrue /\ Earned /\ Finite

\* One end of a link has flagged the other.
Parted(t, u) == u \in flagged[t] \/ t \in flagged[u]

\* Without faults, a peer leaves the registry and a link goes down for a flag only.
Standing ==
    /\ \A t \in Trackers : Peers(t) \ flagged[t] \subseteq registered[t]
    /\ \A e \in Peered : {e[1], e[2]} \in up \/ Parted(e[1], e[2])

\* Without faults, what the filter has marked has been acted on.
Acted ==
    \A t \in Trackers : \A m \in Range(seen[t]) :
        /\ m.kind = "revocation" /\ m.of \in Peers(t) => <<m.of, m.id>> \in revoked[t] \/ m.of \in flagged[t]
        /\ m.kind = "evidence" /\ m.of # t => m.of \in flagged[t]

\* Without faults, a revocation is at its issuer, and at its peers or on its way there.
RevocationUnderWay ==
    \A v \in issued :
        /\ v \in revoked[v[1]]
        /\ \A t \in Peers(v[1]) :
              \/ v \in revoked[t] \/ Parted(v[1], t)
              \/ Revocation(v[1], v[2]) \in PendingOn(<<v[1], t>>)

\* Without faults, so is the evidence for a flag.
EvidenceUnderWay ==
    \A e \in Peered : \A x \in flagged[e[1]] \ {e[2]} :
        \/ x \in flagged[e[2]] \/ Parted(e[1], e[2])
        \/ \E m \in PendingOn(e) : m.kind = "evidence" /\ m.of = x

\* What holds as long as there was no fault.
Calm == faults = 0 => Standing /\ Acted /\ RevocationUnderWay /\ EvidenceUnderWay

\* The inductive invariant.
GossipIInv == GossipShapes /\ Tables /\ Truth /\ Calm

-----------------------------------------------------------------------------
(* Links, sequences and the replay filter.                                   *)

\* Links join two different trackers, each a peer of the other.
LEMMA PeeredFacts ==
    ASSUME GossipAssumption
    PROVE  /\ \A e \in Peered : /\ e = <<e[1], e[2]>> /\ e[1] \in Trackers /\ e[2] \in Trackers
                                /\ {e[1], e[2]} \in Edges /\ e[1] # e[2] /\ e[2] \in Peers(e[1]) /\ e[1] \in Peers(e[2])
           /\ \A t \in Trackers : \A u \in Peers(t) :
                 <<t, u>> \in Peered /\ <<u, t>> \in Peered /\ u \in Trackers /\ u # t
<1>1. \A t \in Trackers : {t, t} \notin Edges
  <2> SUFFICES ASSUME NEW t \in Trackers, {t, t} \in Edges PROVE FALSE
    OBVIOUS
  <2>1. {t, t} = {t}
    OBVIOUS
  <2>2. {t} \in Edges
    BY <2>1
  <2>3. Cardinality({t}) = 2
    BY <2>2 DEF GossipAssumption
  <2>4. Cardinality({t}) = 1
    BY FS_Singleton
  <2> QED
    BY <2>3, <2>4
<1>2. \A t, u : {t, u} = {u, t}
  OBVIOUS
<1>3. ASSUME NEW e \in Peered
      PROVE  /\ e = <<e[1], e[2]>> /\ e[1] \in Trackers /\ e[2] \in Trackers /\ {e[1], e[2]} \in Edges
             /\ e[1] # e[2] /\ e[2] \in Peers(e[1]) /\ e[1] \in Peers(e[2])
  <2>1. e = <<e[1], e[2]>> /\ e[1] \in Trackers /\ e[2] \in Trackers /\ {e[1], e[2]} \in Edges
    BY DEF Peered
  <2>2. {e[2], e[1]} \in Edges
    BY <2>1, <1>2, Zenon
  <2>3. e[1] # e[2]
    BY <2>1, <1>1
  <2> QED
    BY <2>1, <2>2, <2>3 DEF Peers
<1>4. ASSUME NEW t \in Trackers, NEW u \in Peers(t)
      PROVE  <<t, u>> \in Peered /\ <<u, t>> \in Peered /\ u \in Trackers /\ u # t
  <2>1. u \in Trackers /\ {t, u} \in Edges
    BY DEF Peers
  <2>2. {u, t} \in Edges
    BY <2>1, <1>2, Zenon
  <2> QED
    BY <2>1, <2>2, <1>1 DEF Peered
<1> QED
  BY <1>3, <1>4

\* A non-empty set of naturals has a least element.
LEMMA NatMin ==
  ASSUME NEW S \in SUBSET Nat, S # {}
  PROVE  \E x \in S : \A y \in S : x <= y
<1> DEFINE R == {ss \in Nat \X Nat : ss[1] < ss[2]}
<1>1. IsWellFoundedOn(R, Nat)
  BY NatLessThanWellFounded, Zenon DEF OpToRel
<1> HIDE DEF R
<1>2. PICK x \in S : \A y \in S : ~ (<<y, x>> \in R)
  BY <1>1, WFMin, Zenon
<1>3. \A y \in S : x <= y
  <2> TAKE y \in S
  <2>1. x \in Nat /\ y \in Nat OBVIOUS
  <2>2. <<y, x>> \in Nat \X Nat /\ <<y, x>>[1] = y /\ <<y, x>>[2] = x BY <2>1
  <2>3. y < x => <<y, x>> \in R BY <2>2 DEF R
  <2>4. ~ (y < x) BY <1>2, <2>3
  <2>5. QED BY <2>1, <2>4
<1>4. QED BY <1>3

\* What a sequence holds after an Append, a Tail, and when it is empty.
LEMMA RangeOfAppend ==
    ASSUME NEW S, NEW s \in Seq(S), NEW m
    PROVE  Range(Append(s, m)) = Range(s) \cup {m}
<1> DEFINE a == Append(s, m)
<1>1. DOMAIN s = 1..Len(s) /\ Len(s) \in Nat /\ DOMAIN a = 1..(Len(s) + 1)
      /\ a[Len(s) + 1] = m /\ \A k \in 1..Len(s) : a[k] = s[k]
  OBVIOUS
<1>2. \A k \in DOMAIN a : k \in DOMAIN s \/ k = Len(s) + 1
  BY <1>1
<1>3. Len(s) + 1 \in DOMAIN a /\ \A k \in DOMAIN s : k \in DOMAIN a
  BY <1>1
<1> HIDE DEF a
<1>4. Range(a) = Range(s) \cup {m}
  BY <1>1, <1>2, <1>3 DEF Range
<1> QED
  BY <1>4 DEF a

LEMMA RangeOfTail ==
    ASSUME NEW S, NEW s \in Seq(S), s # <<>>
    PROVE  Tail(s) \in Seq(S) /\ Head(s) \in S /\ Range(s) = Range(Tail(s)) \cup {Head(s)}
<1>1. Tail(s) \in Seq(S) /\ Head(s) \in S /\ Head(s) = s[1] /\ Len(s) \in Nat /\ Len(s) > 0
      /\ Len(Tail(s)) = Len(s) - 1 /\ DOMAIN s = 1..Len(s) /\ DOMAIN Tail(s) = 1..(Len(s) - 1)
      /\ \A k \in 1..(Len(s) - 1) : Tail(s)[k] = s[k + 1]
  OBVIOUS
<1>2. ASSUME NEW k \in 1..Len(s)
      PROVE  s[k] = Head(s) \/ \E j \in 1..(Len(s) - 1) : Tail(s)[j] = s[k]
  <2>1. CASE k = 1
    BY <1>1, <2>1
  <2>2. CASE k # 1
    <3>1. k - 1 \in 1..(Len(s) - 1) /\ (k - 1) + 1 = k
      BY <1>1, <2>2
    <3> QED
      BY <1>1, <3>1
  <2> QED
    BY <2>1, <2>2
<1>3. \A j \in 1..(Len(s) - 1) : j + 1 \in 1..Len(s)
  BY <1>1
<1>4. 1 \in 1..Len(s)
  BY <1>1
<1> QED
  <2> DEFINE T == Tail(s)
             h == Head(s)
             n == Len(s)
  <2>1. /\ n \in Nat /\ DOMAIN s = 1..n /\ DOMAIN T = 1..(n - 1) /\ h = s[1] /\ 1 \in 1..n
        /\ \A k \in 1..n : s[k] = h \/ \E j \in 1..(n - 1) : T[j] = s[k]
        /\ \A j \in 1..(n - 1) : \E k \in 1..n : T[j] = s[k]
    BY <1>1, <1>2, <1>3, <1>4, Zenon
  <2> HIDE DEF T, h, n
  <2>2. Range(s) = Range(T) \cup {h}
    <3>1. \A y \in Range(s) : y \in Range(T) \cup {h}
      <4> SUFFICES ASSUME NEW k \in 1..n PROVE s[k] \in Range(T) \cup {h}
        BY <2>1 DEF Range
      <4>1. CASE s[k] # h
        <5>1. PICK j \in 1..(n - 1) : T[j] = s[k]
          BY <2>1, <4>1
        <5> QED
          BY <2>1, <5>1 DEF Range
      <4> QED
        BY <4>1
    <3>2. h \in Range(s)
      BY <2>1, Zenon DEF Range
    <3>3. \A y \in Range(T) : y \in Range(s)
      <4> SUFFICES ASSUME NEW j \in 1..(n - 1) PROVE T[j] \in Range(s)
        BY <2>1 DEF Range
      <4> QED
        BY <2>1 DEF Range
    <3> QED
      BY <3>1, <3>2, <3>3
  <2> QED
    BY <1>1, <2>2 DEF T, h

LEMMA RangeOfEmpty == Range(<<>>) = {}
BY DEF Range

\* A filter without the payload that is about to move to its front.
LEMMA RemoveFirstFacts ==
    ASSUME NEW S, NEW s \in Seq(S), NEW m
    PROVE  /\ RemoveFirst(s, m) \in Seq(S)
           /\ Range(RemoveFirst(s, m)) \subseteq Range(s)
<1>1. CASE ~\E k \in 1..Len(s) : s[k] = m
  BY <1>1 DEF RemoveFirst
<1>2. CASE \E k \in 1..Len(s) : s[k] = m
  <2> DEFINE p == SelectInSeq(s, LAMBDA v : v = m)
             left == SubSeq(s, 1, p - 1)
             right == SubSeq(s, p + 1, Len(s))
  <2>1. p \in 1..Len(s)
    <3> DEFINE I == {k \in 1..Len(s) : s[k] = m}
    <3>1. I # {} /\ I \in SUBSET Nat
      BY <1>2
    <3>2. PICK q \in I : \A k \in I : q <= k
      BY <3>1, NatMin
    <3>3. Min(I) \in I
      BY <3>2 DEF Min
    <3>4. p = Min(I)
      BY <3>1 DEF SelectInSeq
    <3> QED
      BY <3>3, <3>4
  <2>2. RemoveFirst(s, m) = left \o right
    BY <1>2 DEF RemoveFirst, RemoveAt
  <2> HIDE DEF p
  <2>3. left \in Seq(S) /\ right \in Seq(S)
    BY <2>1
  <2>4. Range(left) \subseteq Range(s)
    <3>1. DOMAIN left = 1..(p - 1) /\ \A k \in 1..(p - 1) : left[k] = s[k]
      BY <2>1
    <3> QED
      BY <3>1, <2>1 DEF Range
  <2>5. Range(right) \subseteq Range(s)
    <3>1. DOMAIN right = 1..(Len(s) - p) /\ \A k \in 1..(Len(s) - p) : right[k] = s[k + p]
      BY <2>1
    <3>2. \A k \in 1..(Len(s) - p) : k + p \in DOMAIN s
      BY <2>1
    <3> QED
      BY <3>1, <3>2 DEF Range
  <2>6. Range(left \o right) = Range(left) \cup Range(right)
    <3> HIDE DEF left, right
    <3> QED
      BY <2>3, RangeConcatenation
  <2> QED
    BY <2>2, <2>3, <2>4, <2>5, <2>6
<1> QED
  BY <1>1, <1>2

\* A marked filter stays within its capacity and gains one payload at most.
LEMMA MarkFacts ==
    ASSUME GossipAssumption, NEW S, NEW s \in Seq(S), NEW m \in S
    PROVE  /\ Mark(s, m) \in Seq(S)
           /\ Len(Mark(s, m)) <= DedupeCap
           /\ Range(Mark(s, m)) \subseteq Range(s) \cup {m}
<1> DEFINE others == RemoveFirst(s, m)
           all == <<m>> \o others
           n == IF Len(others) < DedupeCap THEN Len(others) + 1 ELSE DedupeCap
<1>1. others \in Seq(S) /\ Range(others) \subseteq Range(s)
  BY RemoveFirstFacts
<1>2. Mark(s, m) = SubSeq(all, 1, n)
  BY DEF Mark
<1> HIDE DEF others
<1>3. all \in Seq(S) /\ Len(all) = Len(others) + 1 /\ Len(others) \in Nat
  BY <1>1
<1>4. n \in 1..Len(all) /\ n <= DedupeCap
  BY <1>3 DEF GossipAssumption
<1>5. Range(all) \subseteq Range(s) \cup {m}
  <2>1. <<m>> \in Seq(S) /\ Range(<<m>>) = {m}
    BY DEF Range
  <2>2. Range(all) = Range(<<m>>) \cup Range(others)
    <3> DEFINE one == <<m>>
    <3>1. one \in Seq(S)
      BY <2>1
    <3> HIDE DEF one
    <3>2. Range(one \o others) = Range(one) \cup Range(others)
      BY <1>1, <3>1, RangeConcatenation
    <3> QED
      BY <3>2 DEF one
  <2> QED
    BY <2>1, <2>2, <1>1
<1> HIDE DEF all, n
<1>6. SubSeq(all, 1, n) \in Seq(S) /\ Len(SubSeq(all, 1, n)) = n
      /\ DOMAIN SubSeq(all, 1, n) = 1..n /\ \A k \in 1..n : SubSeq(all, 1, n)[k] = all[k]
  BY <1>3, <1>4
<1>7. Range(SubSeq(all, 1, n)) \subseteq Range(all)
  <2>1. \A k \in 1..n : k \in DOMAIN all
    BY <1>3, <1>4
  <2> QED
    BY <2>1, <1>6 DEF Range
<1> QED
  BY <1>2, <1>4, <1>5, <1>6, <1>7

-----------------------------------------------------------------------------
(* Payloads, and what sending and marking do to the wires and the filters.   *)

\* The fields of a payload, by its kind.
LEMMA PayloadFacts ==
    ASSUME NEW m \in Payloads
    PROVE  /\ m # NoFrame /\ m.kind \in {"root", "evidence", "revocation", "exchange"}
           /\ m.kind = "root" => m.of \in Trackers /\ m.root \in Roots
           /\ m.kind = "evidence" => m.of \in Trackers /\ m.first \in Roots /\ m.second \in Roots
           /\ m.kind = "revocation" =>
                m.of \in Trackers /\ m.id \in Identities /\ m = Revocation(m.of, m.id)
           /\ m.kind = "exchange" => m.rows \in Offers
<1>1. CASE m \in [kind : {"root"}, of : Trackers, root : Roots]
  BY <1>1 DEF NoFrame
<1>2. CASE m \in [kind : {"evidence"}, of : Trackers, first : Roots, second : Roots]
  BY <1>2 DEF NoFrame
<1>3. CASE m \in [kind : {"revocation"}, of : Trackers, id : Identities]
  BY <1>3 DEF NoFrame, Revocation
<1>4. CASE m \in [kind : {"exchange"}, rows : Offers]
  BY <1>4 DEF NoFrame
<1> QED
  BY <1>1, <1>2, <1>3, <1>4 DEF Payloads

\* The payloads that the operations make.
LEMMA PayloadMakers ==
    /\ \A x \in Trackers, r \in Roots :
          Root(x, r) \in Payloads /\ Root(x, r).kind = "root" /\ Root(x, r).of = x /\ Root(x, r).root = r
    /\ \A x \in Trackers, r, q \in Roots :
          /\ Evidence(x, r, q) \in Payloads /\ Evidence(x, r, q).kind = "evidence"
          /\ Evidence(x, r, q).of = x /\ Evidence(x, r, q).first = r /\ Evidence(x, r, q).second = q
    /\ \A x \in Trackers, i \in Identities :
          /\ Revocation(x, i) \in Payloads /\ Revocation(x, i).kind = "revocation"
          /\ Revocation(x, i).of = x /\ Revocation(x, i).id = i
    /\ \A o \in Offers : Exchange(o) \in Payloads /\ Exchange(o).kind = "exchange"
    /\ NoFrame.kind = "none"
BY DEF Payloads, Root, Evidence, Revocation, Exchange, NoFrame

\* The frames of all links.
Wire == [Peered -> Seq(Payloads)]

\* The frames of a link after t has sent m over every link that is up.
Grown(t, m, e, R) == IF e[1] = t /\ {t, e[2]} \in up THEN R \cup {m} ELSE R

\* Forward adds the payload to the active links of t.
LEMMA ForwardFacts ==
    ASSUME NEW t \in Trackers, NEW m \in Payloads, NEW onto \in Wire
    PROVE  /\ Forward(t, m, onto) \in Wire
           /\ \A e \in Peered : Range(Forward(t, m, onto)[e]) = Grown(t, m, e, Range(onto[e]))
<1>1. ASSUME NEW e \in Peered
      PROVE  /\ Forward(t, m, onto)[e] \in Seq(Payloads)
             /\ Range(Forward(t, m, onto)[e]) = Grown(t, m, e, Range(onto[e]))
  <2>1. onto[e] \in Seq(Payloads) /\ Append(onto[e], m) \in Seq(Payloads) /\ e[2] \in Trackers
    BY DEF Wire, Peered
  <2>2. Range(Append(onto[e], m)) = Range(onto[e]) \cup {m}
    BY <2>1, RangeOfAppend
  <2>3. Forward(t, m, onto)[e] =
            IF e[1] = t /\ {t, e[2]} \in up THEN Append(onto[e], m) ELSE onto[e]
    BY <2>1 DEF Forward, ActivePeers
  <2> QED
    BY <2>1, <2>2, <2>3 DEF Grown
<1>2. Forward(t, m, onto) = [e \in Peered |-> Forward(t, m, onto)[e]]
  BY DEF Forward
<1> QED
  BY <1>1, <1>2 DEF Wire

\* The connection between t and x is closed by t.
Cut(t, x, e) == {e[1], e[2]} = {t, x} /\ x \in registered[t]

\* Depeered empties the links between t and x and leaves the others.
LEMMA DepeeredFacts ==
    ASSUME NEW t, NEW x, NEW onto \in Wire
    PROVE  /\ Depeered(t, x, onto) \in Wire
           /\ \A e \in Peered :
                 Range(Depeered(t, x, onto)[e]) = IF Cut(t, x, e) THEN {} ELSE Range(onto[e])
<1>1. \A e \in Peered : /\ Depeered(t, x, onto)[e] = IF Cut(t, x, e) THEN <<>> ELSE onto[e]
                        /\ onto[e] \in Seq(Payloads) /\ <<>> \in Seq(Payloads)
  BY DEF Depeered, Cut, Wire
<1>2. Depeered(t, x, onto) = [e \in Peered |-> Depeered(t, x, onto)[e]]
  BY DEF Depeered
<1> QED
  BY <1>1, <1>2, RangeOfEmpty DEF Wire

\* The filters after t has marked the payloads of M.
Marked(t, M) ==
    /\ seen' \in [Trackers -> Seq(Payloads)]
    /\ \A u \in Trackers : Len(seen'[u]) <= DedupeCap
    /\ \A u \in Trackers : Range(seen'[u]) \subseteq Range(seen[u]) \cup (IF u = t THEN M ELSE {})

\* One payload is marked, two are, none is.
LEMMA MarkedOnce ==
    ASSUME GossipAssumption, GossipShapes, NEW t \in Trackers, NEW m \in Payloads,
           seen' = [seen EXCEPT ![t] = Mark(@, m)]
    PROVE  Marked(t, {m})
<1>1. seen[t] \in Seq(Payloads)
  BY DEF GossipShapes
<1>2. /\ Mark(seen[t], m) \in Seq(Payloads) /\ Len(Mark(seen[t], m)) <= DedupeCap
      /\ Range(Mark(seen[t], m)) \subseteq Range(seen[t]) \cup {m}
  BY <1>1, MarkFacts
<1>3. seen' \in [Trackers -> Seq(Payloads)]
      /\ \A u \in Trackers : seen'[u] = IF u = t THEN Mark(seen[t], m) ELSE seen[u]
  BY <1>2 DEF GossipShapes
<1> QED
  BY <1>2, <1>3 DEF Marked, GossipShapes

LEMMA MarkedTwice ==
    ASSUME GossipAssumption, GossipShapes, NEW t \in Trackers, NEW m \in Payloads, NEW q \in Payloads,
           seen' = [seen EXCEPT ![t] = Mark(Mark(@, m), q)]
    PROVE  Marked(t, {m, q})
<1>1. seen[t] \in Seq(Payloads)
  BY DEF GossipShapes
<1>2. Mark(seen[t], m) \in Seq(Payloads) /\ Range(Mark(seen[t], m)) \subseteq Range(seen[t]) \cup {m}
  BY <1>1, MarkFacts
<1>3. /\ Mark(Mark(seen[t], m), q) \in Seq(Payloads) /\ Len(Mark(Mark(seen[t], m), q)) <= DedupeCap
      /\ Range(Mark(Mark(seen[t], m), q)) \subseteq Range(Mark(seen[t], m)) \cup {q}
  BY <1>2, MarkFacts
<1>4. seen' \in [Trackers -> Seq(Payloads)]
      /\ \A u \in Trackers : seen'[u] = IF u = t THEN Mark(Mark(seen[t], m), q) ELSE seen[u]
  BY <1>3 DEF GossipShapes
<1> QED
  BY <1>2, <1>3, <1>4 DEF Marked, GossipShapes

LEMMA MarkedNone ==
    ASSUME GossipShapes, UNCHANGED seen, NEW t
    PROVE  Marked(t, {})
BY DEF Marked, GossipShapes

\* The frames after t has sent m.
Sent(t, m) ==
    /\ chan' \in Wire
    /\ \A e \in Peered : Range(chan'[e]) = Grown(t, m, e, Range(chan[e]))

\* The recv loop of a link has handled its payload.
Freed(e) ==
    /\ busy' \in [Peered -> Payloads \cup {NoFrame}]
    /\ \A d \in Peered : busy'[d] = IF d = e THEN NoFrame ELSE busy[d]

\* A handler frees its recv loop and no other.
LEMMA HandlingFrees ==
    ASSUME GossipShapes, NEW u, NEW t, <<u, t>> \in Peered, NEW m, Handling(u, t, m)
    PROVE  Freed(<<u, t>>)
BY DEF Freed, Handling, GossipShapes

-----------------------------------------------------------------------------
(* Shapes.                                                                   *)

\* The payload a recv loop handles.
LEMMA BusyPayload ==
    ASSUME GossipShapes, NEW e \in Peered, busy[e] # NoFrame
    PROVE  busy[e] \in Payloads
BY DEF GossipShapes

\* A table of pairs is an offer.
LEMMA OffersFact ==
    ASSUME NEW D \in SUBSET (Trackers \cup Strangers), NEW f \in [D -> Nat \X {0, 1}]
    PROVE  f \in Offers
BY DEF Offers

\* What EmitNow sends.
Emitted(t) ==
    Exchange([x \in DOMAIN known[t] |-> <<known[t][x].last, Score(t, x)>>])

\* EmitNow sends an exchange of the rows it writes.
LEMMA EmittedFacts ==
    ASSUME Tables, NEW t \in Trackers, EmitNow(t)
    PROVE  /\ Emitted(t) \in Payloads /\ Emitted(t).kind = "exchange"
           /\ seen' = [seen EXCEPT ![t] = Mark(@, Emitted(t))]
           /\ chan' = Forward(t, Emitted(t), chan)
           /\ known' = [known EXCEPT ![t] =
                           [x \in DOMAIN known[t] |-> [known[t][x] EXCEPT !.health = Score(t, x)]]]
<1> DEFINE rows == [x \in DOMAIN known[t] |-> [known[t][x] EXCEPT !.health = Score(t, x)]]
           offer == [x \in DOMAIN known[t] |-> <<known[t][x].last, Score(t, x)>>]
<1>1. \A x \in DOMAIN known[t] : known[t][x] \in Rows /\ Score(t, x) \in {0, 1}
  BY DEF Tables, Score
<1>2. \A x \in DOMAIN known[t] : rows[x].last = known[t][x].last /\ rows[x].health = Score(t, x)
  BY <1>1 DEF Rows
<1>3. [x \in DOMAIN rows |-> <<rows[x].last, rows[x].health>>] = offer
  BY <1>2
<1>4. offer \in [DOMAIN known[t] -> Nat \X {0, 1}]
  BY <1>1 DEF Rows
<1>5. offer \in Offers
  BY <1>4, OffersFact DEF Tables
<1> QED
  BY <1>3, <1>5, PayloadMakers DEF EmitNow, Emitted

\* An element is put into, or taken from, one set of a table.
LEMMA AddTo ==
    ASSUME NEW A, NEW B, NEW f \in [A -> SUBSET B], NEW a \in A, NEW b \in B
    PROVE  /\ [f EXCEPT ![a] = @ \cup {b}] \in [A -> SUBSET B]
           /\ \A x \in A : [f EXCEPT ![a] = @ \cup {b}][x] = IF x = a THEN f[x] \cup {b} ELSE f[x]
OBVIOUS

LEMMA TakeFrom ==
    ASSUME NEW A, NEW B, NEW f \in [A -> SUBSET B], NEW a \in A, NEW b
    PROVE  /\ [f EXCEPT ![a] = @ \ {b}] \in [A -> SUBSET B]
           /\ \A x \in A : [f EXCEPT ![a] = @ \ {b}][x] = IF x = a THEN f[x] \ {b} ELSE f[x]
OBVIOUS

\* Every step keeps the shapes.
LEMMA ShapesKept ==
    ASSUME GossipAssumption, GossipShapes, Tables, GossipNext
    PROVE  GossipShapes'
<1>a. chan \in Wire
  BY DEF GossipShapes, Wire
<1>1. ASSUME NEW t \in Publishers, NEW r \in Roots, PublishHour(t, r) PROVE GossipShapes'
  <2>1. t \in Trackers /\ Root(t, r) \in Payloads
    BY PayloadMakers DEF GossipAssumption
  <2>2. Marked(t, {Root(t, r)})
    BY <1>1, <2>1, MarkedOnce DEF PublishHour
  <2>3. chan' \in Wire
    BY <1>1, <1>a, <2>1, ForwardFacts DEF PublishHour
  <2>4. published' \in [Trackers -> SUBSET Roots]
    BY <1>1, <2>1 DEF PublishHour, GossipShapes
  <2>5. originated' \in Nat /\ originated' <= MaxGossip
    BY <1>1 DEF PublishHour, Originate, GossipShapes, GossipAssumption
  <2> QED
    BY <1>1, <2>2, <2>3, <2>4, <2>5 DEF PublishHour, GossipShapes, Marked, Wire
<1>2. ASSUME NEW t \in Freezers, NEW i \in Identities, OnFreeze(t, i) PROVE GossipShapes'
  <2>1. t \in Trackers /\ Revocation(t, i) \in Payloads
    BY PayloadMakers DEF GossipAssumption
  <2>2. Marked(t, {Revocation(t, i)})
    BY <1>2, <2>1, MarkedOnce DEF OnFreeze
  <2>3. chan' \in Wire
    BY <1>2, <1>a, <2>1, ForwardFacts DEF OnFreeze
  <2>4. revoked' \in [Trackers -> SUBSET (Trackers \X Identities)] /\ issued' \subseteq Trackers \X Identities
    <3>1. <<t, i>> \in Trackers \X Identities
      BY <2>1
    <3>2. revoked' = [revoked EXCEPT ![t] = @ \cup {<<t, i>>}] \/ revoked' = revoked
      BY <1>2 DEF OnFreeze
    <3>3. revoked \in [Trackers -> SUBSET (Trackers \X Identities)]
      BY DEF GossipShapes
    <3>4. [revoked EXCEPT ![t] = @ \cup {<<t, i>>}] \in [Trackers -> SUBSET (Trackers \X Identities)]
      BY <2>1, <3>1, <3>3, AddTo
    <3>5. issued' \subseteq Trackers \X Identities
      BY <1>2, <3>1 DEF OnFreeze, GossipShapes
    <3> QED
      BY <3>2, <3>3, <3>4, <3>5
  <2>5. /\ originated' \in Nat /\ originated' <= MaxGossip
        /\ faults' \in Nat /\ faults' <= MaxFaults
    BY <1>2 DEF OnFreeze, Originate, GossipShapes, GossipAssumption
  <2> QED
    BY <1>2, <2>2, <2>3, <2>4, <2>5 DEF OnFreeze, GossipShapes, Marked, Wire
<1>3. ASSUME NEW t \in Emitters, EmitNow(t) PROVE GossipShapes'
  <2>1. t \in Trackers
    BY DEF GossipAssumption
  <2>2. /\ Emitted(t) \in Payloads /\ seen' = [seen EXCEPT ![t] = Mark(@, Emitted(t))]
        /\ chan' = Forward(t, Emitted(t), chan)
    BY <1>3, <2>1, EmittedFacts
  <2>3. Marked(t, {Emitted(t)})
    BY <2>1, <2>2, MarkedOnce
  <2>4. chan' \in Wire
    BY <1>a, <2>1, <2>2, ForwardFacts
  <2>5. originated' \in Nat /\ originated' <= MaxGossip
    BY <1>3 DEF EmitNow, Originate, GossipShapes, GossipAssumption
  <2> QED
    BY <1>3, <2>3, <2>4, <2>5 DEF EmitNow, GossipShapes, Marked, Wire
<1>4. ASSUME NEW t \in Emitters, Prune(t) PROVE GossipShapes'
  BY <1>4 DEF Prune, GossipShapes, GossipAssumption
<1>5. ASSUME NEW t \in Trackers, Restart(t) PROVE GossipShapes'
  <2>1. seen' \in [Trackers -> Seq(Payloads)] /\ \A u \in Trackers : Len(seen'[u]) <= DedupeCap
    <3>1. <<>> \in Seq(Payloads) /\ Len(<<>>) <= DedupeCap
      BY DEF GossipAssumption
    <3> QED
      BY <1>5, <3>1 DEF Restart, GossipShapes
  <2>2. registered' \in [Trackers -> SUBSET Trackers] /\ flagged' \in [Trackers -> SUBSET Trackers]
    BY <1>5 DEF Restart, GossipShapes, Peers
  <2>3. chan' \in [Peered -> Seq(Payloads)] /\ busy' \in [Peered -> Payloads \cup {NoFrame}]
    <3>1. <<>> \in Seq(Payloads)
      OBVIOUS
    <3> QED
      BY <1>5, <3>1 DEF Restart, GossipShapes
  <2>4. faults' \in Nat /\ faults' <= MaxFaults /\ up' \subseteq Edges
    BY <1>5 DEF Restart, Fault, GossipShapes, GossipAssumption
  <2> QED
    BY <1>5, <2>1, <2>2, <2>3, <2>4 DEF Restart, GossipShapes
<1>6. ASSUME NEW e \in Peered, DispatchGossip(e[1], e[2]) \/ RateLimited(e[1], e[2]) PROVE GossipShapes'
  <2>1. e = <<e[1], e[2]>>
    BY PeeredFacts
  <2>2. chan[e] \in Seq(Payloads) /\ chan[e] # <<>>
    BY <1>6, <2>1 DEF DispatchGossip, RateLimited, GossipShapes
  <2>3. Tail(chan[e]) \in Seq(Payloads) /\ Head(chan[e]) \in Payloads
    BY <2>2
  <2>4. chan' \in [Peered -> Seq(Payloads)]
    <3>1. chan' = [chan EXCEPT ![e] = Tail(@)]
      BY <1>6, <2>1, Zenon DEF DispatchGossip, RateLimited
    <3> QED
      BY <2>3, <3>1 DEF GossipShapes
  <2>5. busy' \in [Peered -> Payloads \cup {NoFrame}]
    <3>1. \E b \in {NoFrame, Head(chan[e]), busy[e]} : busy' = [busy EXCEPT ![e] = b]
      <4>1. CASE DispatchGossip(e[1], e[2])
        BY <4>1, <2>1 DEF DispatchGossip
      <4>2. CASE RateLimited(e[1], e[2])
        BY <4>2 DEF RateLimited, GossipShapes
      <4> QED
        BY <1>6, <4>1, <4>2
    <3> QED
      BY <2>3, <3>1 DEF GossipShapes
  <2>6. faults' \in Nat /\ faults' <= MaxFaults
    BY <1>6 DEF DispatchGossip, RateLimited, Fault, GossipShapes, GossipAssumption
  <2> QED
    BY <1>6, <2>4, <2>5, <2>6 DEF DispatchGossip, RateLimited, GossipShapes
<1>7. ASSUME NEW e \in Peered, Handle(e[1], e[2]) PROVE GossipShapes'
  <2> DEFINE u == e[1]
             t == e[2]
             m == busy[e]
  <2>1. e = <<u, t>> /\ u \in Trackers /\ t \in Trackers
    BY PeeredFacts
  <2>2. m \in Payloads
    BY <1>7, <2>1, BusyPayload DEF Handle
  <2>3. /\ m.kind = "root" => m.of \in Trackers /\ m.root \in Roots
        /\ m.kind = "evidence" => m.of \in Trackers
        /\ m.kind = "revocation" => m.of \in Trackers /\ m.id \in Identities
    BY <2>2, PayloadFacts
  <2>4. \/ ApplyRelayed(u, t, m) \/ Apply(u, t, m) \/ OnLocalConflict(u, t, m)
        \/ OnIncomingEvidence(u, t, m) \/ OnIncoming(u, t, m) \/ MergeExchange(u, t, m)
    BY <1>7, <2>1 DEF Handle
  <2> HIDE DEF u, t, m
  <2>5. ASSUME Handling(u, t, m) PROVE busy' \in [Peered -> Payloads \cup {NoFrame}]
    BY <2>1, <2>5, HandlingFrees DEF Freed
  <2>6. Forward(t, m, chan) \in Wire
    BY <1>a, <2>1, <2>2, ForwardFacts
  <2>7. ASSUME seen' = [seen EXCEPT ![t] = Mark(@, m)] PROVE Marked(t, {m})
    BY <2>1, <2>2, <2>7, MarkedOnce
  <2>8. CASE ApplyRelayed(u, t, m)
    BY <2>8, <2>5, <2>7 DEF ApplyRelayed, GossipShapes, Marked
  <2>9. CASE Apply(u, t, m)
    <3>1. roots' \in [Trackers -> [Trackers -> Roots \cup {NoRoot}]]
      BY <2>9, <2>1, <2>3 DEF Apply, GossipShapes
    <3> QED
      BY <2>9, <3>1, <2>5, <2>6, <2>7 DEF Apply, GossipShapes, Marked, Wire
  <2>10. CASE OnLocalConflict(u, t, m)
    <3> DEFINE evidence == Evidence(u, roots[t][u], m.root)
    <3>1. roots[t][u] \in Roots /\ m.root \in Roots
      BY <2>10, <2>1, <2>3 DEF OnLocalConflict, Conflicts, GossipShapes
    <3>2. evidence \in Payloads
      BY <3>1, <2>1, PayloadMakers
    <3> HIDE DEF evidence
    <3>3. seen' = [seen EXCEPT ![t] = Mark(Mark(@, m), evidence)]
          /\ chan' = Depeered(t, u, Forward(t, evidence, chan))
      BY <2>10 DEF OnLocalConflict, evidence
    <3>4. Marked(t, {m, evidence})
      BY <3>2, <3>3, <2>1, <2>2, MarkedTwice
    <3>5. chan' \in Wire
      BY <3>2, <3>3, <2>1, <1>a, ForwardFacts, DepeeredFacts
    <3>6. registered' \in [Trackers -> SUBSET Trackers] /\ flagged' \in [Trackers -> SUBSET Trackers]
          /\ up' \subseteq Edges
      BY <2>10, <2>1 DEF OnLocalConflict, GossipShapes
    <3> QED
      BY <2>10, <3>4, <3>5, <3>6, <2>5 DEF OnLocalConflict, GossipShapes, Marked, Wire
  <2>11. CASE OnIncomingEvidence(u, t, m)
    <3>1. chan' \in Wire
      BY <2>11, <1>a, <2>6, DepeeredFacts DEF OnIncomingEvidence
    <3>2. registered' \in [Trackers -> SUBSET Trackers] /\ flagged' \in [Trackers -> SUBSET Trackers]
          /\ up' \subseteq Edges
      <4>1. registered \in [Trackers -> SUBSET Trackers] /\ flagged \in [Trackers -> SUBSET Trackers] /\ up \subseteq Edges
        BY DEF GossipShapes
      <4>2. m.of \in Trackers
        BY <2>11, <2>3 DEF OnIncomingEvidence
      <4>3. /\ [registered EXCEPT ![t] = @ \ {m.of}] \in [Trackers -> SUBSET Trackers]
            /\ [flagged EXCEPT ![t] = @ \cup {m.of}] \in [Trackers -> SUBSET Trackers]
        BY <2>1, <4>1, <4>2, AddTo, TakeFrom
      <4> QED
        BY <2>11, <4>1, <4>3 DEF OnIncomingEvidence
    <3> QED
      BY <2>11, <3>1, <3>2, <2>5, <2>7 DEF OnIncomingEvidence, GossipShapes, Marked, Wire
  <2>12. CASE OnIncoming(u, t, m)
    <3>1. revoked' \in [Trackers -> SUBSET (Trackers \X Identities)]
      <4>1. revoked \in [Trackers -> SUBSET (Trackers \X Identities)]
        BY DEF GossipShapes
      <4>2. <<m.of, m.id>> \in Trackers \X Identities
        BY <2>12, <2>3 DEF OnIncoming
      <4>3. [revoked EXCEPT ![t] = @ \cup {<<m.of, m.id>>}] \in [Trackers -> SUBSET (Trackers \X Identities)]
        BY <2>1, <4>1, <4>2, AddTo
      <4> QED
        BY <2>12, <4>1, <4>3 DEF OnIncoming
    <3>2. chan' \in Wire
      BY <2>12, <1>a, <2>6 DEF OnIncoming
    <3> QED
      BY <2>12, <3>1, <3>2, <2>5, <2>7 DEF OnIncoming, GossipShapes, Marked, Wire
  <2>13. CASE MergeExchange(u, t, m)
    BY <2>13, <2>5, <2>6, <2>7 DEF MergeExchange, GossipShapes, Marked, Wire
  <2> QED
    BY <2>4, <2>8, <2>9, <2>10, <2>11, <2>12, <2>13
<1>8. ASSUME NEW e \in Peered, busy[e] # NoFrame, ArchiveFails(e[1], e[2], busy[e]) PROVE GossipShapes'
  <2>1. e = <<e[1], e[2]>> /\ e[2] \in Trackers /\ busy[e] \in Payloads
    BY <1>8, PeeredFacts, BusyPayload
  <2>2. Marked(e[2], {busy[e]})
    BY <1>8, <2>1, MarkedOnce DEF ArchiveFails
  <2>3. busy' \in [Peered -> Payloads \cup {NoFrame}]
    BY <1>8, <2>1, HandlingFrees DEF ArchiveFails, Freed
  <2>4. faults' \in Nat /\ faults' <= MaxFaults
    BY <1>8 DEF ArchiveFails, Fault, GossipShapes, GossipAssumption
  <2> QED
    BY <1>8, <2>2, <2>3, <2>4 DEF ArchiveFails, GossipShapes, Marked
<1>9. ASSUME NEW e \in Peered, Reconnect(e[1], e[2]) PROVE GossipShapes'
  BY <1>9 DEF Reconnect, GossipShapes
<1>10. ASSUME NEW e \in Peered, ClearEquivocation(e[1], e[2]) PROVE GossipShapes'
  <2>1. e[1] \in Trackers
    BY PeeredFacts
  <2>2. flagged' \in [Trackers -> SUBSET Trackers]
    BY <1>10, <2>1 DEF ClearEquivocation, GossipShapes
  <2>3. faults' \in Nat /\ faults' <= MaxFaults
    BY <1>10 DEF ClearEquivocation, Fault, GossipShapes, GossipAssumption
  <2> QED
    BY <1>10, <2>2, <2>3 DEF ClearEquivocation, GossipShapes
<1>11. ASSUME NEW l \in Edges, Drop(l) PROVE GossipShapes'
  <2>1. chan' \in [Peered -> Seq(Payloads)]
    <3>1. <<>> \in Seq(Payloads)
      OBVIOUS
    <3> QED
      BY <1>11, <3>1 DEF Drop, GossipShapes
  <2>2. faults' \in Nat /\ faults' <= MaxFaults /\ up' \subseteq Edges
    BY <1>11 DEF Drop, Fault, GossipShapes, GossipAssumption
  <2> QED
    BY <1>11, <2>1, <2>2 DEF Drop, GossipShapes
<1> QED
  BY <1>1, <1>2, <1>3, <1>4, <1>5, <1>6, <1>7, <1>8, <1>9, <1>10, <1>11 DEF GossipNext

-----------------------------------------------------------------------------
(* The archives: known peers and roots.                                      *)

\* A row of a table before and after a step.
RowImproves(old, new, x) ==
    \/ x \in DOMAIN new /\ new[x].source = old[x].source /\ new[x].last >= old[x].last
    \/ x \notin DOMAIN new /\ old[x].source = "gossip"

\* Every row of every table improves, and every archived root stays.
KnownStep == \A t \in Trackers : \A x \in DOMAIN known[t] : RowImproves(known[t], known'[t], x)

RootStep == \A t, x \in Trackers : roots[t][x] # NoRoot => roots'[t][x] = roots[t][x]

\* Upsert leaves a row of the same source that was seen no earlier.
LEMMA UpsertFacts ==
    ASSUME NEW rows, rows \in [DOMAIN rows -> Rows], NEW x, NEW last \in Nat, NEW health \in {0, 1}
    PROVE  /\ Upsert(rows, x, last, health) \in Rows
           /\ x \in DOMAIN rows =>
                /\ Upsert(rows, x, last, health).source = rows[x].source
                /\ Upsert(rows, x, last, health).last >= rows[x].last
<1>1. x \in DOMAIN rows =>
          rows[x] \in Rows /\ rows[x].last \in Nat /\ rows[x].source \in {"allowlist", "gossip"}
  BY DEF Rows
<1>2. CASE x \notin DOMAIN rows
  BY <1>2 DEF Upsert, KnownPeer, Rows
<1>3. CASE x \in DOMAIN rows /\ last >= rows[x].last
  BY <1>1, <1>3 DEF Upsert, KnownPeer, Rows
<1>4. CASE x \in DOMAIN rows /\ ~(last >= rows[x].last)
  <2>1. Upsert(rows, x, last, health) = rows[x]
    BY <1>4 DEF Upsert
  <2> QED
    BY <1>1, <1>4, <2>1
<1> QED
  BY <1>2, <1>3, <1>4

\* A table that replaces another keeps what Tables says.
LEMMA TableReplaced ==
    ASSUME Tables, NEW t \in Trackers, NEW D \in SUBSET (Trackers \cup Strangers),
           NEW table \in [D -> Rows],
           known' = [known EXCEPT ![t] = table],
           \A x \in DOMAIN known[t] : RowImproves(known[t], table, x)
    PROVE  Tables' /\ KnownStep
<1>1. DOMAIN known' = Trackers /\ \A u \in Trackers : known'[u] = IF u = t THEN table ELSE known[u]
  BY DEF Tables
<1>2. DOMAIN table = D /\ table \in [DOMAIN table -> Rows] /\ DOMAIN table \subseteq Trackers \cup Strangers
  OBVIOUS
<1>3. \A x \in Peers(t) : x \in DOMAIN table /\ table[x].source = "allowlist"
  <2> TAKE x \in Peers(t)
  <2>1. x \in DOMAIN known[t] /\ known[t][x].source = "allowlist"
    BY DEF Tables
  <2>2. RowImproves(known[t], table, x)
    BY <2>1
  <2> QED
    BY <2>1, <2>2 DEF RowImproves
<1>4. ASSUME NEW u \in Trackers
      PROVE  /\ known'[u] \in [DOMAIN known'[u] -> Rows]
             /\ Peers(u) \subseteq DOMAIN known'[u]
             /\ DOMAIN known'[u] \subseteq Trackers \cup Strangers
             /\ \A x \in Peers(u) : known'[u][x].source = "allowlist"
             /\ \A x \in DOMAIN known[u] : RowImproves(known[u], known'[u], x)
  <2>1. CASE u = t
    BY <1>1, <1>2, <1>3, <2>1
  <2>2. CASE u # t
    <3>1. known'[u] = known[u]
      BY <1>1, <2>2
    <3>2. \A x \in DOMAIN known[u] : known[u][x].last \in Nat
      BY DEF Tables, Rows
    <3>3. \A x \in DOMAIN known[u] : known[u][x].last >= known[u][x].last
      BY <3>2
    <3>4. \A x \in DOMAIN known[u] : RowImproves(known[u], known[u], x)
      BY <3>3 DEF RowImproves
    <3> QED
      BY <3>1, <3>4 DEF Tables
  <2> QED
    BY <2>1, <2>2
<1> QED
  BY <1>1, <1>4 DEF Tables, KnownStep, Peers

\* Tables that do not change.
LEMMA TablesStay ==
    ASSUME Tables, UNCHANGED known
    PROVE  Tables' /\ KnownStep
<1>1. Tables'
  BY DEF Tables, Peers
<1>2. \A t \in Trackers : \A x \in DOMAIN known[t] : known[t][x].last >= known[t][x].last
  BY DEF Tables, Rows
<1>3. KnownStep
  BY <1>2 DEF KnownStep, RowImproves
<1> QED
  BY <1>1, <1>3

\* Every step keeps and improves the tables of known peers.
LEMMA TablesKept ==
    ASSUME GossipAssumption, GossipShapes, Tables, GossipNext
    PROVE  Tables' /\ KnownStep
<1>0. SUFFICES ASSUME known' # known PROVE Tables' /\ KnownStep
  BY TablesStay
<1>1. ASSUME NEW t \in Emitters, EmitNow(t) PROVE Tables' /\ KnownStep
  <2> DEFINE table == [x \in DOMAIN known[t] |-> [known[t][x] EXCEPT !.health = Score(t, x)]]
  <2>1. t \in Trackers
    BY DEF GossipAssumption
  <2>2. \A x \in DOMAIN known[t] : known[t][x] \in Rows /\ Score(t, x) \in {0, 1}
    BY <2>1 DEF Tables, Score
  <2>3. \A x \in DOMAIN known[t] :
           /\ table[x] \in Rows /\ table[x].source = known[t][x].source
           /\ table[x].last = known[t][x].last /\ known[t][x].last \in Nat
    BY <2>2 DEF Rows
  <2>4. table \in [DOMAIN known[t] -> Rows] /\ DOMAIN known[t] \in SUBSET (Trackers \cup Strangers)
    BY <2>1, <2>3 DEF Tables
  <2>5. \A x \in DOMAIN known[t] : RowImproves(known[t], table, x)
    <3> TAKE x \in DOMAIN known[t]
    <3>1. /\ table[x].source = known[t][x].source /\ table[x].last = known[t][x].last
          /\ known[t][x].last \in Nat /\ x \in DOMAIN table
      BY <2>3
    <3> HIDE DEF table
    <3>2. table[x].last >= known[t][x].last
      BY <3>1
    <3> QED
      BY <3>1, <3>2 DEF RowImproves
  <2>6. known' = [known EXCEPT ![t] = table]
    BY <1>1, <2>1, EmittedFacts
  <2> HIDE DEF table
  <2> QED
    BY <2>1, <2>4, <2>5, <2>6, TableReplaced
<1>2. ASSUME NEW t \in Emitters, Prune(t) PROVE Tables' /\ KnownStep
  <2> DEFINE D == {x \in DOMAIN known[t] : known[t][x].source = "allowlist"
                                          \/ known[t][x].last >= cutoff + 1}
             table == Restrict(known[t], D)
  <2>1. t \in Trackers
    BY DEF GossipAssumption
  <2>2. \A x \in DOMAIN known[t] : known[t][x] \in Rows /\ known[t][x].last \in Nat
                                   /\ known[t][x].source \in {"allowlist", "gossip"}
    BY <2>1 DEF Tables, Rows
  <2>3. D \in SUBSET (Trackers \cup Strangers) /\ D \subseteq DOMAIN known[t]
    BY <2>1 DEF Tables
  <2>4. \A x \in DOMAIN known[t] : x \notin D => known[t][x].source = "gossip"
    BY <2>2
  <2>5. known' = [known EXCEPT ![t] = table]
    BY <1>2, <2>1 DEF Prune, Tables
  <2> HIDE DEF D
  <2>6. table \in [D -> Rows] /\ \A x \in D : table[x] = known[t][x]
    BY <2>2, <2>3 DEF Restrict
  <2> HIDE DEF table
  <2>7. \A x \in DOMAIN known[t] : RowImproves(known[t], table, x)
    BY <2>2, <2>4, <2>6 DEF RowImproves
  <2> QED
    BY <2>1, <2>3, <2>5, <2>6, <2>7, TableReplaced
<1>3. ASSUME NEW t \in Trackers, Restart(t) PROVE Tables' /\ KnownStep
  <2> DEFINE rows == known[t]
             table == [x \in DOMAIN rows |-> IF x \in Peers(t) THEN Upsert(rows, x, StartedAt[t] + 1, 1)
                                             ELSE rows[x]]
  <2>1. rows \in [DOMAIN rows -> Rows] /\ DOMAIN rows \in SUBSET (Trackers \cup Strangers)
    BY DEF Tables
  <2>2. StartedAt[t] + 1 \in Nat
    BY DEF GossipAssumption
  <2>3. known' = [known EXCEPT ![t] = table]
    BY <1>3 DEF Restart, Tables
  <2> HIDE DEF rows
  <2>4. \A x \in DOMAIN rows :
           /\ table[x] \in Rows /\ table[x].source = rows[x].source /\ table[x].last >= rows[x].last
    <3> TAKE x \in DOMAIN rows
    <3>1. rows[x] \in Rows /\ rows[x].last >= rows[x].last
      BY <2>1 DEF Rows
    <3>2. /\ Upsert(rows, x, StartedAt[t] + 1, 1) \in Rows
          /\ Upsert(rows, x, StartedAt[t] + 1, 1).source = rows[x].source
          /\ Upsert(rows, x, StartedAt[t] + 1, 1).last >= rows[x].last
      BY <2>1, <2>2, UpsertFacts
    <3> QED
      BY <3>1, <3>2
  <2>5. table \in [DOMAIN rows -> Rows]
    BY <2>4
  <2>6. \A x \in DOMAIN rows : RowImproves(rows, table, x)
    BY <2>4 DEF RowImproves
  <2> HIDE DEF table
  <2> QED
    BY <2>1, <2>3, <2>5, <2>6, TableReplaced DEF rows
<1>4. ASSUME NEW e \in Peered, MergeExchange(e[1], e[2], busy[e]), busy[e] # NoFrame
      PROVE  Tables' /\ KnownStep
  <2> DEFINE t == e[2]
             m == busy[e]
             rows == known[t]
             D == DOMAIN m.rows \ {t}
             table == [x \in DOMAIN rows \cup D |->
                          IF x \in D THEN Upsert(rows, x, m.rows[x][1], m.rows[x][2]) ELSE rows[x]]
  <2>1. t \in Trackers
    BY PeeredFacts
  <2>2. rows \in [DOMAIN rows -> Rows] /\ DOMAIN rows \in SUBSET (Trackers \cup Strangers)
    BY <2>1 DEF Tables
  <2>3. m.rows \in Offers
    BY <1>4, BusyPayload, PayloadFacts DEF MergeExchange
  <2>4. known' = [known EXCEPT ![t] = table]
    BY <1>4, <2>1 DEF MergeExchange, Tables
  <2> HIDE DEF t, m
  <2>5. PICK E \in SUBSET (Trackers \cup Strangers) : m.rows \in [E -> Nat \X {0, 1}]
    BY <2>3 DEF Offers
  <2>6. D \subseteq E /\ \A x \in D : m.rows[x][1] \in Nat /\ m.rows[x][2] \in {0, 1}
    BY <2>5
  <2> HIDE DEF rows, D
  <2>7. ASSUME NEW x \in DOMAIN rows \cup D
        PROVE  /\ table[x] \in Rows
               /\ x \in DOMAIN rows => table[x].source = rows[x].source /\ table[x].last >= rows[x].last
    <3>1. CASE x \in D
      <4>1. table[x] = Upsert(rows, x, m.rows[x][1], m.rows[x][2])
        BY <3>1
      <4>2. m.rows[x][1] \in Nat /\ m.rows[x][2] \in {0, 1}
        BY <3>1, <2>6
      <4> HIDE DEF table
      <4> QED
        BY <4>1, <4>2, <2>2, UpsertFacts
    <3>2. CASE x \notin D
      <4>1. table[x] = rows[x] /\ rows[x] \in Rows
        BY <3>2, <2>2
      <4> HIDE DEF table
      <4>2. rows[x].last >= rows[x].last
        BY <4>1 DEF Rows
      <4> QED
        BY <4>1, <4>2
    <3> QED
      BY <3>1, <3>2
  <2>8. table \in [DOMAIN rows \cup D -> Rows] /\ DOMAIN table = DOMAIN rows \cup D
    BY <2>7
  <2> HIDE DEF table
  <2>9. DOMAIN rows \cup D \in SUBSET (Trackers \cup Strangers)
    BY <2>2, <2>6
  <2>10. \A x \in DOMAIN rows : RowImproves(rows, table, x)
    BY <2>7, <2>8 DEF RowImproves
  <2> QED
    <3> DEFINE DD == DOMAIN rows \cup D
    <3>1. DD \in SUBSET (Trackers \cup Strangers) /\ table \in [DD -> Rows]
      BY <2>8, <2>9
    <3>2. \A x \in DOMAIN known[t] : RowImproves(known[t], table, x)
      BY <2>10 DEF rows
    <3> HIDE DEF DD
    <3> QED
      BY <2>1, <2>4, <3>1, <3>2, TableReplaced
<1>5. ASSUME NEW e \in Peered, Handle(e[1], e[2]) PROVE MergeExchange(e[1], e[2], busy[e]) /\ busy[e] # NoFrame
  <2>1. e = <<e[1], e[2]>>
    BY PeeredFacts
  <2> QED
    BY <1>0, <1>5, <2>1 DEF Handle, ApplyRelayed, Apply, OnLocalConflict, OnIncomingEvidence, OnIncoming
<1> QED
  BY <1>0, <1>1, <1>2, <1>3, <1>4, <1>5
     DEF GossipNext, PublishHour, OnFreeze, DispatchGossip, RateLimited, ArchiveFails, Reconnect, ClearEquivocation, Drop

\* Every step keeps the archived roots.
LEMMA RootsStay ==
    ASSUME GossipAssumption, GossipShapes, GossipNext
    PROVE  RootStep
<1>0. SUFFICES ASSUME roots' # roots PROVE RootStep
  BY DEF RootStep
<1>1. ASSUME NEW e \in Peered, Apply(e[1], e[2], busy[e]) PROVE RootStep
  <2>1. e[1] \in Trackers /\ e[2] \in Trackers
    BY PeeredFacts
  <2>2. roots[e[2]][e[1]] \in {NoRoot, busy[e].root}
    BY <1>1 DEF Apply, Conflicts
  <2>3. roots' = [roots EXCEPT ![e[2]][e[1]] = busy[e].root]
    BY <1>1 DEF Apply
  <2> QED
    BY <2>1, <2>2, <2>3 DEF RootStep, GossipShapes
<1>2. ASSUME NEW e \in Peered, Handle(e[1], e[2]) PROVE Apply(e[1], e[2], busy[e])
  <2>1. e = <<e[1], e[2]>>
    BY PeeredFacts
  <2> QED
    BY <1>0, <1>2, <2>1
       DEF Handle, ApplyRelayed, OnLocalConflict, OnIncomingEvidence, OnIncoming, MergeExchange
<1> QED
  BY <1>0, <1>1, <1>2 DEF GossipNext, PublishHour, OnFreeze, EmitNow, Prune, Restart, DispatchGossip, RateLimited,
                          ArchiveFails, Reconnect, ClearEquivocation, Drop

-----------------------------------------------------------------------------
(* Truth.                                                                    *)

\* No link carries more than before and the payloads of M.
Carries(M) == \A e \in Peered : Range(chan'[e]) \cup {busy'[e]} \subseteq PendingOn(e) \cup M

\* A tracker that has published a root has published it for good.
PublishedGrows == \A x \in Trackers : published[x] \subseteq published'[x]

\* New payloads that are true leave everything on the links true.
LEMMA PendingTrueKept ==
    ASSUME GossipShapes, PendingTrue, PublishedGrows, NEW M, Carries(M), \A m \in M : m \in Payloads \cup {NoFrame},
           \A m \in M : SoundIn(m, published')
    PROVE  PendingTrue'
<1> SUFFICES ASSUME NEW e \in Peered, NEW m \in Range(chan'[e]) \cup {busy'[e]}
             PROVE  SoundIn(m, published')
  BY DEF PendingTrue, PendingOn
<1>1. CASE m \in M
  BY <1>1
<1>2. CASE m \in PendingOn(e)
  <2>1. SoundIn(m, published)
    BY <1>2 DEF PendingTrue
  <2>2. m \in Payloads \cup {NoFrame}
    <3>1. chan[e] \in Seq(Payloads) /\ busy[e] \in Payloads \cup {NoFrame}
      BY DEF GossipShapes
    <3>2. Range(chan[e]) \subseteq Payloads
      BY <3>1, RangeOfSeq
    <3> QED
      BY <1>2, <3>1, <3>2 DEF PendingOn
  <2>3. m.kind \in {"root", "evidence"} => m.of \in Trackers
    BY <2>2, PayloadFacts, PayloadMakers
  <2> QED
    BY <2>1, <2>3 DEF SoundIn, PublishedGrows
<1> QED
  BY <1>1, <1>2 DEF Carries

\* The other parts of Truth when nothing is archived, published or flagged.
LEMMA TruthOfRest ==
    ASSUME ArchivedTrue, Earned, Finite, UNCHANGED <<roots, published>>,
           \A t \in Trackers : flagged'[t] \subseteq flagged[t]
    PROVE  PublishedGrows /\ ArchivedTrue' /\ Earned' /\ Finite'
BY DEF PublishedGrows, ArchivedTrue, Earned, Finite

\* An idle recv loop says nothing.
LEMMA NoFrameSound == SoundIn(NoFrame, published') /\ NoFrame \in Payloads \cup {NoFrame}
BY PayloadMakers DEF SoundIn

\* Forwarding adds the payload at most; a cut takes away.
LEMMA SentCarries ==
    ASSUME NEW t, NEW m, NEW M, m \in M, \A e \in Peered : busy'[e] \in {NoFrame, busy[e]}, NoFrame \in M,
           \A e \in Peered : Range(chan'[e]) \subseteq Grown(t, m, e, Range(chan[e]))
    PROVE  Carries(M)
BY DEF Carries, PendingOn, Grown

\* Every step keeps the truth.
LEMMA TruthKept ==
    ASSUME GossipAssumption, GossipShapes, Tables, Truth, GossipNext
    PROVE  Truth'
<1>a. chan \in Wire /\ PendingTrue /\ ArchivedTrue /\ Earned /\ Finite
  BY DEF GossipShapes, Wire, Truth
<1>1. ASSUME NEW t \in Publishers, NEW r \in Roots, PublishHour(t, r) PROVE Truth'
  <2> DEFINE m == Root(t, r)
             M == {m, NoFrame}
  <2>1. t \in Trackers /\ m \in Payloads /\ m.kind = "root" /\ m.of = t /\ m.root = r
    BY PayloadMakers DEF GossipAssumption
  <2> HIDE DEF m
  <2>2. chan' = Forward(t, m, chan) /\ busy' = busy
    BY <1>1 DEF PublishHour, m
  <2>3. Carries(M)
    BY <1>a, <2>1, <2>2, ForwardFacts, SentCarries
  <2>4. \A x \in Trackers : published'[x] = IF x = t THEN published[x] \cup {r} ELSE published[x]
    BY <1>1, <2>1 DEF PublishHour, GossipShapes
  <2>5. PublishedGrows
    BY <2>4 DEF PublishedGrows
  <2>6. SoundIn(m, published')
    BY <2>1, <2>4 DEF SoundIn
  <2>7. PendingTrue'
    BY <1>a, <2>1, <2>3, <2>5, <2>6, NoFrameSound, PendingTrueKept
  <2>8. ArchivedTrue'
    BY <1>1, <1>a, <2>5 DEF PublishHour, ArchivedTrue, PublishedGrows
  <2>9. Earned'
    <3>1. flagged' = flagged
      BY <1>1 DEF PublishHour
    <3> QED
      BY <1>a, <3>1, <2>5 DEF Earned, PublishedGrows
  <2>10. Finite'
    <3>1. \A x \in Trackers : IsFiniteSet(published[x]) /\ IsFiniteSet(published[x] \cup {r})
      BY <1>a, FS_AddElement DEF Finite
    <3> QED
      BY <2>4, <3>1 DEF Finite
  <2> QED
    BY <2>7, <2>8, <2>9, <2>10 DEF Truth
<1>2. ASSUME NEW t \in Freezers, NEW i \in Identities, OnFreeze(t, i) PROVE Truth'
  <2> DEFINE m == Revocation(t, i)
             M == {m, NoFrame}
  <2>1. t \in Trackers /\ m \in Payloads /\ m.kind = "revocation"
    BY PayloadMakers DEF GossipAssumption
  <2> HIDE DEF m
  <2>2. chan' = Forward(t, m, chan) /\ busy' = busy
    BY <1>2 DEF OnFreeze, m
  <2>3. Carries(M)
    BY <1>a, <2>1, <2>2, ForwardFacts, SentCarries
  <2>4. PublishedGrows /\ ArchivedTrue' /\ Earned' /\ Finite'
    BY <1>2, <1>a, TruthOfRest DEF OnFreeze
  <2>5. SoundIn(m, published')
    BY <2>1 DEF SoundIn
  <2> QED
    BY <1>a, <2>1, <2>3, <2>4, <2>5, NoFrameSound, PendingTrueKept DEF Truth
<1>3. ASSUME NEW t \in Emitters, EmitNow(t) PROVE Truth'
  <2> DEFINE m == Emitted(t)
             M == {m, NoFrame}
  <2>1. t \in Trackers
    BY DEF GossipAssumption
  <2>2. m \in Payloads /\ m.kind = "exchange" /\ chan' = Forward(t, m, chan) /\ busy' = busy
    BY <1>3, <2>1, EmittedFacts DEF EmitNow
  <2> HIDE DEF m
  <2>3. Carries(M)
    BY <1>a, <2>1, <2>2, ForwardFacts, SentCarries
  <2>4. PublishedGrows /\ ArchivedTrue' /\ Earned' /\ Finite'
    BY <1>3, <1>a, TruthOfRest DEF EmitNow
  <2>5. SoundIn(m, published')
    BY <2>2 DEF SoundIn
  <2> QED
    BY <1>a, <2>2, <2>3, <2>4, <2>5, NoFrameSound, PendingTrueKept DEF Truth
<1>4. ASSUME UNCHANGED <<roots, published>>, \A t \in Trackers : flagged'[t] \subseteq flagged[t],
             \A e \in Peered : busy'[e] \in {NoFrame} \cup PendingOn(e),
             \A e \in Peered : Range(chan'[e]) \subseteq Range(chan[e])
      PROVE  Truth'
  <2>1. Carries({NoFrame})
    BY <1>4 DEF Carries, PendingOn
  <2>2. PublishedGrows /\ ArchivedTrue' /\ Earned' /\ Finite'
    BY <1>4, <1>a, TruthOfRest
  <2> QED
    BY <1>a, <2>1, <2>2, NoFrameSound, PendingTrueKept DEF Truth
<1>5. ASSUME NEW t \in Emitters, Prune(t) PROVE Truth'
  BY <1>5, <1>4 DEF Prune, PendingOn
<1>6. ASSUME NEW t \in Trackers, Restart(t) PROVE Truth'
  <2>1. \A e \in Peered : busy'[e] \in {NoFrame} \cup PendingOn(e)
    BY <1>6 DEF Restart, PendingOn
  <2>2. \A e \in Peered : Range(chan'[e]) \subseteq Range(chan[e])
    BY <1>6, RangeOfEmpty DEF Restart
  <2>3. \A u \in Trackers : flagged'[u] \subseteq flagged[u]
    BY <1>6 DEF Restart, GossipShapes
  <2> QED
    BY <1>6, <1>4, <2>1, <2>2, <2>3 DEF Restart
<1>7. ASSUME NEW e \in Peered, DispatchGossip(e[1], e[2]) \/ RateLimited(e[1], e[2]) PROVE Truth'
  <2>1. e = <<e[1], e[2]>>
    BY PeeredFacts
  <2>2. chan[e] \in Seq(Payloads) /\ chan[e] # <<>>
    BY <1>7, <2>1 DEF DispatchGossip, RateLimited, GossipShapes
  <2>3. Range(chan[e]) = Range(Tail(chan[e])) \cup {Head(chan[e])}
    BY <2>2, RangeOfTail
  <2>4. chan' = [chan EXCEPT ![e] = Tail(@)]
    BY <1>7, <2>1, Zenon DEF DispatchGossip, RateLimited
  <2>5. \A d \in Peered : chan'[d] = IF d = e THEN Tail(chan[e]) ELSE chan[d]
    BY <2>4 DEF GossipShapes
  <2>6. \A d \in Peered : Range(chan'[d]) \subseteq Range(chan[d])
    BY <2>3, <2>5
  <2>7. \E b \in {NoFrame, Head(chan[e]), busy[e]} : busy' = [busy EXCEPT ![e] = b]
    <3>1. CASE DispatchGossip(e[1], e[2])
      BY <3>1, <2>1 DEF DispatchGossip
    <3>2. CASE RateLimited(e[1], e[2])
      BY <3>2 DEF RateLimited, GossipShapes
    <3> QED
      BY <1>7, <3>1, <3>2
  <2>8. \A d \in Peered : busy'[d] \in {NoFrame} \cup PendingOn(d)
    BY <2>3, <2>7 DEF GossipShapes, PendingOn
  <2> QED
    BY <1>7, <1>4, <2>6, <2>8 DEF DispatchGossip, RateLimited
<1>8. ASSUME NEW e \in Peered, Handle(e[1], e[2]) PROVE Truth'
  <2> DEFINE u == e[1]
             t == e[2]
             m == busy[e]
  <2>1. e = <<u, t>> /\ u \in Trackers /\ t \in Trackers /\ u # t
    BY PeeredFacts
  <2>2. m \in Payloads
    BY <1>8, <2>1, BusyPayload DEF Handle
  <2>3. /\ m.kind = "root" => m.of \in Trackers /\ m.root \in Roots
        /\ m.kind = "evidence" => m.of \in Trackers
    BY <2>2, PayloadFacts
  <2>4. SoundIn(m, published)
    BY <1>a DEF PendingTrue, PendingOn
  <2>5. \/ ApplyRelayed(u, t, m) \/ Apply(u, t, m) \/ OnLocalConflict(u, t, m)
        \/ OnIncomingEvidence(u, t, m) \/ OnIncoming(u, t, m) \/ MergeExchange(u, t, m)
    BY <1>8, <2>1 DEF Handle
  <2> HIDE DEF u, t, m
  <2>6. published' = published /\ Handling(u, t, m)
    BY <2>5 DEF ApplyRelayed, Apply, OnLocalConflict, OnIncomingEvidence, OnIncoming, MergeExchange
  <2>7. Freed(e)
    BY <2>1, <2>6, HandlingFrees
  <2>8. \A d \in Peered : busy'[d] \in {NoFrame, busy[d]}
    BY <2>7 DEF Freed
  <2>9. PublishedGrows
    BY <2>6 DEF PublishedGrows
  <2>10. SoundIn(m, published')
    BY <2>4, <2>6 DEF SoundIn
  <2>11. Finite'
    BY <1>a, <2>6 DEF Finite
  <2>12. ASSUME NEW q \in Payloads, SoundIn(q, published'),
                \A d \in Peered : Range(chan'[d]) \subseteq Grown(t, q, d, Range(chan[d]))
         PROVE  PendingTrue'
    <3>1. Carries({q, NoFrame})
      BY <2>8, <2>12, SentCarries
    <3> QED
      BY <1>a, <3>1, <2>9, <2>12, NoFrameSound, PendingTrueKept
  <2>13. CASE ApplyRelayed(u, t, m)
    <3>1. UNCHANGED <<chan, roots, flagged>>
      BY <2>13 DEF ApplyRelayed
    <3> QED
      BY <1>4, <2>6, <2>8, <3>1 DEF PendingOn
  <2>14. CASE Apply(u, t, m)
    <3>1. chan' = Forward(t, m, chan)
      BY <2>14 DEF Apply
    <3>2. PendingTrue'
      BY <1>a, <2>1, <2>2, <2>10, <2>12, <3>1, ForwardFacts
    <3>3. m.root \in published[u] /\ roots' = [roots EXCEPT ![t][u] = m.root]
      BY <2>14, <2>4 DEF Apply, SoundIn
    <3>4. ArchivedTrue'
      BY <1>a, <2>1, <2>6, <3>3 DEF ArchivedTrue, GossipShapes
    <3>5. Earned'
      BY <1>a, <2>6, <2>14 DEF Apply, Earned
    <3> QED
      BY <2>11, <3>2, <3>4, <3>5 DEF Truth
  <2>15. CASE OnLocalConflict(u, t, m)
    <3> DEFINE evidence == Evidence(u, roots[t][u], m.root)
    <3>1. /\ roots[t][u] \in Roots /\ m.root \in Roots /\ roots[t][u] # NoRoot /\ m.root # roots[t][u]
          /\ m.root \in published[u]
      BY <2>15, <2>1, <2>3, <2>4 DEF OnLocalConflict, Conflicts, GossipShapes, SoundIn
    <3>2. roots[t][u] \in published[u]
      BY <1>a, <2>1, <3>1 DEF ArchivedTrue
    <3>3. evidence \in Payloads /\ evidence.kind = "evidence" /\ evidence.of = u
          /\ evidence.first = roots[t][u] /\ evidence.second = m.root
      BY <2>1, <3>1, PayloadMakers
    <3>4. chan' = Depeered(t, u, Forward(t, evidence, chan))
      BY <2>15 DEF OnLocalConflict
    <3> HIDE DEF evidence
    <3>5. SoundIn(evidence, published')
      BY <2>6, <3>1, <3>2, <3>3 DEF SoundIn
    <3>6. \A d \in Peered : Range(chan'[d]) \subseteq Grown(t, evidence, d, Range(chan[d]))
      <4>1. Forward(t, evidence, chan) \in Wire
        BY <1>a, <2>1, <3>3, ForwardFacts
      <4>2. \A d \in Peered : Range(chan'[d]) \subseteq Range(Forward(t, evidence, chan)[d])
        BY <3>4, <4>1, DepeeredFacts
      <4> QED
        BY <1>a, <2>1, <3>3, <4>2, ForwardFacts
    <3>7. PendingTrue'
      BY <2>12, <3>3, <3>5, <3>6
    <3>8. flagged' = [flagged EXCEPT ![t] = @ \cup {u}] /\ roots' = roots
      BY <2>15 DEF OnLocalConflict
    <3>9. Earned'
      <4>1. \A s, x \in Trackers : x \in flagged'[s] => x \in flagged[s] \/ (s = t /\ x = u)
        BY <2>1, <3>8 DEF GossipShapes
      <4> QED
        BY <1>a, <2>1, <2>6, <3>1, <3>2, <4>1 DEF Earned
    <3>10. ArchivedTrue'
      BY <1>a, <2>6, <3>8 DEF ArchivedTrue
    <3> QED
      BY <2>11, <3>7, <3>9, <3>10 DEF Truth
  <2>16. CASE OnIncomingEvidence(u, t, m)
    <3>1. m.of \in Trackers /\ \E r, q \in published[m.of] : r # q
      BY <2>16, <2>3, <2>4 DEF OnIncomingEvidence, SoundIn
    <3>2. \A d \in Peered : Range(chan'[d]) \subseteq Grown(t, m, d, Range(chan[d]))
      <4>1. Forward(t, m, chan) \in Wire
        BY <1>a, <2>1, <2>2, ForwardFacts
      <4>2. CASE m.of = t
        BY <2>16, <4>2 DEF OnIncomingEvidence, Grown
      <4>3. CASE m.of # t
        <5>1. \A d \in Peered : Range(chan'[d]) \subseteq Range(Forward(t, m, chan)[d])
          BY <2>16, <4>1, <4>3, DepeeredFacts DEF OnIncomingEvidence
        <5> QED
          BY <1>a, <2>1, <2>2, <5>1, ForwardFacts
      <4> QED
        BY <4>2, <4>3
    <3>3. PendingTrue'
      BY <2>2, <2>10, <2>12, <3>2
    <3>4. Earned'
      <4>1. \A s, x \in Trackers : x \in flagged'[s] => x \in flagged[s] \/ (s = t /\ x = m.of /\ x # t)
        BY <2>16, <2>1 DEF OnIncomingEvidence, GossipShapes
      <4> QED
        BY <1>a, <2>6, <3>1, <4>1 DEF Earned
    <3>5. ArchivedTrue'
      BY <1>a, <2>6, <2>16 DEF ArchivedTrue, OnIncomingEvidence
    <3> QED
      BY <2>11, <3>3, <3>4, <3>5 DEF Truth
  <2>17. CASE OnIncoming(u, t, m) \/ MergeExchange(u, t, m)
    <3>1. \/ chan' = chan \/ chan' = Forward(t, m, chan)
      BY <2>17 DEF OnIncoming, MergeExchange
    <3>2. \A d \in Peered : Range(chan'[d]) \subseteq Grown(t, m, d, Range(chan[d]))
      <4>1. CASE chan' = chan
        BY <4>1 DEF Grown
      <4>2. CASE chan' = Forward(t, m, chan)
        BY <4>2, <1>a, <2>1, <2>2, ForwardFacts
      <4> QED
        BY <3>1, <4>1, <4>2
    <3>3. PendingTrue'
      BY <2>2, <2>10, <2>12, <3>2
    <3>4. ArchivedTrue' /\ Earned'
      BY <1>a, <2>6, <2>17, TruthOfRest DEF OnIncoming, MergeExchange
    <3> QED
      BY <2>11, <3>3, <3>4 DEF Truth
  <2> QED
    BY <2>5, <2>13, <2>14, <2>15, <2>16, <2>17
<1>9. ASSUME NEW e \in Peered, busy[e] # NoFrame, ArchiveFails(e[1], e[2], busy[e]) PROVE Truth'
  <2>1. e = <<e[1], e[2]>>
    BY PeeredFacts
  <2>2. \A d \in Peered : busy'[d] \in {NoFrame, busy[d]}
    BY <1>9, <2>1, HandlingFrees DEF ArchiveFails, Freed
  <2> QED
    BY <1>4, <1>9, <2>2 DEF ArchiveFails, PendingOn
<1>10. ASSUME NEW e \in Peered, Reconnect(e[1], e[2]) PROVE Truth'
  BY <1>4, <1>10 DEF Reconnect, PendingOn
<1>11. ASSUME NEW e \in Peered, ClearEquivocation(e[1], e[2]) PROVE Truth'
  <2>1. \A t \in Trackers : flagged'[t] \subseteq flagged[t]
    BY <1>11 DEF ClearEquivocation, GossipShapes
  <2> QED
    BY <1>4, <1>11, <2>1 DEF ClearEquivocation, PendingOn
<1>12. ASSUME NEW l \in Edges, Drop(l) PROVE Truth'
  <2>1. \A e \in Peered : Range(chan'[e]) \subseteq Range(chan[e])
    BY <1>12, RangeOfEmpty DEF Drop
  <2> QED
    BY <1>4, <1>12, <2>1 DEF Drop, PendingOn
<1> QED
  BY <1>1, <1>2, <1>3, <1>5, <1>6, <1>7, <1>8, <1>9, <1>10, <1>11, <1>12 DEF GossipNext

-----------------------------------------------------------------------------
(* A mesh without faults.                                                    *)

\* The ends have parted after the step.
PartedNow(t, u) == u \in flagged'[t] \/ t \in flagged'[u]

\* What becomes of a payload of the link e: it is still there, the link's ends have
\* parted, or its reader has acted on it.
Kept(e, m) ==
    \/ m \in Range(chan'[e]) \cup {busy'[e]}
    \/ PartedNow(e[1], e[2])
    \/ /\ m.kind = "revocation" /\ m.of = e[1] => <<m.of, m.id>> \in revoked'[e[2]]
       /\ m.kind = "evidence" => m.of \in flagged'[e[2]] \cup {e[2]}

\* No payload disappears without effect, and no archive loses anything.
NothingLost == \A e \in Peered : \A m \in PendingOn(e) : Kept(e, m)

ArchivesGrow == \A t \in Trackers : flagged[t] \subseteq flagged'[t] /\ revoked[t] \subseteq revoked'[t]

\* A new flag is announced over every link that the step leaves alone.
Announced ==
    \A e \in Peered : \A x \in flagged'[e[1]] \ {e[2]} :
        \/ x \in flagged[e[1]] \/ PartedNow(e[1], e[2])
        \/ \E m \in Range(chan'[e]) : m.kind = "evidence" /\ m.of = x

\* A marked payload has been acted on.
ActedOn(t, m) ==
    /\ m.kind = "revocation" /\ m.of \in Peers(t) => <<m.of, m.id>> \in revoked'[t] \/ m.of \in flagged'[t]
    /\ m.kind = "evidence" /\ m.of # t => m.of \in flagged'[t]

\* The filters after a step whose marked payloads were acted on.
LEMMA ActedKept ==
    ASSUME Acted, ArchivesGrow, NEW t \in Trackers, NEW M, Marked(t, M), \A m \in M : ActedOn(t, m)
    PROVE  Acted'
<1> SUFFICES ASSUME NEW u \in Trackers, NEW m \in Range(seen'[u]) PROVE ActedOn(u, m)
  BY DEF Acted, ActedOn, Peers
<1>1. CASE m \in Range(seen[u])
  BY <1>1 DEF Acted, ActedOn, ArchivesGrow
<1>2. CASE m \notin Range(seen[u])
  BY <1>2 DEF Marked
<1> QED
  BY <1>1, <1>2

\* Evidence under way stays so, and new flags are announced.
LEMMA EvidenceKept ==
    ASSUME GossipAssumption, EvidenceUnderWay, ArchivesGrow, NothingLost, Announced
    PROVE  EvidenceUnderWay'
<1> SUFFICES ASSUME NEW e \in Peered, NEW x \in flagged'[e[1]] \ {e[2]}
             PROVE  \/ x \in flagged'[e[2]] \/ PartedNow(e[1], e[2])
                    \/ \E m \in Range(chan'[e]) \cup {busy'[e]} : m.kind = "evidence" /\ m.of = x
  BY DEF EvidenceUnderWay, PartedNow, Parted, PendingOn
<1>0. e[1] \in Trackers /\ e[2] \in Trackers
  BY PeeredFacts
<1>1. CASE x \notin flagged[e[1]]
  BY <1>1 DEF Announced
<1>2. CASE x \in flagged[e[1]] /\ \E m \in PendingOn(e) : m.kind = "evidence" /\ m.of = x
  <2>1. PICK m \in PendingOn(e) : m.kind = "evidence" /\ m.of = x
    BY <1>2
  <2>2. Kept(e, m)
    BY DEF NothingLost
  <2> QED
    BY <2>1, <2>2 DEF Kept
<1>3. CASE x \in flagged[e[1]] /\ ~\E m \in PendingOn(e) : m.kind = "evidence" /\ m.of = x
  <2>1. x \in flagged[e[2]] \/ Parted(e[1], e[2])
    BY <1>3 DEF EvidenceUnderWay
  <2> QED
    BY <2>1, <1>0 DEF Parted, PartedNow, ArchivesGrow
<1> QED
  BY <1>1, <1>2, <1>3

\* A revocation that was issued earlier.
LEMMA RevocationKept ==
    ASSUME GossipAssumption, GossipShapes, RevocationUnderWay, ArchivesGrow, NothingLost, NEW v \in issued
    PROVE  /\ v \in revoked'[v[1]]
           /\ \A t \in Peers(v[1]) : \/ v \in revoked'[t] \/ PartedNow(v[1], t)
                                     \/ Revocation(v[1], v[2]) \in Range(chan'[<<v[1], t>>])
                                                                  \cup {busy'[<<v[1], t>>]}
<1>1. v[1] \in Trackers /\ v[2] \in Identities /\ v = <<v[1], v[2]>>
  BY DEF GossipShapes
<1>2. v \in revoked'[v[1]]
  BY <1>1 DEF RevocationUnderWay, ArchivesGrow
<1>3. ASSUME NEW t \in Peers(v[1])
      PROVE  \/ v \in revoked'[t] \/ PartedNow(v[1], t)
             \/ Revocation(v[1], v[2]) \in Range(chan'[<<v[1], t>>]) \cup {busy'[<<v[1], t>>]}
  <2> DEFINE m == Revocation(v[1], v[2])
             e == <<v[1], t>>
  <2>1. t \in Trackers /\ e \in Peered /\ e[1] = v[1] /\ e[2] = t
    BY <1>1, PeeredFacts
  <2>2. m.kind = "revocation" /\ m.of = v[1] /\ m.id = v[2]
    BY <1>1, PayloadMakers
  <2>3. CASE v \in revoked[t] \/ Parted(v[1], t)
    BY <1>1, <2>1, <2>3 DEF Parted, PartedNow, ArchivesGrow
  <2>4. CASE m \in PendingOn(e)
    <3>1. Kept(e, m)
      BY <2>1, <2>4 DEF NothingLost
    <3> HIDE DEF m, e
    <3>2. m \in Range(chan'[e]) \cup {busy'[e]} \/ PartedNow(v[1], t) \/ <<v[1], v[2]>> \in revoked'[t]
      BY <3>1, <2>1, <2>2 DEF Kept
    <3> QED
      BY <1>1, <3>2 DEF m, e
  <2> QED
    BY <2>3, <2>4 DEF RevocationUnderWay
<1> QED
  BY <1>2, <1>3

\* All of them.
LEMMA RevocationsKept ==
    ASSUME GossipAssumption, GossipShapes, RevocationUnderWay, ArchivesGrow, NothingLost, issued' = issued
    PROVE  RevocationUnderWay'
<1>1. \A v \in issued :
         /\ v \in revoked'[v[1]]
         /\ \A t \in Peers(v[1]) : \/ v \in revoked'[t] \/ PartedNow(v[1], t)
                                   \/ Revocation(v[1], v[2]) \in Range(chan'[<<v[1], t>>])
                                                                \cup {busy'[<<v[1], t>>]}
  BY RevocationKept
<1> QED
  BY <1>1 DEF RevocationUnderWay, PendingOn, Parted, PartedNow, Peers, Revocation

\* A step that closes no link and removes no peer.
LEMMA StandingStays ==
    ASSUME GossipAssumption, Standing, ArchivesGrow, registered' = registered, up \subseteq up'
    PROVE  Standing'
BY PeeredFacts DEF Standing, Parted, ArchivesGrow, Peers

\* A step that only adds frames and flags no one.
LEMMA CalmSent ==
    ASSUME GossipAssumption, GossipShapes, Standing, Acted, RevocationUnderWay, EvidenceUnderWay,
           NEW t \in Trackers, NEW M, Marked(t, M), \A m \in M : ActedOn(t, m),
           UNCHANGED <<busy, registered, flagged>>, up \subseteq up', ArchivesGrow,
           \A e \in Peered : Range(chan[e]) \subseteq Range(chan'[e])
    PROVE  Standing' /\ Acted' /\ EvidenceUnderWay' /\ NothingLost
<1>1. NothingLost
  BY DEF NothingLost, Kept, PendingOn
<1>2. Announced
  BY DEF Announced
<1> QED
  BY <1>1, <1>2, ActedKept, EvidenceKept, StandingStays

\* Dispatch drops a frame only when the filter shows that it was acted on.
LEMMA CalmDispatch ==
    ASSUME GossipAssumption, GossipShapes, Standing, Acted, RevocationUnderWay, EvidenceUnderWay,
           NEW e \in Peered, DispatchGossip(e[1], e[2])
    PROVE  Standing' /\ Acted' /\ RevocationUnderWay' /\ EvidenceUnderWay'
<1> DEFINE t == e[2]
           h == Head(chan[e])
<1>1. e = <<e[1], e[2]>> /\ t \in Trackers /\ e[1] \in Peers(t)
  BY PeeredFacts
<1>2. /\ UNCHANGED <<up, seen, registered, revoked, flagged, issued>> /\ busy[e] = NoFrame
      /\ chan' = [chan EXCEPT ![e] = Tail(@)]
      /\ busy' = [busy EXCEPT ![e] = IF Seen(t, h) THEN NoFrame ELSE h]
      /\ chan[e] # <<>>
  BY <1>1, Zenon DEF DispatchGossip
<1>3. Range(chan[e]) = Range(Tail(chan[e])) \cup {h}
  BY <1>2, RangeOfTail DEF GossipShapes
<1>4. ArchivesGrow
  BY <1>2 DEF ArchivesGrow
<1>5. /\ \A d \in Peered : d # e => chan'[d] = chan[d] /\ busy'[d] = busy[d]
      /\ chan'[e] = Tail(chan[e]) /\ busy'[e] = IF Seen(t, h) THEN NoFrame ELSE h
  BY <1>2 DEF GossipShapes
<1>6. Seen(t, h) => h \in Range(seen[t])
  BY DEF Seen, Range
<1> HIDE DEF h
<1>7. NothingLost
  <2> SUFFICES ASSUME NEW d \in Peered, NEW m \in PendingOn(d) PROVE Kept(d, m)
    BY DEF NothingLost
  <2>1. CASE d # e
    BY <1>5, <2>1 DEF Kept, PendingOn
  <2>2. CASE d = e /\ m = NoFrame
    BY <2>2, PayloadMakers DEF Kept
  <2>3. CASE d = e /\ (m \in Range(Tail(chan[e])) \/ (m = h /\ ~Seen(t, h)))
    BY <2>3, <1>5 DEF Kept
  <2>4. CASE d = e /\ m = h /\ Seen(t, h)
    <3>1. /\ m.kind = "revocation" /\ m.of \in Peers(t) => <<m.of, m.id>> \in revoked[t] \/ m.of \in flagged[t]
          /\ m.kind = "evidence" /\ m.of # t => m.of \in flagged[t]
      BY <1>1, <1>6, <2>4 DEF Acted
    <3>2. CASE e[1] \in flagged[t]
      BY <1>2, <2>4, <3>2 DEF Kept, PartedNow
    <3>3. CASE e[1] \notin flagged[t]
      BY <1>1, <1>2, <2>4, <3>1, <3>3 DEF Kept
    <3> QED
      BY <3>2, <3>3
  <2> QED
    BY <1>2, <1>3, <2>1, <2>2, <2>3, <2>4 DEF PendingOn
<1>8. Announced
  BY <1>2 DEF Announced
<1>9. Acted'
  BY <1>2 DEF Acted, Peers
<1>10. Standing'
  BY <1>2, <1>4, StandingStays
<1> QED
  BY <1>2, <1>4, <1>7, <1>8, <1>9, <1>10, RevocationsKept, EvidenceKept

\* A payload that was acted on may leave its link.
LEMMA ActedIsKept ==
    ASSUME GossipAssumption, NEW e \in Peered, NEW m, ActedOn(e[2], m)
    PROVE  Kept(e, m)
<1>1. e[1] \in Peers(e[2])
  BY PeeredFacts
<1> QED
  BY <1>1 DEF ActedOn, Kept, PartedNow

\* The reader of e flags x, says so, and closes its connection to x.
LEMMA CalmFlags ==
    ASSUME GossipAssumption, GossipShapes, Standing, Acted, RevocationUnderWay, EvidenceUnderWay,
           NEW e \in Peered, Freed(e), ActedOn(e[2], busy[e]),
           NEW x \in Trackers, x # e[2],
           NEW q \in Payloads, q.kind = "evidence", q.of = x,
           NEW M, Marked(e[2], M), \A m \in M : ActedOn(e[2], m),
           chan' = Depeered(e[2], x, Forward(e[2], q, chan)),
           registered' = [registered EXCEPT ![e[2]] = @ \ {x}],
           up' = (IF x \in registered[e[2]] THEN up \ {{e[2], x}} ELSE up),
           flagged' = [flagged EXCEPT ![e[2]] = @ \cup {x}],
           UNCHANGED <<revoked, issued>>
    PROVE  Standing' /\ Acted' /\ RevocationUnderWay' /\ EvidenceUnderWay'
<1> DEFINE t == e[2]
<1>1. t \in Trackers /\ \A d \in Peered : d[1] \in Trackers /\ d[2] \in Trackers /\ d[1] # d[2]
  BY PeeredFacts
<1>2. /\ \A s \in Trackers : flagged'[s] = IF s = t THEN flagged[s] \cup {x} ELSE flagged[s]
      /\ \A s \in Trackers : registered'[s] = IF s = t THEN registered[s] \ {x} ELSE registered[s]
  BY <1>1 DEF GossipShapes
<1>3. ArchivesGrow
  BY <1>2 DEF ArchivesGrow
<1>4. \A d \in Peered : {d[1], d[2]} = {t, x} => PartedNow(d[1], d[2])
  <2> SUFFICES ASSUME NEW d \in Peered, {d[1], d[2]} = {t, x} PROVE PartedNow(d[1], d[2])
    OBVIOUS
  <2>1. (d[1] = t /\ d[2] = x) \/ (d[1] = x /\ d[2] = t)
    BY <1>1
  <2>2. x \in flagged'[t]
    BY <1>1, <1>2
  <2> QED
    BY <2>1, <2>2 DEF PartedNow
<1>5. \A d \in Peered : Range(chan'[d]) =
                            IF Cut(t, x, d) THEN {} ELSE Grown(t, q, d, Range(chan[d]))
  <2>1. chan \in Wire
    BY DEF GossipShapes, Wire
  <2>2. Forward(t, q, chan) \in Wire
    BY <1>1, <2>1, ForwardFacts
  <2> QED
    BY <1>1, <2>1, <2>2, ForwardFacts, DepeeredFacts
<1>6. NothingLost
  <2> SUFFICES ASSUME NEW d \in Peered, NEW m \in PendingOn(d) PROVE Kept(d, m)
    BY DEF NothingLost
  <2>1. CASE d = e /\ m = busy[e]
    BY <2>1, ActedIsKept
  <2>2. CASE d # e /\ m = busy[d]
    BY <2>2 DEF Freed, Kept
  <2>3. CASE m \in Range(chan[d]) /\ Cut(t, x, d)
    BY <1>4, <2>3 DEF Cut, Kept
  <2>4. CASE m \in Range(chan[d]) /\ ~Cut(t, x, d)
    BY <1>5, <2>4 DEF Grown, Kept
  <2> QED
    BY <2>1, <2>2, <2>3, <2>4 DEF PendingOn
<1>7. Announced
  <2> SUFFICES ASSUME NEW d \in Peered, NEW y \in flagged'[d[1]] \ {d[2]}, y \notin flagged[d[1]],
                      ~PartedNow(d[1], d[2])
               PROVE  \E m \in Range(chan'[d]) : m.kind = "evidence" /\ m.of = y
    BY DEF Announced
  <2>1. d[1] = t /\ y = x
    BY <1>1, <1>2
  <2>2. {t, d[2]} \in up
    BY <1>1, <1>3, <2>1 DEF Standing, Parted, PartedNow, ArchivesGrow
  <2>3. ~Cut(t, x, d)
    BY <1>4 DEF Cut
  <2>4. q \in Range(chan'[d])
    BY <1>5, <2>1, <2>2, <2>3 DEF Grown
  <2> QED
    BY <2>1, <2>4
<1>8. Standing'
  <2>1. \A s \in Trackers : Peers(s) \ flagged'[s] \subseteq registered'[s]
    BY <1>2 DEF Standing
  <2>2. \A d \in Peered : {d[1], d[2]} \in up' \/ PartedNow(d[1], d[2])
    <3> SUFFICES ASSUME NEW d \in Peered, ~PartedNow(d[1], d[2]) PROVE {d[1], d[2]} \in up'
      OBVIOUS
    <3>1. {d[1], d[2]} \in up
      BY <1>1, <1>3 DEF Standing, Parted, PartedNow, ArchivesGrow
    <3>2. {d[1], d[2]} # {t, x}
      BY <1>4
    <3> QED
      BY <3>1, <3>2
  <2> QED
    BY <2>1, <2>2 DEF Standing, Parted, PartedNow, Peers
<1>9. Acted'
  BY <1>1, <1>3, ActedKept
<1> QED
  BY <1>3, <1>6, <1>7, <1>8, <1>9, RevocationsKept, EvidenceKept

\* Every handler acts on its payload.
LEMMA CalmHandle ==
    ASSUME GossipAssumption, GossipShapes, Standing, Acted, RevocationUnderWay, EvidenceUnderWay,
           NEW e \in Peered, Handle(e[1], e[2])
    PROVE  Standing' /\ Acted' /\ RevocationUnderWay' /\ EvidenceUnderWay'
<1> DEFINE u == e[1]
           t == e[2]
           m == busy[e]
<1>1. e = <<u, t>> /\ u \in Trackers /\ t \in Trackers /\ u # t
  BY PeeredFacts
<1>2. m \in Payloads
  BY <1>1, BusyPayload DEF Handle
<1>3. \/ ApplyRelayed(u, t, m) \/ Apply(u, t, m) \/ OnLocalConflict(u, t, m)
      \/ OnIncomingEvidence(u, t, m) \/ OnIncoming(u, t, m) \/ MergeExchange(u, t, m)
  BY <1>1 DEF Handle
<1> HIDE DEF u, t, m
<1>4. Handling(u, t, m) /\ issued' = issued
  BY <1>3 DEF ApplyRelayed, Apply, OnLocalConflict, OnIncomingEvidence, OnIncoming, MergeExchange
<1>5. Freed(e)
  BY <1>1, <1>4, HandlingFrees
<1>6. chan \in Wire
  BY DEF GossipShapes, Wire
\* Nobody is flagged.
<1>7. ASSUME UNCHANGED <<up, registered, flagged>>, ArchivesGrow, ActedOn(t, m), Marked(t, {m}),
             chan' \in {chan, Forward(t, m, chan)}
      PROVE  Standing' /\ Acted' /\ RevocationUnderWay' /\ EvidenceUnderWay'
  <2>1. \A d \in Peered : Range(chan[d]) \subseteq Range(chan'[d])
    <3>1. CASE chan' = chan
      BY <3>1
    <3>2. CASE chan' = Forward(t, m, chan)
      <4>1. \A d \in Peered : Range(chan'[d]) = Grown(t, m, d, Range(chan[d]))
        BY <3>2, <1>1, <1>2, <1>6, ForwardFacts
      <4> QED
        BY <4>1 DEF Grown
    <3> QED
      BY <1>7, <3>1, <3>2
  <2>2. NothingLost
    <3> SUFFICES ASSUME NEW d \in Peered, NEW p \in PendingOn(d) PROVE Kept(d, p)
      BY DEF NothingLost
    <3>1. CASE d = e /\ p = busy[e]
      <4>1. ActedOn(e[2], p)
        BY <1>7, <3>1 DEF t, m
      <4> QED
        BY <3>1, <4>1, ActedIsKept
    <3>2. CASE d # e /\ p = busy[d]
      BY <1>5, <3>2 DEF Freed, Kept
    <3>3. CASE p \in Range(chan[d])
      BY <2>1, <3>3 DEF Kept
    <3> QED
      BY <3>1, <3>2, <3>3 DEF PendingOn
  <2>3. Announced
    BY <1>7 DEF Announced
  <2>4. Acted' /\ Standing'
    BY <1>1, <1>7, ActedKept, StandingStays
  <2> QED
    BY <1>4, <1>7, <2>2, <2>3, <2>4, RevocationsKept, EvidenceKept
<1>8. ASSUME UNCHANGED <<revoked, flagged>> PROVE ArchivesGrow
  BY <1>8 DEF ArchivesGrow
<1>9. ASSUME seen' = [seen EXCEPT ![t] = Mark(@, m)] PROVE Marked(t, {m})
  BY <1>1, <1>2, <1>9, MarkedOnce
<1>10. CASE ApplyRelayed(u, t, m)
  <2>1. ActedOn(t, m)
    BY <1>10 DEF ApplyRelayed, ActedOn
  <2> QED
    BY <1>7, <1>8, <1>9, <1>10, <2>1 DEF ApplyRelayed
<1>11. CASE Apply(u, t, m)
  <2>1. ActedOn(t, m)
    BY <1>11 DEF Apply, ActedOn
  <2> QED
    BY <1>7, <1>8, <1>9, <1>11, <2>1 DEF Apply
<1>12. CASE MergeExchange(u, t, m)
  <2>1. ActedOn(t, m)
    BY <1>12 DEF MergeExchange, ActedOn
  <2> QED
    BY <1>7, <1>8, <1>9, <1>12, <2>1 DEF MergeExchange
<1>13. CASE OnIncoming(u, t, m)
  <2>1. m.kind = "revocation" /\ m.of \in Trackers
    BY <1>13, <1>2, PayloadFacts DEF OnIncoming
  <2>2. CASE m.of \notin registered[t]
    <3>1. UNCHANGED <<revoked, flagged, chan>>
      BY <1>13, <2>2 DEF OnIncoming
    <3>2. ActedOn(t, m)
      BY <1>1, <2>1, <2>2, <3>1 DEF ActedOn, Standing
    <3> QED
      BY <1>7, <1>8, <1>9, <1>13, <3>1, <3>2 DEF OnIncoming
  <2>3. CASE m.of \in registered[t]
    <3>1. revoked' = [revoked EXCEPT ![t] = @ \cup {<<m.of, m.id>>}] /\ flagged' = flagged
          /\ chan' = Forward(t, m, chan)
      BY <1>13, <2>3 DEF OnIncoming
    <3>2. \A s \in Trackers : revoked'[s] = IF s = t THEN revoked[s] \cup {<<m.of, m.id>>} ELSE revoked[s]
      BY <1>1, <3>1 DEF GossipShapes
    <3>3. ArchivesGrow
      BY <3>1, <3>2 DEF ArchivesGrow
    <3>4. ActedOn(t, m)
      BY <1>1, <2>1, <3>2 DEF ActedOn
    <3> QED
      BY <1>7, <1>9, <1>13, <3>1, <3>3, <3>4 DEF OnIncoming
  <2> QED
    BY <2>2, <2>3
<1>14. CASE OnIncomingEvidence(u, t, m)
  <2>1. m.kind = "evidence" /\ m.of \in Trackers
    BY <1>14, <1>2, PayloadFacts DEF OnIncomingEvidence
  <2>2. CASE m.of = t
    <3>1. ActedOn(t, m)
      BY <2>1, <2>2 DEF ActedOn
    <3> QED
      BY <1>7, <1>8, <1>9, <1>14, <2>2, <3>1 DEF OnIncomingEvidence
  <2>3. CASE m.of # t
    <3>1. /\ chan' = Depeered(t, m.of, Forward(t, m, chan))
          /\ registered' = [registered EXCEPT ![t] = @ \ {m.of}]
          /\ up' = (IF m.of \in registered[t] THEN up \ {{t, m.of}} ELSE up)
          /\ flagged' = [flagged EXCEPT ![t] = @ \cup {m.of}]
          /\ UNCHANGED <<revoked, issued>>
      BY <1>14, <2>3 DEF OnIncomingEvidence
    <3>2. m.of \in flagged'[t]
      BY <1>1, <3>1 DEF GossipShapes
    <3>3. ActedOn(t, m)
      BY <2>1, <3>2 DEF ActedOn
    <3>4. Marked(t, {m})
      BY <1>9, <1>14 DEF OnIncomingEvidence
    <3>5. PICK x \in Trackers, q \in Payloads, M \in SUBSET Payloads : x = m.of /\ q = m /\ M = {m}
      BY <1>2, <2>1
    <3>6. /\ chan' = Depeered(e[2], x, Forward(e[2], q, chan))
          /\ registered' = [registered EXCEPT ![e[2]] = @ \ {x}]
          /\ up' = (IF x \in registered[e[2]] THEN up \ {{e[2], x}} ELSE up)
          /\ flagged' = [flagged EXCEPT ![e[2]] = @ \cup {x}]
          /\ x # e[2] /\ q.kind = "evidence" /\ q.of = x
          /\ ActedOn(e[2], busy[e]) /\ Marked(e[2], M) /\ \A p \in M : ActedOn(e[2], p)
          /\ UNCHANGED <<revoked, issued>>
      BY <2>1, <2>3, <3>1, <3>3, <3>4, <3>5 DEF t, m
    <3> QED
      BY <1>5, <3>6, CalmFlags
  <2> QED
    BY <2>2, <2>3
<1>15. CASE OnLocalConflict(u, t, m)
  <2> DEFINE q == Evidence(u, roots[t][u], m.root)
  <2>1. m.kind = "root" /\ roots[t][u] \in Roots /\ m.root \in Roots
    BY <1>15, <1>1, <1>2, PayloadFacts DEF OnLocalConflict, Conflicts, GossipShapes
  <2>2. q \in Payloads /\ q.kind = "evidence" /\ q.of = u
    BY <1>1, <2>1, PayloadMakers
  <2>3. /\ chan' = Depeered(t, u, Forward(t, q, chan))
        /\ registered' = [registered EXCEPT ![t] = @ \ {u}]
        /\ up' = (IF u \in registered[t] THEN up \ {{t, u}} ELSE up)
        /\ flagged' = [flagged EXCEPT ![t] = @ \cup {u}]
        /\ seen' = [seen EXCEPT ![t] = Mark(Mark(@, m), q)]
        /\ UNCHANGED <<revoked, issued>>
    BY <1>15 DEF OnLocalConflict
  <2> HIDE DEF q
  <2>4. Marked(t, {m, q})
    BY <1>1, <1>2, <2>2, <2>3, MarkedTwice
  <2>5. u \in flagged'[t]
    BY <1>1, <2>3 DEF GossipShapes
  <2>6. ActedOn(t, m) /\ ActedOn(t, q)
    BY <2>1, <2>2, <2>5 DEF ActedOn
  <2> QED
    <3>1. PICK x \in Trackers, p \in Payloads, M \in SUBSET Payloads : x = u /\ p = q /\ M = {m, q}
      BY <1>1, <1>2, <2>2
    <3>2. /\ chan' = Depeered(e[2], x, Forward(e[2], p, chan))
          /\ registered' = [registered EXCEPT ![e[2]] = @ \ {x}]
          /\ up' = (IF x \in registered[e[2]] THEN up \ {{e[2], x}} ELSE up)
          /\ flagged' = [flagged EXCEPT ![e[2]] = @ \cup {x}]
          /\ x # e[2] /\ p.kind = "evidence" /\ p.of = x
          /\ ActedOn(e[2], busy[e]) /\ Marked(e[2], M) /\ \A y \in M : ActedOn(e[2], y)
      BY <1>1, <2>2, <2>3, <2>4, <2>6, <3>1 DEF t, m
    <3> QED
      BY <1>5, <2>3, <3>2, CalmFlags, ZenonT(60)
<1> QED
  BY <1>3, <1>10, <1>11, <1>12, <1>13, <1>14, <1>15

\* Every step without a fault keeps a calm mesh calm.
LEMMA CalmKept ==
    ASSUME GossipAssumption, GossipShapes, Tables, Calm, GossipNext
    PROVE  Calm'
<1>0. SUFFICES ASSUME faults' = 0 PROVE Standing' /\ Acted' /\ RevocationUnderWay' /\ EvidenceUnderWay'
  BY DEF Calm
<1>a. ~Fault
  BY <1>0 DEF Fault, GossipShapes
<1>b. faults = 0
  <2>1. faults \in Nat
    BY DEF GossipShapes
  <2>2. faults' = faults \/ faults' = faults + 1
    BY ZenonT(60) DEF GossipNext, PublishHour, OnFreeze, EmitNow, Prune, Restart, DispatchGossip, RateLimited, Handle, ApplyRelayed,
           Apply, OnLocalConflict, OnIncomingEvidence, OnIncoming, MergeExchange, ArchiveFails, Reconnect,
           ClearEquivocation, Drop, Fault
  <2> QED
    BY <1>0, <2>1, <2>2
<1>c. Standing /\ Acted /\ RevocationUnderWay /\ EvidenceUnderWay
  BY <1>b DEF Calm
<1>d. chan \in Wire
  BY DEF GossipShapes, Wire
<1>1. ASSUME NEW t \in Publishers, NEW r \in Roots, PublishHour(t, r)
      PROVE  Standing' /\ Acted' /\ RevocationUnderWay' /\ EvidenceUnderWay'
  <2> DEFINE m == Root(t, r)
  <2>1. t \in Trackers /\ m \in Payloads /\ m.kind = "root"
    BY PayloadMakers DEF GossipAssumption
  <2>2. /\ chan' = Forward(t, m, chan) /\ seen' = [seen EXCEPT ![t] = Mark(@, m)]
        /\ UNCHANGED <<up, busy, registered, revoked, flagged, issued>>
    BY <1>1 DEF PublishHour
  <2> HIDE DEF m
  <2>3. Marked(t, {m})
    BY <2>1, <2>2, MarkedOnce
  <2>4. ActedOn(t, m) /\ ArchivesGrow
    BY <2>1, <2>2 DEF ActedOn, ArchivesGrow
  <2>5. \A e \in Peered : Range(chan[e]) \subseteq Range(chan'[e])
    <3>1. \A e \in Peered : Range(chan'[e]) = Grown(t, m, e, Range(chan[e]))
      BY <1>d, <2>1, <2>2, ForwardFacts
    <3> QED
      BY <3>1 DEF Grown
  <2>6. Standing' /\ Acted' /\ EvidenceUnderWay' /\ NothingLost
    BY <1>c, <2>1, <2>2, <2>3, <2>4, <2>5, CalmSent
  <2> QED
    BY <1>c, <2>2, <2>4, <2>6, RevocationsKept
<1>2. ASSUME NEW t \in Freezers, NEW i \in Identities, OnFreeze(t, i)
      PROVE  Standing' /\ Acted' /\ RevocationUnderWay' /\ EvidenceUnderWay'
  <2> DEFINE m == Revocation(t, i)
  <2>1. t \in Trackers /\ m \in Payloads /\ m.kind = "revocation" /\ m.of = t /\ m.id = i
    BY PayloadMakers DEF GossipAssumption
  <2>2. /\ chan' = Forward(t, m, chan) /\ seen' = [seen EXCEPT ![t] = Mark(@, m)]
        /\ UNCHANGED <<up, busy, registered, flagged>> /\ issued' = issued \cup {<<t, i>>}
        /\ revoked' = [revoked EXCEPT ![t] = @ \cup {<<t, i>>}]
    BY <1>0, <1>b, <1>2 DEF OnFreeze
  <2>3. Marked(t, {m})
    BY <2>1, <2>2, MarkedOnce
  <2>4. \A s \in Trackers : revoked'[s] = IF s = t THEN revoked[s] \cup {<<t, i>>} ELSE revoked[s]
    BY <2>1, <2>2 DEF GossipShapes
  <2>5. ActedOn(t, m) /\ ArchivesGrow
    <3>1. t \notin Peers(t)
      BY <2>1, PeeredFacts
    <3> QED
      BY <2>1, <2>2, <2>4, <3>1 DEF ActedOn, ArchivesGrow
  <2>6. \A e \in Peered : Range(chan'[e]) = Grown(t, m, e, Range(chan[e]))
    BY <1>d, <2>1, <2>2, ForwardFacts
  <2>7. Standing' /\ Acted' /\ EvidenceUnderWay' /\ NothingLost
    <3>1. \A e \in Peered : Range(chan[e]) \subseteq Range(chan'[e])
      BY <2>6 DEF Grown
    <3> QED
      BY <1>c, <2>1, <2>2, <2>3, <2>5, <3>1, CalmSent
  <2>8. ASSUME NEW v \in issued'
        PROVE  /\ v \in revoked'[v[1]]
               /\ \A s \in Peers(v[1]) : \/ v \in revoked'[s] \/ PartedNow(v[1], s)
                                         \/ Revocation(v[1], v[2]) \in Range(chan'[<<v[1], s>>])
                                                                      \cup {busy'[<<v[1], s>>]}
    <3>1. CASE v \in issued
      BY <1>c, <2>5, <2>7, <3>1, RevocationKept
    <3>2. CASE v = <<t, i>>
      <4>1. v[1] = t /\ v[2] = i /\ v \in revoked'[t]
        BY <2>1, <2>4, <3>2
      <4>2. ASSUME NEW s \in Peers(t), ~PartedNow(t, s) PROVE m \in Range(chan'[<<t, s>>])
        <5>1. <<t, s>> \in Peered /\ <<t, s>>[1] = t /\ <<t, s>>[2] = s
          BY <2>1, PeeredFacts
        <5>2. {t, s} \in up
          BY <1>c, <2>2, <4>2, <5>1 DEF Standing, Parted, PartedNow
        <5> QED
          BY <2>6, <5>1, <5>2 DEF Grown
      <4> QED
        BY <4>1, <4>2
    <3> QED
      BY <2>2, <3>1, <3>2
  <2>9. RevocationUnderWay'
    BY <2>8 DEF RevocationUnderWay, PendingOn, Parted, PartedNow, Peers, Revocation
  <2> QED
    BY <2>7, <2>9
<1>3. ASSUME NEW t \in Emitters, EmitNow(t)
      PROVE  Standing' /\ Acted' /\ RevocationUnderWay' /\ EvidenceUnderWay'
  <2> DEFINE m == Emitted(t)
  <2>1. t \in Trackers
    BY DEF GossipAssumption
  <2>2. /\ chan' = Forward(t, m, chan) /\ seen' = [seen EXCEPT ![t] = Mark(@, m)]
        /\ UNCHANGED <<up, busy, registered, revoked, flagged, issued>> /\ m \in Payloads /\ m.kind = "exchange"
    BY <1>3, <2>1, EmittedFacts DEF EmitNow
  <2> HIDE DEF m
  <2>3. Marked(t, {m})
    BY <2>1, <2>2, MarkedOnce
  <2>4. ActedOn(t, m) /\ ArchivesGrow
    BY <2>1, <2>2 DEF ActedOn, ArchivesGrow
  <2>5. \A e \in Peered : Range(chan[e]) \subseteq Range(chan'[e])
    <3>1. \A e \in Peered : Range(chan'[e]) = Grown(t, m, e, Range(chan[e]))
      BY <1>d, <2>1, <2>2, ForwardFacts
    <3> QED
      BY <3>1 DEF Grown
  <2>6. Standing' /\ Acted' /\ EvidenceUnderWay' /\ NothingLost
    BY <1>c, <2>1, <2>2, <2>3, <2>4, <2>5, CalmSent
  <2> QED
    BY <1>c, <2>2, <2>4, <2>6, RevocationsKept
<1>4. ASSUME NEW t \in Trackers, UNCHANGED <<chan, busy, seen, registered, revoked, flagged, issued>>, up \subseteq up'
      PROVE  Standing' /\ Acted' /\ RevocationUnderWay' /\ EvidenceUnderWay'
  <2>1. Marked(t, {})
    BY <1>4, MarkedNone
  <2>2. ArchivesGrow
    BY <1>4 DEF ArchivesGrow
  <2>3. \A e \in Peered : Range(chan[e]) \subseteq Range(chan'[e])
    BY <1>4
  <2>4. Standing' /\ Acted' /\ EvidenceUnderWay' /\ NothingLost
    BY <1>c, <1>4, <2>1, <2>2, <2>3, CalmSent
  <2> QED
    BY <1>c, <1>4, <2>2, <2>4, RevocationsKept
<1>5. ASSUME NEW t \in Emitters, Prune(t)
      PROVE  Standing' /\ Acted' /\ RevocationUnderWay' /\ EvidenceUnderWay'
  BY <1>4, <1>5 DEF Prune, GossipAssumption
<1>6. ASSUME NEW e \in Peered, Reconnect(e[1], e[2])
      PROVE  Standing' /\ Acted' /\ RevocationUnderWay' /\ EvidenceUnderWay'
  BY <1>4, <1>6, PeeredFacts DEF Reconnect
<1> QED
  BY <1>a, <1>c, <1>1, <1>2, <1>3, <1>5, <1>6, CalmDispatch, CalmHandle
     DEF GossipNext, Restart, RateLimited, ArchiveFails, ClearEquivocation, Drop

-----------------------------------------------------------------------------
(* The theorems.                                                             *)

\* The invariant holds at first, is kept, and gives GossipInv.
LEMMA GossipStarts ==
    ASSUME GossipAssumption, GossipInit
    PROVE  GossipIInv
<1>1. GossipShapes
  <2>1. <<>> \in Seq(Payloads) /\ Len(<<>>) = 0
    OBVIOUS
  <2> QED
    BY <2>1 DEF GossipInit, GossipShapes, GossipAssumption, Peers
<1>2. Tables
  <2>1. \A t \in Trackers : Peers(t) \cap Strangers = {} /\ StartedAt[t] \in Nat
    BY DEF GossipAssumption, Peers
  <2> SUFFICES ASSUME NEW t \in Trackers
               PROVE  /\ known[t] \in [DOMAIN known[t] -> Rows]
                      /\ Peers(t) \subseteq DOMAIN known[t]
                      /\ DOMAIN known[t] \subseteq Trackers \cup Strangers
                      /\ \A x \in Peers(t) : known[t][x].source = "allowlist"
    BY DEF GossipInit, Tables
  <2> DEFINE D == Peers(t) \cup (IF t \in Emitters THEN Strangers ELSE {})
  <2>2. known[t] = [x \in D |-> IF x \in Strangers THEN KnownPeer(0, 1, "gossip")
                                ELSE KnownPeer(StartedAt[t], 1, "allowlist")]
    BY DEF GossipInit
  <2>3. /\ KnownPeer(0, 1, "gossip") \in Rows
        /\ KnownPeer(StartedAt[t], 1, "allowlist") \in Rows
        /\ KnownPeer(StartedAt[t], 1, "allowlist").source = "allowlist"
    BY <2>1 DEF KnownPeer, Rows
  <2>4. Peers(t) \subseteq D /\ D \subseteq Trackers \cup Strangers
    BY DEF Peers
  <2> HIDE DEF D
  <2> QED
    BY <2>1, <2>2, <2>3, <2>4
<1>3. Truth
  <2>1. \A e \in Peered : PendingOn(e) = {NoFrame}
    BY RangeOfEmpty DEF GossipInit, PendingOn
  <2>2. PendingTrue
    BY <2>1, PayloadMakers DEF PendingTrue, SoundIn
  <2>3. ArchivedTrue /\ Earned /\ Finite
    BY FS_EmptySet DEF GossipInit, ArchivedTrue, Earned, Finite
  <2> QED
    BY <2>2, <2>3 DEF Truth
<1>4. Calm
  <2>1. Standing
    BY PeeredFacts DEF GossipInit, Standing
  <2>2. Acted
    BY RangeOfEmpty DEF GossipInit, Acted
  <2>3. RevocationUnderWay /\ EvidenceUnderWay
    BY PeeredFacts DEF GossipInit, RevocationUnderWay, EvidenceUnderWay
  <2> QED
    BY <2>1, <2>2, <2>3 DEF Calm
<1> QED
  BY <1>1, <1>2, <1>3, <1>4 DEF GossipIInv

LEMMA GossipIInvKept ==
    ASSUME GossipAssumption, GossipIInv, [GossipNext]_gossipVars
    PROVE  GossipIInv'
<1>1. CASE GossipNext
  BY <1>1, ShapesKept, TablesKept, TruthKept, CalmKept DEF GossipIInv
<1>2. CASE UNCHANGED gossipVars
  <2>1. GossipShapes'
    BY <1>2 DEF gossipVars, GossipIInv, GossipShapes
  <2>2. Tables'
    BY <1>2, TablesStay DEF gossipVars, GossipIInv
  <2>3. Truth'
    <3>1. PendingTrue'
      BY <1>2 DEF gossipVars, GossipIInv, Truth, PendingTrue, PendingOn
    <3>2. ArchivedTrue' /\ Earned' /\ Finite'
      BY <1>2 DEF gossipVars, GossipIInv, Truth, ArchivedTrue, Earned, Finite
    <3> QED
      BY <3>1, <3>2 DEF Truth
  <2>4. Calm'
    <3>1. UNCHANGED <<up, registered, flagged, chan, busy, seen, revoked, issued, faults>>
      BY <1>2 DEF gossipVars
    <3>2. ASSUME Standing PROVE Standing'
      BY <3>1, <3>2 DEF Standing, Parted, Peers
    <3>3. ASSUME Acted PROVE Acted'
      BY <3>1, <3>3 DEF Acted, Peers
    <3>4. ASSUME RevocationUnderWay PROVE RevocationUnderWay'
      BY <3>1, <3>4 DEF RevocationUnderWay, PendingOn, Parted, Peers, Revocation
    <3>5. ASSUME EvidenceUnderWay PROVE EvidenceUnderWay'
      BY <3>1, <3>5 DEF EvidenceUnderWay, PendingOn, Parted
    <3> QED
      BY <3>1, <3>2, <3>3, <3>4, <3>5 DEF GossipIInv, Calm
  <2> QED
    BY <2>1, <2>2, <2>3, <2>4 DEF GossipIInv
<1> QED
  BY <1>1, <1>2

\* A set with two elements.
LEMMA TwoElements ==
    ASSUME NEW S, IsFiniteSet(S), NEW r \in S, NEW q \in S, r # q
    PROVE  Cardinality(S) > 1
<1>1. IsFiniteSet({r, q}) /\ Cardinality({r, q}) = 2
  <2>1. IsFiniteSet({r}) /\ Cardinality({r}) = 1 /\ q \notin {r}
    BY FS_Singleton
  <2>2. IsFiniteSet({r} \cup {q}) /\ Cardinality({r} \cup {q}) = Cardinality({r}) + 1
    BY <2>1, FS_AddElement
  <2>3. {r} \cup {q} = {r, q}
    OBVIOUS
  <2> QED
    BY <2>1, <2>2, <2>3
<1>2. Cardinality({r, q}) <= Cardinality(S)
  BY FS_Subset
<1> QED
  BY <1>1, <1>2, FS_CardinalityType

LEMMA GossipIInvImplies ==
    ASSUME GossipAssumption, GossipIInv
    PROVE  GossipInv
<1> USE DEF GossipIInv
<1>1. GossipTypeOK
  <2>1. seen \in [Trackers -> Seq(UNION {Range(seen[t]) : t \in Trackers})]
    <3> DEFINE U == UNION {Range(seen[t]) : t \in Trackers}
    <3>1. ASSUME NEW t \in Trackers PROVE seen[t] \in Seq(U)
      <4>1. seen[t] \in Seq(Payloads) /\ Range(seen[t]) \subseteq U
        BY DEF GossipShapes
      <4>2. seen[t] \in Seq(Range(seen[t]))
        BY <4>1, SeqOfRange
      <4> HIDE DEF U
      <4> QED
        BY <4>1, <4>2, SeqMonotonic
    <3> HIDE DEF U
    <3>2. seen \in [Trackers -> Seq(U)]
      BY <3>1 DEF GossipShapes
    <3> QED
      BY <3>2 DEF U
  <2>2. \A t \in Trackers : /\ Peers(t) \subseteq DOMAIN known[t]
                            /\ DOMAIN known[t] \subseteq Trackers \cup Strangers
                            /\ Range(known[t]) \subseteq Rows
    BY DEF Tables, Range
  <2>3. originated \in 0..MaxGossip /\ faults \in 0..MaxFaults /\ cutoff \in 0..MaxCutoff
    BY DEF GossipShapes, GossipAssumption
  <2> QED
    BY <2>1, <2>2, <2>3 DEF GossipTypeOK, GossipShapes
<1>2. FlagIsEarned
  <2> SUFFICES ASSUME NEW t \in Trackers, NEW x \in Trackers, x \in flagged[t]
               PROVE  Cardinality(published[x]) > 1 /\ x # t
    BY DEF FlagIsEarned
  <2>1. x # t /\ IsFiniteSet(published[x]) /\ \E r, q \in published[x] : r # q
    BY DEF Truth, Earned, Finite
  <2> QED
    BY <2>1, TwoElements
<1>3. RevocationReachesAll
  <2> SUFFICES ASSUME Quiet, faults = 0, NEW v \in issued, v[1] \in Trusted, NEW t \in Trusted,
                      t \in Peers(v[1]) \cup {v[1]}
               PROVE  v \in revoked[t]
    BY DEF RevocationReachesAll
  <2>1. v[1] \in Trackers /\ v[2] \in Identities /\ RevocationUnderWay
    BY DEF GossipShapes, Calm
  <2>2. CASE t = v[1]
    BY <2>1, <2>2 DEF RevocationUnderWay
  <2>3. CASE t \in Peers(v[1])
    <3>1. <<v[1], t>> \in Peered
      BY <2>1, <2>3, PeeredFacts
    <3>2. PendingOn(<<v[1], t>>) = {NoFrame}
      BY <3>1, RangeOfEmpty DEF Quiet, PendingOn
    <3>3. Revocation(v[1], v[2]) # NoFrame
      BY <2>1, PayloadMakers, PayloadFacts
    <3>4. ~Parted(v[1], t)
      BY DEF Parted, Trusted
    <3> QED
      BY <2>1, <2>3, <3>2, <3>3, <3>4 DEF RevocationUnderWay
  <2> QED
    BY <2>2, <2>3
<1>4. EvidenceReachesAll
  <2> SUFFICES ASSUME Quiet, faults = 0, NEW t \in Trusted, NEW u \in Trusted, u \in Peers(t),
                      NEW x \in flagged[t] \ {u}
               PROVE  x \in flagged[u]
    BY DEF EvidenceReachesAll
  <2> DEFINE e == <<t, u>>
  <2>1. e \in Peered /\ e[1] = t /\ e[2] = u
    BY PeeredFacts DEF Trusted
  <2>2. PendingOn(e) = {NoFrame}
    BY <2>1, RangeOfEmpty DEF Quiet, PendingOn
  <2>3. ~Parted(t, u)
    BY DEF Parted, Trusted
  <2>4. EvidenceUnderWay
    BY DEF Calm
  <2> HIDE DEF e
  <2> QED
    BY <2>1, <2>2, <2>3, <2>4, PayloadMakers DEF EvidenceUnderWay
<1> QED
  BY <1>1, <1>2, <1>3, <1>4 DEF GossipInv

\* Gossip is sound and complete for any mesh, any sets of roots and identities and any
\* capacity of the replay filter (TypeOK, FlagIsEarned, RevocationReachesAll and
\* EvidenceReachesAll): whatever order the recv loops run in, a tracker is flagged
\* only for two roots of its own, and a mesh that comes to rest without faults has
\* brought every revocation and every conflict to the peers that still trust each other.
THEOREM GossipIsSound == GossipSpec => []GossipInv
<1> USE GossipAssumption
<1>1. GossipInit => GossipIInv
  BY GossipStarts
<1>2. GossipIInv /\ [GossipNext]_gossipVars => GossipIInv'
  BY GossipIInvKept
<1>3. GossipIInv => GossipInv
  BY GossipIInvImplies
<1> QED
  BY <1>1, <1>2, <1>3, PTL DEF GossipSpec

\* No step replaces a root that is archived, takes an allowlisted peer from the table
\* of known peers or moves a last_seen back: not a merge, a prune, an emission or a
\* restart (FirstRootStays and KnownPeersOnlyImprove).
THEOREM ArchivesImprove == GossipSpec => ArchivesOnlyImprove
<1> USE GossipAssumption
<1>1. GossipInit => GossipIInv
  BY GossipStarts
<1>2. GossipIInv /\ [GossipNext]_gossipVars => GossipIInv'
  BY GossipIInvKept
<1>3. GossipIInv /\ [GossipNext]_gossipVars =>
        [\A t, x \in Trackers : roots[t][x] # NoRoot => roots'[t][x] = roots[t][x]]_gossipVars
  BY RootsStay DEF GossipIInv, RootStep
<1>4. GossipIInv /\ [GossipNext]_gossipVars =>
        [\A t \in Trackers : \A x \in DOMAIN known[t] :
            \/ x \in DOMAIN known'[t] /\ known'[t][x].source = known[t][x].source
                                      /\ known'[t][x].last >= known[t][x].last
            \/ x \notin DOMAIN known'[t] /\ known[t][x].source = "gossip"]_gossipVars
  BY TablesKept DEF GossipIInv, KnownStep, RowImproves
<1> QED
  BY <1>1, <1>2, <1>3, <1>4, PTL DEF GossipSpec, ArchivesOnlyImprove, FirstRootStays, KnownPeersOnlyImprove
=============================================================================
