------------------------------ MODULE Peering ------------------------------
(***************************************************************************)
(* The links between two federated trackers (tracker/internal/federation): *)
(* each side's dialers and its accept callback, the handshake, attaching a *)
(* peer and its receive loop, the map of live peers and the registry that  *)
(* operators see, the three ways a peer is removed (the operator, the      *)
(* health watcher and the integrity gate call Depeer; an equivocation      *)
(* removes the registry's entry from inside a receive loop), and Close.    *)
(*                                                                         *)
(* Both trackers allowlist each other and dial each other, so there may be *)
(* several links at once; the map holds the one attached last.  A link is  *)
(* closed by either end or breaks, and each end notices in its own time.   *)
(* Frames are in order on a link, so what an end has received follows from *)
(* how far the other has come; keys, nonces and signatures are those of    *)
(* two honest trackers.                                                    *)
(***************************************************************************)
EXTENDS Integers, FiniteSets

CONSTANTS
    Nodes,      \* two trackers
    Operated,   \* bound: the trackers whose tables are modelled and that remove peers and close
    MaxLinks,   \* bound: links not yet torn down at both ends
    MaxDialers, \* bound: dialers one tracker has for the other
    MaxEvents,  \* bound: faults, verdicts and operators' calls
    Dead,       \* a peer whose receive loop has ended
    None

ASSUME PeeringAssumption ==
    /\ Cardinality(Nodes) = 2 /\ Operated \subseteq Nodes
    /\ {MaxLinks, MaxDialers} \subseteq Nat \ {0} /\ MaxEvents \in Nat
    /\ Dead # None /\ {Dead, None} \cap (1..MaxLinks) = {}

VARIABLES
    link,     \* the links: who dialled, whether it stands, the step of each end
    peers,    \* Federation.peers[the other]: the link attached last
    reg,      \* Registry.peers[the other]: its state and connection
    dialers,  \* dialer goroutines for the other
    hooks,    \* reconnect hooks that run
    depeer,   \* the Depeer calls: their step and the peer they stop
    closing,  \* Close: its step and the peer it stops
    low,      \* the other's health score is below the threshold
    since,    \* healthWatcherState.belowSince has the other
    happened

vars == <<link, peers, reg, dialers, hooks, depeer, closing, low, since, happened>>

Links == 1..MaxLinks

Other(n) == CHOOSE m \in Nodes : m # n

\* Who calls Depeer: an operator, runHealthWatcherTick, the reconnect hook.
Callers == {"operator", "watcher", "hook"}

\* The steps of an end.  "off" before the link exists and after the end has let go of it.
Handshaking == {"incoming", "hello", "auth", "attach"}
Running == {"on", "busy"}
Ends == {"off", "start"} \cup Handshaking \cup Running

Unused == [by |-> None, dialer |-> 0, up |-> FALSE, end |-> [n \in Nodes |-> "off"]]
Pending == [state |-> "pending", conn |-> None]
Steady(c) == [state |-> "steady", conn |-> c]
NoCall == [step |-> "idle", peer |-> None]

\* Open: the allowlisted peer is registered as pending and gets its dialer.
Init ==
    /\ link = [c \in Links |-> Unused]
    /\ peers = [n \in Operated |-> None]
    /\ reg = [n \in Operated |-> Pending]
    /\ dialers = [n \in Nodes |-> 1]
    /\ hooks = [n \in Operated |-> 0]
    /\ depeer = [n \in Operated |-> [k \in Callers |-> NoCall]]
    /\ closing = [n \in Operated |-> NoCall]
    /\ low = [n \in Operated |-> FALSE] /\ since = [n \in Operated |-> FALSE]
    /\ happened = 0

Event == happened < MaxEvents /\ happened' = happened + 1

callVars == <<hooks, depeer, closing>>
mapVars == <<peers, reg>>
healthVars == <<low, since>>

Closed(n) == n \in Operated /\ closing[n].step # "idle"
Cancelled(n) == n \in Operated /\ closing[n].step = "done"

\* The registry's peers are the allowlist; a tracker that is not operated keeps its peer.
Allowed(n) == n \in Operated => reg[n] # None

\* A plausible slip: Close holds the lock until its peers have stopped.
LockedStepsAll == {"drain", "wait"}

\* The steps of Close between which it holds Federation.mu.  Every other section under the lock
\* is one step.
LockedSteps == {}

Locked(n) == n \in Operated /\ closing[n].step \in LockedSteps

\* A link that is down at both ends, and nobody waits for, may be dialled anew.
Free(c) ==
    /\ \A n \in Nodes : link[c].end[n] = "off"
    /\ \A n \in Operated : closing[n].peer # c /\ \A k \in Callers : depeer[n][k].peer # c

\* The ends of a link that is closed or lost.
Down(c) == [link[c] EXCEPT !.up = FALSE]

\* An end lets go of its link.  One that is off at both ends is forgotten.
LetGo(l, n) ==
    LET after == [l EXCEPT !.end[n] = "off"]
    IN  IF \A m \in Nodes : after.end[m] = "off" THEN Unused ELSE after

Gone(x, c) == IF x = c THEN Dead ELSE x

-----------------------------------------------------------------------------
(* Dialling, accepting, the handshake. *)

\* Dialer.Run: a dialer that waits for no link dials.  A redial is not delayed: the backoff is
\* slept after a failed dial only.
Dial(n, k) ==
    /\ k <= dialers[n] /\ ~Cancelled(n) /\ ~Cancelled(Other(n))
    /\ \A d \in Links : link[d].by = n /\ link[d].dialer = k => link[d].end[n] = "off"
    /\ \E c \in Links :
         /\ Free(c) /\ \A d \in 1..(c - 1) : ~Free(d)
         /\ link' = [link EXCEPT ![c] =
                       [by |-> n, dialer |-> k, up |-> TRUE,
                        end |-> [m \in Nodes |-> IF m = n THEN "hello" ELSE "incoming"]]]
    /\ UNCHANGED <<mapVars, dialers, callVars, healthVars, happened>>

GotoEnd(c, n, step) == link' = [link EXCEPT ![c].end[n] = step]

\* acceptInbound takes the registry's peers for the allowlist, and RunHandshakeListener answers
\* the Hello of one of them.
AcceptInbound(c, n) ==
    /\ link[c].end[n] = "incoming" /\ link[c].up /\ ~Cancelled(n)
    /\ Allowed(n)
    /\ GotoEnd(c, n, "auth")
    /\ UNCHANGED <<mapVars, dialers, callVars, healthVars, happened>>

\* RunHandshakeListener: the PeerAuth with which the dialer answers the listener's Hello is
\* answered with PeerAuth and PeeringAccept.
SendAccept(c, n) ==
    /\ link[c].end[n] = "auth" /\ link[c].up
    /\ link[c].end[Other(n)] = "hello"
    /\ GotoEnd(c, n, "attach")
    /\ UNCHANGED <<mapVars, dialers, callVars, healthVars, happened>>

\* RunHandshakeDialer: the accept arrived.
RecvAccept(c, n) ==
    /\ link[c].end[n] = "hello" /\ link[c].up
    /\ link[c].end[Other(n)] \in {"attach", "start", "off"} \cup Running
    /\ GotoEnd(c, n, "attach")
    /\ UNCHANGED <<mapVars, dialers, callVars, healthVars, happened>>

\* A handshake that fails closes the link: the peer is not allowlisted, the link is lost, or
\* listenCtx ends.
HandshakeFails(c, n) ==
    /\ link[c].end[n] \in {"incoming", "hello", "auth"}
    /\ \/ ~link[c].up \/ Cancelled(n)
       \/ link[c].end[n] = "incoming" /\ ~Allowed(n)
    /\ link' = [link EXCEPT ![c] = LetGo(Down(c), n)]
    /\ UNCHANGED <<mapVars, dialers, callVars, healthVars, happened>>

\* attachPeerLocked when Close has begun: the end is dropped, and the link left open.
AttachRefused(c, n) ==
    /\ n \in Operated /\ link[c].end[n] = "attach" /\ ~Locked(n) /\ Closed(n)
    /\ link' = [link EXCEPT ![c] = LetGo(link[c], n)]
    /\ UNCHANGED <<mapVars, dialers, callVars, healthVars, happened>>

\* A plausible slip: the registry keeps the first connection it was given.
AttachPeerFirst(c, n) ==
    /\ n \in Operated /\ link[c].end[n] = "attach" /\ ~Locked(n) /\ ~Closed(n)
    /\ peers' = [peers EXCEPT ![n] = c]
    /\ reg' = [reg EXCEPT ![n] = IF @ = None \/ @.conn \in Links THEN @ ELSE Steady(c)]
    /\ hooks' = [hooks EXCEPT ![n] = @ + 1]
    /\ GotoEnd(c, n, "start")
    /\ UNCHANGED <<dialers, depeer, closing, healthVars, happened>>

\* A plausible slip: a peer that the map has already is left there.
AttachPeerKeeping(c, n) ==
    /\ n \in Operated /\ link[c].end[n] = "attach" /\ ~Locked(n) /\ ~Closed(n)
    /\ peers' = [peers EXCEPT ![n] = IF @ = None THEN c ELSE @]
    /\ reg' = [reg EXCEPT ![n] = IF @ = None THEN @ ELSE Steady(c)]
    /\ hooks' = [hooks EXCEPT ![n] = @ + 1]
    /\ GotoEnd(c, n, "start")
    /\ UNCHANGED <<dialers, depeer, closing, healthVars, happened>>

\* attachPeerLocked: the link replaces whatever the map had, which is not stopped; a registry
\* that has forgotten the peer is not told; the reconnect hook starts.
AttachPeer(c, n) ==
    /\ n \in Operated /\ link[c].end[n] = "attach" /\ ~Locked(n) /\ ~Closed(n)
    /\ peers' = [peers EXCEPT ![n] = c]
    /\ reg' = [reg EXCEPT ![n] = IF @ = None THEN @ ELSE Steady(c)]
    /\ hooks' = [hooks EXCEPT ![n] = @ + 1]
    /\ GotoEnd(c, n, "start")
    /\ UNCHANGED <<dialers, depeer, closing, healthVars, happened>>

\* The same where the tables are not modelled.
AttachElsewhere(c, n) ==
    /\ n \notin Operated /\ link[c].end[n] = "attach"
    /\ GotoEnd(c, n, "on")
    /\ UNCHANGED <<mapVars, dialers, callVars, healthVars, happened>>

\* Peer.Start, outside the lock.
StartPeer(c, n) ==
    /\ link[c].end[n] = "start"
    /\ GotoEnd(c, n, "on")
    /\ UNCHANGED <<mapVars, dialers, callVars, healthVars, happened>>

-----------------------------------------------------------------------------
(* The receive loop. *)

\* A frame of the other is handed to the dispatcher.
Recv(c, n) ==
    /\ link[c].end[n] = "on" /\ link[c].up
    /\ link[c].end[Other(n)] \in Running /\ Event
    /\ GotoEnd(c, n, "busy")
    /\ UNCHANGED <<mapVars, dialers, callVars, healthVars>>

\* Registry.Depeer: the entry goes and its connection is closed.
RegistryDepeer(n, l) ==
    /\ reg' = [reg EXCEPT ![n] = None]
    /\ link' = IF reg[n] # None /\ reg[n].conn \in Links
               THEN [l EXCEPT ![reg[n].conn].up = FALSE] ELSE l

\* The dispatcher forwards what it got, for which it takes the lock, and returns; if it was
\* evidence of the other's equivocation the registry drops the other.
Dispatch(c, n) ==
    /\ link[c].end[n] = "busy" /\ ~Locked(n)
    /\ LET l == [link EXCEPT ![c].end[n] = "on"]
       IN  \/ link' = l /\ UNCHANGED reg
           \/ RegistryDepeer(n, l)
    /\ UNCHANGED <<peers, dialers, callVars, healthVars, happened>>

\* recvLoop returns; the map and the registry keep what they have.
RecvEnds(c, n) ==
    /\ link[c].end[n] = "on" /\ ~link[c].up
    /\ link' = [link EXCEPT ![c] = LetGo(link[c], n)]
    /\ peers' = [m \in Operated |-> IF m = n THEN Gone(peers[m], c) ELSE peers[m]]
    /\ reg' = [m \in Operated |-> IF m = n /\ reg[m] # None
                                  THEN [reg[m] EXCEPT !.conn = Gone(@, c)] ELSE reg[m]]
    /\ UNCHANGED <<dialers, callVars, healthVars, happened>>

\* A link breaks, or carries nothing for the length of the idle timeout.
Break(c) ==
    /\ link[c].up /\ Event
    /\ link' = [link EXCEPT ![c].up = FALSE]
    /\ UNCHANGED <<mapVars, dialers, callVars, healthVars>>

\* A link that one end has dropped without closing it times out.
IdleOut(c) ==
    /\ link[c].up /\ \E n \in Nodes : link[c].end[n] = "off"
    /\ link' = [link EXCEPT ![c].up = FALSE]
    /\ UNCHANGED <<mapVars, dialers, callVars, healthVars, happened>>

-----------------------------------------------------------------------------
(* Depeer, its three callers, AddPeer. *)

\* Federation.Depeer takes the peer out of the map, under the lock ...
RemovePeer(n, k) ==
    /\ depeer[n][k].step = "idle" /\ ~Locked(n)
    /\ depeer' = [depeer EXCEPT ![n][k] =
                     [step |-> IF peers[n] \in Links THEN "stop" ELSE "registry",
                      peer |-> IF peers[n] \in Links THEN peers[n] ELSE None]]
    /\ peers' = [peers EXCEPT ![n] = None]

\* The daemon has shut its admin server down by the time it closes the federation.
OperatorDepeers(n) ==
    /\ ~Closed(n) /\ Event /\ RemovePeer(n, "operator")
    /\ UNCHANGED <<link, reg, dialers, hooks, closing, healthVars>>

\* ... closes its connection, which Peer.Stop does first, ...
StopPeer(n, k) ==
    /\ depeer[n][k].step = "stop"
    /\ link' = [link EXCEPT ![depeer[n][k].peer].up = FALSE]
    /\ depeer' = [depeer EXCEPT ![n][k].step = "wait"]
    /\ UNCHANGED <<mapVars, dialers, hooks, closing, healthVars, happened>>

\* ... waits for its receive loop, ...
StopWaits(n, k) ==
    /\ depeer[n][k].step = "wait"
    /\ link[depeer[n][k].peer].end[n] \notin Running
    /\ depeer' = [depeer EXCEPT ![n][k] = [step |-> "registry", peer |-> None]]
    /\ UNCHANGED <<link, mapVars, dialers, hooks, closing, healthVars, happened>>

\* ... and removes the registry's entry, with the connection it has by now.  The dialer goes on.
DepeerReturns(n, k) ==
    /\ depeer[n][k].step = "registry"
    /\ RegistryDepeer(n, link)
    /\ depeer' = [depeer EXCEPT ![n][k] = NoCall]
    /\ hooks' = [hooks EXCEPT ![n] = IF k = "hook" THEN @ - 1 ELSE @]
    /\ UNCHANGED <<peers, dialers, closing, healthVars, happened>>

\* AddPeer: a peer the registry does not know gets an entry and a dialer.
AddPeer(n) ==
    /\ ~Closed(n) /\ reg[n] = None /\ dialers[n] < MaxDialers
    /\ reg' = [reg EXCEPT ![n] = Pending]
    /\ dialers' = [dialers EXCEPT ![n] = @ + 1]
    /\ UNCHANGED <<link, peers, callVars, healthVars, happened>>

\* The reconnect hook walks the local chain: intact, nothing happens ...
HookPasses(n) ==
    /\ hooks[n] > (IF depeer[n]["hook"].step = "idle" THEN 0 ELSE 1)
    /\ hooks' = [hooks EXCEPT ![n] = @ - 1]
    /\ UNCHANGED <<link, mapVars, dialers, depeer, closing, healthVars, happened>>

\* ... broken, the peer that was just attached is dropped.
HookFails(n) ==
    /\ hooks[n] > 0 /\ Event /\ RemovePeer(n, "hook")
    /\ UNCHANGED <<link, reg, dialers, hooks, closing, healthVars>>

\* The score of the other crosses the threshold.
ScoreChanges(n) ==
    /\ Event
    /\ low' = [low EXCEPT ![n] = ~@]
    /\ UNCHANGED <<link, mapVars, dialers, callVars, since>>

IsSteady(n) == reg[n] # None /\ reg[n].state = "steady"

\* runHealthWatcherTick: a low score is noted, any other forgotten.
WatcherNotes(n) ==
    /\ ~Cancelled(n) /\ depeer[n]["watcher"].step = "idle"
    /\ since[n] # (IsSteady(n) /\ low[n])
    /\ since' = [since EXCEPT ![n] = ~@]
    /\ UNCHANGED <<link, mapVars, dialers, callVars, low, happened>>

\* runHealthWatcherTick: a score that is still low after the window costs the peer its place.
WatcherDepeers(n) ==
    /\ ~Cancelled(n)
    /\ since[n] /\ IsSteady(n) /\ low[n] /\ RemovePeer(n, "watcher")
    /\ since' = [since EXCEPT ![n] = FALSE]
    /\ UNCHANGED <<link, reg, dialers, hooks, closing, low, happened>>

-----------------------------------------------------------------------------
(* Close. *)

\* Close marks the subsystem closed and takes the map, and releases the lock.
CloseBegins(n) ==
    /\ closing[n].step = "idle"
    /\ closing' = [closing EXCEPT ![n] =
                      [step |-> "drain", peer |-> IF peers[n] \in Links THEN peers[n] ELSE None]]
    /\ peers' = [peers EXCEPT ![n] = None]
    /\ UNCHANGED <<link, reg, dialers, hooks, depeer, healthVars, happened>>

\* inflightAttaches: attaches under way and hooks that run.
Inflight(n) == hooks[n] > 0 \/ \E c \in Links : link[c].end[n] = "start"

\* The attaches and hooks under way have ended; the peer of the map is stopped.
CloseDrains(n) ==
    /\ closing[n].step = "drain" /\ ~Inflight(n)
    /\ closing' = [closing EXCEPT ![n].step = IF closing[n].peer = None THEN "done" ELSE "wait"]
    /\ link' = IF closing[n].peer = None THEN link
               ELSE [link EXCEPT ![closing[n].peer].up = FALSE]
    /\ UNCHANGED <<mapVars, dialers, hooks, depeer, healthVars, happened>>

\* Its receive loop has ended: listenCtx is cancelled and the transport closed.
CloseReturns(n) ==
    /\ closing[n].step = "wait" /\ link[closing[n].peer].end[n] \notin Running
    /\ closing' = [closing EXCEPT ![n] = [step |-> "done", peer |-> None]]
    /\ UNCHANGED <<link, mapVars, dialers, hooks, depeer, healthVars, happened>>

-----------------------------------------------------------------------------
EndStep(c, n) ==
    \/ AcceptInbound(c, n) \/ SendAccept(c, n) \/ RecvAccept(c, n)
    \/ HandshakeFails(c, n) \/ AttachRefused(c, n) \/ AttachPeer(c, n)
    \/ AttachElsewhere(c, n) \/ StartPeer(c, n)
    \/ Dispatch(c, n) \/ RecvEnds(c, n)

DialStep(n) == \E k \in 1..MaxDialers : Dial(n, k)

DepeerStep(n, k) == StopPeer(n, k) \/ StopWaits(n, k) \/ DepeerReturns(n, k)

CloseStep(n) == CloseDrains(n) \/ CloseReturns(n)

Environment ==
    \/ \E c \in Links : Break(c)
    \/ \E n \in Operated :
         \/ \E c \in Links : Recv(c, n)
         \/ OperatorDepeers(n) \/ AddPeer(n) \/ HookFails(n) \/ ScoreChanges(n)
         \/ CloseBegins(n)

Next ==
    \/ \E c \in Links, n \in Nodes : EndStep(c, n)
    \/ \E c \in Links : IdleOut(c)
    \/ \E n \in Nodes : DialStep(n)
    \/ \E n \in Operated : \/ CloseStep(n) \/ HookPasses(n)
                           \/ WatcherNotes(n) \/ WatcherDepeers(n)
                           \/ \E k \in Callers : DepeerStep(n, k)
    \/ Environment

Spec == Init /\ [][Next]_vars

\* Goroutines run, timers fire; nothing is assumed of faults, verdicts and operators.
FairSpec ==
    /\ Spec
    /\ WF_vars(\E c \in Links : IdleOut(c))
    /\ \A c \in Links, n \in Nodes : WF_vars(EndStep(c, n))
    /\ \A n \in Nodes : WF_vars(DialStep(n))
    /\ \A n \in Operated :
         /\ WF_vars(CloseStep(n)) /\ WF_vars(HookPasses(n))
         /\ WF_vars(\E k \in Callers : DepeerStep(n, k))

-----------------------------------------------------------------------------
(* Properties. *)

LinkRecord == [by : Nodes \cup {None}, dialer : 0..MaxDialers, up : BOOLEAN, end : [Nodes -> Ends]]
Shapes ==
    /\ link \in [Links -> LinkRecord]
    /\ peers \in [Operated -> Links \cup {Dead, None}]
    /\ reg \in [Operated -> {None, Pending, Steady(Dead)} \cup {Steady(c) : c \in Links}]
    /\ dialers \in [Nodes -> 1..MaxDialers]
    /\ hooks \in [Operated -> Nat]
    /\ depeer \in [Operated -> [Callers -> [step : {"idle", "stop", "wait", "registry"},
                                         peer : Links \cup {None}]]]
    /\ closing \in [Operated -> [step : {"idle", "drain", "wait", "done"},
                              peer : Links \cup {None}]]
    /\ low \in [Operated -> BOOLEAN] /\ since \in [Operated -> BOOLEAN]

\* Links, the peer map, the registry and the calls under way have their shapes.
TypeOK == Shapes /\ happened \in 0..MaxEvents

\* The connection that the registry shows and an equivocation closes is the one that gossip is
\* sent on, however many links are attached and whichever ends first.
RegistryShowsPeer ==
    \A n \in Operated : (IsSteady(n) /\ peers[n] # None) => reg[n].conn = peers[n]

\* Once Close has begun to stop its peers no attach is half done and no integrity check runs,
\* although links come up and are attached while it is called.
CloseFindsNoAttach ==
    \A n \in Operated : closing[n].step \in {"wait", "done"} => ~Inflight(n)

\* A peer is stopped by one call only, an operator, the watcher, a hook or Close, and gossip is
\* no longer sent to it: whoever stops it took it out of the map.
StoppedOnce ==
    \A n \in Operated :
        LET Stopping(k) == IF k = "close" THEN closing[n].peer ELSE depeer[n][k].peer
            calls == Callers \cup {"close"}
        IN  \A k \in calls : Stopping(k) # None =>
                /\ peers[n] # Stopping(k)
                /\ \A j \in calls \ {k} : Stopping(j) # Stopping(k)

\* Depeer and Close return: they wait for a receive loop, which may itself wait for the lock.
CallsReturn ==
    \A n \in Operated :
        []<>(/\ closing[n].step \in {"idle", "done"}
             /\ \A k \in Callers : depeer[n][k].step = "idle")

\* While both run and each knows the other, each again and again has a link that stands:
\* whatever broke, some dialer saw it and dialled.
LinkRestored ==
    \A n \in Operated :
        []<>(\/ Closed(n) \/ reg[n] = None
             \/ peers[n] \in Links /\ link[peers[n]].up)

\* The peer map, the registry and the calls that stop peers agree, however links are attached,
\* replaced and closed (attachPeer, Depeer, Close).
PeeringInv == TypeOK /\ RegistryShowsPeer /\ CloseFindsNoAttach /\ StoppedOnce
=============================================================================
