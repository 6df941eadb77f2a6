---------------------------- MODULE Connections ----------------------------
(* One plugin's connections to the trackers it knows: the client's           *)
(* supervisor, connection holder and unary calls (plugin/internal/           *)
(* trackerclient), the server's goroutine per connection with its table of   *)
(* peers, heartbeat and RPC streams and its shutdown                   *)
(* (tracker/internal/server), and the peer's row in each tracker's registry  *)
(* (tracker/internal/registry).                                              *)
(*                                                                           *)
(* A connection breaks silently or is closed; either end notices in its own  *)
(* time, so that a peer may be back before the tracker has cleaned up.       *)
EXTENDS Integers, Sequences, FiniteSets, FiniteSetsExt, SequencesExt, TLC

CONSTANTS
    Trackers,
    Base,       \* the configured endpoints, a sequence of trackers
    Peers,      \* the endpoints a tracker's bootstrap list names
    Advertiser, \* the call the seeder's advertise loop repeats
    Fetchers,   \* bound: the fetches of bootstrap lists that may overlap
    Mortal,     \* bound: the trackers that stop and whose records go stale
    None,
    MaxEvents   \* bound: faults and stale periods; stopping either end counts twice

Calls == {Advertiser} \cup Fetchers

\* Configured endpoints first; a candidate at a configured address is dropped.
Unconfigured(candidates) == SelectSeq(candidates, LAMBDA t : t \notin Range(Base))
MergeEndpoints(candidates) == Base \o Unconfigured(candidates)

\* The index of the endpoint to dial only matters modulo the lengths it is reduced by.
EpCycle == Len(Base) * Len(MergeEndpoints(Peers))

\* A tracker's record of the peer.
SeederRecord == [available : BOOLEAN, beat : BOOLEAN]

ASSUME ConnectionsAssumption ==
    /\ Base \in Seq(Trackers) \ {<<>>} /\ Mortal \subseteq Trackers
    /\ \A candidates \in {<<>>, Peers} : Unconfigured(candidates) \in Seq(Trackers)
    /\ MaxEvents \in Nat
    /\ Advertiser \notin Fetchers
    /\ None \notin Calls \cup SeederRecord \cup {"heartbeat"} /\ "heartbeat" \notin Calls

VARIABLES
    sup,        \* the supervisor: where it is, the connection it runs, its endpoint index
    stop,       \* Close was called
    holder,     \* connHolder: current, the waiting calls, closed
    cands,      \* peerCandidates: the endpoints that follow the configured ones
    conn,       \* the connections, in the order they were dialled
    call,       \* call[k]: a unary call
    up,         \* up[t]: a tracker's process
    table,      \* table[t]: connsByPeer[the peer]
    row,        \* row[t]: the peer's SeederRecord
    rpc,        \* the dispatch goroutines, by call and connection
    happened

clientVars == <<sup, stop, holder, cands>>
vars == <<clientVars, conn, call, up, table, row, rpc, happened>>

Event(weight) == happened + weight <= MaxEvents /\ happened' = happened + weight

NoCall == [pc |-> "idle", conn |-> 0, pinned |-> 0]
Fresh == [available |-> FALSE, beat |-> TRUE]

\* What was opened on a connection that ends is not accepted any more.
Ended(d) == [d EXCEPT !.net = "down", !.streams = <<>>]

Connection(t) == [to |-> t, net |-> "up", client |-> "open", server |-> "accepted",
                  streams |-> <<>>, heartbeat |-> None]

Init ==
    /\ sup = [at |-> "dial", conn |-> 0, ep |-> 0] /\ stop = FALSE
    /\ holder = [current |-> 0, waiters |-> {}, closed |-> FALSE]
    /\ cands = <<>>
    /\ conn = <<>>
    /\ call = [k \in Calls |-> NoCall]
    /\ up = [t \in Trackers |-> "up"]
    /\ table = [t \in Trackers |-> 0]
    /\ row = [t \in Trackers |-> None]
    /\ rpc = {}
    /\ happened = 0

-----------------------------------------------------------------------------
(* The supervisor. *)

Endpoints == MergeEndpoints(cands)

NextEndpointSticky == Base[1]

NextEndpoint == Endpoints[(sup.ep % Len(Endpoints)) + 1]

NextIndex == (sup.ep + 1) % EpCycle

Dial ==
    /\ sup.at = "dial" /\ ~stop /\ up[NextEndpoint] = "up"
    /\ conn' = Append(conn, Connection(NextEndpoint))
    /\ sup' = [sup EXCEPT !.at = "open", !.conn = Len(conn) + 1]
    /\ UNCHANGED <<stop, holder, cands, call, up, table, row, rpc, happened>>

\* After a backoff the next endpoint is tried.
DialFails ==
    /\ sup.at = "dial" /\ ~stop /\ up[NextEndpoint] # "up"
    /\ sup' = [sup EXCEPT !.ep = NextIndex]
    /\ UNCHANGED <<stop, holder, cands, conn, call, up, table, row, rpc, happened>>

OpenHeartbeatStreamLater ==
    /\ sup.at = "open" /\ ~stop
    /\ sup' = [sup EXCEPT !.at = "set"]
    /\ UNCHANGED <<stop, holder, cands, conn, call, up, table, row, rpc, happened>>

\* The first stream of a connection is the heartbeat's.
OpenHeartbeatStream ==
    /\ sup.at = "open" /\ ~stop
    /\ IF conn[sup.conn].net = "up"
       THEN /\ conn' = [conn EXCEPT ![sup.conn].streams = Append(@, "heartbeat")]
            /\ sup' = [sup EXCEPT !.at = "set"]
       ELSE /\ conn' = [conn EXCEPT ![sup.conn].client = "dead"]
            /\ sup' = [sup EXCEPT !.at = "dial", !.conn = 0, !.ep = NextIndex]
    /\ UNCHANGED <<stop, holder, cands, call, up, table, row, rpc, happened>>

\* A call that was given a connection, or the answer that there is none.
Given(c, k) ==
    IF k \in Fetchers /\ call[k].pinned = 0
    THEN [call[k] EXCEPT !.pc = "get", !.pinned = c]
    ELSE [call[k] EXCEPT !.pc = "open", !.conn = c]

\* holder.set wakes the waiting calls; the bootstrap list is fetched in a goroutine.
Set ==
    /\ sup.at = "set" /\ ~stop
    /\ sup' = [sup EXCEPT !.at = "watch"]
    /\ holder' = [holder EXCEPT !.current = sup.conn, !.waiters = {}]
    /\ LET idle == {k \in Fetchers : call[k].pc = "idle"}
           start == IF idle = {} THEN None ELSE CHOOSE k \in idle : TRUE
       IN  call' = [k \in Calls |-> CASE k = start -> [NoCall EXCEPT !.pc = "get"]
                                      [] k \in holder.waiters -> Given(sup.conn, k)
                                      [] OTHER -> call[k]]
    /\ UNCHANGED <<stop, cands, conn, up, table, row, rpc, happened>>

\* The heartbeat runs on a stream the tracker does not answer.
Unanswered(c) == conn[c].heartbeat \notin {None, "heartbeat"}

\* conn.Done, or too many periods without a pong: the connection is closed and cleared.
Lost ==
    /\ sup.at = "watch" /\ ~stop
    /\ conn[sup.conn].net # "up" \/ Unanswered(sup.conn)
    /\ conn' = [conn EXCEPT ![sup.conn] = [Ended(@) EXCEPT !.client = "dead"]]
    /\ holder' = [holder EXCEPT !.current = 0]
    /\ sup' = [at |-> "dial", conn |-> 0, ep |-> NextIndex]
    /\ UNCHANGED <<stop, cands, call, up, table, row, rpc, happened>>

Close ==
    /\ ~stop /\ Event(2)
    /\ stop' = TRUE
    /\ UNCHANGED <<sup, holder, cands, conn, call, up, table, row, rpc>>

\* The supervisor sees its context end, wherever it is.
Exit ==
    /\ stop /\ sup.at # "closed"
    /\ conn' = IF sup.conn = 0 THEN conn
               ELSE [conn EXCEPT ![sup.conn] = [Ended(@) EXCEPT !.client = "dead"]]
    /\ holder' = [holder EXCEPT !.current = 0]
    /\ sup' = [at |-> "closed", conn |-> 0, ep |-> 0]
    /\ UNCHANGED <<stop, cands, call, up, table, row, rpc, happened>>

HolderCloseSilently ==
    /\ sup.at = "closed" /\ ~holder.closed
    /\ holder' = [holder EXCEPT !.closed = TRUE]
    /\ UNCHANGED <<sup, stop, cands, conn, call, up, table, row, rpc, happened>>

\* holder.close: whoever waits is told that there will be no connection.
HolderClose ==
    /\ sup.at = "closed" /\ ~holder.closed
    /\ holder' = [holder EXCEPT !.closed = TRUE, !.waiters = {}]
    /\ call' = [k \in Calls |-> IF k \in holder.waiters THEN NoCall ELSE call[k]]
    /\ UNCHANGED <<sup, stop, cands, conn, up, table, row, rpc, happened>>

-----------------------------------------------------------------------------
(* Unary calls. *)

Available(t) == row[t] # None /\ row[t].available

\* The advertise loop's next tick; one at which the tracker's record would not change is left out.
Advertise ==
    /\ ~stop /\ call[Advertiser].pc = "idle"
    /\ \A c \in {holder.current} \ {0} : ~Available(conn[c].to)

\* holder.get.
Get(k) ==
    /\ call[k].pc = "get" \/ (k = Advertiser /\ Advertise)
    /\ \/ /\ holder.closed
          /\ call' = [call EXCEPT ![k] = NoCall]
          /\ UNCHANGED holder
       \/ /\ ~holder.closed /\ holder.current # 0
          /\ call' = [call EXCEPT ![k] = Given(holder.current, k)]
          /\ UNCHANGED holder
       \/ /\ ~holder.closed /\ holder.current = 0
          /\ call' = [call EXCEPT ![k].pc = "wait"]
          /\ holder' = [holder EXCEPT !.waiters = @ \cup {k}]
    /\ UNCHANGED <<sup, stop, cands, conn, up, table, row, rpc, happened>>

\* callUnary opens a stream and sends the request, unless the connection is dead.
OpenStream(k) ==
    /\ call[k].pc = "open"
    /\ IF conn[call[k].conn].client = "open"
       THEN /\ conn' = [conn EXCEPT ![call[k].conn].streams =
                               IF conn[call[k].conn].net = "up" THEN Append(@, k) ELSE @]
            /\ call' = [call EXCEPT ![k].pc = "sent"]
       ELSE /\ call' = [call EXCEPT ![k] = NoCall]
            /\ UNCHANGED conn
    /\ UNCHANGED <<clientVars, up, table, row, rpc, happened>>

\* A read ends with the response or with the connection; a deadline does not end it.
ReadLost(k) ==
    /\ call[k].pc = "sent" /\ conn[call[k].conn].client = "dead"
    /\ call' = [call EXCEPT ![k] = NoCall]
    /\ UNCHANGED <<clientVars, conn, up, table, row, rpc, happened>>

\* A list is taken from the tracker whose key was read before the call, and from no other.
Accepted(k) == k \in Fetchers /\ conn[call[k].conn].to = conn[call[k].pinned].to

-----------------------------------------------------------------------------
(* A tracker: serveConn, one goroutine per connection. *)

Server(c, from, to) == conn[c].server = from /\ conn' = [conn EXCEPT ![c].server = to]

MapPeer(c) ==
    /\ Server(c, "accepted", "mapped")
    /\ table' = [table EXCEPT ![conn[c].to] = c]
    /\ UNCHANGED <<clientVars, call, up, row, rpc, happened>>

\* Whatever was known of the peer is replaced by an unavailable record.
Register(c) ==
    /\ Server(c, "mapped", "serving")
    /\ row' = [row EXCEPT ![conn[c].to] = Fresh]
    /\ UNCHANGED <<clientVars, call, up, table, rpc, happened>>

\* Streams are accepted in the order they were opened: the first is the heartbeat.
AcceptStream(c) ==
    /\ conn[c].server = "serving" /\ conn[c].net = "up" /\ up[conn[c].to] = "up"
    /\ conn[c].streams # <<>>
    /\ LET s == conn[c].streams
       IN  IF conn[c].heartbeat = None
           THEN /\ conn' = [conn EXCEPT ![c] = [@ EXCEPT !.streams = Tail(s), !.heartbeat = Head(s)]]
                /\ UNCHANGED rpc
           ELSE /\ conn' = [conn EXCEPT ![c].streams = Tail(s)]
                /\ rpc' = rpc \cup {<<Head(s), c>>}
    /\ UNCHANGED <<clientVars, call, up, table, row, happened>>

\* A ping reaches the tracker: the record is refreshed, if there is one, and a pong returns.
Heartbeat(c) ==
    /\ conn[c].heartbeat = "heartbeat" /\ conn[c].net = "up" /\ up[conn[c].to] = "up"
    /\ row[conn[c].to] # None /\ ~row[conn[c].to].beat
    /\ row' = [row EXCEPT ![conn[c].to].beat = TRUE]
    /\ UNCHANGED <<clientVars, conn, call, up, table, rpc, happened>>

\* The handler runs and its response is read: an advertisement updates the record the peer has
\* and fails without one, a bootstrap list replaces the candidates.
Dispatch(k, c) ==
    /\ <<k, c>> \in rpc
    /\ rpc' = rpc \ {<<k, c>>}
    /\ row' = IF k = Advertiser /\ row[conn[c].to] # None
              THEN [row EXCEPT ![conn[c].to].available = TRUE] ELSE row
    /\ IF call[k].pc = "sent" /\ call[k].conn = c /\ conn[c].net = "up"
       THEN /\ cands' = IF Accepted(k) THEN Peers ELSE cands
            /\ call' = [call EXCEPT ![k] = NoCall]
       ELSE UNCHANGED <<cands, call>>
    /\ UNCHANGED <<sup, stop, holder, conn, up, table, happened>>

\* AcceptStream fails, because the connection is gone or the server stops, and the deferred
\* cleanup runs, whichever connection the table holds by now.
UnmapPeer(c) ==
    /\ conn[c].net # "up" \/ up[conn[c].to] = "stopping"
    /\ Server(c, "serving", "deregister")
    /\ table' = [table EXCEPT ![conn[c].to] = 0]
    /\ UNCHANGED <<clientVars, call, up, row, rpc, happened>>

Deregister(c) ==
    /\ conn[c].server = "deregister"
    /\ conn' = [conn EXCEPT ![c] = [Ended(@) EXCEPT !.server = "gone", !.heartbeat = None]]
    /\ row' = [row EXCEPT ![conn[c].to] = None]
    /\ UNCHANGED <<clientVars, call, up, table, rpc, happened>>

-----------------------------------------------------------------------------
(* The registry's sweep, broken connections, shutdown. *)

\* Time passes without a heartbeat of the peer ...
GoStale(t) ==
    /\ t \in Mortal /\ row[t] # None /\ row[t].beat /\ Event(1)
    /\ row' = [row EXCEPT ![t].beat = FALSE]
    /\ UNCHANGED <<clientVars, conn, call, up, table, rpc>>

\* ... and the sweep removes the record, of a connected peer too.
Sweep(t) ==
    /\ row[t] # None /\ ~row[t].beat
    /\ row' = [row EXCEPT ![t] = None]
    /\ UNCHANGED <<clientVars, conn, call, up, table, rpc, happened>>

Break(c) ==
    /\ conn[c].net = "up" /\ Event(1)
    /\ conn' = [conn EXCEPT ![c] = Ended(@)]
    /\ UNCHANGED <<clientVars, call, up, table, row, rpc>>

Shutdown(t) ==
    /\ t \in Mortal /\ up[t] = "up" /\ Event(2)
    /\ up' = [up EXCEPT ![t] = "stopping"]
    /\ UNCHANGED <<clientVars, conn, call, table, row, rpc>>

At(t) == {c \in DOMAIN conn : conn[c].to = t}

\* Shutdown returns when no counted dispatch is left or its grace is over, and the process ends.
ShutdownReturns(t) ==
    /\ up[t] = "stopping"
    /\ up' = [up EXCEPT ![t] = "down"]
    /\ conn' = [c \in DOMAIN conn |->
                   IF c \notin At(t) THEN conn[c]
                   ELSE [Ended(conn[c]) EXCEPT !.server = "gone", !.heartbeat = None]]
    /\ table' = [table EXCEPT ![t] = 0] /\ row' = [row EXCEPT ![t] = None]
    /\ rpc' = {r \in rpc : r[2] \notin At(t)}
    /\ UNCHANGED <<clientVars, call, happened>>

Restart(t) ==
    /\ up[t] = "down"
    /\ up' = [up EXCEPT ![t] = "up"]
    /\ UNCHANGED <<clientVars, conn, call, table, row, rpc, happened>>

-----------------------------------------------------------------------------
SupStep == Dial \/ DialFails \/ OpenHeartbeatStream \/ Set \/ Lost \/ Exit \/ HolderClose

CallStep(k) ==
    Get(k) \/ OpenStream(k) \/ ReadLost(k) \/ \E c \in DOMAIN conn : Dispatch(k, c)

ConnStep(c) ==
    /\ c \in DOMAIN conn
    /\ \/ MapPeer(c) \/ Register(c) \/ AcceptStream(c) \/ UnmapPeer(c)
       \/ Deregister(c)

Environment ==
    \/ Close
    \/ \E t \in Trackers : GoStale(t) \/ Sweep(t) \/ Shutdown(t) \/ Restart(t)
    \/ \E c \in DOMAIN conn : Break(c) \/ Heartbeat(c)

Next ==
    \/ SupStep
    \/ \E k \in Calls : CallStep(k)
    \/ \E c \in DOMAIN conn : ConnStep(c)
    \/ \E t \in Trackers : ShutdownReturns(t)
    \/ Environment

Spec == Init /\ [][Next]_vars

\* Every goroutine runs on, timers fire, and each end notices a dead connection.  Every dial but
\* the first follows an event.
FairSpec ==
    /\ Spec
    /\ WF_vars(SupStep)
    /\ \A k \in Calls : WF_vars(CallStep(k))
    /\ \A c \in 1..(MaxEvents + 1) : WF_vars(ConnStep(c))
    /\ WF_vars(\E t \in Trackers : ShutdownReturns(t))

-----------------------------------------------------------------------------
(* Properties. *)

ConnRecord ==
    [to : Trackers, net : {"up", "down"}, client : {"open", "dead"},
     server : {"accepted", "mapped", "serving", "deregister", "gone"},
     streams : Seq(Calls \cup {"heartbeat"}), heartbeat : Calls \cup {None, "heartbeat"}]

\* Connections, calls and records have the shape the code gives them ...
Shapes ==
    /\ sup \in [at : {"dial", "open", "set", "watch", "closed"}, conn : 0..Len(conn), ep : 0..(EpCycle - 1)]
    /\ stop \in BOOLEAN
    /\ holder \in [current : 0..Len(conn), waiters : SUBSET Calls, closed : BOOLEAN]
    /\ cands \in {<<>>, Peers}
    /\ conn \in Seq(ConnRecord)
    /\ call \in [Calls -> [pc : {"idle", "get", "wait", "open", "sent"},
                           conn : 0..Len(conn), pinned : 0..Len(conn)]]
    /\ up \in [Trackers -> {"up", "stopping", "down"}]
    /\ table \in [Trackers -> 0..Len(conn)]
    /\ row \in [Trackers -> SeederRecord \cup {None}]
    /\ rpc \subseteq Calls \X DOMAIN conn
    /\ happened \in 0..MaxEvents

\* ... and no more connections are dialled than something ended.
TypeOK == Shapes /\ Len(conn) <= happened + 1

\* A peer that has left leaves nothing behind: an entry of connsByPeer is a connection whose
\* goroutine has not removed it yet, and a record stands for some connection whose goroutine
\* will still deregister it, however the cleanups of several connections interleave.
NoGhosts ==
    \A t \in Trackers :
        /\ table[t] # 0 => conn[table[t]].server \in {"mapped", "serving"}
        /\ row[t] # None => \E c \in At(t) : conn[c].server \in {"serving", "deregister"}

\* The tracker takes the first stream for the heartbeat: it is the client's heartbeat stream,
\* although calls wait for the connection while the supervisor sets it up.
HeartbeatFirst == \A c \in DOMAIN conn : ~Unanswered(c)

\* No wakeup is lost: while a call waits there is no connection, and the supervisor, which will
\* set one or close the holder, still runs.
NoLostWaiter ==
    /\ holder.waiters = {k \in Calls : call[k].pc = "wait"}
    /\ holder.waiters # {} => holder.current = 0 /\ ~holder.closed

\* Calls are given the supervisor's own connection, never one it has given up.
HolderIsCurrent ==
    holder.current # 0 => sup.at = "watch" /\ holder.current = sup.conn /\ conn[sup.conn].client = "open"

Unreachable == \A t \in Range(Endpoints) : up[t] # "up"

\* Every call ends, with a response, a lost connection or a closed client, unless it waits for a
\* connection while no endpoint is up.
CallsReturn ==
    \A k \in Calls :
        []<>(call[k].pc \in {"idle"} \cup (IF Unreachable THEN {"wait"} ELSE {}))

\* The client does not stay away from a tracker it could reach: again and again it is connected,
\* closed, or none of its endpoints is up.
Reconnects == []<>(sup.at \in {"watch", "closed"} \/ Unreachable)

\* A connected peer that still has a record is made available by the next advertisement.
Readvertised ==
    []<>(\/ sup.at # "watch" \/ row[conn[sup.conn].to] = None
         \/ Available(conn[sup.conn].to))

\* The tables of both ends fit together at every step of connecting, calling and leaving: no
\* ghosts, no call's stream taken for the heartbeat, no lost waiter, no abandoned connection
\* handed out (serveConn, the supervisor's run, connHolder).
ConnectionsInv == TypeOK /\ NoGhosts /\ HeartbeatFirst /\ NoLostWaiter /\ HolderIsCurrent

\* A reachable peer keeps coming back into service: it reconnects and is available again.
BackInService == Reconnects /\ Readvertised
=============================================================================
