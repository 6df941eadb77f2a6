------------------------- MODULE ConnectionsProofs -------------------------
(***************************************************************************)
(* Safety of a plugin's connections for any set of trackers, any list of   *)
(* endpoints, any calls and any number of faults, stale periods and stops. *)
(***************************************************************************)
EXTENDS Connections, SequenceTheorems, TLAPS

\* The supervisor runs the connection dialled last, which it has not given up; the others have
\* ended.
RunsTheLast ==
    /\ sup.conn # 0 <=> sup.at \in {"open", "set", "watch"}
    /\ sup.conn # 0 => sup.conn = Len(conn) /\ conn[sup.conn].client = "open"
    /\ \A c \in DOMAIN conn : c # sup.conn => conn[c].net = "down"

\* A connection that is over, or will be because its tracker stops.
Doomed(c) == conn[c].net = "down" \/ up[conn[c].to] # "up"

\* Some event has paid for the next dial.
EventsPaid ==
    /\ Len(conn) <= happened + 1
    /\ stop \/ sup.conn = 0 \/ Doomed(sup.conn) => Len(conn) <= happened

\* Who has left, and why.
LeftBehind ==
    \A c \in DOMAIN conn :
        /\ conn[c].server = "deregister" => conn[c].net = "down" \/ up[conn[c].to] = "stopping"
        /\ conn[c].server = "gone" => conn[c].net = "down"
        /\ up[conn[c].to] = "down" => conn[c].server = "gone"

\* The streams of a connection, in the order they were opened: the heartbeat's comes first.
Preparing(c) == c = sup.conn /\ sup.at = "open"
StreamsInOrder ==
    \A c \in DOMAIN conn :
        /\ conn[c].heartbeat \in {None, "heartbeat"}
        /\ conn[c].net = "down" => conn[c].streams = <<>>
        /\ conn[c].net = "up" /\ Preparing(c) => conn[c].streams = <<>> /\ conn[c].heartbeat = None
        /\ conn[c].net = "up" /\ conn[c].heartbeat = None /\ ~Preparing(c) =>
             conn[c].streams # <<>> /\ conn[c].streams[1] = "heartbeat"
        /\ \A i \in DOMAIN conn[c].streams :
             conn[c].streams[i] \in Calls \/ (i = 1 /\ conn[c].heartbeat = None)

\* A call has a connection that was set up before it was given out.
CallsAfterSetup ==
    \A k \in Calls : call[k].pc \in {"open", "sent"} => call[k].conn # 0 /\ (call[k].conn = sup.conn => sup.at = "watch")

\* An entry of connsByPeer is under its tracker.
TableMatches == \A t \in Trackers : table[t] # 0 => conn[table[t]].to = t

IInv ==
    /\ Shapes /\ RunsTheLast /\ EventsPaid /\ LeftBehind /\ StreamsInOrder /\ CallsAfterSetup /\ TableMatches
    /\ NoGhosts /\ NoLostWaiter /\ HolderIsCurrent
-----------------------------------------------------------------------------
(* Endpoints.                                                              *)

\* There is an endpoint to dial, whatever the candidates are.
LEMMA EndpointsExist ==
  /\ \A s \in {<<>>, Peers} : MergeEndpoints(s) \in Seq(Trackers) /\ Len(MergeEndpoints(s)) \in Nat \ {0}
  /\ EpCycle \in Nat \ {0}
<1> USE ConnectionsAssumption
<1>1. \A s \in {<<>>, Peers} : MergeEndpoints(s) \in Seq(Trackers) /\ Len(MergeEndpoints(s)) \in Nat \ {0}
  <2> TAKE s \in {<<>>, Peers}
  <2> DEFINE x == Unconfigured(s)
  <2>1. x \in Seq(Trackers) /\ Base \in Seq(Trackers) /\ Base # <<>> OBVIOUS
  <2> HIDE DEF x
  <2>2. Base \o x \in Seq(Trackers) /\ Len(Base \o x) = Len(Base) + Len(x)
        /\ Len(x) \in Nat /\ Len(Base) \in Nat /\ Len(Base) # 0
    BY <2>1
  <2>3. QED BY <2>2 DEF MergeEndpoints, x
<1>2. EpCycle \in Nat \ {0}
  <2>1. Len(Base) \in Nat \ {0} OBVIOUS
  <2>2. Len(MergeEndpoints(Peers)) \in Nat \ {0} BY <1>1
  <2>3. \A a, b \in Nat \ {0} : a * b \in Nat \ {0} OBVIOUS
  <2>4. QED BY <2>1, <2>2, <2>3 DEF EpCycle
<1>3. QED BY <1>1, <1>2

\* The endpoint that is dialled is a tracker, and the index stays in its cycle.
LEMMA EndpointTypes ==
  ASSUME Shapes
  PROVE  NextEndpoint \in Trackers /\ NextIndex \in 0 .. (EpCycle - 1) /\ 0 \in 0 .. (EpCycle - 1)
<1>1. \A s \in {<<>>, Peers} : MergeEndpoints(s) \in Seq(Trackers) /\ Len(MergeEndpoints(s)) \in Nat \ {0}
  BY EndpointsExist
<1>2. EpCycle \in Nat \ {0} BY EndpointsExist
<1>3. \A a \in Nat, b \in Nat \ {0} : a % b \in 0 .. (b - 1) OBVIOUS
<1>4. sup.ep \in 0 .. (EpCycle - 1) BY DEF Shapes
<1>5. NextIndex \in 0 .. (EpCycle - 1)
  <2>1. sup.ep + 1 \in Nat BY <1>2, <1>4
  <2>2. QED BY <1>2, <1>3, <2>1 DEF NextIndex
<1>6. NextEndpoint \in Trackers
  <2> DEFINE e == Endpoints
  <2>1. e \in Seq(Trackers) /\ Len(e) \in Nat \ {0} BY <1>1 DEF Shapes, Endpoints
  <2>2. sup.ep \in Nat BY <1>2, <1>4
  <2> HIDE DEF e
  <2>3. sup.ep % Len(e) \in 0 .. (Len(e) - 1) BY <1>3, <2>1, <2>2
  <2>4. (sup.ep % Len(e)) + 1 \in 1 .. Len(e) BY <2>1, <2>3
  <2>5. e[(sup.ep % Len(e)) + 1] \in Trackers BY <2>1, <2>4, ElementOfSeq
  <2>6. QED BY <2>5 DEF NextEndpoint, e
<1>7. QED BY <1>2, <1>5, <1>6

-----------------------------------------------------------------------------
(* What an action does to the connections.                                 *)

Rec(to, net, client, server, streams, heartbeat) ==
    [to |-> to, net |-> net, client |-> client, server |-> server, streams |-> streams,
     heartbeat |-> heartbeat]

\* One connection becomes d and the others stay.
Becomes(c, d) ==
    /\ c \in DOMAIN conn /\ conn' \in Seq(ConnRecord) /\ Len(conn') = Len(conn) /\ DOMAIN conn' = DOMAIN conn
    /\ \A x \in DOMAIN conn : x # c => conn'[x] = conn[x]
    /\ conn'[c] = d

\* A connection is a record of its fields.
LEMMA ConnIs ==
  ASSUME Shapes, NEW c \in DOMAIN conn
  PROVE  /\ conn[c] \in ConnRecord /\ conn[c].to \in Trackers
         /\ conn[c].streams \in Seq(Calls \cup {"heartbeat"})
         /\ c \in 1 .. Len(conn) /\ Len(conn) \in Nat /\ DOMAIN conn = 1 .. Len(conn)
<1>1. conn \in Seq(ConnRecord) BY DEF Shapes
<1>2. Len(conn) \in Nat /\ DOMAIN conn = 1 .. Len(conn) BY <1>1
<1>3. conn[c] \in ConnRecord BY <1>1, <1>2, ElementOfSeq
<1>4. QED BY <1>2, <1>3 DEF ConnRecord

\* A connection is replaced by another record.
LEMMA Replaces ==
  ASSUME Shapes, NEW c \in DOMAIN conn, NEW d \in ConnRecord, conn' = [conn EXCEPT ![c] = d]
  PROVE  Becomes(c, d)
<1>1. conn \in Seq(ConnRecord) BY DEF Shapes
<1>2. Len(conn) \in Nat /\ DOMAIN conn = 1 .. Len(conn) BY <1>1
<1>3. conn' \in Seq(ConnRecord) /\ Len(conn') = Len(conn) /\ DOMAIN conn' = DOMAIN conn
  BY <1>1, <1>2
<1>4. QED BY <1>1, <1>2, <1>3 DEF Becomes

\* The forms of the changes.
LEMMA Forms ==
  ASSUME NEW r \in ConnRecord, NEW s \in Seq(Calls \cup {"heartbeat"}), NEW h \in Calls \cup {None, "heartbeat"},
         NEW v \in {"accepted", "mapped", "serving", "deregister", "gone"}
  PROVE  /\ [r EXCEPT !.streams = s] = Rec(r.to, r.net, r.client, r.server, s, r.heartbeat)
         /\ [r EXCEPT !.client = "dead"] = Rec(r.to, r.net, "dead", r.server, r.streams, r.heartbeat)
         /\ [r EXCEPT !.server = v] = Rec(r.to, r.net, r.client, v, r.streams, r.heartbeat)
         /\ Ended(r) = Rec(r.to, "down", r.client, r.server, <<>>, r.heartbeat)
         /\ [r EXCEPT !.streams = s, !.heartbeat = h] = Rec(r.to, r.net, r.client, r.server, s, h)
         /\ [Ended(r) EXCEPT !.client = "dead"] = Rec(r.to, "down", "dead", r.server, <<>>, r.heartbeat)
         /\ [Ended(r) EXCEPT !.server = "gone", !.heartbeat = None] = Rec(r.to, "down", r.client, "gone", <<>>, None)
<1> DEFINE a == [r EXCEPT !.net = "down"]
           b == [r EXCEPT !.streams = s]
           e == Ended(r)
           g == [e EXCEPT !.server = "gone"]
<1>1. b = Rec(r.to, r.net, r.client, r.server, s, r.heartbeat) BY DEF ConnRecord, Rec
<1>2. [r EXCEPT !.client = "dead"] = Rec(r.to, r.net, "dead", r.server, r.streams, r.heartbeat)
  BY DEF ConnRecord, Rec
<1>3. [r EXCEPT !.server = v] = Rec(r.to, r.net, r.client, v, r.streams, r.heartbeat)
  BY DEF ConnRecord, Rec
<1>4. a = Rec(r.to, "down", r.client, r.server, r.streams, r.heartbeat) BY DEF ConnRecord, Rec
<1> HIDE DEF a, b
<1>5. e = [a EXCEPT !.streams = <<>>] BY Zenon DEF Ended, a
<1> HIDE DEF e
<1>6. e = Rec(r.to, "down", r.client, r.server, <<>>, r.heartbeat) BY <1>4, <1>5 DEF Rec
<1>7. [b EXCEPT !.heartbeat = h] = Rec(r.to, r.net, r.client, r.server, s, h) BY <1>1 DEF Rec
<1>8. [e EXCEPT !.client = "dead"] = Rec(r.to, "down", "dead", r.server, <<>>, r.heartbeat) BY <1>6 DEF Rec
<1>9. g = Rec(r.to, "down", r.client, "gone", <<>>, r.heartbeat) BY <1>6 DEF Rec
<1> HIDE DEF g
<1>10. [g EXCEPT !.heartbeat = None] = Rec(r.to, "down", r.client, "gone", <<>>, None) BY <1>9 DEF Rec
<1>11. QED BY <1>1, <1>2, <1>3, <1>6, <1>7, <1>8, <1>10, Zenon DEF b, e, g

\* They are connections.
LEMMA RecType ==
  ASSUME NEW to \in Trackers, NEW net \in {"up", "down"}, NEW client \in {"open", "dead"},
         NEW v \in {"accepted", "mapped", "serving", "deregister", "gone"},
         NEW s \in Seq(Calls \cup {"heartbeat"}), NEW h \in Calls \cup {None, "heartbeat"}
  PROVE  Rec(to, net, client, v, s, h) \in ConnRecord
BY DEF Rec, ConnRecord

\* One connection gets new fields; it keeps its tracker.
Turns(c, net, client, server, streams, heartbeat) ==
    Becomes(c, Rec(conn[c].to, net, client, server, streams, heartbeat))

\* A change of some fields of one connection.
LEMMA Changes ==
  ASSUME Shapes, NEW c \in DOMAIN conn, NEW s \in Seq(Calls \cup {"heartbeat"}),
         NEW h \in Calls \cup {None, "heartbeat"},
         NEW v \in {"accepted", "mapped", "serving", "deregister", "gone"}
  PROVE  /\ conn' = [conn EXCEPT ![c].streams = s] =>
              Turns(c, conn[c].net, conn[c].client, conn[c].server, s, conn[c].heartbeat)
         /\ conn' = [conn EXCEPT ![c].client = "dead"] =>
              Turns(c, conn[c].net, "dead", conn[c].server, conn[c].streams, conn[c].heartbeat)
         /\ conn' = [conn EXCEPT ![c].server = v] =>
              Turns(c, conn[c].net, conn[c].client, v, conn[c].streams, conn[c].heartbeat)
         /\ conn' = [conn EXCEPT ![c] = [conn[c] EXCEPT !.streams = s, !.heartbeat = h]] =>
              Turns(c, conn[c].net, conn[c].client, conn[c].server, s, h)
         /\ conn' = [conn EXCEPT ![c] = Ended(conn[c])] =>
              Turns(c, "down", conn[c].client, conn[c].server, <<>>, conn[c].heartbeat)
         /\ conn' = [conn EXCEPT ![c] = [Ended(conn[c]) EXCEPT !.client = "dead"]] =>
              Turns(c, "down", "dead", conn[c].server, <<>>, conn[c].heartbeat)
         /\ conn' = [conn EXCEPT ![c] = [Ended(conn[c]) EXCEPT !.server = "gone", !.heartbeat = None]] =>
              Turns(c, "down", conn[c].client, "gone", <<>>, None)
<1> DEFINE r == conn[c]
<1>1. r \in ConnRecord BY ConnIs
<1>2. /\ r.to \in Trackers /\ r.net \in {"up", "down"} /\ r.client \in {"open", "dead"}
      /\ r.server \in {"accepted", "mapped", "serving", "deregister", "gone"}
      /\ r.streams \in Seq(Calls \cup {"heartbeat"}) /\ r.heartbeat \in Calls \cup {None, "heartbeat"}
      /\ <<>> \in Seq(Calls \cup {"heartbeat"})
  BY <1>1 DEF ConnRecord
<1>3. ASSUME NEW d \in ConnRecord, conn' = [conn EXCEPT ![c] = d] PROVE Becomes(c, d) BY <1>3, Replaces
<1>4. ASSUME conn' = [conn EXCEPT ![c].streams = s]
      PROVE  Turns(c, r.net, r.client, r.server, s, r.heartbeat)
  <2>1. conn' = [conn EXCEPT ![c] = [r EXCEPT !.streams = s]] BY <1>4, Zenon
  <2>2. [r EXCEPT !.streams = s] = Rec(r.to, r.net, r.client, r.server, s, r.heartbeat) BY <1>1, Forms, Zenon
  <2>3. Rec(r.to, r.net, r.client, r.server, s, r.heartbeat) \in ConnRecord BY <1>2, RecType, ZenonT(60)
  <2>4. QED BY <1>3, <2>1, <2>2, <2>3, Zenon DEF Turns
<1>5. ASSUME conn' = [conn EXCEPT ![c].client = "dead"]
      PROVE  Turns(c, r.net, "dead", r.server, r.streams, r.heartbeat)
  <2>1. conn' = [conn EXCEPT ![c] = [r EXCEPT !.client = "dead"]] BY <1>5, Zenon
  <2>2. [r EXCEPT !.client = "dead"] = Rec(r.to, r.net, "dead", r.server, r.streams, r.heartbeat) BY <1>1, Forms, Zenon
  <2>3. Rec(r.to, r.net, "dead", r.server, r.streams, r.heartbeat) \in ConnRecord BY <1>2, RecType, ZenonT(60)
  <2>4. QED BY <1>3, <2>1, <2>2, <2>3, Zenon DEF Turns
<1>6. ASSUME conn' = [conn EXCEPT ![c].server = v]
      PROVE  Turns(c, r.net, r.client, v, r.streams, r.heartbeat)
  <2>1. conn' = [conn EXCEPT ![c] = [r EXCEPT !.server = v]] BY <1>6, Zenon
  <2>2. [r EXCEPT !.server = v] = Rec(r.to, r.net, r.client, v, r.streams, r.heartbeat) BY <1>1, Forms, Zenon
  <2>3. Rec(r.to, r.net, r.client, v, r.streams, r.heartbeat) \in ConnRecord BY <1>2, RecType, ZenonT(60)
  <2>4. QED BY <1>3, <2>1, <2>2, <2>3, Zenon DEF Turns
<1>7. ASSUME conn' = [conn EXCEPT ![c] = [r EXCEPT !.streams = s, !.heartbeat = h]]
      PROVE  Turns(c, r.net, r.client, r.server, s, h)
  <2> DEFINE b == [r EXCEPT !.streams = s]
  <2>1. b = Rec(r.to, r.net, r.client, r.server, s, r.heartbeat) BY <1>1, Forms, Zenon
  <2> HIDE DEF b
  <2>a. [b EXCEPT !.heartbeat = h] = Rec(r.to, r.net, r.client, r.server, s, h) BY <2>1 DEF Rec
  <2>2. [r EXCEPT !.streams = s, !.heartbeat = h] = Rec(r.to, r.net, r.client, r.server, s, h) BY <2>a, Zenon DEF b
  <2>3. Rec(r.to, r.net, r.client, r.server, s, h) \in ConnRecord BY <1>2, RecType, ZenonT(60)
  <2>4. QED BY <1>3, <1>7, <2>2, <2>3, Zenon DEF Turns
<1>8. ASSUME conn' = [conn EXCEPT ![c] = Ended(r)]
      PROVE  Turns(c, "down", r.client, r.server, <<>>, r.heartbeat)
  <2>2. Ended(r) = Rec(r.to, "down", r.client, r.server, <<>>, r.heartbeat) BY <1>1, Forms, Zenon
  <2>3. Rec(r.to, "down", r.client, r.server, <<>>, r.heartbeat) \in ConnRecord BY <1>2, RecType, ZenonT(60)
  <2>4. QED BY <1>3, <1>8, <2>2, <2>3, Zenon DEF Turns
<1>9. ASSUME conn' = [conn EXCEPT ![c] = [Ended(r) EXCEPT !.client = "dead"]]
      PROVE  Turns(c, "down", "dead", r.server, <<>>, r.heartbeat)
  <2>2. [Ended(r) EXCEPT !.client = "dead"] = Rec(r.to, "down", "dead", r.server, <<>>, r.heartbeat) BY <1>1, Forms, Zenon
  <2>3. Rec(r.to, "down", "dead", r.server, <<>>, r.heartbeat) \in ConnRecord BY <1>2, RecType, ZenonT(60)
  <2>4. QED BY <1>3, <1>9, <2>2, <2>3, Zenon DEF Turns
<1>10. ASSUME conn' = [conn EXCEPT ![c] = [Ended(r) EXCEPT !.server = "gone", !.heartbeat = None]]
       PROVE  Turns(c, "down", r.client, "gone", <<>>, None)
  <2>2. [Ended(r) EXCEPT !.server = "gone", !.heartbeat = None] = Rec(r.to, "down", r.client, "gone", <<>>, None)
    BY <1>1, Forms, Zenon
  <2>3. Rec(r.to, "down", r.client, "gone", <<>>, None) \in ConnRecord BY <1>2, RecType, ZenonT(60)
  <2>4. QED BY <1>3, <1>10, <2>2, <2>3, Zenon DEF Turns
<1>11. QED BY <1>4, <1>5, <1>6, <1>7, <1>8, <1>9, <1>10, Zenon

\* The connection the supervisor runs.
LEMMA SupConn ==
  ASSUME Shapes, RunsTheLast, sup.conn # 0
  PROVE  sup.conn \in DOMAIN conn /\ sup.conn = Len(conn) /\ conn[sup.conn].client = "open"
<1>1. sup.conn \in 0 .. Len(conn) /\ conn \in Seq(ConnRecord) BY DEF Shapes
<1>2. Len(conn) \in Nat /\ DOMAIN conn = 1 .. Len(conn) BY <1>1
<1>3. QED BY <1>1, <1>2 DEF RunsTheLast

\* The fields of a connection that gets new ones.
LEMMA TurnsFields ==
  ASSUME NEW c, NEW net, NEW client, NEW server, NEW streams, NEW heartbeat,
         Turns(c, net, client, server, streams, heartbeat)
  PROVE  /\ c \in DOMAIN conn /\ conn' \in Seq(ConnRecord) /\ Len(conn') = Len(conn) /\ DOMAIN conn' = DOMAIN conn
         /\ \A x \in DOMAIN conn : x # c => conn'[x] = conn[x]
         /\ conn'[c].to = conn[c].to /\ conn'[c].net = net /\ conn'[c].client = client
         /\ conn'[c].server = server /\ conn'[c].streams = streams /\ conn'[c].heartbeat = heartbeat
<1>1. conn'[c] = Rec(conn[c].to, net, client, server, streams, heartbeat) BY DEF Turns, Becomes
<1>2. QED BY <1>1 DEF Turns, Becomes, Rec

SupType(n) == [at : {"dial", "open", "set", "watch", "closed"}, conn : 0 .. n, ep : 0 .. (EpCycle - 1)]
HolderType(n) == [current : 0 .. n, waiters : SUBSET Calls, closed : BOOLEAN]
CallType(n) == [pc : {"idle", "get", "wait", "open", "sent"}, conn : 0 .. n, pinned : 0 .. n]

\* What refers to n connections has its shape.
Fits(n) ==
    /\ sup \in SupType(n) /\ stop \in BOOLEAN /\ holder \in HolderType(n) /\ cands \in {<<>>, Peers}
    /\ call \in [Calls -> CallType(n)] /\ up \in [Trackers -> {"up", "stopping", "down"}]
    /\ table \in [Trackers -> 0 .. n] /\ row \in [Trackers -> SeederRecord \cup {None}]
    /\ rpc \subseteq Calls \X (1 .. n) /\ happened \in 0 .. MaxEvents

\* The shapes are those of the connections and of what refers to them.
LEMMA ShapesFit ==
  Shapes <=> conn \in Seq(ConnRecord) /\ Fits(Len(conn))
<1>1. ASSUME conn \in Seq(ConnRecord) PROVE DOMAIN conn = 1 .. Len(conn) BY <1>1
<1>2. QED BY <1>1 DEF Shapes, Fits, SupType, HolderType, CallType

\* What fits some connections fits more of them.
LEMMA FitsMore ==
  ASSUME NEW n \in Nat, NEW m \in Nat, n <= m
  PROVE  /\ SupType(n) \subseteq SupType(m) /\ HolderType(n) \subseteq HolderType(m)
         /\ CallType(n) \subseteq CallType(m) /\ 0 .. n \subseteq 0 .. m /\ 1 .. n \subseteq 1 .. m
         /\ [Calls -> CallType(n)] \subseteq [Calls -> CallType(m)]
         /\ [Trackers -> 0 .. n] \subseteq [Trackers -> 0 .. m]
         /\ Calls \X (1 .. n) \subseteq Calls \X (1 .. m)
<1>1. 0 .. n \subseteq 0 .. m /\ 1 .. n \subseteq 1 .. m OBVIOUS
<1>2. SupType(n) \subseteq SupType(m) BY <1>1 DEF SupType
<1>3. HolderType(n) \subseteq HolderType(m) BY <1>1 DEF HolderType
<1>4. CallType(n) \subseteq CallType(m) BY <1>1 DEF CallType
<1>5. QED BY <1>1, <1>2, <1>3, <1>4

\* The shapes after a step, in two parts.
LEMMA ShapesKept ==
  ASSUME conn' \in Seq(ConnRecord), Fits(Len(conn))'
  PROVE  Shapes'
<1>1. (Shapes <=> conn \in Seq(ConnRecord) /\ Fits(Len(conn)))' BY ShapesFit, PTL
<1>2. QED BY <1>1

-----------------------------------------------------------------------------
(* Steps that leave every connection as it is.                             *)

\* The parts of the invariant about the client's state and about the trackers'.
ClientSide == RunsTheLast /\ CallsAfterSetup /\ NoLostWaiter /\ HolderIsCurrent
ServerSide == LeftBehind /\ TableMatches /\ NoGhosts

\* A dial that fails only moves to the next endpoint.
LEMMA DialFailsInv ==
  ASSUME IInv, DialFails
  PROVE  IInv'
<1> USE DEF IInv, DialFails
<1>1. sup'.at = sup.at /\ sup'.conn = sup.conn BY DEF Shapes
<1>2. Shapes' BY EndpointTypes DEF Shapes
<1>3. ClientSide' BY <1>1 DEF ClientSide, RunsTheLast, CallsAfterSetup, NoLostWaiter, HolderIsCurrent
<1>4. EventsPaid' BY <1>1 DEF EventsPaid, Doomed
<1>5. ServerSide' BY DEF ServerSide, LeftBehind, TableMatches, NoGhosts, At
<1>6. StreamsInOrder' BY <1>1 DEF StreamsInOrder, Preparing
<1>7. QED BY <1>2, <1>3, <1>4, <1>5, <1>6 DEF ClientSide, ServerSide

\* The holder's connection is given to a call.
LEMMA GivenIs ==
  ASSUME NEW n \in Nat, NEW c \in 0 .. n, NEW k \in Calls, call[k] \in CallType(n)
  PROVE  /\ Given(c, k) \in CallType(n) /\ Given(c, k).pc \in {"get", "open"}
         /\ Given(c, k).pc = "open" => Given(c, k).conn = c
<1> DEFINE r == call[k]
           a == [r EXCEPT !.pc = "get"]
           b == [r EXCEPT !.pc = "open"]
<1>1. r = [pc |-> r.pc, conn |-> r.conn, pinned |-> r.pinned] /\ r.conn \in 0 .. n /\ r.pinned \in 0 .. n
  BY DEF CallType
<1> HIDE DEF r
<1>2. a = [pc |-> "get", conn |-> r.conn, pinned |-> r.pinned] BY <1>1
<1>3. b = [pc |-> "open", conn |-> r.conn, pinned |-> r.pinned] BY <1>1
<1> HIDE DEF a, b
<1>4. [a EXCEPT !.pinned = c] = [pc |-> "get", conn |-> r.conn, pinned |-> c] BY <1>2
<1>5. [b EXCEPT !.conn = c] = [pc |-> "open", conn |-> c, pinned |-> r.pinned] BY <1>3
<1> DEFINE x == [pc |-> "get", conn |-> r.conn, pinned |-> c]
           y == [pc |-> "open", conn |-> c, pinned |-> r.pinned]
<1>6. Given(c, k) = x \/ Given(c, k) = y
  BY <1>4, <1>5, Zenon DEF Given, a, b, r
<1>7. /\ x \in CallType(n) /\ x.pc = "get"
      /\ y \in CallType(n) /\ y.pc = "open" /\ y.conn = c
  BY <1>1 DEF CallType
<1> HIDE DEF x, y
<1>8. QED BY <1>6, <1>7

\* Idle calls have their shape.
LEMMA NoCallIs ==
  ASSUME NEW n \in Nat
  PROVE  NoCall \in CallType(n) /\ NoCall.pc = "idle" /\ [NoCall EXCEPT !.pc = "get"] \in CallType(n)
         /\ [NoCall EXCEPT !.pc = "get"].pc = "get"
BY DEF NoCall, CallType

\* The types of the client, read off the shapes.
LEMMA ClientTypes ==
  ASSUME Shapes
  PROVE  /\ Len(conn) \in Nat /\ DOMAIN conn = 1 .. Len(conn)
         /\ sup \in SupType(Len(conn)) /\ holder \in HolderType(Len(conn)) /\ call \in [Calls -> CallType(Len(conn))]
         /\ sup.conn \in 0 .. Len(conn) /\ holder.current \in 0 .. Len(conn) /\ holder.waiters \subseteq Calls
         /\ holder = [current |-> holder.current, waiters |-> holder.waiters, closed |-> holder.closed]
         /\ \A k \in Calls : call[k] \in CallType(Len(conn)) /\ call[k].conn \in 0 .. Len(conn)
<1>1. conn \in Seq(ConnRecord) BY DEF Shapes
<1>2. Len(conn) \in Nat /\ DOMAIN conn = 1 .. Len(conn) BY <1>1
<1>3. /\ sup \in SupType(Len(conn)) /\ holder \in HolderType(Len(conn)) /\ call \in [Calls -> CallType(Len(conn))]
  BY ShapesFit DEF Fits
<1>4. QED BY <1>2, <1>3 DEF SupType, HolderType, CallType

\* holder.set gives the new connection to the calls that wait.
LEMMA SetInv ==
  ASSUME IInv, Set
  PROVE  IInv'
<1> DEFINE n == Len(conn)
<1> DEFINE idle == {k \in Fetchers : call[k].pc = "idle"}
<1> DEFINE start == IF idle = {} THEN None ELSE CHOOSE k \in idle : TRUE
<1> DEFINE new(k) == CASE k = start -> [NoCall EXCEPT !.pc = "get"]
                       [] k \in holder.waiters -> Given(sup.conn, k)
                       [] OTHER -> call[k]
<1>0. /\ sup.at = "set" /\ sup' = [sup EXCEPT !.at = "watch"]
      /\ holder' = [holder EXCEPT !.current = sup.conn, !.waiters = {}]
      /\ call' = [k \in Calls |-> new(k)]
      /\ UNCHANGED <<stop, cands, conn, up, table, row, rpc, happened>>
  BY DEF Set
<1>1. /\ n \in Nat /\ sup \in SupType(n) /\ holder \in HolderType(n) /\ sup.conn \in 0 .. n
      /\ call \in [Calls -> CallType(n)]
      /\ \A k \in Calls : call[k] \in CallType(n) /\ call[k].conn \in 0 .. n
  BY ClientTypes DEF IInv
<1>2. sup.conn # 0 /\ sup.conn \in DOMAIN conn /\ conn[sup.conn].client = "open"
  <2>1. sup.conn # 0 BY <1>0 DEF IInv, RunsTheLast
  <2>2. QED BY <2>1, SupConn DEF IInv
<1>3. sup' \in SupType(n) /\ sup'.at = "watch" /\ sup'.conn = sup.conn BY <1>0, <1>1 DEF SupType
<1>4. holder' \in HolderType(n) /\ holder'.current = sup.conn /\ holder'.waiters = {}
  <2> DEFINE a == [holder EXCEPT !.current = sup.conn]
  <2>1. a = [current |-> sup.conn, waiters |-> holder.waiters, closed |-> holder.closed] /\ holder.closed \in BOOLEAN
    BY <1>1 DEF HolderType
  <2> HIDE DEF a
  <2>2. [a EXCEPT !.waiters = {}] = [current |-> sup.conn, waiters |-> {}, closed |-> holder.closed] BY <2>1
  <2>3. holder' = [a EXCEPT !.waiters = {}] BY <1>0, Zenon DEF a
  <2>4. holder' = [current |-> sup.conn, waiters |-> {}, closed |-> holder.closed] BY <2>2, <2>3
  <2>5. QED BY <1>1, <2>1, <2>4 DEF HolderType
<1>5. ASSUME NEW k \in Calls
      PROVE  /\ new(k) \in CallType(n) /\ new(k).pc # "wait"
             /\ new(k).pc \in {"open", "sent"} => new(k).conn # 0
  <2>0. call[k] \in CallType(n) BY <1>1
  <2>1. CASE k = start
    <3>1. k \in idle
      <4>1. idle # {} BY <2>1, ConnectionsAssumption
      <4>2. QED BY <2>1, <4>1, Zenon
    <3>2. k \notin holder.waiters BY <3>1 DEF IInv, NoLostWaiter
    <3>3. new(k) = [NoCall EXCEPT !.pc = "get"] BY <2>1, <3>2
    <3>4. QED BY <1>1, <3>3, NoCallIs
  <2>2. CASE k # start /\ k \in holder.waiters
    <3>1. new(k) = Given(sup.conn, k) BY <2>2
    <3>2. /\ Given(sup.conn, k) \in CallType(n) /\ Given(sup.conn, k).pc \in {"get", "open"}
          /\ Given(sup.conn, k).pc = "open" => Given(sup.conn, k).conn = sup.conn
      BY <1>1, <2>0, GivenIs
    <3>3. QED BY <1>2, <3>1, <3>2
  <2>3. CASE k # start /\ k \notin holder.waiters
    <3>1. new(k) = call[k] BY <2>3
    <3>2. call[k].pc # "wait" BY <2>3 DEF IInv, NoLostWaiter
    <3>3. QED BY <2>0, <3>1, <3>2 DEF IInv, CallsAfterSetup
  <2>4. QED BY <2>1, <2>2, <2>3
<1> HIDE DEF new, start, idle
<1>6. call' \in [Calls -> CallType(n)] /\ \A k \in Calls : call'[k] = new(k) BY <1>0, <1>5
<1>7. Shapes' BY <1>0, <1>3, <1>4, <1>6, ShapesFit, ShapesKept DEF IInv, Fits
<1>8. ClientSide'
  <2>1. RunsTheLast' BY <1>0, <1>2, <1>3 DEF IInv, RunsTheLast
  <2>2. CallsAfterSetup' BY <1>3, <1>5, <1>6 DEF CallsAfterSetup
  <2>3. NoLostWaiter' BY <1>4, <1>5, <1>6 DEF NoLostWaiter
  <2>4. HolderIsCurrent' BY <1>0, <1>2, <1>3, <1>4 DEF HolderIsCurrent
  <2>5. QED BY <2>1, <2>2, <2>3, <2>4 DEF ClientSide
<1>9. EventsPaid' BY <1>0, <1>3 DEF IInv, EventsPaid, Doomed
<1>10. ServerSide' BY <1>0 DEF IInv, ServerSide, LeftBehind, TableMatches, NoGhosts, At
<1>11. StreamsInOrder'
  <2>1. \A c : Preparing(c)' <=> Preparing(c) BY <1>0, <1>3 DEF Preparing
  <2>2. QED BY <1>0, <2>1 DEF IInv, StreamsInOrder
<1>12. QED BY <1>7, <1>8, <1>9, <1>10, <1>11 DEF IInv, ClientSide, ServerSide

\* Close stops the client; it is an event of its own.
LEMMA CloseInv ==
  ASSUME IInv, Close
  PROVE  IInv'
<1>0. /\ happened' = happened + 2 /\ happened + 2 <= MaxEvents /\ stop' = TRUE
      /\ UNCHANGED <<sup, holder, cands, conn, call, up, table, row, rpc>>
  BY DEF Close, Event
<1>1. happened \in 0 .. MaxEvents /\ MaxEvents \in Nat BY ConnectionsAssumption DEF IInv, Shapes
<1>2. Shapes'
  <2>1. happened' \in 0 .. MaxEvents BY <1>0, <1>1
  <2>2. QED BY <1>0, <2>1 DEF IInv, Shapes
<1>3. ClientSide' BY <1>0 DEF IInv, ClientSide, RunsTheLast, CallsAfterSetup, NoLostWaiter, HolderIsCurrent
<1>4. EventsPaid'
  <2>1. Len(conn) \in Nat BY ClientTypes DEF IInv
  <2>2. QED BY <1>0, <1>1, <2>1 DEF IInv, EventsPaid
<1>5. ServerSide' BY <1>0 DEF IInv, ServerSide, LeftBehind, TableMatches, NoGhosts, At
<1>6. StreamsInOrder' BY <1>0 DEF IInv, StreamsInOrder, Preparing
<1>7. QED BY <1>2, <1>3, <1>4, <1>5, <1>6 DEF IInv, ClientSide, ServerSide

\* Steps of the calls and of the trackers' records: the connections, the tables and the processes
\* stay.
LEMMA QuietInv ==
  ASSUME IInv, UNCHANGED <<sup, stop, conn, up, table>>,
         call' \in [Calls -> CallType(Len(conn))], holder' \in HolderType(Len(conn)),
         holder'.current = holder.current, cands' \in {<<>>, Peers}, rpc' \subseteq rpc,
         row' \in [Trackers -> SeederRecord \cup {None}],
         \A t \in Trackers : row'[t] # None => row[t] # None,
         happened' \in 0 .. MaxEvents, happened <= happened',
         NoLostWaiter', CallsAfterSetup'
  PROVE  IInv'
<1>1. Shapes'
  <2>1. Fits(Len(conn)) BY ShapesFit DEF IInv
  <2>2. Fits(Len(conn))' BY <2>1 DEF Fits
  <2>3. QED BY <2>2, ShapesKept DEF IInv, Shapes
<1>2. RunsTheLast' /\ HolderIsCurrent' BY DEF IInv, RunsTheLast, HolderIsCurrent
<1>3. EventsPaid'
  <2>1. Len(conn) \in Nat /\ happened \in Nat /\ happened' \in Nat
    BY ClientTypes, ConnectionsAssumption DEF IInv, Shapes
  <2>2. QED BY <2>1 DEF IInv, EventsPaid, Doomed
<1>4. ServerSide'
  <2>1. LeftBehind' /\ TableMatches' BY DEF IInv, LeftBehind, TableMatches
  <2>2. NoGhosts' BY DEF IInv, NoGhosts, At
  <2>3. QED BY <2>1, <2>2 DEF ServerSide
<1>5. StreamsInOrder' BY DEF IInv, StreamsInOrder, Preparing
<1>6. QED BY <1>1, <1>2, <1>3, <1>4, <1>5 DEF IInv, ServerSide

\* What a quiet step leaves alone fits.
LEMMA QuietFacts ==
  ASSUME IInv
  PROVE  /\ call \in [Calls -> CallType(Len(conn))] /\ holder \in HolderType(Len(conn))
         /\ cands \in {<<>>, Peers} /\ row \in [Trackers -> SeederRecord \cup {None}]
         /\ happened \in 0 .. MaxEvents /\ happened <= happened /\ NoLostWaiter /\ CallsAfterSetup
         /\ Len(conn) \in Nat /\ DOMAIN conn = 1 .. Len(conn)
<1>1. Fits(Len(conn)) BY ShapesFit DEF IInv
<1>2. happened <= happened BY <1>1, ConnectionsAssumption DEF Fits
<1>3. QED BY <1>1, <1>2, ClientTypes DEF IInv, Fits

\* A call that ends.
LEMMA CallEnds ==
  ASSUME IInv, NEW k \in Calls, call[k].pc # "wait", call' = [call EXCEPT ![k] = NoCall], UNCHANGED <<sup, holder>>
  PROVE  call' \in [Calls -> CallType(Len(conn))] /\ NoLostWaiter' /\ CallsAfterSetup'
<1>1. call \in [Calls -> CallType(Len(conn))] /\ Len(conn) \in Nat BY QuietFacts
<1>2. NoCall \in CallType(Len(conn)) /\ NoCall.pc = "idle" BY <1>1, NoCallIs
<1>3. call' \in [Calls -> CallType(Len(conn))] BY <1>1, <1>2
<1>4. call'[k].pc = "idle" /\ \A j \in Calls : j # k => call'[j] = call[j] BY <1>1, <1>2
<1>5. NoLostWaiter'
  <2>1. {j \in Calls : call[j].pc = "wait"} = {j \in Calls : call'[j].pc = "wait"} BY <1>4
  <2>2. QED BY <2>1 DEF IInv, NoLostWaiter
<1>6. CallsAfterSetup' BY <1>4 DEF IInv, CallsAfterSetup
<1>7. QED BY <1>3, <1>5, <1>6

\* A holder that is closed, or open, without waiting calls.
LEMMA HolderEdit ==
  ASSUME NEW n \in Nat, NEW h \in HolderType(n), NEW b \in BOOLEAN
  PROVE  LET g == [h EXCEPT !.closed = b, !.waiters = {}]
         IN  g \in HolderType(n) /\ g.current = h.current /\ g.waiters = {}
<1> DEFINE a == [h EXCEPT !.closed = b]
           g == [a EXCEPT !.waiters = {}]
<1>1. a = [current |-> h.current, waiters |-> h.waiters, closed |-> b] /\ h.current \in 0 .. n
  BY DEF HolderType
<1> HIDE DEF a
<1>2. g = [current |-> h.current, waiters |-> {}, closed |-> b] BY <1>1
<1> HIDE DEF g
<1>3. g \in HolderType(n) /\ g.current = h.current /\ g.waiters = {} BY <1>1, <1>2 DEF HolderType
<1>4. g = [h EXCEPT !.closed = b, !.waiters = {}] BY Zenon DEF g, a
<1>5. QED BY <1>3, <1>4, Zenon

\* holder.close wakes the calls that wait.
LEMMA HolderCloseInv ==
  ASSUME IInv, HolderClose
  PROVE  IInv'
<1> DEFINE n == Len(conn)
<1>0. /\ holder' = [holder EXCEPT !.closed = TRUE, !.waiters = {}]
      /\ call' = [k \in Calls |-> IF k \in holder.waiters THEN NoCall ELSE call[k]]
      /\ UNCHANGED <<sup, stop, cands, conn, up, table, row, rpc, happened>>
  BY DEF HolderClose
<1>1. n \in Nat /\ holder \in HolderType(n) /\ call \in [Calls -> CallType(n)] BY QuietFacts
<1>2. holder' \in HolderType(n) /\ holder'.current = holder.current /\ holder'.waiters = {}
  BY <1>0, <1>1, HolderEdit, Zenon
<1>3. NoCall \in CallType(n) /\ NoCall.pc = "idle" BY <1>1, NoCallIs
<1>4. call' \in [Calls -> CallType(n)] BY <1>0, <1>1, <1>3
<1>5. \A k \in Calls : call'[k].pc # "wait"
  <2> TAKE k \in Calls
  <2>1. k \in holder.waiters <=> call[k].pc = "wait" BY DEF IInv, NoLostWaiter
  <2>2. QED BY <1>0, <1>3, <2>1
<1>6. NoLostWaiter' BY <1>2, <1>5 DEF NoLostWaiter
<1>7. CallsAfterSetup'
  <2>1. \A k \in Calls : call'[k].pc = "idle" \/ call'[k] = call[k] BY <1>0, <1>3
  <2>2. QED BY <1>0, <2>1 DEF IInv, CallsAfterSetup
<1>8. QED BY <1>0, <1>2, <1>4, <1>6, <1>7, QuietFacts, QuietInv

\* A read that ends with its connection.
LEMMA ReadLostInv ==
  ASSUME IInv, NEW k \in Calls, ReadLost(k)
  PROVE  IInv'
<1>1. call[k].pc # "wait" /\ call' = [call EXCEPT ![k] = NoCall]
      /\ UNCHANGED <<sup, stop, holder, cands, conn, up, table, row, rpc, happened>>
  BY DEF ReadLost, clientVars
<1>2. call' \in [Calls -> CallType(Len(conn))] /\ NoLostWaiter' /\ CallsAfterSetup' BY <1>1, CallEnds
<1>3. QED BY <1>1, <1>2, QuietFacts, QuietInv

\* holder.get gives out the supervisor's connection, or the call waits.
LEMMA GetInv ==
  ASSUME IInv, NEW k \in Calls, Get(k)
  PROVE  IInv'
<1> DEFINE n == Len(conn)
<1>0. /\ call[k].pc \in {"get", "idle"}
      /\ UNCHANGED <<sup, stop, cands, conn, up, table, row, rpc, happened>>
  BY DEF Get, Advertise
<1>1. /\ n \in Nat /\ holder \in HolderType(n) /\ call \in [Calls -> CallType(n)] /\ call[k] \in CallType(n)
      /\ holder.current \in 0 .. n /\ holder.waiters \subseteq Calls
  BY ClientTypes DEF IInv
<1>2. CASE call' = [call EXCEPT ![k] = NoCall] /\ UNCHANGED holder
  <2>1. call' \in [Calls -> CallType(n)] /\ NoLostWaiter' /\ CallsAfterSetup' BY <1>0, <1>2, CallEnds
  <2>2. QED BY <1>0, <1>2, <2>1, QuietFacts, QuietInv
<1>3. CASE holder.current # 0 /\ call' = [call EXCEPT ![k] = Given(holder.current, k)] /\ UNCHANGED holder
  <2> DEFINE g == Given(holder.current, k)
  <2>1. g \in CallType(n) /\ g.pc \in {"get", "open"} /\ (g.pc = "open" => g.conn = holder.current)
    BY <1>1, GivenIs
  <2> HIDE DEF g
  <2>2. call' = [call EXCEPT ![k] = g] BY <1>3 DEF g
  <2>3. call' \in [Calls -> CallType(n)] /\ call'[k] = g /\ \A j \in Calls : j # k => call'[j] = call[j]
    BY <1>1, <2>1, <2>2
  <2>4. NoLostWaiter'
    <3>1. {j \in Calls : call[j].pc = "wait"} = {j \in Calls : call'[j].pc = "wait"} BY <1>0, <2>1, <2>3
    <3>2. QED BY <1>3, <3>1 DEF IInv, NoLostWaiter
  <2>5. CallsAfterSetup'
    <3>1. sup.at = "watch" BY <1>3 DEF IInv, HolderIsCurrent
    <3>2. QED BY <1>0, <1>3, <2>1, <2>3, <3>1 DEF IInv, CallsAfterSetup
  <2>6. QED BY <1>0, <1>3, <2>3, <2>4, <2>5, QuietFacts, QuietInv
<1>4. CASE /\ ~holder.closed /\ holder.current = 0
           /\ call' = [call EXCEPT ![k].pc = "wait"]
           /\ holder' = [holder EXCEPT !.waiters = @ \cup {k}]
  <2> DEFINE g == [call[k] EXCEPT !.pc = "wait"]
  <2>1. g \in CallType(n) /\ g.pc = "wait" BY <1>1 DEF CallType
  <2>2. call' = [call EXCEPT ![k] = g] BY <1>4
  <2> HIDE DEF g
  <2>3. call' \in [Calls -> CallType(n)] /\ call'[k] = g /\ \A j \in Calls : j # k => call'[j] = call[j]
    BY <1>1, <2>1, <2>2
  <2>4. /\ holder' \in HolderType(n) /\ holder'.current = holder.current /\ holder'.closed = holder.closed
        /\ holder'.waiters = holder.waiters \cup {k}
    BY <1>1, <1>4 DEF HolderType
  <2>5. NoLostWaiter'
    <3>1. {j \in Calls : call'[j].pc = "wait"} = {j \in Calls : call[j].pc = "wait"} \cup {k} BY <2>1, <2>3
    <3>2. QED BY <1>4, <2>4, <3>1 DEF IInv, NoLostWaiter
  <2>6. CallsAfterSetup' BY <1>0, <2>1, <2>3 DEF IInv, CallsAfterSetup
  <2>7. QED BY <1>0, <2>3, <2>4, <2>5, <2>6, QuietFacts, QuietInv
<1>5. QED BY <1>2, <1>3, <1>4 DEF Get

\* A record of the tracker with one field set.
LEMMA RowEdit ==
  ASSUME NEW t \in Trackers, row \in [Trackers -> SeederRecord \cup {None}], row[t] # None, NEW b \in BOOLEAN
  PROVE  /\ [row EXCEPT ![t].beat = b] \in [Trackers -> SeederRecord \cup {None}]
         /\ [row EXCEPT ![t].available = b] \in [Trackers -> SeederRecord \cup {None}]
         /\ \A x \in Trackers : [row EXCEPT ![t].beat = b][x] # None => row[x] # None
         /\ \A x \in Trackers : [row EXCEPT ![t].available = b][x] # None => row[x] # None
<1> DEFINE r == row[t]
           d == [r EXCEPT !.beat = b]
           e == [r EXCEPT !.available = b]
<1>1. r \in SeederRecord OBVIOUS
<1>2. d \in SeederRecord /\ e \in SeederRecord BY <1>1 DEF SeederRecord
<1>3. [row EXCEPT ![t].beat = b] = [row EXCEPT ![t] = d] /\ [row EXCEPT ![t].available = b] = [row EXCEPT ![t] = e]
  BY Zenon DEF d, e, r
<1> HIDE DEF d, e, r
<1>4. ASSUME NEW f \in SeederRecord
      PROVE  /\ [row EXCEPT ![t] = f] \in [Trackers -> SeederRecord \cup {None}]
             /\ \A x \in Trackers : [row EXCEPT ![t] = f][x] # None => row[x] # None
  OBVIOUS
<1>5. QED BY <1>2, <1>3, <1>4, Zenon

\* A heartbeat refreshes a record.
LEMMA HeartbeatInv ==
  ASSUME IInv, NEW c \in DOMAIN conn, Heartbeat(c)
  PROVE  IInv'
<1>0. /\ row[conn[c].to] # None /\ row' = [row EXCEPT ![conn[c].to].beat = TRUE]
      /\ UNCHANGED <<sup, stop, holder, cands, conn, call, up, table, rpc, happened>>
  BY DEF Heartbeat, clientVars
<1>1. conn[c].to \in Trackers BY ConnIs DEF IInv
<1>2. row' \in [Trackers -> SeederRecord \cup {None}] /\ \A t \in Trackers : row'[t] # None => row[t] # None
  BY <1>0, <1>1, QuietFacts, RowEdit, Zenon
<1>3. NoLostWaiter' /\ CallsAfterSetup' BY <1>0 DEF IInv, NoLostWaiter, CallsAfterSetup
<1>4. QED BY <1>0, <1>2, <1>3, QuietFacts, QuietInv

\* A record grows stale.
LEMMA GoStaleInv ==
  ASSUME IInv, NEW t \in Trackers, GoStale(t)
  PROVE  IInv'
<1>0. /\ row[t] # None /\ row' = [row EXCEPT ![t].beat = FALSE]
      /\ happened + 1 <= MaxEvents /\ happened' = happened + 1
      /\ UNCHANGED <<sup, stop, holder, cands, conn, call, up, table, rpc>>
  BY DEF GoStale, Event, clientVars
<1>1. row' \in [Trackers -> SeederRecord \cup {None}] /\ \A x \in Trackers : row'[x] # None => row[x] # None
  BY <1>0, QuietFacts, RowEdit, Zenon
<1>2. happened' \in 0 .. MaxEvents /\ happened <= happened'
  <2>1. happened \in 0 .. MaxEvents /\ MaxEvents \in Nat BY QuietFacts, ConnectionsAssumption
  <2>2. QED BY <1>0, <2>1
<1>3. NoLostWaiter' /\ CallsAfterSetup' BY <1>0 DEF IInv, NoLostWaiter, CallsAfterSetup
<1>4. QED BY <1>0, <1>1, <1>2, <1>3, QuietFacts, QuietInv

\* The sweep removes a record.
LEMMA SweepInv ==
  ASSUME IInv, NEW t \in Trackers, Sweep(t)
  PROVE  IInv'
<1>0. /\ row' = [row EXCEPT ![t] = None]
      /\ UNCHANGED <<sup, stop, holder, cands, conn, call, up, table, rpc, happened>>
  BY DEF Sweep, clientVars
<1>1. row \in [Trackers -> SeederRecord \cup {None}] BY QuietFacts
<1>2. row' \in [Trackers -> SeederRecord \cup {None}] /\ \A x \in Trackers : row'[x] # None => row[x] # None
  BY <1>0, <1>1
<1>3. NoLostWaiter' /\ CallsAfterSetup' BY <1>0 DEF IInv, NoLostWaiter, CallsAfterSetup
<1>4. QED BY <1>0, <1>2, <1>3, QuietFacts, QuietInv

\* A handler runs and its response is read.
LEMMA DispatchInv ==
  ASSUME IInv, NEW k \in Calls, NEW c \in DOMAIN conn, Dispatch(k, c)
  PROVE  IInv'
<1>0. /\ rpc' \subseteq rpc
      /\ \/ row' = row
         \/ row[conn[c].to] # None /\ row' = [row EXCEPT ![conn[c].to].available = TRUE]
      /\ UNCHANGED <<sup, stop, holder, conn, up, table, happened>>
  BY DEF Dispatch
<1>1. \/ call[k].pc = "sent" /\ cands' \in {cands, Peers} /\ call' = [call EXCEPT ![k] = NoCall]
      \/ UNCHANGED <<cands, call>>
  BY DEF Dispatch
<1>2. conn[c].to \in Trackers BY ConnIs DEF IInv
<1>3. row' \in [Trackers -> SeederRecord \cup {None}] /\ \A t \in Trackers : row'[t] # None => row[t] # None
  BY <1>0, <1>2, QuietFacts, RowEdit, Zenon
<1>4. call' \in [Calls -> CallType(Len(conn))] /\ NoLostWaiter' /\ CallsAfterSetup'
  <2>1. CASE call[k].pc = "sent" /\ call' = [call EXCEPT ![k] = NoCall] BY <1>0, <2>1, CallEnds
  <2>2. CASE UNCHANGED call BY <1>0, <2>2, QuietFacts DEF NoLostWaiter, CallsAfterSetup
  <2>3. QED BY <1>1, <2>1, <2>2
<1>5. cands' \in {<<>>, Peers} BY <1>1, QuietFacts
<1>6. QED BY <1>0, <1>3, <1>4, <1>5, QuietFacts, QuietInv

\* A tracker starts to stop, which is an event, or is started again.
LEMMA ShutdownInv ==
  ASSUME IInv, NEW t \in Trackers, Shutdown(t)
  PROVE  IInv'
<1>0. /\ up[t] = "up" /\ happened + 2 <= MaxEvents /\ happened' = happened + 2
      /\ up' = [up EXCEPT ![t] = "stopping"]
      /\ UNCHANGED <<sup, stop, holder, cands, conn, call, table, row, rpc>>
  BY DEF Shutdown, Event, clientVars
<1>1. /\ happened \in 0 .. MaxEvents /\ MaxEvents \in Nat /\ Len(conn) \in Nat
      /\ up \in [Trackers -> {"up", "stopping", "down"}]
  BY ClientTypes, ConnectionsAssumption DEF IInv, Shapes
<1>2. happened' \in 0 .. MaxEvents /\ up' \in [Trackers -> {"up", "stopping", "down"}] BY <1>0, <1>1
<1>3. up'[t] = "stopping" /\ \A x \in Trackers : x # t => up'[x] = up[x] BY <1>0, <1>1
<1>4. Shapes' BY <1>0, <1>2 DEF IInv, Shapes
<1>5. ClientSide' BY <1>0 DEF IInv, ClientSide, RunsTheLast, CallsAfterSetup, NoLostWaiter, HolderIsCurrent
<1>6. EventsPaid' BY <1>0, <1>1 DEF IInv, EventsPaid
<1>7. LeftBehind'
  <2> SUFFICES ASSUME NEW c \in DOMAIN conn
               PROVE  /\ conn[c].server = "deregister" => conn[c].net = "down" \/ up'[conn[c].to] = "stopping"
                      /\ conn[c].server = "gone" => conn[c].net = "down"
                      /\ up'[conn[c].to] = "down" => conn[c].server = "gone"
    BY <1>0 DEF LeftBehind
  <2>1. conn[c].to \in Trackers BY ConnIs DEF IInv
  <2>2. QED BY <1>0, <1>3, <2>1 DEF IInv, LeftBehind
<1>8. TableMatches' /\ NoGhosts' BY <1>0 DEF IInv, TableMatches, NoGhosts, At
<1>9. StreamsInOrder' BY <1>0 DEF IInv, StreamsInOrder, Preparing
<1>10. QED BY <1>4, <1>5, <1>6, <1>7, <1>8, <1>9 DEF IInv, ClientSide

\* A tracker that is started again finds no connection: those it had are gone.
LEMMA RestartInv ==
  ASSUME IInv, NEW t \in Trackers, Restart(t)
  PROVE  IInv'
<1>0. /\ up[t] = "down" /\ up' = [up EXCEPT ![t] = "up"]
      /\ UNCHANGED <<sup, stop, holder, cands, conn, call, table, row, rpc, happened>>
  BY DEF Restart, clientVars
<1>1. up \in [Trackers -> {"up", "stopping", "down"}] BY DEF IInv, Shapes
<1>2. up' \in [Trackers -> {"up", "stopping", "down"}] BY <1>0, <1>1
<1>3. up'[t] = "up" /\ \A x \in Trackers : x # t => up'[x] = up[x] BY <1>0, <1>1
<1>4. Shapes' BY <1>0, <1>2 DEF IInv, Shapes
<1>5. ClientSide' BY <1>0 DEF IInv, ClientSide, RunsTheLast, CallsAfterSetup, NoLostWaiter, HolderIsCurrent
<1>6. EventsPaid'
  <2>1. CASE sup.conn = 0 BY <1>0, <2>1 DEF IInv, EventsPaid
  <2>2. CASE sup.conn # 0
    <3>1. conn[sup.conn].to \in Trackers BY <2>2, SupConn, ConnIs DEF IInv
    <3>2. Doomed(sup.conn)' => Doomed(sup.conn) BY <1>0, <1>3, <3>1 DEF Doomed
    <3>3. QED BY <1>0, <3>2 DEF IInv, EventsPaid
  <2>3. QED BY <2>1, <2>2
<1>7. LeftBehind'
  <2> SUFFICES ASSUME NEW c \in DOMAIN conn
               PROVE  /\ conn[c].server = "deregister" => conn[c].net = "down" \/ up'[conn[c].to] = "stopping"
                      /\ conn[c].server = "gone" => conn[c].net = "down"
                      /\ up'[conn[c].to] = "down" => conn[c].server = "gone"
    BY <1>0 DEF LeftBehind
  <2>1. conn[c].to \in Trackers BY ConnIs DEF IInv
  <2>2. QED BY <1>0, <1>3, <2>1 DEF IInv, LeftBehind
<1>8. TableMatches' /\ NoGhosts' BY <1>0 DEF IInv, TableMatches, NoGhosts, At
<1>9. StreamsInOrder' BY <1>0 DEF IInv, StreamsInOrder, Preparing
<1>10. QED BY <1>4, <1>5, <1>6, <1>7, <1>8, <1>9 DEF IInv, ClientSide

-----------------------------------------------------------------------------
(* Steps that change one connection.                                       *)

\* The client's side of a step that leaves the client's end of a connection open.
LEMMA TurnClient ==
  ASSUME IInv, NEW c, NEW net, NEW server, NEW streams, NEW heartbeat,
         Turns(c, net, conn[c].client, server, streams, heartbeat),
         net \in {conn[c].net, "down"}, UNCHANGED <<sup, holder>>
  PROVE  RunsTheLast' /\ HolderIsCurrent'
<1>1. /\ c \in DOMAIN conn /\ Len(conn') = Len(conn) /\ DOMAIN conn' = DOMAIN conn
      /\ \A x \in DOMAIN conn : x # c => conn'[x] = conn[x]
      /\ conn'[c].net = net /\ conn'[c].client = conn[c].client
  BY TurnsFields
<1>2. sup.conn # 0 => sup.conn \in DOMAIN conn BY SupConn DEF IInv
<1>3. \A x \in DOMAIN conn : conn'[x].client = conn[x].client /\ (conn[x].net = "down" => conn'[x].net = "down")
  BY <1>1
<1>4. RunsTheLast' BY <1>1, <1>2, <1>3 DEF IInv, RunsTheLast
<1>5. HolderIsCurrent'
  <2>1. holder.current # 0 => sup.conn # 0 /\ sup.conn \in DOMAIN conn
    BY <1>2 DEF IInv, HolderIsCurrent, RunsTheLast
  <2>2. QED BY <1>3, <2>1 DEF IInv, HolderIsCurrent
<1>6. QED BY <1>4, <1>5

\* The shapes after a change of one connection.
LEMMA TurnShapes ==
  ASSUME IInv, NEW c, NEW net, NEW client, NEW server, NEW streams, NEW heartbeat,
         Turns(c, net, client, server, streams, heartbeat),
         sup' \in SupType(Len(conn)), holder' \in HolderType(Len(conn)), call' \in [Calls -> CallType(Len(conn))],
         table' \in [Trackers -> 0 .. Len(conn)], row' \in [Trackers -> SeederRecord \cup {None}],
         rpc' \subseteq Calls \X (1 .. Len(conn)), happened' \in 0 .. MaxEvents,
         UNCHANGED <<stop, cands, up>>
  PROVE  Shapes'
<1>1. conn' \in Seq(ConnRecord) /\ Len(conn') = Len(conn) BY TurnsFields
<1>2. Fits(Len(conn)) BY ShapesFit DEF IInv
<1>3. Fits(Len(conn))' BY <1>1, <1>2 DEF Fits
<1>4. QED BY <1>1, <1>3, ShapesKept

\* What fits before a step.
LEMMA OldFits ==
  ASSUME IInv
  PROVE  /\ sup \in SupType(Len(conn)) /\ holder \in HolderType(Len(conn)) /\ call \in [Calls -> CallType(Len(conn))]
         /\ table \in [Trackers -> 0 .. Len(conn)] /\ row \in [Trackers -> SeederRecord \cup {None}]
         /\ rpc \subseteq Calls \X (1 .. Len(conn)) /\ happened \in 0 .. MaxEvents
         /\ Len(conn) \in Nat /\ DOMAIN conn = 1 .. Len(conn) /\ up \in [Trackers -> {"up", "stopping", "down"}]
<1>1. Fits(Len(conn)) BY ShapesFit DEF IInv
<1>2. QED BY <1>1, ClientTypes DEF IInv, Fits

\* The client's calls are not touched.
LEMMA SameCalls ==
  ASSUME IInv, UNCHANGED <<sup, holder, call>>
  PROVE  NoLostWaiter' /\ CallsAfterSetup'
BY DEF IInv, NoLostWaiter, CallsAfterSetup

\* A tracker's goroutine goes on; what remains to show is about the trackers' side.
LEMMA ServerInv ==
  ASSUME IInv, NEW c, NEW v,
         Turns(c, conn[c].net, conn[c].client, v, conn[c].streams, conn[c].heartbeat),
         UNCHANGED <<sup, stop, holder, cands, call, up, rpc, happened>>,
         table' \in [Trackers -> 0 .. Len(conn)], row' \in [Trackers -> SeederRecord \cup {None}],
         ServerSide'
  PROVE  IInv'
<1>1. /\ c \in DOMAIN conn /\ Len(conn') = Len(conn) /\ DOMAIN conn' = DOMAIN conn
      /\ \A x \in DOMAIN conn : x # c => conn'[x] = conn[x]
      /\ conn'[c].to = conn[c].to /\ conn'[c].net = conn[c].net
      /\ conn'[c].streams = conn[c].streams /\ conn'[c].heartbeat = conn[c].heartbeat
  BY TurnsFields
<1>2. \A x \in DOMAIN conn : /\ conn'[x].to = conn[x].to /\ conn'[x].net = conn[x].net
                             /\ conn'[x].streams = conn[x].streams /\ conn'[x].heartbeat = conn[x].heartbeat
  BY <1>1
<1>3. Shapes' BY OldFits, TurnShapes
<1>4. RunsTheLast' /\ HolderIsCurrent' BY TurnClient
<1>5. NoLostWaiter' /\ CallsAfterSetup' BY SameCalls
<1>6. EventsPaid'
  <2>1. sup.conn # 0 => sup.conn \in DOMAIN conn BY SupConn DEF IInv
  <2>2. sup.conn # 0 => (Doomed(sup.conn)' <=> Doomed(sup.conn)) BY <1>2, <2>1 DEF Doomed
  <2>3. QED BY <1>1, <2>2 DEF IInv, EventsPaid
<1>7. StreamsInOrder' BY <1>1, <1>2 DEF IInv, StreamsInOrder, Preparing
<1>8. QED BY <1>3, <1>4, <1>5, <1>6, <1>7 DEF IInv, ServerSide

\* What a step of serveConn does to its connection.
LEMMA ServerTurns ==
  ASSUME IInv, NEW c \in DOMAIN conn, NEW from,
         NEW v \in {"accepted", "mapped", "serving", "deregister", "gone"}, Server(c, from, v)
  PROVE  /\ Turns(c, conn[c].net, conn[c].client, v, conn[c].streams, conn[c].heartbeat)
         /\ conn[c].server = from /\ conn[c].to \in Trackers
         /\ DOMAIN conn' = DOMAIN conn /\ conn'[c].server = v
         /\ \A x \in DOMAIN conn : /\ conn'[x].to = conn[x].to /\ conn'[x].net = conn[x].net
                                   /\ x # c => conn'[x].server = conn[x].server
<1>1. conn[c].server = from /\ conn' = [conn EXCEPT ![c].server = v] BY DEF Server
<1>2. conn[c].to \in Trackers /\ conn[c].streams \in Seq(Calls \cup {"heartbeat"}) BY ConnIs DEF IInv
<1>3. Turns(c, conn[c].net, conn[c].client, v, conn[c].streams, conn[c].heartbeat)
  <2>1. <<>> \in Seq(Calls \cup {"heartbeat"}) /\ None \in Calls \cup {None, "heartbeat"} OBVIOUS
  <2>2. QED BY <1>1, <2>1, Changes, Zenon DEF IInv
<1>4. /\ DOMAIN conn' = DOMAIN conn /\ conn'[c].server = v
      /\ \A x \in DOMAIN conn : x # c => conn'[x] = conn[x]
      /\ conn'[c].to = conn[c].to /\ conn'[c].net = conn[c].net
  BY <1>3, TurnsFields
<1>5. QED BY <1>1, <1>2, <1>3, <1>4

\* The peer's connection enters the table.
LEMMA MapPeerInv ==
  ASSUME IInv, NEW c \in DOMAIN conn, MapPeer(c)
  PROVE  IInv'
<1>0. /\ Server(c, "accepted", "mapped") /\ table' = [table EXCEPT ![conn[c].to] = c]
      /\ UNCHANGED <<sup, stop, holder, cands, call, up, row, rpc, happened>>
  BY DEF MapPeer, clientVars
<1>1. /\ Turns(c, conn[c].net, conn[c].client, "mapped", conn[c].streams, conn[c].heartbeat)
      /\ conn[c].server = "accepted" /\ conn[c].to \in Trackers
      /\ DOMAIN conn' = DOMAIN conn /\ conn'[c].server = "mapped"
      /\ \A x \in DOMAIN conn : /\ conn'[x].to = conn[x].to /\ conn'[x].net = conn[x].net
                                /\ x # c => conn'[x].server = conn[x].server
  BY <1>0, ServerTurns
<1>2. table \in [Trackers -> 0 .. Len(conn)] /\ DOMAIN conn = 1 .. Len(conn) /\ Len(conn) \in Nat BY OldFits
<1>3. table' \in [Trackers -> 0 .. Len(conn)]
  <2>1. c \in 0 .. Len(conn) /\ 0 \in 0 .. Len(conn) BY <1>2
  <2> DEFINE S == 0 .. Len(conn)
  <2>2. table \in [Trackers -> S] /\ c \in S /\ 0 \in S BY <1>2, <2>1
  <2> HIDE DEF S
  <2>3. table' \in [Trackers -> S] BY <1>0, <2>2
  <2>4. QED BY <2>3 DEF S
<1>4. table'[conn[c].to] = c /\ \A t \in Trackers : t # conn[c].to => table'[t] = table[t] BY <1>0, <1>1, <1>2
<1>5. \A t \in Trackers : table[t] # 0 => table[t] \in DOMAIN conn BY <1>2
<1>6. LeftBehind' BY <1>0, <1>1 DEF IInv, LeftBehind
<1>7. TableMatches' BY <1>1, <1>4, <1>5 DEF IInv, TableMatches
<1>8. NoGhosts'
  <2> SUFFICES ASSUME NEW t \in Trackers
               PROVE  /\ table'[t] # 0 => conn'[table'[t]].server \in {"mapped", "serving"}
                      /\ row'[t] # None => \E x \in At(t)' : conn'[x].server \in {"serving", "deregister"}
    BY DEF NoGhosts
  <2>1. table'[t] # 0 => conn'[table'[t]].server \in {"mapped", "serving"}
    <3>1. CASE t = conn[c].to BY <1>1, <1>4, <3>1
    <3>2. CASE t # conn[c].to
      <4>1. table[t] # c \/ table[t] = 0 BY <3>2 DEF IInv, TableMatches
      <4>2. QED BY <1>1, <1>4, <1>5, <3>2, <4>1 DEF IInv, NoGhosts
    <3>3. QED BY <3>1, <3>2
  <2>2. ASSUME row'[t] # None PROVE \E x \in At(t)' : conn'[x].server \in {"serving", "deregister"}
    <3>1. PICK x \in At(t) : conn[x].server \in {"serving", "deregister"} BY <1>0, <2>2 DEF IInv, NoGhosts
    <3>2. x \in At(t)' BY <1>1, <3>1 DEF At
    <3>3. conn'[x].server = conn[x].server BY <1>1, <3>1 DEF At
    <3>4. QED BY <3>1, <3>2, <3>3
  <2>3. QED BY <2>1, <2>2
<1>9. ServerSide' BY <1>6, <1>7, <1>8 DEF ServerSide
<1>10. QED BY <1>0, <1>1, <1>3, <1>9, OldFits, ServerInv

\* The peer is registered, without anything an earlier connection left.
LEMMA RegisterInv ==
  ASSUME IInv, NEW c \in DOMAIN conn, Register(c)
  PROVE  IInv'
<1>0. /\ Server(c, "mapped", "serving") /\ row' = [row EXCEPT ![conn[c].to] = Fresh]
      /\ UNCHANGED <<sup, stop, holder, cands, call, up, table, rpc, happened>>
  BY DEF Register, clientVars
<1>1. /\ Turns(c, conn[c].net, conn[c].client, "serving", conn[c].streams, conn[c].heartbeat)
      /\ conn[c].server = "mapped" /\ conn[c].to \in Trackers
      /\ DOMAIN conn' = DOMAIN conn /\ conn'[c].server = "serving"
      /\ \A x \in DOMAIN conn : /\ conn'[x].to = conn[x].to /\ conn'[x].net = conn[x].net
                                /\ x # c => conn'[x].server = conn[x].server
  BY <1>0, ServerTurns
<1>2. /\ table \in [Trackers -> 0 .. Len(conn)] /\ DOMAIN conn = 1 .. Len(conn) /\ Len(conn) \in Nat
      /\ row \in [Trackers -> SeederRecord \cup {None}]
  BY OldFits
<1>3. row' \in [Trackers -> SeederRecord \cup {None}] /\ \A t \in Trackers : t # conn[c].to => row'[t] = row[t]
  <2>1. Fresh \in SeederRecord BY DEF Fresh, SeederRecord
  <2>2. QED BY <1>0, <1>2, <2>1
<1>5. \A t \in Trackers : table[t] # 0 => table[t] \in DOMAIN conn BY <1>2
<1>6. LeftBehind' BY <1>0, <1>1 DEF IInv, LeftBehind
<1>7. TableMatches' BY <1>0, <1>1, <1>5 DEF IInv, TableMatches
<1>8. NoGhosts'
  <2> SUFFICES ASSUME NEW t \in Trackers
               PROVE  /\ table[t] # 0 => conn'[table[t]].server \in {"mapped", "serving"}
                      /\ row'[t] # None => \E x \in At(t)' : conn'[x].server \in {"serving", "deregister"}
    BY <1>0 DEF NoGhosts
  <2>1. table[t] # 0 => conn'[table[t]].server \in {"mapped", "serving"} BY <1>1, <1>5 DEF IInv, NoGhosts
  <2>2. ASSUME row'[t] # None PROVE \E x \in At(t)' : conn'[x].server \in {"serving", "deregister"}
    <3>1. CASE t = conn[c].to
      <4>1. c \in At(t)' BY <1>1, <3>1 DEF At
      <4>2. QED BY <1>1, <4>1
    <3>2. CASE t # conn[c].to
      <4>1. PICK x \in At(t) : conn[x].server \in {"serving", "deregister"} BY <1>3, <2>2, <3>2 DEF IInv, NoGhosts
      <4>2. x \in At(t)' BY <1>1, <4>1 DEF At
      <4>3. conn'[x].server = conn[x].server BY <1>1, <4>1 DEF At
      <4>4. QED BY <4>1, <4>2, <4>3
    <3>3. QED BY <3>1, <3>2
  <2>3. QED BY <2>1, <2>2
<1>9. ServerSide' BY <1>6, <1>7, <1>8 DEF ServerSide
<1>10. QED BY <1>0, <1>1, <1>3, <1>9, OldFits, ServerInv

\* The cleanup removes the table's entry, whichever connection it is.
LEMMA UnmapPeerInv ==
  ASSUME IInv, NEW c \in DOMAIN conn, UnmapPeer(c)
  PROVE  IInv'
<1>0. /\ conn[c].net # "up" \/ up[conn[c].to] = "stopping"
      /\ Server(c, "serving", "deregister") /\ table' = [table EXCEPT ![conn[c].to] = 0]
      /\ UNCHANGED <<sup, stop, holder, cands, call, up, row, rpc, happened>>
  BY DEF UnmapPeer, clientVars
<1>1. /\ Turns(c, conn[c].net, conn[c].client, "deregister", conn[c].streams, conn[c].heartbeat)
      /\ conn[c].server = "serving" /\ conn[c].to \in Trackers
      /\ DOMAIN conn' = DOMAIN conn /\ conn'[c].server = "deregister"
      /\ \A x \in DOMAIN conn : /\ conn'[x].to = conn[x].to /\ conn'[x].net = conn[x].net
                                /\ x # c => conn'[x].server = conn[x].server
  BY <1>0, ServerTurns
<1>2. table \in [Trackers -> 0 .. Len(conn)] /\ DOMAIN conn = 1 .. Len(conn) /\ Len(conn) \in Nat BY OldFits
<1>3. table' \in [Trackers -> 0 .. Len(conn)]
  <2>1. c \in 0 .. Len(conn) /\ 0 \in 0 .. Len(conn) BY <1>2
  <2> DEFINE S == 0 .. Len(conn)
  <2>2. table \in [Trackers -> S] /\ c \in S /\ 0 \in S BY <1>2, <2>1
  <2> HIDE DEF S
  <2>3. table' \in [Trackers -> S] BY <1>0, <2>2
  <2>4. QED BY <2>3 DEF S
<1>4. table'[conn[c].to] = 0 /\ \A t \in Trackers : t # conn[c].to => table'[t] = table[t] BY <1>0, <1>1, <1>2
<1>5. \A t \in Trackers : table[t] # 0 => table[t] \in DOMAIN conn BY <1>2
<1>6. LeftBehind'
  <2>1. conn[c].net \in {"up", "down"} BY ConnIs DEF IInv, ConnRecord
  <2>2. QED BY <1>0, <1>1, <2>1 DEF IInv, LeftBehind
<1>7. TableMatches' BY <1>1, <1>4, <1>5 DEF IInv, TableMatches
<1>8. NoGhosts'
  <2> SUFFICES ASSUME NEW t \in Trackers
               PROVE  /\ table'[t] # 0 => conn'[table'[t]].server \in {"mapped", "serving"}
                      /\ row'[t] # None => \E x \in At(t)' : conn'[x].server \in {"serving", "deregister"}
    BY DEF NoGhosts
  <2>1. table'[t] # 0 => conn'[table'[t]].server \in {"mapped", "serving"}
    <3>1. CASE t = conn[c].to BY <1>4, <3>1
    <3>2. CASE t # conn[c].to
      <4>1. table[t] # c \/ table[t] = 0 BY <3>2 DEF IInv, TableMatches
      <4>2. QED BY <1>1, <1>4, <1>5, <3>2, <4>1 DEF IInv, NoGhosts
    <3>3. QED BY <3>1, <3>2
  <2>2. ASSUME row'[t] # None PROVE \E x \in At(t)' : conn'[x].server \in {"serving", "deregister"}
    <3>1. PICK x \in At(t) : conn[x].server \in {"serving", "deregister"} BY <1>0, <2>2 DEF IInv, NoGhosts
    <3>2. x \in At(t)' BY <1>1, <3>1 DEF At
    <3>3. conn'[x].server \in {"serving", "deregister"} BY <1>1, <3>1 DEF At
    <3>4. QED BY <3>2, <3>3
  <2>3. QED BY <2>1, <2>2
<1>9. ServerSide' BY <1>6, <1>7, <1>8 DEF ServerSide
<1>10. QED BY <1>0, <1>1, <1>3, <1>9, OldFits, ServerInv

\* The trackers' side of a step that leaves their goroutines, tables, records and processes.
LEMMA SameServers ==
  ASSUME IInv, DOMAIN conn' = DOMAIN conn, UNCHANGED <<up, table, row>>,
         \A x \in DOMAIN conn : /\ conn'[x].to = conn[x].to /\ conn'[x].server = conn[x].server
                                /\ conn[x].net = "down" => conn'[x].net = "down"
  PROVE  ServerSide'
<1>1. LeftBehind' BY DEF IInv, LeftBehind
<1>2. \A t \in Trackers : table[t] # 0 => table[t] \in DOMAIN conn BY OldFits
<1>3. TableMatches' BY <1>2 DEF IInv, TableMatches
<1>4. \A t : At(t)' = At(t) BY DEF At
<1>5. \A t : \A x \in At(t) : conn'[x].server = conn[x].server BY DEF At
<1>6. NoGhosts' BY <1>2, <1>4, <1>5 DEF IInv, NoGhosts
<1>7. QED BY <1>1, <1>3, <1>6 DEF ServerSide


\* The streams of the connection that changes, and of the others.
LEMMA StreamsTurn ==
  ASSUME IInv, NEW c, NEW net, NEW client, NEW server, NEW streams, NEW heartbeat,
         Turns(c, net, client, server, streams, heartbeat),
         \A x \in DOMAIN conn : x # c => conn[x].net = "down" \/ (Preparing(x)' <=> Preparing(x)),
         /\ heartbeat \in {None, "heartbeat"}
         /\ net = "down" => streams = <<>>
         /\ net = "up" /\ Preparing(c)' => streams = <<>> /\ heartbeat = None
         /\ net = "up" /\ heartbeat = None /\ ~Preparing(c)' => streams # <<>> /\ streams[1] = "heartbeat"
         /\ \A i \in DOMAIN streams : streams[i] \in Calls \/ (i = 1 /\ heartbeat = None)
  PROVE  StreamsInOrder'
<1>1. /\ c \in DOMAIN conn /\ DOMAIN conn' = DOMAIN conn
      /\ \A x \in DOMAIN conn : x # c => conn'[x] = conn[x]
      /\ conn'[c].net = net /\ conn'[c].streams = streams /\ conn'[c].heartbeat = heartbeat
  BY TurnsFields
<1> SUFFICES ASSUME NEW x \in DOMAIN conn
             PROVE  /\ conn'[x].heartbeat \in {None, "heartbeat"}
                    /\ conn'[x].net = "down" => conn'[x].streams = <<>>
                    /\ conn'[x].net = "up" /\ Preparing(x)' => conn'[x].streams = <<>> /\ conn'[x].heartbeat = None
                    /\ conn'[x].net = "up" /\ conn'[x].heartbeat = None /\ ~Preparing(x)' =>
                         conn'[x].streams # <<>> /\ conn'[x].streams[1] = "heartbeat"
                    /\ \A i \in DOMAIN conn'[x].streams :
                         conn'[x].streams[i] \in Calls \/ (i = 1 /\ conn'[x].heartbeat = None)
  BY <1>1 DEF StreamsInOrder
<1>2. CASE x = c BY <1>1, <1>2
<1>3. CASE x # c
  <2>1. conn'[x] = conn[x] BY <1>1, <1>3
  <2>2. conn[x].net = "down" \/ (Preparing(x)' <=> Preparing(x)) BY <1>3
  <2>3. QED BY <2>1, <2>2 DEF IInv, StreamsInOrder
<1>4. QED BY <1>2, <1>3

\* Whether the next dial is paid for, after a step that ends no connection.
LEMMA SameDoom ==
  ASSUME IInv, Len(conn') = Len(conn), UNCHANGED <<sup, stop, up, happened>>,
         \A x \in DOMAIN conn : conn'[x].to = conn[x].to /\ conn'[x].net = conn[x].net
  PROVE  EventsPaid'
<1>1. sup.conn # 0 => sup.conn \in DOMAIN conn BY SupConn DEF IInv
<1>2. sup.conn # 0 => (Doomed(sup.conn)' <=> Doomed(sup.conn)) BY <1>1 DEF Doomed
<1>3. QED BY <1>2 DEF IInv, EventsPaid

\* The first stream and the others.
LEMMA TailIs ==
  ASSUME NEW S, NEW s \in Seq(S), s # <<>>
  PROVE  /\ Tail(s) \in Seq(S) /\ Head(s) = s[1] /\ 1 \in DOMAIN s
         /\ \A i \in DOMAIN Tail(s) : Tail(s)[i] = s[i + 1] /\ i + 1 \in DOMAIN s /\ i + 1 # 1
<1>1. Len(s) \in Nat /\ Len(s) # 0 /\ DOMAIN s = 1 .. Len(s) OBVIOUS
<1>2. Tail(s) \in Seq(S) /\ Len(Tail(s)) = Len(s) - 1 /\ Head(s) = s[1] OBVIOUS
<1>3. DOMAIN Tail(s) = 1 .. (Len(s) - 1) BY <1>2
<1>4. \A i \in 1 .. (Len(s) - 1) : Tail(s)[i] = s[i + 1] BY <1>1
<1>5. QED BY <1>1, <1>2, <1>3, <1>4

\* One more stream.
LEMMA AppendIs ==
  ASSUME NEW S, NEW s \in Seq(S), NEW e \in S
  PROVE  /\ Append(s, e) \in Seq(S) /\ Append(s, e) # <<>>
         /\ s = <<>> => Append(s, e)[1] = e /\ DOMAIN Append(s, e) = {1}
         /\ s # <<>> => Append(s, e)[1] = s[1]
         /\ \A i \in DOMAIN Append(s, e) : Append(s, e)[i] = e \/ (i \in DOMAIN s /\ Append(s, e)[i] = s[i])
<1>1. Len(s) \in Nat /\ DOMAIN s = 1 .. Len(s) OBVIOUS
<1>2. Append(s, e) \in Seq(S) /\ Len(Append(s, e)) = Len(s) + 1 OBVIOUS
<1>3. DOMAIN Append(s, e) = 1 .. (Len(s) + 1) BY <1>2
<1>4. Append(s, e)[Len(s) + 1] = e /\ \A i \in 1 .. Len(s) : Append(s, e)[i] = s[i] OBVIOUS
<1>5. s = <<>> <=> Len(s) = 0 OBVIOUS
<1> DEFINE a == Append(s, e)
<1> HIDE DEF a
<1>6. a # <<>> BY <1>1, <1>2 DEF a
<1>7. s = <<>> => a[1] = e /\ DOMAIN a = {1} BY <1>3, <1>4, <1>5 DEF a
<1>8. s # <<>> => a[1] = s[1] BY <1>1, <1>4, <1>5 DEF a
<1>9. \A i \in DOMAIN a : a[i] = e \/ (i \in DOMAIN s /\ a[i] = s[i])
  <2> TAKE i \in DOMAIN a
  <2>1. i = Len(s) + 1 \/ i \in 1 .. Len(s) BY <1>1, <1>3 DEF a
  <2>2. QED BY <1>1, <1>4, <2>1 DEF a
<1>10. QED BY <1>2, <1>6, <1>7, <1>8, <1>9 DEF a

\* What is on the wire of a connection.
LEMMA StreamTypes ==
  ASSUME IInv, NEW c \in DOMAIN conn
  PROVE  /\ conn[c].streams \in Seq(Calls \cup {"heartbeat"}) /\ conn[c].net \in {"up", "down"}
         /\ conn[c].server \in {"accepted", "mapped", "serving", "deregister", "gone"}
         /\ conn[c].heartbeat \in {None, "heartbeat"}
         /\ conn[c].net = "down" => conn[c].streams = <<>>
         /\ conn[c].net = "up" /\ Preparing(c) => conn[c].streams = <<>> /\ conn[c].heartbeat = None
         /\ conn[c].net = "up" /\ conn[c].heartbeat = None /\ ~Preparing(c) =>
              conn[c].streams # <<>> /\ conn[c].streams[1] = "heartbeat"
         /\ \A i \in DOMAIN conn[c].streams :
              conn[c].streams[i] \in Calls \/ (i = 1 /\ conn[c].heartbeat = None)
<1>1. conn[c] \in ConnRecord BY ConnIs DEF IInv
<1>2. QED BY <1>1 DEF ConnRecord, IInv, StreamsInOrder

\* The tracker accepts a stream: the heartbeat's, and after it those of calls.
LEMMA AcceptStreamInv ==
  ASSUME IInv, NEW c \in DOMAIN conn, AcceptStream(c)
  PROVE  IInv'
<1> DEFINE s == conn[c].streams
           rest == Tail(s)
           hb == IF conn[c].heartbeat = None THEN "heartbeat" ELSE conn[c].heartbeat
<1>0. /\ conn[c].net = "up" /\ s # <<>>
      /\ UNCHANGED <<sup, stop, holder, cands, call, up, table, row, happened>>
  BY DEF AcceptStream, clientVars
<1>1. /\ s \in Seq(Calls \cup {"heartbeat"}) /\ conn[c].heartbeat \in {None, "heartbeat"}
      /\ ~Preparing(c)
      /\ conn[c].heartbeat = None => s[1] = "heartbeat"
      /\ \A i \in DOMAIN s : s[i] \in Calls \/ (i = 1 /\ conn[c].heartbeat = None)
  BY <1>0, StreamTypes
<1>2. /\ rest \in Seq(Calls \cup {"heartbeat"}) /\ Head(s) = s[1] /\ 1 \in DOMAIN s
      /\ \A i \in DOMAIN rest : rest[i] = s[i + 1] /\ i + 1 \in DOMAIN s /\ i + 1 # 1
  <2>1. \A S : \A q \in Seq(S) : q # <<>> =>
          /\ Tail(q) \in Seq(S) /\ Head(q) = q[1] /\ 1 \in DOMAIN q
          /\ \A i \in DOMAIN Tail(q) : Tail(q)[i] = q[i + 1] /\ i + 1 \in DOMAIN q /\ i + 1 # 1
    BY TailIs, Zenon
  <2>2. QED BY <1>0, <1>1, <2>1, Zenon
<1>3. hb = "heartbeat" /\ hb \in Calls \cup {None, "heartbeat"} BY <1>1
<1>4. /\ Turns(c, "up", conn[c].client, conn[c].server, rest, hb)
      /\ rpc' = rpc \/ (conn[c].heartbeat # None /\ rpc' = rpc \cup {<<Head(s), c>>})
  <2>0. /\ conn[c].server \in {"accepted", "mapped", "serving", "deregister", "gone"}
        /\ conn[c].heartbeat \in Calls \cup {None, "heartbeat"}
    BY <1>1, StreamTypes
  <2>1. CASE conn[c].heartbeat = None
    <3>1. conn' = [conn EXCEPT ![c] = [conn[c] EXCEPT !.streams = rest, !.heartbeat = Head(s)]] /\ rpc' = rpc
      BY <2>1 DEF AcceptStream
    <3>2. Head(s) = hb BY <1>1, <1>2, <2>1
    <3>3. conn' = [conn EXCEPT ![c] = [conn[c] EXCEPT !.streams = rest, !.heartbeat = hb]] BY <3>1, <3>2, Zenon
    <3> HIDE DEF rest, hb
    <3>4. Turns(c, conn[c].net, conn[c].client, conn[c].server, rest, hb)
      BY <1>2, <1>3, <2>0, <3>3, Changes, Zenon DEF IInv
    <3>5. QED BY <1>0, <3>1, <3>4
  <2>2. CASE conn[c].heartbeat # None
    <3>1. conn' = [conn EXCEPT ![c].streams = rest] /\ rpc' = rpc \cup {<<Head(s), c>>}
      BY <2>2, Zenon DEF AcceptStream
    <3>2. hb = conn[c].heartbeat BY <2>2
    <3> HIDE DEF rest, hb
    <3>3. Turns(c, conn[c].net, conn[c].client, conn[c].server, rest, conn[c].heartbeat)
      BY <1>2, <2>0, <3>1, Changes, Zenon DEF IInv
    <3>4. QED BY <1>0, <2>2, <3>1, <3>2, <3>3
  <2>3. QED BY <2>1, <2>2
<1>5. /\ Len(conn') = Len(conn) /\ DOMAIN conn' = DOMAIN conn
      /\ \A x \in DOMAIN conn : /\ conn'[x].to = conn[x].to /\ conn'[x].server = conn[x].server
                                /\ conn'[x].net = conn[x].net
  <2> HIDE DEF rest, hb
  <2>1. /\ Len(conn') = Len(conn) /\ DOMAIN conn' = DOMAIN conn
        /\ \A x \in DOMAIN conn : x # c => conn'[x] = conn[x]
        /\ conn'[c].to = conn[c].to /\ conn'[c].server = conn[c].server /\ conn'[c].net = "up"
    BY <1>4, TurnsFields
  <2>2. QED BY <1>0, <2>1
<1>6. rpc' \subseteq Calls \X (1 .. Len(conn))
  <2>1. rpc \subseteq Calls \X (1 .. Len(conn)) /\ c \in 1 .. Len(conn) BY OldFits
  <2>2. conn[c].heartbeat # None => Head(s) \in Calls BY <1>1, <1>2
  <2>3. QED BY <1>4, <2>1, <2>2
<1>7. \A i \in DOMAIN rest : rest[i] \in Calls BY <1>1, <1>2
<1>8. StreamsInOrder'
  <2> HIDE DEF rest, hb
  <2>1. \A x : Preparing(x)' <=> Preparing(x) BY <1>0 DEF Preparing
  <2>2. "up" # "down" /\ hb # None BY <1>3, ConnectionsAssumption
  <2>3. QED BY <1>1, <1>3, <1>4, <1>7, <2>1, <2>2, StreamsTurn
<1> HIDE DEF rest, hb
<1>9. Shapes' BY <1>0, <1>4, <1>6, OldFits, TurnShapes
<1>10. RunsTheLast' /\ HolderIsCurrent' BY <1>0, <1>4, TurnClient
<1>11. NoLostWaiter' /\ CallsAfterSetup' BY <1>0, SameCalls
<1>12. ServerSide' BY <1>0, <1>5, SameServers
<1>13. EventsPaid' BY <1>0, <1>5, SameDoom
<1>14. QED BY <1>8, <1>9, <1>10, <1>11, <1>12, <1>13 DEF IInv, ServerSide

\* callUnary opens a stream behind those of the connection.
LEMMA OpenStreamInv ==
  ASSUME IInv, NEW k \in Calls, OpenStream(k)
  PROVE  IInv'
<1> DEFINE c == call[k].conn
           n == Len(conn)
           s == conn[c].streams
           more == Append(s, k)
<1>0. /\ call[k].pc = "open"
      /\ UNCHANGED <<sup, stop, holder, cands, up, table, row, rpc, happened>>
  BY DEF OpenStream, clientVars
<1>1. c # 0 /\ (c = sup.conn => sup.at = "watch") /\ c \in DOMAIN conn
  <2>1. c \in 0 .. n /\ DOMAIN conn = 1 .. n /\ n \in Nat BY ClientTypes DEF IInv
  <2>2. c # 0 /\ (c = sup.conn => sup.at = "watch") BY <1>0 DEF IInv, CallsAfterSetup
  <2>3. QED BY <2>1, <2>2
<1>2. CASE call' = [call EXCEPT ![k] = NoCall] /\ UNCHANGED conn
  <2>1. call' \in [Calls -> CallType(Len(conn))] /\ NoLostWaiter' /\ CallsAfterSetup' BY <1>0, <1>2, CallEnds
  <2>2. QED BY <1>0, <1>2, <2>1, QuietFacts, QuietInv
<1>3. CASE /\ conn' = [conn EXCEPT ![c].streams = IF conn[c].net = "up" THEN Append(@, k) ELSE @]
           /\ call' = [call EXCEPT ![k].pc = "sent"]
  <2>1. call' \in [Calls -> CallType(n)] /\ NoLostWaiter' /\ CallsAfterSetup'
    <3> DEFINE g == [call[k] EXCEPT !.pc = "sent"]
    <3>1. n \in Nat /\ call \in [Calls -> CallType(n)] /\ call[k] \in CallType(n) BY ClientTypes DEF IInv
    <3>2. g \in CallType(n) /\ g.pc = "sent" /\ g.conn = c BY <3>1 DEF CallType
    <3>3. call' = [call EXCEPT ![k] = g] BY <1>3
    <3> HIDE DEF g, c
    <3>4. call' \in [Calls -> CallType(n)] /\ call'[k] = g /\ \A j \in Calls : j # k => call'[j] = call[j]
      BY <3>1, <3>2, <3>3
    <3>5. NoLostWaiter'
      <4>1. {j \in Calls : call[j].pc = "wait"} = {j \in Calls : call'[j].pc = "wait"} BY <1>0, <3>2, <3>4
      <4>2. QED BY <1>0, <4>1 DEF IInv, NoLostWaiter
    <3>6. CallsAfterSetup' BY <1>0, <1>1, <3>2, <3>4 DEF IInv, CallsAfterSetup
    <3>7. QED BY <3>4, <3>5, <3>6
  <2>2. CASE conn[c].net # "up"
    <3>1. conn' = conn
      <4>1. conn' = [conn EXCEPT ![c].streams = @] BY <1>3, <2>2
      <4>2. conn[c] \in ConnRecord /\ conn \in Seq(ConnRecord) BY <1>1, ConnIs DEF IInv, Shapes
      <4>3. [conn[c] EXCEPT !.streams = @] = conn[c] BY <4>2 DEF ConnRecord
      <4>4. QED BY <4>1, <4>2, <4>3
    <3>2. QED BY <1>0, <2>1, <3>1, QuietFacts, QuietInv
  <2>3. CASE conn[c].net = "up"
    <3>1. conn' = [conn EXCEPT ![c].streams = more] BY <1>3, <2>3
    <3>2. /\ s \in Seq(Calls \cup {"heartbeat"}) /\ conn[c].heartbeat \in {None, "heartbeat"}
          /\ conn[c].heartbeat \in Calls \cup {None, "heartbeat"}
          /\ conn[c].server \in {"accepted", "mapped", "serving", "deregister", "gone"}
          /\ conn[c].heartbeat = None /\ ~Preparing(c) => s # <<>> /\ s[1] = "heartbeat"
          /\ \A i \in DOMAIN s : s[i] \in Calls \/ (i = 1 /\ conn[c].heartbeat = None)
      BY <1>1, <2>3, StreamTypes
    <3>3. ~Preparing(c) BY <1>1 DEF Preparing
    <3>4. /\ more \in Seq(Calls \cup {"heartbeat"}) /\ more # <<>>
          /\ s # <<>> => more[1] = s[1]
          /\ \A i \in DOMAIN more : more[i] = k \/ (i \in DOMAIN s /\ more[i] = s[i])
      <4> DEFINE S == Calls \cup {"heartbeat"}
      <4>1. s \in Seq(S) /\ k \in S BY <3>2
      <4> HIDE DEF s, S
      <4>2. /\ Append(s, k) \in Seq(S) /\ Append(s, k) # <<>>
            /\ s # <<>> => Append(s, k)[1] = s[1]
            /\ \A i \in DOMAIN Append(s, k) : Append(s, k)[i] = k \/ (i \in DOMAIN s /\ Append(s, k)[i] = s[i])
        BY <4>1, AppendIs
      <4>3. QED BY <4>2, Zenon DEF S
    <3> HIDE DEF more, s
    <3>5. Turns(c, conn[c].net, conn[c].client, conn[c].server, more, conn[c].heartbeat)
      BY <1>1, <3>1, <3>2, <3>4, Changes, Zenon DEF IInv
    <3> HIDE DEF c
    <3>6. /\ Len(conn') = Len(conn) /\ DOMAIN conn' = DOMAIN conn
          /\ \A x \in DOMAIN conn : /\ conn'[x].to = conn[x].to /\ conn'[x].server = conn[x].server
                                    /\ conn'[x].net = conn[x].net
      <4>1. /\ Len(conn') = Len(conn) /\ DOMAIN conn' = DOMAIN conn
            /\ \A x \in DOMAIN conn : x # c => conn'[x] = conn[x]
            /\ conn'[c].to = conn[c].to /\ conn'[c].server = conn[c].server /\ conn'[c].net = conn[c].net
        BY <3>5, TurnsFields
      <4>2. QED BY <4>1
    <3>7. StreamsInOrder'
      <4>1. \A x : Preparing(x)' <=> Preparing(x) BY <1>0 DEF Preparing
      <4>2. \A i \in DOMAIN more : more[i] \in Calls \/ (i = 1 /\ conn[c].heartbeat = None) BY <3>2, <3>4
      <4>3. QED BY <2>3, <3>2, <3>3, <3>4, <3>5, <4>1, <4>2, StreamsTurn
    <3>8. Shapes' BY <1>0, <2>1, <3>5, OldFits, TurnShapes
    <3>9. RunsTheLast' /\ HolderIsCurrent' BY <1>0, <3>5, TurnClient
    <3>10. ServerSide' BY <1>0, <3>6, SameServers
    <3>11. EventsPaid' BY <1>0, <3>6, SameDoom
    <3>12. QED BY <2>1, <3>7, <3>8, <3>9, <3>10, <3>11 DEF IInv, ServerSide
  <2>4. QED BY <2>2, <2>3
<1>4. QED BY <1>2, <1>3 DEF OpenStream

\* A connection breaks, which is an event.
LEMMA BreakInv ==
  ASSUME IInv, NEW c \in DOMAIN conn, Break(c)
  PROVE  IInv'
<1>0. /\ happened + 1 <= MaxEvents /\ happened' = happened + 1 /\ conn' = [conn EXCEPT ![c] = Ended(conn[c])]
      /\ UNCHANGED <<sup, stop, holder, cands, call, up, table, row, rpc>>
  BY Zenon DEF Break, Event, clientVars
<1>1. /\ conn[c].streams \in Seq(Calls \cup {"heartbeat"}) /\ conn[c].heartbeat \in {None, "heartbeat"}
      /\ conn[c].server \in {"accepted", "mapped", "serving", "deregister", "gone"}
      /\ None \in Calls \cup {None, "heartbeat"}
  BY StreamTypes
<1>2. Turns(c, "down", conn[c].client, conn[c].server, <<>>, conn[c].heartbeat)
  BY <1>0, <1>1, Changes, Zenon DEF IInv
<1>3. /\ Len(conn') = Len(conn) /\ DOMAIN conn' = DOMAIN conn
      /\ \A x \in DOMAIN conn : x # c => conn'[x] = conn[x]
      /\ conn'[c].to = conn[c].to /\ conn'[c].server = conn[c].server /\ conn'[c].net = "down"
  BY <1>2, TurnsFields
<1>4. happened \in 0 .. MaxEvents /\ MaxEvents \in Nat /\ Len(conn) \in Nat BY OldFits, ConnectionsAssumption
<1>5. happened' \in 0 .. MaxEvents BY <1>0, <1>4
<1>6. Shapes' BY <1>0, <1>2, <1>5, OldFits, TurnShapes
<1>7. RunsTheLast' /\ HolderIsCurrent' BY <1>0, <1>2, TurnClient
<1>8. NoLostWaiter' /\ CallsAfterSetup' BY <1>0, SameCalls
<1>9. ServerSide' BY <1>0, <1>3, SameServers
<1>10. EventsPaid' BY <1>0, <1>3, <1>4 DEF IInv, EventsPaid
<1>11. StreamsInOrder'
  <2>1. \A x : Preparing(x)' <=> Preparing(x) BY <1>0 DEF Preparing
  <2>2. \A i \in DOMAIN <<>> : <<>>[i] \in Calls \/ (i = 1 /\ conn[c].heartbeat = None) OBVIOUS
  <2>3. QED BY <1>1, <1>2, <2>1, <2>2, StreamsTurn
<1>12. QED BY <1>6, <1>7, <1>8, <1>9, <1>10, <1>11 DEF IInv, ServerSide

\* The cleanup ends the connection and removes the record, whoever refreshed it.
LEMMA DeregisterInv ==
  ASSUME IInv, NEW c \in DOMAIN conn, Deregister(c)
  PROVE  IInv'
<1>0. /\ conn[c].server = "deregister"
      /\ conn' = [conn EXCEPT ![c] = [Ended(conn[c]) EXCEPT !.server = "gone", !.heartbeat = None]]
      /\ row' = [row EXCEPT ![conn[c].to] = None]
      /\ UNCHANGED <<sup, stop, holder, cands, call, up, table, rpc, happened>>
  BY Zenon DEF Deregister, clientVars
<1>1. /\ conn[c].streams \in Seq(Calls \cup {"heartbeat"}) /\ None \in Calls \cup {None, "heartbeat"}
      /\ conn[c].server \in {"accepted", "mapped", "serving", "deregister", "gone"}
  BY StreamTypes
<1>2. Turns(c, "down", conn[c].client, "gone", <<>>, None) BY <1>0, <1>1, Changes, Zenon DEF IInv
<1>3. /\ Len(conn') = Len(conn) /\ DOMAIN conn' = DOMAIN conn
      /\ \A x \in DOMAIN conn : x # c => conn'[x] = conn[x]
      /\ conn'[c].to = conn[c].to /\ conn'[c].server = "gone" /\ conn'[c].net = "down"
  BY <1>2, TurnsFields
<1>4. /\ row \in [Trackers -> SeederRecord \cup {None}] /\ table \in [Trackers -> 0 .. Len(conn)]
      /\ DOMAIN conn = 1 .. Len(conn) /\ Len(conn) \in Nat
  BY OldFits
<1>5. conn[c].to \in Trackers BY ConnIs DEF IInv
<1>6. /\ row' \in [Trackers -> SeederRecord \cup {None}] /\ row'[conn[c].to] = None
      /\ \A t \in Trackers : t # conn[c].to => row'[t] = row[t]
  BY <1>0, <1>4, <1>5
<1>7. Shapes' BY <1>0, <1>2, <1>6, OldFits, TurnShapes
<1>8. RunsTheLast' /\ HolderIsCurrent' BY <1>0, <1>2, TurnClient
<1>9. NoLostWaiter' /\ CallsAfterSetup' BY <1>0, SameCalls
<1>10. ServerSide'
  <2>1. \A t \in Trackers : table[t] # 0 => table[t] \in DOMAIN conn BY <1>4
  <2>2. LeftBehind' BY <1>0, <1>3 DEF IInv, LeftBehind
  <2>3. TableMatches'
    <3>1. table' = table BY <1>0
    <3>2. \A x \in DOMAIN conn : conn'[x].to = conn[x].to BY <1>3
    <3>3. QED BY <2>1, <3>1, <3>2 DEF IInv, TableMatches
  <2>4. NoGhosts'
    <3> SUFFICES ASSUME NEW t \in Trackers
                 PROVE  /\ table[t] # 0 => conn'[table[t]].server \in {"mapped", "serving"}
                        /\ row'[t] # None => \E x \in At(t)' : conn'[x].server \in {"serving", "deregister"}
      BY <1>0 DEF NoGhosts
    <3>1. table[t] # 0 => conn'[table[t]].server \in {"mapped", "serving"}
      <4>1. table[t] # 0 => conn[table[t]].server \in {"mapped", "serving"} BY DEF IInv, NoGhosts
      <4>2. QED BY <1>0, <1>3, <2>1, <4>1
    <3>2. ASSUME row'[t] # None PROVE \E x \in At(t)' : conn'[x].server \in {"serving", "deregister"}
      <4>1. t # conn[c].to BY <1>6, <3>2
      <4>2. PICK x \in At(t) : conn[x].server \in {"serving", "deregister"}
        BY <1>6, <3>2, <4>1 DEF IInv, NoGhosts
      <4>3. x \in DOMAIN conn /\ conn[x].to = t /\ x # c BY <4>1, <4>2 DEF At
      <4>4. x \in At(t)' /\ conn'[x] = conn[x] BY <1>3, <4>3 DEF At
      <4>5. QED BY <4>2, <4>4
    <3>3. QED BY <3>1, <3>2
  <2>5. QED BY <2>2, <2>3, <2>4 DEF ServerSide
<1>11. EventsPaid'
  <2>1. sup.conn # 0 => sup.conn \in DOMAIN conn BY SupConn DEF IInv
  <2>2. Doomed(c) BY <1>0 DEF IInv, LeftBehind, Doomed
  <2>3. sup.conn # 0 /\ Doomed(sup.conn)' => Doomed(sup.conn) BY <1>0, <1>3, <2>1, <2>2 DEF Doomed
  <2>4. QED BY <1>0, <1>3, <2>3 DEF IInv, EventsPaid
<1>12. StreamsInOrder'
  <2>1. \A x : Preparing(x)' <=> Preparing(x) BY <1>0 DEF Preparing
  <2>2. \A i \in DOMAIN <<>> : <<>>[i] \in Calls \/ (i = 1 /\ None = None) OBVIOUS
  <2>3. QED BY <1>2, <2>1, <2>2, StreamsTurn
<1>13. QED BY <1>7, <1>8, <1>9, <1>10, <1>11, <1>12 DEF IInv, ServerSide

\* The supervisor gives a connection up that has ended or that it ends itself.
LEMMA GivesUp ==
  ASSUME IInv, sup.conn # 0, NEW streams, NEW net,
         Turns(sup.conn, net, "dead", conn[sup.conn].server, streams, conn[sup.conn].heartbeat),
         net = "down", streams = <<>>, stop \/ Doomed(sup.conn),
         sup' \in SupType(Len(conn)), sup'.conn = 0, sup'.at \in {"dial", "closed"},
         holder' \in HolderType(Len(conn)), holder'.current = 0, holder'.waiters = holder.waiters,
         holder'.closed = holder.closed,
         UNCHANGED <<stop, cands, call, up, table, row, rpc, happened>>
  PROVE  IInv'
<1> DEFINE c == sup.conn
<1>1. /\ c \in DOMAIN conn /\ Len(conn') = Len(conn) /\ DOMAIN conn' = DOMAIN conn
      /\ \A x \in DOMAIN conn : x # c => conn'[x] = conn[x]
      /\ conn'[c].to = conn[c].to /\ conn'[c].server = conn[c].server /\ conn'[c].net = "down"
  BY TurnsFields
<1>2. 0 \notin DOMAIN conn BY OldFits
<1>3. Shapes' BY OldFits, TurnShapes
<1>4. RunsTheLast'
  <2>1. \A x \in DOMAIN conn : conn'[x].net = "down" BY <1>1 DEF IInv, RunsTheLast
  <2>2. QED BY <1>1, <2>1 DEF RunsTheLast
<1>5. CallsAfterSetup' /\ NoLostWaiter' BY DEF IInv, CallsAfterSetup, NoLostWaiter
<1>6. HolderIsCurrent' BY DEF HolderIsCurrent
<1>7. EventsPaid' BY <1>1 DEF IInv, EventsPaid
<1>8. ServerSide' BY <1>1, SameServers
<1>9. StreamsInOrder'
  <2>1. \A x \in DOMAIN conn : x # c => conn[x].net = "down" BY DEF IInv, RunsTheLast
  <2>2. conn[c].heartbeat \in {None, "heartbeat"} BY <1>1, StreamTypes
  <2>3. \A i \in DOMAIN <<>> : <<>>[i] \in Calls \/ (i = 1 /\ conn[c].heartbeat = None) OBVIOUS
  <2>4. QED BY <2>1, <2>2, <2>3, StreamsTurn
<1>10. QED BY <1>3, <1>4, <1>5, <1>6, <1>7, <1>8, <1>9 DEF IInv, ServerSide

\* The supervisor's connection ends it, or its own end does.
LEMMA SupTurns ==
  ASSUME IInv, sup.conn # 0, conn' = [conn EXCEPT ![sup.conn] = [Ended(conn[sup.conn]) EXCEPT !.client = "dead"]]
  PROVE  Turns(sup.conn, "down", "dead", conn[sup.conn].server, <<>>, conn[sup.conn].heartbeat)
<1>1. sup.conn \in DOMAIN conn BY SupConn DEF IInv
<1>2. /\ conn[sup.conn].streams \in Seq(Calls \cup {"heartbeat"}) /\ None \in Calls \cup {None, "heartbeat"}
      /\ conn[sup.conn].server \in {"accepted", "mapped", "serving", "deregister", "gone"}
  BY <1>1, StreamTypes
<1>3. QED BY <1>1, <1>2, Changes, Zenon DEF IInv

\* A holder without a connection.
LEMMA HolderCleared ==
  ASSUME NEW n \in Nat, NEW h \in HolderType(n)
  PROVE  LET g == [h EXCEPT !.current = 0]
         IN  g \in HolderType(n) /\ g.current = 0 /\ g.waiters = h.waiters /\ g.closed = h.closed
BY DEF HolderType

\* The supervisor notices that its connection is lost.
LEMMA LostInv ==
  ASSUME IInv, Lost
  PROVE  IInv'
<1>0. /\ sup.at = "watch"
      /\ conn[sup.conn].net # "up" \/ Unanswered(sup.conn)
      /\ conn' = [conn EXCEPT ![sup.conn] = [Ended(conn[sup.conn]) EXCEPT !.client = "dead"]]
      /\ holder' = [holder EXCEPT !.current = 0]
      /\ sup' = [at |-> "dial", conn |-> 0, ep |-> NextIndex]
      /\ UNCHANGED <<stop, cands, call, up, table, row, rpc, happened>>
  BY Zenon DEF Lost
<1>1. sup.conn # 0 BY <1>0 DEF IInv, RunsTheLast
<1>2. sup.conn \in DOMAIN conn BY <1>1, SupConn DEF IInv
<1>3. Turns(sup.conn, "down", "dead", conn[sup.conn].server, <<>>, conn[sup.conn].heartbeat) BY <1>0, <1>1, SupTurns
<1>4. Doomed(sup.conn)
  <2>1. conn[sup.conn].net \in {"up", "down"} /\ conn[sup.conn].heartbeat \in {None, "heartbeat"} BY <1>2, StreamTypes
  <2>2. QED BY <1>0, <2>1 DEF Unanswered, Doomed
<1>5. sup' \in SupType(Len(conn)) /\ sup'.conn = 0 /\ sup'.at = "dial"
  BY <1>0, EndpointTypes, OldFits DEF IInv, SupType
<1>6. /\ holder' \in HolderType(Len(conn)) /\ holder'.current = 0 /\ holder'.waiters = holder.waiters
      /\ holder'.closed = holder.closed
  BY <1>0, OldFits, HolderCleared, Zenon
<1>7. QED BY <1>0, <1>1, <1>3, <1>4, <1>5, <1>6, GivesUp

\* The supervisor ends with its context.
LEMMA ExitInv ==
  ASSUME IInv, Exit
  PROVE  IInv'
<1>0. /\ stop
      /\ conn' = IF sup.conn = 0 THEN conn
                 ELSE [conn EXCEPT ![sup.conn] = [Ended(conn[sup.conn]) EXCEPT !.client = "dead"]]
      /\ holder' = [holder EXCEPT !.current = 0]
      /\ sup' = [at |-> "closed", conn |-> 0, ep |-> 0]
      /\ UNCHANGED <<stop, cands, call, up, table, row, rpc, happened>>
  BY Zenon DEF Exit
<1>1. sup' \in SupType(Len(conn)) /\ sup'.conn = 0 /\ sup'.at = "closed"
  BY <1>0, EndpointTypes, OldFits DEF IInv, SupType
<1>2. /\ holder' \in HolderType(Len(conn)) /\ holder'.current = 0 /\ holder'.waiters = holder.waiters
      /\ holder'.closed = holder.closed
  BY <1>0, OldFits, HolderCleared, Zenon
<1>3. CASE sup.conn # 0
  <2>1. Turns(sup.conn, "down", "dead", conn[sup.conn].server, <<>>, conn[sup.conn].heartbeat) BY <1>0, <1>3, SupTurns
  <2>2. QED BY <1>0, <1>1, <1>2, <1>3, <2>1, GivesUp
<1>4. CASE sup.conn = 0
  <2>0. conn' = conn /\ sup.at # "open" /\ UNCHANGED <<stop, cands, call, up, table, row, rpc, happened>>
    BY <1>0, <1>4 DEF IInv, RunsTheLast
  <2>1. Shapes'
    <3>1. Fits(Len(conn)) BY ShapesFit DEF IInv
    <3>2. Fits(Len(conn))' BY <1>1, <1>2, <2>0, <3>1 DEF Fits
    <3>3. QED BY <2>0, <3>2, ShapesKept DEF IInv, Shapes
  <2>2. ClientSide'
    BY <1>1, <1>2, <1>4, <2>0 DEF IInv, ClientSide, RunsTheLast, CallsAfterSetup, NoLostWaiter, HolderIsCurrent
  <2>3. EventsPaid' BY <1>4, <2>0 DEF IInv, EventsPaid
  <2>4. ServerSide' BY <2>0, SameServers
  <2>5. StreamsInOrder'
    <3>1. \A c : ~Preparing(c) /\ ~Preparing(c)' BY <1>1, <2>0 DEF Preparing
    <3>2. QED BY <2>0, <3>1 DEF IInv, StreamsInOrder
  <2>6. QED BY <2>1, <2>2, <2>3, <2>4, <2>5 DEF IInv, ClientSide, ServerSide
<1>5. QED BY <1>3, <1>4

\* The heartbeat's stream is opened before any call has the connection, or the dial was in vain.
LEMMA OpenHeartbeatStreamInv ==
  ASSUME IInv, OpenHeartbeatStream
  PROVE  IInv'
<1> DEFINE c == sup.conn
           s == conn[c].streams
           first == Append(s, "heartbeat")
<1>0. sup.at = "open" /\ UNCHANGED <<stop, holder, cands, call, up, table, row, rpc, happened>>
  BY DEF OpenHeartbeatStream
<1>1. c # 0 BY <1>0 DEF IInv, RunsTheLast
<1>2. c \in DOMAIN conn BY <1>1, SupConn DEF IInv
<1>3. /\ s \in Seq(Calls \cup {"heartbeat"}) /\ conn[c].net \in {"up", "down"}
      /\ conn[c].server \in {"accepted", "mapped", "serving", "deregister", "gone"}
      /\ conn[c].heartbeat \in {None, "heartbeat"} /\ conn[c].heartbeat \in Calls \cup {None, "heartbeat"}
      /\ conn[c].net = "down" => s = <<>>
      /\ conn[c].net = "up" /\ Preparing(c) => s = <<>> /\ conn[c].heartbeat = None
  BY <1>2, StreamTypes
<1>4. Preparing(c) BY <1>0 DEF Preparing
<1>5. holder.current = 0 BY <1>0 DEF IInv, HolderIsCurrent
<1>6. CASE /\ conn[c].net = "up" /\ conn' = [conn EXCEPT ![c].streams = Append(@, "heartbeat")]
           /\ sup' = [sup EXCEPT !.at = "set"]
  <2>1. s = <<>> /\ conn[c].heartbeat = None BY <1>3, <1>4, <1>6
  <2>2. conn' = [conn EXCEPT ![c].streams = first] BY <1>6
  <2>4. first \in Seq(Calls \cup {"heartbeat"}) /\ first # <<>> /\ first[1] = "heartbeat" /\ DOMAIN first = {1}
    <3> DEFINE S == Calls \cup {"heartbeat"}
    <3>1. <<>> \in Seq(S) /\ "heartbeat" \in S OBVIOUS
    <3>2. first = Append(<<>>, "heartbeat") BY <2>1
    <3> HIDE DEF S, first
    <3>3. /\ Append(<<>>, "heartbeat") \in Seq(S) /\ Append(<<>>, "heartbeat") # <<>>
          /\ Append(<<>>, "heartbeat")[1] = "heartbeat" /\ DOMAIN Append(<<>>, "heartbeat") = {1}
      BY <3>1, AppendIs
    <3>4. QED BY <3>2, <3>3 DEF S
  <2> HIDE DEF first, s
  <2>5. Turns(c, conn[c].net, conn[c].client, conn[c].server, first, conn[c].heartbeat)
    BY <1>2, <1>3, <2>2, <2>4, Changes, Zenon DEF IInv
  <2>6. sup' \in SupType(Len(conn)) /\ sup'.at = "set" /\ sup'.conn = sup.conn BY <1>6, OldFits DEF SupType
  <2>7. /\ Len(conn') = Len(conn) /\ DOMAIN conn' = DOMAIN conn
        /\ \A x \in DOMAIN conn : x # c => conn'[x] = conn[x]
        /\ conn'[c].to = conn[c].to /\ conn'[c].server = conn[c].server /\ conn'[c].net = conn[c].net
        /\ conn'[c].client = conn[c].client
    BY <2>5, TurnsFields
  <2>8. Shapes' BY <1>0, <2>5, <2>6, OldFits, TurnShapes
  <2>9. RunsTheLast' BY <1>0, <1>1, <1>2, <2>6, <2>7 DEF IInv, RunsTheLast
  <2>10. HolderIsCurrent' /\ NoLostWaiter' BY <1>0, <1>5 DEF IInv, HolderIsCurrent, NoLostWaiter
  <2>11. CallsAfterSetup' BY <1>0, <2>6 DEF IInv, CallsAfterSetup
  <2>12. EventsPaid'
    <3>1. Doomed(sup.conn)' <=> Doomed(sup.conn) BY <1>0, <2>6, <2>7 DEF Doomed
    <3>2. QED BY <1>0, <2>6, <2>7, <3>1 DEF IInv, EventsPaid
  <2>13. ServerSide' BY <1>0, <2>7, SameServers
  <2>14. StreamsInOrder'
    <3>1. \A x : x # c => (Preparing(x)' <=> Preparing(x)) BY <2>6 DEF Preparing
    <3>2. ~Preparing(c)' BY <2>6 DEF Preparing
    <3>3. \A i \in DOMAIN first : first[i] \in Calls \/ (i = 1 /\ conn[c].heartbeat = None) BY <2>1, <2>4
    <3>4. QED BY <1>3, <1>6, <2>1, <2>4, <2>5, <3>1, <3>2, <3>3, StreamsTurn
  <2>15. QED BY <2>8, <2>9, <2>10, <2>11, <2>12, <2>13, <2>14 DEF IInv, ServerSide
<1>7. CASE /\ conn[c].net # "up" /\ conn' = [conn EXCEPT ![c].client = "dead"]
           /\ sup' = [sup EXCEPT !.at = "dial", !.conn = 0, !.ep = NextIndex]
  <2>1. conn[c].net = "down" /\ s = <<>> BY <1>3, <1>7
  <2>2. Turns(c, conn[c].net, "dead", conn[c].server, s, conn[c].heartbeat)
    BY <1>2, <1>3, <1>7, Changes, Zenon DEF IInv
  <2>3. Turns(c, "down", "dead", conn[c].server, <<>>, conn[c].heartbeat) BY <2>1, <2>2
  <2>4. sup' \in SupType(Len(conn)) /\ sup'.conn = 0 /\ sup'.at = "dial"
    <3> DEFINE a == [sup EXCEPT !.at = "dial"]
               b == [a EXCEPT !.conn = 0]
    <3>1. sup \in SupType(Len(conn)) /\ Len(conn) \in Nat /\ NextIndex \in 0 .. (EpCycle - 1)
      BY OldFits, EndpointTypes DEF IInv
    <3>2. a = [at |-> "dial", conn |-> sup.conn, ep |-> sup.ep] BY <3>1 DEF SupType
    <3> HIDE DEF a
    <3>3. b = [at |-> "dial", conn |-> 0, ep |-> sup.ep] BY <3>2
    <3> HIDE DEF b
    <3>4. [b EXCEPT !.ep = NextIndex] = [at |-> "dial", conn |-> 0, ep |-> NextIndex] BY <3>3
    <3>5. sup' = [b EXCEPT !.ep = NextIndex] BY <1>7, Zenon DEF a, b
    <3>6. sup' = [at |-> "dial", conn |-> 0, ep |-> NextIndex] BY <3>4, <3>5
    <3>7. QED BY <3>1, <3>6 DEF SupType
  <2>5. Doomed(c) BY <2>1 DEF Doomed
  <2>6. QED BY <1>0, <1>1, <1>5, <2>3, <2>4, <2>5, OldFits, GivesUp
<1>8. QED BY <1>6, <1>7 DEF OpenHeartbeatStream

-----------------------------------------------------------------------------
(* Steps that change more than one connection.                             *)

\* A tracker's process ends and takes its connections, its table and its records with it.
LEMMA ShutdownReturnsInv ==
  ASSUME IInv, NEW t \in Trackers, ShutdownReturns(t)
  PROVE  IInv'
<1> DEFINE n == Len(conn)
           End(c) == [Ended(conn[c]) EXCEPT !.server = "gone", !.heartbeat = None]
           new(c) == IF c \notin At(t) THEN conn[c] ELSE End(c)
<1>0. /\ up[t] = "stopping" /\ up' = [up EXCEPT ![t] = "down"]
      /\ conn' = [c \in DOMAIN conn |-> new(c)]
      /\ table' = [table EXCEPT ![t] = 0] /\ row' = [row EXCEPT ![t] = None]
      /\ rpc' \subseteq rpc
      /\ UNCHANGED <<sup, stop, holder, cands, call, happened>>
  BY DEF ShutdownReturns, clientVars
<1>1. /\ n \in Nat /\ DOMAIN conn = 1 .. n /\ up \in [Trackers -> {"up", "stopping", "down"}]
      /\ table \in [Trackers -> 0 .. n] /\ row \in [Trackers -> SeederRecord \cup {None}]
      /\ rpc \subseteq Calls \X (1 .. n)
  BY OldFits
<1>2. ASSUME NEW c \in DOMAIN conn
      PROVE  /\ End(c) = Rec(conn[c].to, "down", conn[c].client, "gone", <<>>, None)
             /\ End(c) \in ConnRecord /\ conn[c] \in ConnRecord
  <2> DEFINE r == conn[c]
  <2>1. r \in ConnRecord BY ConnIs DEF IInv
  <2>2. /\ r.to \in Trackers /\ r.client \in {"open", "dead"} /\ "gone" \in {"accepted", "mapped", "serving", "deregister", "gone"}
        /\ <<>> \in Seq(Calls \cup {"heartbeat"}) /\ None \in Calls \cup {None, "heartbeat"} /\ "down" \in {"up", "down"}
    BY <2>1 DEF ConnRecord
  <2> HIDE DEF r
  <2>3. [Ended(r) EXCEPT !.server = "gone", !.heartbeat = None] = Rec(r.to, "down", r.client, "gone", <<>>, None)
    BY <2>1, <2>2, Forms, Zenon
  <2>4. Rec(r.to, "down", r.client, "gone", <<>>, None) \in ConnRecord BY <2>2, RecType
  <2>5. End(c) = [Ended(r) EXCEPT !.server = "gone", !.heartbeat = None] BY Zenon DEF r
  <2> HIDE DEF End
  <2>6. QED BY <2>1, <2>3, <2>4, <2>5 DEF r
<1> HIDE DEF End
<1>3. \A c \in DOMAIN conn : new(c) \in ConnRecord BY <1>2
<1>4. conn' \in Seq(ConnRecord) /\ Len(conn') = n /\ DOMAIN conn' = DOMAIN conn
  <2> HIDE DEF new
  <2>1. conn' \in [1 .. n -> ConnRecord] BY <1>0, <1>1, <1>3
  <2> HIDE DEF n
  <2>2. conn' \in Seq(ConnRecord) BY <1>1, <2>1, SeqDef
  <2>3. QED BY <1>1, <2>1, <2>2, LenProperties
<1>5. ASSUME NEW c \in DOMAIN conn
      PROVE  /\ conn[c].to # t => conn'[c] = conn[c]
             /\ conn[c].to = t => /\ conn'[c].net = "down" /\ conn'[c].server = "gone" /\ conn'[c].streams = <<>>
                                  /\ conn'[c].heartbeat = None
             /\ conn'[c].to = conn[c].to /\ conn'[c].client = conn[c].client
  <2>1. conn'[c] = new(c) BY <1>0
  <2>2. c \in At(t) <=> conn[c].to = t BY DEF At
  <2>3. CASE conn[c].to = t
    <3>1. conn'[c] = Rec(conn[c].to, "down", conn[c].client, "gone", <<>>, None) BY <1>2, <2>1, <2>2, <2>3
    <3>2. QED BY <2>3, <3>1 DEF Rec
  <2>4. CASE conn[c].to # t BY <2>1, <2>2, <2>4
  <2>5. QED BY <2>3, <2>4
<1> HIDE DEF new
<1>6. /\ up' \in [Trackers -> {"up", "stopping", "down"}]
      /\ up'[t] = "down" /\ \A x \in Trackers : x # t => up'[x] = up[x]
  BY <1>0, <1>1
<1>7. table' \in [Trackers -> 0 .. n] /\ table'[t] = 0 /\ \A x \in Trackers : x # t => table'[x] = table[x]
  <2> DEFINE S == 0 .. n
  <2>1. table \in [Trackers -> S] /\ 0 \in S BY <1>1
  <2> HIDE DEF S
  <2>2. table' \in [Trackers -> S] /\ table'[t] = 0 /\ \A x \in Trackers : x # t => table'[x] = table[x] BY <1>0, <2>1
  <2>3. QED BY <2>2 DEF S
<1>8. /\ row' \in [Trackers -> SeederRecord \cup {None}] /\ row'[t] = None
      /\ \A x \in Trackers : x # t => row'[x] = row[x]
  BY <1>0, <1>1
<1>9. Shapes'
  <2>1. Fits(Len(conn)) BY ShapesFit DEF IInv
  <2>2. rpc' \subseteq Calls \X (1 .. n) BY <1>0, <1>1
  <2>3. Fits(Len(conn))' BY <1>0, <1>4, <1>6, <1>7, <1>8, <2>1, <2>2 DEF Fits
  <2>4. QED BY <1>4, <2>3, ShapesKept
<1>10. sup.conn # 0 => sup.conn \in DOMAIN conn BY SupConn DEF IInv
<1>11. \A c \in DOMAIN conn : conn[c].net = "down" => conn'[c].net = "down" BY <1>5
<1>12. RunsTheLast' BY <1>0, <1>4, <1>5, <1>10, <1>11 DEF IInv, RunsTheLast
<1>13. HolderIsCurrent'
  <2>1. holder.current # 0 => sup.conn # 0 /\ sup.conn \in DOMAIN conn
    BY <1>10 DEF IInv, HolderIsCurrent, RunsTheLast
  <2>2. QED BY <1>0, <1>5, <2>1 DEF IInv, HolderIsCurrent
<1>14. NoLostWaiter' /\ CallsAfterSetup' BY <1>0, SameCalls
<1>15. EventsPaid'
  <2>1. ASSUME sup.conn # 0 PROVE Doomed(sup.conn)' => Doomed(sup.conn)
    <3>1. sup.conn \in DOMAIN conn /\ conn[sup.conn].to \in Trackers BY <1>10, <2>1, ConnIs DEF IInv
    <3>2. QED BY <1>0, <1>5, <1>6, <3>1 DEF Doomed
  <2>2. QED BY <1>0, <1>4, <2>1 DEF IInv, EventsPaid
<1>16. LeftBehind'
  <2> SUFFICES ASSUME NEW c \in DOMAIN conn
               PROVE  /\ conn'[c].server = "deregister" => conn'[c].net = "down" \/ up'[conn'[c].to] = "stopping"
                      /\ conn'[c].server = "gone" => conn'[c].net = "down"
                      /\ up'[conn'[c].to] = "down" => conn'[c].server = "gone"
    BY <1>4 DEF LeftBehind
  <2>1. conn[c].to \in Trackers BY ConnIs DEF IInv
  <2>2. CASE conn[c].to = t BY <1>5, <2>2
  <2>3. CASE conn[c].to # t BY <1>5, <1>6, <2>1, <2>3 DEF IInv, LeftBehind
  <2>4. QED BY <2>2, <2>3
<1>17. \A x \in Trackers : table[x] # 0 => table[x] \in DOMAIN conn BY <1>1
<1>18. TableMatches' BY <1>5, <1>7, <1>17 DEF IInv, TableMatches
<1>19. NoGhosts'
  <2> SUFFICES ASSUME NEW x \in Trackers
               PROVE  /\ table'[x] # 0 => conn'[table'[x]].server \in {"mapped", "serving"}
                      /\ row'[x] # None => \E c \in At(x)' : conn'[c].server \in {"serving", "deregister"}
    BY DEF NoGhosts
  <2>1. CASE x = t BY <1>7, <1>8, <2>1
  <2>2. CASE x # t
    <3>1. table'[x] = table[x] /\ row'[x] = row[x] BY <1>7, <1>8, <2>2
    <3>2. table[x] # 0 => conn'[table[x]].server \in {"mapped", "serving"}
      BY <1>5, <1>17, <2>2 DEF IInv, NoGhosts, TableMatches
    <3>3. ASSUME row[x] # None PROVE \E c \in At(x)' : conn'[c].server \in {"serving", "deregister"}
      <4>1. PICK c \in At(x) : conn[c].server \in {"serving", "deregister"} BY <3>3 DEF IInv, NoGhosts
      <4>2. c \in DOMAIN conn /\ conn[c].to = x BY <4>1 DEF At
      <4>3. c \in At(x)' /\ conn'[c] = conn[c] BY <1>4, <1>5, <2>2, <4>2 DEF At
      <4>4. QED BY <4>1, <4>3
    <3>4. QED BY <3>1, <3>2, <3>3
  <2>3. QED BY <2>1, <2>2
<1>20. StreamsInOrder'
  <2> SUFFICES ASSUME NEW x \in DOMAIN conn
               PROVE  /\ conn'[x].heartbeat \in {None, "heartbeat"}
                      /\ conn'[x].net = "down" => conn'[x].streams = <<>>
                      /\ conn'[x].net = "up" /\ Preparing(x)' => conn'[x].streams = <<>> /\ conn'[x].heartbeat = None
                      /\ conn'[x].net = "up" /\ conn'[x].heartbeat = None /\ ~Preparing(x)' =>
                           conn'[x].streams # <<>> /\ conn'[x].streams[1] = "heartbeat"
                      /\ \A i \in DOMAIN conn'[x].streams :
                           conn'[x].streams[i] \in Calls \/ (i = 1 /\ conn'[x].heartbeat = None)
    BY <1>4 DEF StreamsInOrder
  <2>1. CASE conn[x].to = t
    <3>1. \A i \in DOMAIN <<>> : <<>>[i] \in Calls OBVIOUS
    <3>2. QED BY <1>5, <2>1, <3>1
  <2>2. CASE conn[x].to # t
    <3>1. conn'[x] = conn[x] /\ (Preparing(x)' <=> Preparing(x)) BY <1>0, <1>5, <2>2 DEF Preparing
    <3>2. QED BY <3>1 DEF IInv, StreamsInOrder
  <2>3. QED BY <2>1, <2>2
<1>21. QED BY <1>9, <1>12, <1>13, <1>14, <1>15, <1>16, <1>18, <1>19, <1>20 DEF IInv

\* A new connection, paid for by what ended the one before it.
LEMMA DialInv ==
  ASSUME IInv, Dial
  PROVE  IInv'
<1> DEFINE n == Len(conn)
           d == Connection(NextEndpoint)
<1>0. /\ sup.at = "dial" /\ ~stop /\ up[NextEndpoint] = "up" /\ conn' = Append(conn, d)
      /\ sup' = [sup EXCEPT !.at = "open", !.conn = n + 1]
      /\ UNCHANGED <<stop, holder, cands, call, up, table, row, rpc, happened>>
  BY DEF Dial
<1>1. /\ n \in Nat /\ DOMAIN conn = 1 .. n /\ conn \in Seq(ConnRecord) /\ sup \in SupType(n)
      /\ table \in [Trackers -> 0 .. n] /\ happened \in Nat
  BY OldFits, ConnectionsAssumption DEF IInv, Shapes
<1>2. d \in ConnRecord
  <2>1. NextEndpoint \in Trackers BY EndpointTypes DEF IInv
  <2>2. d = Rec(NextEndpoint, "up", "open", "accepted", <<>>, None) BY DEF Connection, Rec
  <2>3. <<>> \in Seq(Calls \cup {"heartbeat"}) OBVIOUS
  <2>4. QED BY <2>1, <2>2, <2>3, RecType
<1>3. /\ d.to = NextEndpoint /\ d.net = "up" /\ d.client = "open" /\ d.server = "accepted" /\ d.streams = <<>>
      /\ d.heartbeat = None
  BY DEF Connection
<1> HIDE DEF d
<1>4. /\ conn' \in Seq(ConnRecord) /\ Len(conn') = n + 1 /\ conn'[n + 1] = d
      /\ \A c \in 1 .. n : conn'[c] = conn[c]
  BY <1>0, <1>1, <1>2
<1>5. DOMAIN conn' = 1 .. (n + 1) BY <1>4
<1>6. /\ \A c \in DOMAIN conn : c \in DOMAIN conn' /\ c # n + 1 /\ conn'[c] = conn[c]
      /\ n + 1 \in DOMAIN conn' /\ n + 1 # 0
      /\ \A c \in DOMAIN conn' : c = n + 1 \/ c \in DOMAIN conn
  BY <1>1, <1>4, <1>5
<1>7. sup' \in SupType(n + 1) /\ sup'.at = "open" /\ sup'.conn = n + 1
  <2> DEFINE a == [sup EXCEPT !.at = "open"]
  <2>1. a = [at |-> "open", conn |-> sup.conn, ep |-> sup.ep] /\ sup.ep \in 0 .. (EpCycle - 1) BY <1>1 DEF SupType
  <2> HIDE DEF a
  <2>2. [a EXCEPT !.conn = n + 1] = [at |-> "open", conn |-> n + 1, ep |-> sup.ep] BY <2>1
  <2>3. sup' = [a EXCEPT !.conn = n + 1] BY <1>0, Zenon DEF a
  <2>4. sup' = [at |-> "open", conn |-> n + 1, ep |-> sup.ep] BY <2>2, <2>3
  <2>5. n + 1 \in 0 .. (n + 1) BY <1>1
  <2>6. QED BY <2>1, <2>4, <2>5 DEF SupType
<1>8. sup.conn = 0 /\ holder.current = 0 BY <1>0 DEF IInv, RunsTheLast, HolderIsCurrent
<1>9. Shapes'
  <2>1. Fits(n) BY ShapesFit DEF IInv
  <2>2. n + 1 \in Nat /\ n <= n + 1 BY <1>1
  <2>3. /\ HolderType(n) \subseteq HolderType(n + 1) /\ [Calls -> CallType(n)] \subseteq [Calls -> CallType(n + 1)]
        /\ [Trackers -> 0 .. n] \subseteq [Trackers -> 0 .. (n + 1)]
        /\ Calls \X (1 .. n) \subseteq Calls \X (1 .. (n + 1))
    BY <1>1, <2>2, FitsMore
  <2>4. Fits(Len(conn))' BY <1>0, <1>4, <1>7, <2>1, <2>3 DEF Fits
  <2>5. QED BY <1>4, <2>4, ShapesKept
<1>10. RunsTheLast'
  <2>1. \A c \in DOMAIN conn : conn[c].net = "down" BY <1>1, <1>8 DEF IInv, RunsTheLast
  <2>2. QED BY <1>3, <1>4, <1>6, <1>7, <2>1 DEF RunsTheLast
<1>11. HolderIsCurrent' /\ NoLostWaiter' BY <1>0, <1>8 DEF IInv, HolderIsCurrent, NoLostWaiter
<1>12. CallsAfterSetup'
  <2>1. \A k \in Calls : call[k].conn # n + 1
    <3>1. \A k \in Calls : call[k].conn \in 0 .. n BY ClientTypes DEF IInv
    <3>2. QED BY <1>1, <3>1
  <2>2. QED BY <1>0, <1>7, <2>1 DEF IInv, CallsAfterSetup
<1>13. EventsPaid'
  <2>1. ~Doomed(sup.conn)' BY <1>0, <1>3, <1>4, <1>7 DEF Doomed
  <2>2. n <= happened BY <1>8 DEF IInv, EventsPaid
  <2>3. n + 1 <= happened + 1 BY <1>1, <2>2
  <2>4. QED BY <1>0, <1>4, <1>6, <1>7, <2>1, <2>3 DEF EventsPaid
<1>14. LeftBehind'
  <2> SUFFICES ASSUME NEW c \in DOMAIN conn'
               PROVE  /\ conn'[c].server = "deregister" => conn'[c].net = "down" \/ up[conn'[c].to] = "stopping"
                      /\ conn'[c].server = "gone" => conn'[c].net = "down"
                      /\ up[conn'[c].to] = "down" => conn'[c].server = "gone"
    BY <1>0 DEF LeftBehind
  <2>1. CASE c = n + 1 BY <1>0, <1>3, <1>4, <2>1
  <2>2. CASE c \in DOMAIN conn BY <1>6, <2>2 DEF IInv, LeftBehind
  <2>3. QED BY <1>6, <2>1, <2>2
<1>15. \A t \in Trackers : table[t] # 0 => table[t] \in DOMAIN conn BY <1>1
<1>16. TableMatches' BY <1>0, <1>6, <1>15 DEF IInv, TableMatches
<1>17. NoGhosts'
  <2> SUFFICES ASSUME NEW t \in Trackers
               PROVE  /\ table[t] # 0 => conn'[table[t]].server \in {"mapped", "serving"}
                      /\ row[t] # None => \E c \in At(t)' : conn'[c].server \in {"serving", "deregister"}
    BY <1>0 DEF NoGhosts
  <2>1. table[t] # 0 => conn'[table[t]].server \in {"mapped", "serving"} BY <1>6, <1>15 DEF IInv, NoGhosts
  <2>2. ASSUME row[t] # None PROVE \E c \in At(t)' : conn'[c].server \in {"serving", "deregister"}
    <3>1. PICK c \in At(t) : conn[c].server \in {"serving", "deregister"} BY <2>2 DEF IInv, NoGhosts
    <3>2. c \in DOMAIN conn /\ conn[c].to = t BY <3>1 DEF At
    <3>3. c \in At(t)' /\ conn'[c] = conn[c] BY <1>6, <3>2 DEF At
    <3>4. QED BY <3>1, <3>3
  <2>3. QED BY <2>1, <2>2
<1>18. StreamsInOrder'
  <2> SUFFICES ASSUME NEW x \in DOMAIN conn'
               PROVE  /\ conn'[x].heartbeat \in {None, "heartbeat"}
                      /\ conn'[x].net = "down" => conn'[x].streams = <<>>
                      /\ conn'[x].net = "up" /\ Preparing(x)' => conn'[x].streams = <<>> /\ conn'[x].heartbeat = None
                      /\ conn'[x].net = "up" /\ conn'[x].heartbeat = None /\ ~Preparing(x)' =>
                           conn'[x].streams # <<>> /\ conn'[x].streams[1] = "heartbeat"
                      /\ \A i \in DOMAIN conn'[x].streams :
                           conn'[x].streams[i] \in Calls \/ (i = 1 /\ conn'[x].heartbeat = None)
    BY DEF StreamsInOrder
  <2>1. CASE x = n + 1
    <3>1. \A i \in DOMAIN <<>> : <<>>[i] \in Calls OBVIOUS
    <3>2. Preparing(x)' BY <1>7, <2>1 DEF Preparing
    <3>3. conn'[x] = d BY <1>4, <2>1
    <3>4. QED BY <1>3, <3>1, <3>2, <3>3
  <2>2. CASE x \in DOMAIN conn
    <3>1. conn'[x] = conn[x] /\ (Preparing(x)' <=> Preparing(x)) BY <1>0, <1>6, <1>7, <2>2 DEF Preparing
    <3>2. QED BY <2>2, <3>1 DEF IInv, StreamsInOrder
  <2>3. QED BY <1>6, <2>1, <2>2
<1>19. QED BY <1>9, <1>10, <1>11, <1>12, <1>13, <1>14, <1>16, <1>17, <1>18 DEF IInv

-----------------------------------------------------------------------------
(* The theorem.                                                            *)

\* The invariant holds when the plugin starts.
LEMMA InitInv ==
  ASSUME Init
  PROVE  IInv
<1> USE DEF Init
<1>1. Len(conn) = 0 /\ DOMAIN conn = {} /\ conn \in Seq(ConnRecord) OBVIOUS
<1>2. Shapes
  <2>1. 0 \in 0 .. (EpCycle - 1)
    <3>1. EpCycle \in Nat \ {0} BY EndpointsExist
    <3>2. QED BY <3>1
  <2>2. sup \in SupType(0) BY <2>1 DEF SupType
  <2>3. holder \in HolderType(0) BY DEF HolderType
  <2>4. call \in [Calls -> CallType(0)] BY NoCallIs
  <2>5. table \in [Trackers -> 0 .. 0] OBVIOUS
  <2>6. happened \in 0 .. MaxEvents BY ConnectionsAssumption
  <2>7. Fits(Len(conn)) BY <1>1, <2>2, <2>3, <2>4, <2>5, <2>6 DEF Fits
  <2>8. QED BY <1>1, <2>7, ShapesFit
<1>3. \A k \in Calls : call[k].pc = "idle" BY DEF NoCall
<1>4. RunsTheLast /\ HolderIsCurrent BY <1>1 DEF RunsTheLast, HolderIsCurrent
<1>5. NoLostWaiter /\ CallsAfterSetup BY <1>3 DEF NoLostWaiter, CallsAfterSetup
<1>6. EventsPaid BY <1>1 DEF EventsPaid
<1>7. LeftBehind /\ StreamsInOrder BY <1>1 DEF LeftBehind, StreamsInOrder
<1>8. TableMatches /\ NoGhosts BY DEF TableMatches, NoGhosts
<1>9. QED BY <1>2, <1>4, <1>5, <1>6, <1>7, <1>8 DEF IInv

\* Every step keeps the invariant.
LEMMA NextInv ==
  ASSUME IInv, [Next]_vars
  PROVE  IInv'
<1>1. CASE SupStep
  BY <1>1, DialInv, DialFailsInv, OpenHeartbeatStreamInv, SetInv, LostInv, ExitInv, HolderCloseInv DEF SupStep
<1>2. CASE \E k \in Calls : CallStep(k)
  BY <1>2, GetInv, OpenStreamInv, ReadLostInv, DispatchInv DEF CallStep
<1>3. CASE \E c \in DOMAIN conn : ConnStep(c)
  BY <1>3, MapPeerInv, RegisterInv, AcceptStreamInv, UnmapPeerInv, DeregisterInv DEF ConnStep
<1>4. CASE \E t \in Trackers : ShutdownReturns(t) BY <1>4, ShutdownReturnsInv
<1>5. CASE Environment
  BY <1>5, CloseInv, GoStaleInv, SweepInv, ShutdownInv, RestartInv, BreakInv, HeartbeatInv DEF Environment
<1>6. CASE UNCHANGED vars
  <2>1. UNCHANGED <<sup, stop, holder, cands, conn, call, up, table, row, rpc, happened>>
    BY <1>6 DEF vars, clientVars
  <2>2. NoLostWaiter' /\ CallsAfterSetup' BY <2>1, SameCalls
  <2>3. QED BY <2>1, <2>2, QuietFacts, QuietInv
<1>7. QED BY <1>1, <1>2, <1>3, <1>4, <1>5, <1>6 DEF Next

\* For any trackers, endpoints and calls, and however many faults, stale periods and stops happen:
\* a peer that left leaves no entry and no record behind (serveConn's cleanup), no call's stream is
\* taken for the heartbeat, no waiting call is forgotten (connHolder), no call is given a connection
\* the supervisor has given up, and every dial but the first follows something that ended a
\* connection.
THEOREM ConnectionsAreSafe == Spec => []ConnectionsInv
<1>1. IInv => ConnectionsInv
  <2> HAVE IInv
  <2>1. TypeOK BY DEF IInv, EventsPaid, TypeOK
  <2>2. HeartbeatFirst BY DEF IInv, StreamsInOrder, HeartbeatFirst, Unanswered
  <2>3. QED BY <2>1, <2>2 DEF IInv, ConnectionsInv
<1>2. QED BY <1>1, InitInv, NextInv, PTL DEF Spec
=============================================================================
