----------------------------- MODULE PeerTunnel -----------------------------
(***************************************************************************)
(* The tunnel of one route: the server accepts user connections (server    *)
(* peers), asks the client over the packet stream to dial the target       *)
(* (client peers), and the two relay data until either end stops.          *)
(*                                                                         *)
(*   user <-tcp-> ServerPeerConn <-stream-> ClientPeerConn <-tcp-> target  *)
(*                                                                         *)
(* Every goroutine is a program counter: RunTask of each ServerPeerConn    *)
(* (s_pc), ConnectToPeer and then RunTask of each ClientPeerConn (c_pc),   *)
(* RunTask of the ServerRoute and of the ClientRoute.  The receivers of    *)
(* the two ends handle the packets at the heads of s2c and c2s.            *)
(* A chunk of data is the number of its position in what its sender wrote. *)
(* Peer ids are not reused: the id counter wraps only after 2^32 peers.    *)
(***************************************************************************)
EXTENDS Naturals, Sequences, FiniteSets

CONSTANTS
  Peers,        \* ids the server may assign to user connections
  MaxChunks,    \* bound: chunks each user and each target may write
  PtcLimit,     \* client ptc_limit; 0 is no limit
  PtsLimit,     \* server pts_limit; 0 is no limit
  RouteMax,     \* r.pts_limit, the size of the table of one route
  Events        \* bound: which events from outside the instance includes

ASSUME PeersAssumption == 0 \notin Peers
ASSUME EventsAssumption ==
  Events \subseteq {"reject", "accept_fail", "dial_fail", "user_close", "target_close", "break",
                    "server_peer", "server_route", "client_peer", "client_route"}
ASSUME BoundsAssumption ==
  MaxChunks \in Nat /\ PtcLimit \in Nat /\ PtsLimit \in Nat /\ RouteMax \in Nat

VARIABLES
  s_pc,         \* where RunTask of each ServerPeerConn is
  s_rd,         \* how many chunks it has read from its user
  s_conn,       \* its connection to the user
  s_stop_req,   \* peers with stop_req set
  s_stop_chan,  \* peers with a stop waiting in stop_chan
  s_started,    \* peers with client_peer_started set
  s_status,     \* client_peer_status_chan: "started" is true, "stopped" is false
  s_denied,     \* users from outside the permitted network
  pts_map,      \* ids in the server route's pts_map
  s_peers,      \* the server's stats.peers
  sroute,       \* ServerRoute, with the pc of its RunTask
  c_pc,         \* where ConnectToPeer or RunTask of each ClientPeerConn is
  c_rd,         \* how many chunks it has read from its target
  c_conn,       \* its connection to the target
  c_stop_req,   \* peers with stop_req set
  c_eof,        \* peers with pts_eof set
  ptc_map,      \* ids in the client route's ptc_map
  c_peers,      \* the client's stats.peers
  croute,       \* ClientRoute, with the pc of its RunTask
  u_sent, u_fin, u_rcv,   \* users: chunks written, who has closed, chunks received
  t_sent, t_fin, t_rcv,   \* the same of the targets
  s2c, c2s,     \* the packet stream, one FIFO per direction
  link          \* whether the packet stream is up

s_task == <<s_pc, s_rd>>
s_ctl == <<s_conn, s_stop_req, s_stop_chan, s_started, s_status>>
s_table == <<s_denied, pts_map, s_peers>>
server == <<s_task, s_ctl, s_table, sroute>>
c_task == <<c_pc, c_rd>>
c_ctl == <<c_conn, c_stop_req>>
c_table == <<ptc_map, c_peers>>
client == <<c_task, c_ctl, c_eof, c_table, croute>>
user == <<u_sent, u_fin, u_rcv>>
target == <<t_sent, t_fin, t_rcv>>
stream == <<s2c, c2s, link>>
vars == <<server, client, user, target, stream>>

SPcs == {"none", "accepted", "start", "wait_started", "read", "wait_stopped",
         "done", "cleanup", "gone"}
CPcs == {"none", "dial", "send_started", "abort", "run", "end", "cleanup", "gone"}
RouteKinds == {"ROUTE_STOP", "ROUTE_STOPPED"}
PeerKinds == {"PEER_STARTED", "PEER_ABORTED", "PEER_STOPPED", "PEER_EOF", "PEER_DATA"}
Packet == [kind : RouteKinds, peer : {0}, n : {0}] \cup [kind : PeerKinds, peer : Peers, n : Nat]

Pkt(k, p) == [kind |-> k, peer |-> p, n |-> 0]
DataPkt(p, i) == [kind |-> "PEER_DATA", peer |-> p, n |-> i]

\* NewServerPeerConn of every id, to be accepted.
ServerPeersInit ==
  /\ s_pc = [p \in Peers |-> "none"]
  /\ s_rd = [p \in Peers |-> 0]
  /\ s_conn = [p \in Peers |-> "open"]
  /\ s_stop_req = {} /\ s_stop_chan = {} /\ s_started = {}
  /\ s_status = [p \in Peers |-> <<>>]
  /\ s_denied = {} /\ pts_map = {} /\ s_peers = 0

\* NewClientPeerConn of every id, to be dialled.
ClientPeersInit ==
  /\ c_pc = [p \in Peers |-> "none"]
  /\ c_rd = [p \in Peers |-> 0]
  /\ c_conn = [p \in Peers |-> "none"]
  /\ c_stop_req = {} /\ c_eof = {}
  /\ ptc_map = {} /\ c_peers = 0

Init ==
  /\ ServerPeersInit
  /\ sroute = [pc |-> "accept", stop_req |-> FALSE, listening |-> TRUE, in_map |-> TRUE]
  /\ ClientPeersInit
  /\ croute = [pc |-> "wait", stop_req |-> FALSE, in_map |-> TRUE]
  /\ u_sent = [p \in Peers |-> 0] /\ u_fin = {} /\ u_rcv = [p \in Peers |-> <<>>]
  /\ t_sent = [p \in Peers |-> 0] /\ t_fin = {} /\ t_rcv = [p \in Peers |-> <<>>]
  /\ s2c = <<>>
  /\ c2s = <<>>
  /\ link = "up"

-----------------------------------------------------------------------------
(* The packet stream.  Send on a broken stream either fails or, before the *)
(* transport has noticed, succeeds with the packet lost.                   *)

ServerSends(m) == s2c' = (IF link = "up" THEN Append(s2c, m) ELSE s2c) /\ UNCHANGED <<c2s, link>>
ClientSends(m) == c2s' = (IF link = "up" THEN Append(c2s, m) ELSE c2s) /\ UNCHANGED <<s2c, link>>
SendFails == link = "down" /\ UNCHANGED stream

\* The stream breaks: what is in flight is lost.
BreakLink ==
  /\ "break" \in Events
  /\ link = "up"
  /\ link' = "down"
  /\ s2c' = <<>>
  /\ c2s' = <<>>
  /\ UNCHANGED <<server, client, user, target>>

-----------------------------------------------------------------------------
(* Server side.                                                            *)

\* Mutant of StopServerPeers: the user's connection is left open.
StopServerPeersKeepOpen(ps) ==
  LET new == ps \ s_stop_req IN
  /\ s_stop_req' = s_stop_req \cup new
  /\ s_stop_chan' = s_stop_chan \cup new
  /\ s_started' = s_started \cup new
  /\ s_status' = [p \in Peers |->
       IF p \in new THEN Append(s_status[p], "stopped") ELSE s_status[p]]
  /\ UNCHANGED s_conn

\* ServerPeerConn.ReqStop of each peer of ps that was not stopped before.
\* client_peer_stopped is set nowhere else, so its compare-and-swap succeeds.
StopServerPeers(ps) ==
  LET new == ps \ s_stop_req IN
  /\ s_stop_req' = s_stop_req \cup new
  /\ s_stop_chan' = s_stop_chan \cup new
  /\ s_started' = s_started \cup new
  /\ s_status' = [p \in Peers |->
       IF p \notin new THEN s_status[p]
       ELSE IF p \in s_started THEN Append(s_status[p], "stopped")
       ELSE Append(Append(s_status[p], "stopped"), "stopped")]
  /\ s_conn' = [p \in Peers |-> IF p \in new THEN "closed" ELSE s_conn[p]]

\* ServerRoute.ReqStop: the peers in the table, then the listener.
ServerRouteReqStop ==
  StopServerPeers(IF sroute.stop_req THEN {} ELSE pts_map)

\* Mutant of BelowPtsLimit: off by one.
UpToPtsLimit == PtsLimit = 0 \/ s_peers <= PtsLimit

\* The accept loop's test of pts_limit.
BelowPtsLimit == PtsLimit = 0 \/ s_peers < PtsLimit

\* ServerRoute.RunTask, AcceptTCP: a connection from a network that is not
\* permitted, or past pts_limit, is closed and processed further all the same.
AcceptTCP(p, permitted) ==
  /\ sroute.pc = "accept"
  /\ sroute.listening
  /\ s_pc[p] = "none"
  /\ permitted \/ "reject" \in Events
  /\ s_pc' = [s_pc EXCEPT ![p] = "accepted"]
  /\ s_denied' = IF permitted THEN s_denied ELSE s_denied \cup {p}
  /\ s_conn' = [s_conn EXCEPT ![p] = IF permitted /\ BelowPtsLimit THEN "open" ELSE "closed"]
  /\ sroute' = [sroute EXCEPT !.pc = "add"]
  /\ UNCHANGED <<s_rd, s_stop_req, s_stop_chan, s_started, s_status, pts_map, s_peers,
                 client, user, target, stream>>

AddNewServerPeerConn(p) ==
  /\ sroute.pc = "add"
  /\ s_pc[p] = "accepted"
  /\ sroute' = [sroute EXCEPT !.pc = "accept"]
  /\ IF Cardinality(pts_map) >= RouteMax
     THEN /\ s_pc' = [s_pc EXCEPT ![p] = "gone"]
          /\ s_conn' = [s_conn EXCEPT ![p] = "closed"]
          /\ UNCHANGED <<pts_map, s_peers>>
     ELSE /\ s_pc' = [s_pc EXCEPT ![p] = "start"]
          /\ pts_map' = pts_map \cup {p}
          /\ s_peers' = s_peers + 1
          /\ UNCHANGED s_conn
  /\ UNCHANGED <<s_rd, s_stop_req, s_stop_chan, s_started, s_status, s_denied,
                 client, user, target, stream>>

\* The accept loop ends when the listener is closed or fails.
AcceptFails ==
  /\ sroute.pc = "accept"
  /\ ~sroute.listening \/ "accept_fail" \in Events
  /\ ServerRouteReqStop
  /\ sroute' = [sroute EXCEPT !.pc = "wait", !.stop_req = TRUE, !.listening = FALSE]
  /\ UNCHANGED <<s_task, s_table, client, user, target, stream>>

\* pts_wg.Wait and RemoveServerRoute.
ServerRouteEnds ==
  /\ sroute.pc = "wait"
  /\ \A p \in Peers : s_pc[p] \in {"none", "gone"}
  /\ sroute' = [sroute EXCEPT !.pc = "gone", !.in_map = FALSE]
  /\ UNCHANGED <<s_task, s_ctl, s_table, client, user, target, stream>>

\* A stop of the route from the control API, or of its whole connection
\* (ServerConn.ReqStop) once the server notices that the stream is gone.
ServerStopsRoute ==
  /\ link = "down" \/ "server_route" \in Events
  /\ sroute.in_map
  /\ ~sroute.stop_req
  /\ ServerRouteReqStop
  /\ sroute' = [sroute EXCEPT !.stop_req = TRUE, !.listening = FALSE]
  /\ UNCHANGED <<s_task, s_table, client, user, target, stream>>

ServerConnDown == link = "down" /\ ServerStopsRoute

\* A stop of one peer from the control API.
ServerStopsPeer(p) ==
  /\ "server_peer" \in Events
  /\ p \in pts_map \ s_stop_req
  /\ StopServerPeers({p})
  /\ UNCHANGED <<s_task, s_table, sroute, client, user, target, stream>>

(* ServerPeerConn.RunTask of peer p.                                       *)

ServerPeerAt(p, from, to) == s_pc[p] = from /\ s_pc' = [s_pc EXCEPT ![p] = to]

\* Mutant of SendPeerStarted: no wait_for_started.
SendPeerStartedAndRead(p) ==
  /\ \/ ServerPeerAt(p, "start", "read") /\ ServerSends(Pkt("PEER_STARTED", p))
     \/ ServerPeerAt(p, "start", "cleanup") /\ SendFails
  /\ UNCHANGED <<s_rd, s_ctl, s_table, sroute, client, user, target>>

SendPeerStarted(p) ==
  /\ \/ ServerPeerAt(p, "start", "wait_started") /\ ServerSends(Pkt("PEER_STARTED", p))
     \/ ServerPeerAt(p, "start", "cleanup") /\ SendFails
  /\ UNCHANGED <<s_rd, s_ctl, s_table, sroute, client, user, target>>

\* wait_for_started: a status from the client, the 5s timeout, or a stop.
StatusReceived(p) ==
  /\ s_status[p] # <<>>
  /\ ServerPeerAt(p, "wait_started", IF Head(s_status[p]) = "started" THEN "read" ELSE "done")
  /\ s_status' = [s_status EXCEPT ![p] = Tail(@)]
  /\ UNCHANGED <<s_rd, s_conn, s_stop_req, s_stop_chan, s_started, s_table, sroute,
                 client, user, target, stream>>

WaitTimesOut(p) ==
  /\ ServerPeerAt(p, "wait_started", "done")
  /\ UNCHANGED <<s_rd, s_ctl, s_table, sroute, client, user, target, stream>>

StopReceived(p) ==
  /\ p \in s_stop_chan
  /\ ServerPeerAt(p, "wait_started", "done") \/ ServerPeerAt(p, "wait_stopped", "done")
  /\ s_stop_chan' = s_stop_chan \ {p}
  /\ UNCHANGED <<s_rd, s_conn, s_stop_req, s_started, s_status, s_table, sroute,
                 client, user, target, stream>>

\* The read loop: the next chunk of the user ...
ReadUser(p) ==
  /\ s_conn[p] = "open"
  /\ s_rd[p] < u_sent[p]
  /\ s_rd' = [s_rd EXCEPT ![p] = @ + 1]
  /\ \/ ServerPeerAt(p, "read", "read") /\ ServerSends(DataPkt(p, s_rd[p] + 1))
     \/ ServerPeerAt(p, "read", "done") /\ SendFails
  /\ UNCHANGED <<s_ctl, s_table, sroute, client, user, target>>

\* Mutant of ReadUserEof: the end is reported before the last data.
ReadUserEofEarly(p) ==
  /\ s_conn[p] = "closed" \/ p \in u_fin
  /\ \/ ServerPeerAt(p, "read", "wait_stopped") /\ ServerSends(Pkt("PEER_EOF", p))
     \/ ServerPeerAt(p, "read", "done") /\ SendFails
  /\ UNCHANGED <<s_rd, s_ctl, s_table, sroute, client, user, target>>

\* ... the end of its data, or the connection closed by ReqStop ...
ReadUserEof(p) ==
  /\ s_conn[p] = "closed" \/ (p \in u_fin /\ s_rd[p] = u_sent[p])
  /\ \/ ServerPeerAt(p, "read", "wait_stopped") /\ ServerSends(Pkt("PEER_EOF", p))
     \/ ServerPeerAt(p, "read", "done") /\ SendFails
  /\ UNCHANGED <<s_rd, s_ctl, s_table, sroute, client, user, target>>

\* ... or a failure, when the user has reset the connection.
ReadUserFails(p) ==
  /\ p \in u_fin
  /\ s_conn[p] = "open"
  /\ ServerPeerAt(p, "read", "done")
  /\ UNCHANGED <<s_rd, s_ctl, s_table, sroute, client, user, target, stream>>

\* wait_for_stopped: any status ends it.  It has no timeout.
StoppedReceived(p) ==
  /\ s_status[p] # <<>>
  /\ ServerPeerAt(p, "wait_stopped", "done")
  /\ s_status' = [s_status EXCEPT ![p] = Tail(@)]
  /\ UNCHANGED <<s_rd, s_conn, s_stop_req, s_stop_chan, s_started, s_table, sroute,
                 client, user, target, stream>>

SendPeerStopped(p) ==
  /\ ServerPeerAt(p, "done", "cleanup")
  /\ ServerSends(Pkt("PEER_STOPPED", p))
  /\ UNCHANGED <<s_rd, s_ctl, s_table, sroute, client, user, target>>

\* Mutant of RemoveServerPeerConn: stats.peers is not decremented.
RemoveUncounted(p) == pts_map' = pts_map \ {p} /\ UNCHANGED s_peers

RemoveServerPeerConn(p) ==
  /\ pts_map' = pts_map \ {p}
  /\ s_peers' = s_peers - 1

\* ReqStop and RemoveServerPeerConn.
ServerPeerEnds(p) ==
  /\ ServerPeerAt(p, "cleanup", "gone")
  /\ StopServerPeers({p})
  /\ RemoveServerPeerConn(p)
  /\ UNCHANGED <<s_rd, s_denied, sroute, client, user, target, stream>>

(* receive_from_stream: the packet at the head of c2s.                     *)

ServerTakes(k, p) ==
  c2s # <<>> /\ Head(c2s).kind = k /\ Head(c2s).peer = p /\ c2s' = Tail(c2s)

\* A packet for a peer that is not in the table is only logged.
KnownToServer(p) == sroute.in_map /\ p \in pts_map

\* ServerPeerConn.ReportPacket(PEER_STARTED).
ReportPeerStarted(p) ==
  /\ ServerTakes("PEER_STARTED", p)
  /\ IF KnownToServer(p) /\ p \notin s_started
     THEN /\ s_started' = s_started \cup {p}
          /\ s_status' = [s_status EXCEPT ![p] = Append(@, "started")]
     ELSE UNCHANGED <<s_started, s_status>>
  /\ UNCHANGED <<s_task, s_conn, s_stop_req, s_stop_chan, s_table, sroute,
                 client, user, target, s2c, link>>

\* Mutant of ReportPeerStopped: PEER_STOPPED is ignored.
ReportPeerAborted(p) ==
  /\ ServerTakes("PEER_ABORTED", p) \/ ServerTakes("PEER_STOPPED", p)
  /\ StopServerPeers(IF KnownToServer(p) /\ Head(c2s).kind = "PEER_ABORTED" THEN {p} ELSE {})
  /\ UNCHANGED <<s_task, s_table, sroute, client, user, target, s2c, link>>

\* ReportPacket(PEER_ABORTED) and ReportPacket(PEER_STOPPED).
ReportPeerStopped(p) ==
  /\ ServerTakes("PEER_ABORTED", p) \/ ServerTakes("PEER_STOPPED", p)
  /\ StopServerPeers(IF KnownToServer(p) THEN {p} ELSE {})
  /\ UNCHANGED <<s_task, s_table, sroute, client, user, target, s2c, link>>

\* Mutant of ReportPeerData: a failed write is ignored.
ReportPeerDataLossy(p) ==
  /\ ServerTakes("PEER_DATA", p)
  /\ \/ /\ KnownToServer(p)
        /\ s_conn[p] = "open"
        /\ u_rcv' = [u_rcv EXCEPT ![p] = Append(@, Head(c2s).n)]
     \/ /\ KnownToServer(p) => s_conn[p] = "closed" \/ p \in u_fin
        /\ UNCHANGED u_rcv
  /\ UNCHANGED <<server, client, u_sent, u_fin, target, s2c, link>>

\* ReportPacket(PEER_DATA): written to the user unless the connection is
\* closed or the user is gone.  The client sends no PEER_EOF.
ReportPeerData(p) ==
  /\ ServerTakes("PEER_DATA", p)
  /\ \/ /\ ~KnownToServer(p)
        /\ UNCHANGED <<s_ctl, u_rcv>>
     \/ /\ KnownToServer(p)
        /\ s_conn[p] = "open"
        /\ u_rcv' = [u_rcv EXCEPT ![p] = Append(@, Head(c2s).n)]
        /\ UNCHANGED s_ctl
     \/ /\ KnownToServer(p)
        /\ s_conn[p] = "closed" \/ p \in u_fin
        /\ StopServerPeers({p})
        /\ UNCHANGED u_rcv
  /\ UNCHANGED <<s_task, s_table, sroute, client, u_sent, u_fin, target, s2c, link>>

\* ROUTE_STOP: RemoveServerRouteById, then ROUTE_STOPPED to the client.
RouteStopRequested ==
  /\ ServerTakes("ROUTE_STOP", 0)
  /\ IF sroute.in_map
     THEN /\ ServerRouteReqStop
          /\ sroute' = [sroute EXCEPT !.in_map = FALSE, !.stop_req = TRUE, !.listening = FALSE]
          /\ s2c' = Append(s2c, Pkt("ROUTE_STOPPED", 0))
     ELSE UNCHANGED <<s_ctl, sroute, s2c>>
  /\ UNCHANGED <<s_task, s_table, client, user, target, link>>

-----------------------------------------------------------------------------
(* Client side.                                                            *)

\* Mutant of StopClientPeers: the target's connection is left open.
StopClientPeersKeepOpen(ps) == c_stop_req' = c_stop_req \cup ps /\ UNCHANGED c_conn

\* ClientPeerConn.ReqStop of each peer of ps.
StopClientPeers(ps) ==
  LET new == ps \ c_stop_req IN
  /\ c_stop_req' = c_stop_req \cup new
  /\ c_conn' = [p \in Peers |-> IF p \in new THEN "closed" ELSE c_conn[p]]

\* ClientRoute.ReqStop stops the peers in the table.
ClientRouteReqStop ==
  /\ StopClientPeers(IF croute.stop_req THEN {} ELSE ptc_map)
  /\ croute' = [croute EXCEPT !.stop_req = TRUE]

(* dispatch_packet: the packet at the head of s2c.  Packets for a route    *)
(* that is no longer in route_map are only logged.                         *)

ClientTakes(k, p) ==
  s2c # <<>> /\ Head(s2c).kind = k /\ Head(s2c).peer = p /\ s2c' = Tail(s2c)
KnownToClient(p) == croute.in_map /\ p \in ptc_map

\* ReportPacket(PEER_STARTED): refuse at the limit, else go ConnectToPeer.
BelowPtcLimit == PtcLimit = 0 \/ c_peers < PtcLimit

ConnectRequested(p) ==
  /\ ClientTakes("PEER_STARTED", p)
  /\ \/ /\ ~croute.in_map
        /\ UNCHANGED <<c_pc, c2s>>
     \/ /\ croute.in_map
        /\ ~BelowPtcLimit
        /\ c2s' = Append(c2s, Pkt("PEER_ABORTED", p))
        /\ UNCHANGED c_pc
     \/ /\ croute.in_map
        /\ BelowPtcLimit
        /\ c_pc' = [c_pc EXCEPT ![p] = "dial"]
        /\ UNCHANGED c2s
  /\ UNCHANGED <<server, c_rd, c_ctl, c_eof, c_table, croute, user, target, link>>

\* ReportPacket(PEER_STOPPED): a peer that is still being dialled is not in
\* the table, and the packet is ignored.
DisconnectRequested(p) ==
  /\ ClientTakes("PEER_STOPPED", p)
  /\ StopClientPeers(IF KnownToClient(p) THEN {p} ELSE {})
  /\ UNCHANGED <<server, c_task, c_eof, c_table, croute, user, target, c2s, link>>

\* ReportPacket(PEER_EOF): CloseWrite.
CloseWriteRequested(p) ==
  /\ ClientTakes("PEER_EOF", p)
  /\ c_eof' = IF KnownToClient(p) THEN c_eof \cup {p} ELSE c_eof
  /\ UNCHANGED <<server, c_task, c_ctl, c_table, croute, user, target, c2s, link>>

\* ReportPacket(PEER_DATA): written to the target unless the connection is
\* closed or the target is gone.
WriteTarget(p) ==
  /\ ClientTakes("PEER_DATA", p)
  /\ \/ /\ ~KnownToClient(p)
        /\ UNCHANGED <<c_ctl, t_rcv>>
     \/ /\ KnownToClient(p)
        /\ c_conn[p] = "open"
        /\ t_rcv' = [t_rcv EXCEPT ![p] = Append(@, Head(s2c).n)]
        /\ UNCHANGED c_ctl
     \/ /\ KnownToClient(p)
        /\ c_conn[p] = "closed" \/ p \in t_fin
        /\ StopClientPeers({p})
        /\ UNCHANGED t_rcv
  /\ UNCHANGED <<server, c_task, c_eof, c_table, croute, user, t_sent, t_fin, c2s, link>>

\* ReportPacket(ROUTE_STOPPED).
RouteStoppedReceived ==
  /\ ClientTakes("ROUTE_STOPPED", 0)
  /\ IF croute.in_map THEN ClientRouteReqStop ELSE UNCHANGED <<c_ctl, croute>>
  /\ UNCHANGED <<server, c_task, c_eof, c_table, user, target, c2s, link>>

(* ConnectToPeer and then ClientPeerConn.RunTask of peer p.                *)

ClientPeerAt(p, from, to) == c_pc[p] = from /\ c_pc' = [c_pc EXCEPT ![p] = to]

\* DialContext succeeds, and AddNewClientPeerConn.
DialSucceeds(p) ==
  /\ ClientPeerAt(p, "dial", "send_started")
  /\ c_conn' = [c_conn EXCEPT ![p] = "open"]
  /\ ptc_map' = ptc_map \cup {p}
  /\ c_peers' = c_peers + 1
  /\ UNCHANGED <<server, c_rd, c_stop_req, c_eof, croute, user, target, stream>>

\* DialContext fails or times out.
DialFails(p) ==
  /\ "dial_fail" \in Events
  /\ ClientPeerAt(p, "dial", "abort")
  /\ UNCHANGED <<server, c_rd, c_ctl, c_eof, c_table, croute, user, target, stream>>

ConfirmPeerStarted(p) ==
  /\ \/ ClientPeerAt(p, "send_started", "run") /\ ClientSends(Pkt("PEER_STARTED", p))
     \/ ClientPeerAt(p, "send_started", "abort") /\ SendFails
  /\ UNCHANGED <<server, c_rd, c_ctl, c_eof, c_table, croute, user, target>>

\* Mutant of AbortPeer: a peer that was never counted is discounted.
AbortPeerDiscounts(p) ==
  /\ ClientPeerAt(p, "abort", "gone")
  /\ ClientSends(Pkt("PEER_ABORTED", p))
  /\ c_peers' = c_peers - 1
  /\ UNCHANGED <<server, c_rd, c_ctl, c_eof, ptc_map, croute, user, target>>

\* peer_aborted: the peer, if it was added, stays in ptc_map.
AbortPeer(p) ==
  /\ ClientPeerAt(p, "abort", "gone")
  /\ ClientSends(Pkt("PEER_ABORTED", p))
  /\ c_conn' = [c_conn EXCEPT ![p] = IF @ = "none" THEN "none" ELSE "closed"]
  /\ UNCHANGED <<server, c_rd, c_stop_req, c_eof, c_table, croute, user, target>>

ReadTarget(p) ==
  /\ c_conn[p] = "open"
  /\ c_rd[p] < t_sent[p]
  /\ c_rd' = [c_rd EXCEPT ![p] = @ + 1]
  /\ \/ ClientPeerAt(p, "run", "run") /\ ClientSends(DataPkt(p, c_rd[p] + 1))
     \/ ClientPeerAt(p, "run", "end") /\ SendFails
  /\ UNCHANGED <<server, c_ctl, c_eof, c_table, croute, user, target>>

\* The target has closed or reset its connection, or ReqStop has closed it.
ReadTargetEnds(p) ==
  /\ c_conn[p] = "closed" \/ p \in t_fin
  /\ ClientPeerAt(p, "run", "end")
  /\ UNCHANGED <<server, c_rd, c_ctl, c_eof, c_table, croute, user, target, stream>>

ReportStopped(p) ==
  /\ ClientPeerAt(p, "end", "cleanup")
  /\ ClientSends(Pkt("PEER_STOPPED", p))
  /\ UNCHANGED <<server, c_rd, c_ctl, c_eof, c_table, croute, user, target>>

RemoveClientPeerConn(p) ==
  /\ ptc_map' = ptc_map \ {p}
  /\ c_peers' = IF p \in ptc_map THEN c_peers - 1 ELSE c_peers

\* ReqStop and RemoveClientPeerConn.
ClientPeerEnds(p) ==
  /\ ClientPeerAt(p, "cleanup", "gone")
  /\ StopClientPeers({p})
  /\ RemoveClientPeerConn(p)
  /\ UNCHANGED <<server, c_rd, c_eof, croute, user, target, stream>>

(* ClientRoute.RunTask.                                                    *)

\* ReqStop from the control API or at the end of the lifetime, or from
\* disconnect_from_server once the client notices that the stream is gone.
ClientStopsRoute ==
  /\ link = "down" \/ "client_route" \in Events
  /\ croute.in_map
  /\ ~croute.stop_req
  /\ ClientRouteReqStop
  /\ UNCHANGED <<server, c_task, c_eof, c_table, user, target, stream>>

ClientConnDown == link = "down" /\ ClientStopsRoute

\* A stop of one peer from the control API.
ClientStopsPeer(p) ==
  /\ "client_peer" \in Events
  /\ p \in ptc_map \ c_stop_req
  /\ StopClientPeers({p})
  /\ UNCHANGED <<server, c_task, c_eof, c_table, croute, user, target, stream>>

\* The waiting goroutine takes the stop and releases its share of ptc_wg.
ClientRouteWakes ==
  /\ croute.pc = "wait"
  /\ croute.stop_req
  /\ croute' = [croute EXCEPT !.pc = "join"]
  /\ UNCHANGED <<server, c_task, c_ctl, c_eof, c_table, user, target, stream>>

\* ptc_wg.Wait returns and ROUTE_STOP is sent ...
ClientRouteJoins ==
  /\ croute.pc = "join"
  /\ \A p \in Peers : c_pc[p] \in {"none", "gone"}
  /\ croute' = [croute EXCEPT !.pc = "remove"]
  /\ ClientSends(Pkt("ROUTE_STOP", 0))
  /\ UNCHANGED <<server, c_task, c_ctl, c_eof, c_table, user, target>>

\* ... and RemoveClientRoute.
ClientRouteEnds ==
  /\ croute.pc = "remove"
  /\ croute' = [croute EXCEPT !.pc = "gone", !.in_map = FALSE]
  /\ UNCHANGED <<server, c_task, c_ctl, c_eof, c_table, user, target, stream>>

-----------------------------------------------------------------------------
(* The environment: users and targets write and close as they like.        *)

UserWrites(p) ==
  /\ s_pc[p] # "none" /\ s_conn[p] = "open" /\ p \notin u_fin
  /\ u_sent[p] < MaxChunks
  /\ u_sent' = [u_sent EXCEPT ![p] = @ + 1]
  /\ UNCHANGED <<server, client, u_fin, u_rcv, target, stream>>

UserCloses(p) ==
  /\ "user_close" \in Events
  /\ s_pc[p] # "none" /\ s_conn[p] = "open" /\ p \notin u_fin
  /\ u_fin' = u_fin \cup {p}
  /\ UNCHANGED <<server, client, u_sent, u_rcv, target, stream>>

TargetWrites(p) ==
  /\ c_conn[p] = "open" /\ p \notin t_fin
  /\ t_sent[p] < MaxChunks
  /\ t_sent' = [t_sent EXCEPT ![p] = @ + 1]
  /\ UNCHANGED <<server, client, user, t_fin, t_rcv, stream>>

TargetCloses(p) ==
  /\ "target_close" \in Events
  /\ c_conn[p] = "open" /\ p \notin t_fin
  /\ t_fin' = t_fin \cup {p}
  /\ UNCHANGED <<server, client, user, t_sent, t_rcv, stream>>

-----------------------------------------------------------------------------
ServerPeerTask(p) ==
  \/ SendPeerStarted(p) \/ StatusReceived(p) \/ WaitTimesOut(p) \/ StopReceived(p)
  \/ ReadUser(p) \/ ReadUserEof(p) \/ ReadUserFails(p) \/ StoppedReceived(p)
  \/ SendPeerStopped(p) \/ ServerPeerEnds(p)

ServerRouteTask ==
  \/ \E p \in Peers : (\E b \in BOOLEAN : AcceptTCP(p, b)) \/ AddNewServerPeerConn(p)
  \/ AcceptFails
  \/ ServerRouteEnds

ServerReceiver ==
  \/ \E p \in Peers : ReportPeerStarted(p) \/ ReportPeerStopped(p) \/ ReportPeerData(p)
  \/ RouteStopRequested

ClientPeerTask(p) ==
  \/ DialSucceeds(p) \/ DialFails(p) \/ ConfirmPeerStarted(p) \/ AbortPeer(p)
  \/ ReadTarget(p) \/ ReadTargetEnds(p) \/ ReportStopped(p) \/ ClientPeerEnds(p)

ClientRouteTask == ClientRouteWakes \/ ClientRouteJoins \/ ClientRouteEnds

ClientReceiver ==
  \/ \E p \in Peers : \/ ConnectRequested(p) \/ DisconnectRequested(p)
                      \/ CloseWriteRequested(p) \/ WriteTarget(p)
  \/ RouteStoppedReceived

Environment ==
  \/ \E p \in Peers : \/ UserWrites(p) \/ UserCloses(p) \/ TargetWrites(p) \/ TargetCloses(p)
                      \/ ServerStopsPeer(p) \/ ClientStopsPeer(p)
  \/ ServerStopsRoute \/ ClientStopsRoute
  \/ BreakLink

\* Nothing is left to do: the peers have ended, and the routes wait or have ended.
Idle ==
  /\ sroute.pc \in {"accept", "gone"} /\ croute.pc \in {"wait", "gone"}
  /\ \A p \in Peers : s_pc[p] \in {"none", "gone"} /\ c_pc[p] \in {"none", "gone"}
  /\ s2c = <<>> /\ c2s = <<>>
  /\ UNCHANGED vars

Next ==
  \/ \E p \in Peers : ServerPeerTask(p) \/ ClientPeerTask(p)
  \/ ServerRouteTask \/ ServerReceiver
  \/ ClientRouteTask \/ ClientReceiver
  \/ Environment
  \/ Idle

\* Goroutines that can run do run, dials and waits end (both have timeouts),
\* an accepted connection is added, a closed listener ends the accept loop,
\* and both ends notice a broken stream (keepalive).  Nothing obliges users,
\* targets or operators to act.
Fairness ==
  /\ \A p \in Peers : WF_vars(ServerPeerTask(p)) /\ WF_vars(ClientPeerTask(p))
  /\ \A p \in Peers : WF_vars(AddNewServerPeerConn(p))
  /\ WF_vars(~sroute.listening /\ AcceptFails) /\ WF_vars(ServerRouteEnds)
  /\ WF_vars(ClientRouteTask)
  /\ WF_vars(ServerReceiver) /\ WF_vars(ClientReceiver)
  /\ WF_vars(ServerConnDown) /\ WF_vars(ClientConnDown)

Spec == Init /\ [][Next]_vars
FairSpec == Spec /\ Fairness

-----------------------------------------------------------------------------
(* Properties.                                                             *)

ServerTypes ==
  /\ s_pc \in [Peers -> SPcs] /\ s_rd \in [Peers -> Nat]
  /\ s_conn \in [Peers -> {"open", "closed"}]
  /\ s_stop_req \subseteq Peers /\ s_stop_chan \subseteq Peers /\ s_started \subseteq Peers
  /\ s_status \in [Peers -> Seq({"started", "stopped"})]
  /\ s_denied \subseteq Peers /\ pts_map \subseteq Peers
  /\ sroute \in [pc : {"accept", "add", "wait", "gone"}, stop_req : BOOLEAN,
                 listening : BOOLEAN, in_map : BOOLEAN]

ClientTypes ==
  /\ c_pc \in [Peers -> CPcs] /\ c_rd \in [Peers -> Nat]
  /\ c_conn \in [Peers -> {"none", "open", "closed"}]
  /\ c_stop_req \subseteq Peers /\ c_eof \subseteq Peers /\ ptc_map \subseteq Peers
  /\ croute \in [pc : {"wait", "join", "remove", "gone"}, stop_req : BOOLEAN,
                 in_map : BOOLEAN]

EndTypes ==
  /\ u_sent \in [Peers -> Nat] /\ u_fin \subseteq Peers /\ u_rcv \in [Peers -> Seq(Nat)]
  /\ t_sent \in [Peers -> Nat] /\ t_fin \subseteq Peers /\ t_rcv \in [Peers -> Seq(Nat)]

StreamTypes == s2c \in Seq(Packet) /\ c2s \in Seq(Packet) /\ link \in {"up", "down"}

\* Every variable has its type; in particular stats.peers of neither end goes
\* below zero.
TypeOK ==
  ServerTypes /\ ClientTypes /\ EndTypes /\ StreamTypes /\ s_peers \in Nat /\ c_peers \in Nat

InOrder(s) == \A i \in 1..Len(s) : s[i] = i

\* What a target has received is what its user wrote, from the first chunk on,
\* in order, with nothing missing, repeated or of another user, whatever peers
\* share the stream and wherever the stream or a peer is cut (RunTask of
\* ServerPeerConn, ReportPacket of ClientRoute).
TargetGetsPrefix ==
  \A p \in Peers : InOrder(t_rcv[p]) /\ Len(t_rcv[p]) <= u_sent[p]

\* The same from a target to its user (RunTask of ClientPeerConn, ReportPacket
\* of ServerPeerConn).
UserGetsPrefix ==
  \A p \in Peers : InOrder(u_rcv[p]) /\ Len(u_rcv[p]) <= t_sent[p]

\* The target sees the end of the user's data only after all the data that the
\* server read from the user, which is all of it when the server did not close
\* the connection itself: PEER_EOF overtakes and loses no chunk.
EofAfterData ==
  \A p \in Peers : p \in c_eof /\ p \notin c_stop_req =>
    /\ Len(t_rcv[p]) = s_rd[p]
    /\ s_conn[p] = "open" => s_rd[p] = u_sent[p]

\* When PEER_STOPPED of the client makes the server close the user's connection,
\* the user already has everything the client read from the target: a response
\* is not cut by the end of the connection that follows it.
ResponseBeforeClose ==
  c2s # <<>> /\ Head(c2s).kind = "PEER_STOPPED" =>
    LET p == Head(c2s).peer IN
    KnownToServer(p) /\ p \notin s_stop_req => Len(u_rcv[p]) = c_rd[p]

\* The server reads from a user only after the client has the target's
\* connection: no chunk reaches the client before its peer can take it.
RelayAfterConnect ==
  \A p \in Peers :
    s_pc[p] \in {"read", "wait_stopped"} => c_pc[p] \in {"run", "end", "cleanup", "gone"}

\* stats.peers, which pts_limit is compared with, counts the table.
ServerPeersCounted == s_peers = Cardinality(pts_map)

\* pts_limit bounds the users whose connections are kept open, and the table
\* of the route its peers: the accept loop tests and adds in one goroutine.
OpenPeersWithinLimits ==
  /\ PtsLimit > 0 => Cardinality({p \in pts_map : s_conn[p] = "open"}) <= PtsLimit
  /\ Cardinality(pts_map) <= RouteMax

\* A peer asked to stop ends, on either side, though its task may be waiting
\* for the other side, reading, or in the middle of starting.
ServerStopCompletes == \A p \in Peers : p \in s_stop_req ~> s_pc[p] = "gone"
ClientStopCompletes == \A p \in Peers : p \in c_stop_req ~> c_pc[p] = "gone"

\* The end of a client peer, for whatever reason, ends the server peer that it
\* serves, and so the user's connection.
ClientEndReachesServer == \A p \in Peers : c_pc[p] = "gone" ~> s_pc[p] = "gone"

-----------------------------------------------------------------------------
(* The inductive invariant behind TypeOK, ServerPeersCounted,              *)
(* RelayAfterConnect, TargetGetsPrefix, UserGetsPrefix, EofAfterData and   *)
(* ResponseBeforeClose.                                                    *)

InFlight(q, k, p) == \E i \in 1..Len(q) : q[i].kind = k /\ q[i].peer = p

\* pts_map holds the peers whose task runs; a stopped peer is a closed one.
ServerTable ==
  \A p \in Peers :
    /\ p \in pts_map <=>
         s_pc[p] \in {"start", "wait_started", "read", "wait_stopped", "done", "cleanup"}
    /\ s_pc[p] \in {"none", "accepted"} => p \notin s_stop_req
    /\ p \in s_stop_req => s_conn[p] = "closed"

ClientTable ==
  \A p \in Peers :
    /\ c_pc[p] \in {"none", "dial"} => p \notin ptc_map /\ c_conn[p] = "none"
    /\ c_pc[p] \in {"send_started", "run", "end", "cleanup"} => p \in ptc_map
    /\ p \in ptc_map => c_conn[p] # "none"
    /\ p \in c_stop_req => c_conn[p] = "closed"

Counted ==
  /\ IsFiniteSet(pts_map) /\ s_peers = Cardinality(pts_map)
  /\ IsFiniteSet(ptc_map) /\ c_peers = Cardinality(ptc_map)

\* A peer is announced once, and dialled only when announced.
AnnouncedOnce ==
  /\ \A p \in Peers :
       /\ s_pc[p] \in {"none", "accepted", "start"} =>
            c_pc[p] = "none" /\ ~InFlight(s2c, "PEER_STARTED", p)
       /\ InFlight(s2c, "PEER_STARTED", p) => c_pc[p] = "none"
  /\ \A i, j \in 1..Len(s2c) :
       /\ s2c[i].kind = "PEER_STARTED" /\ s2c[j].kind = "PEER_STARTED"
       /\ s2c[i].peer = s2c[j].peer
       => i = j

\* Neither end reads for a peer before the client has its connection.
Unconfirmed == {"none", "dial", "send_started", "abort"}
ReadAfterConfirm ==
  \A p \in Peers :
    /\ c_pc[p] \in Unconfirmed =>
         /\ ~InFlight(c2s, "PEER_STARTED", p)
         /\ \A i \in 1..Len(s_status[p]) : s_status[p][i] # "started"
         /\ s_pc[p] \notin {"read", "wait_stopped"}
         /\ s_rd[p] = 0
    /\ c_pc[p] \in {"none", "dial", "send_started"} => c_rd[p] = 0

\* The chunks of a peer in a queue follow what its other end has received, in
\* order, and none is beyond what was read.
Flow(q, rcv, rd) ==
  /\ \A p \in Peers : InOrder(rcv[p]) /\ Len(rcv[p]) <= rd[p]
  /\ \A i \in 1..Len(q) : q[i].kind = "PEER_DATA" =>
       Len(rcv[q[i].peer]) < q[i].n /\ q[i].n <= rd[q[i].peer]
  /\ \A i, j \in 1..Len(q) :
       i < j /\ q[i].kind = "PEER_DATA" /\ q[j].kind = "PEER_DATA" /\ q[i].peer = q[j].peer =>
         q[i].n < q[j].n

\* Every chunk of p that was read and not received is in the queue.
Complete(q, rcv, rd, p) ==
  \A k \in (Len(rcv[p]) + 1)..rd[p] :
    \E i \in 1..Len(q) : q[i].kind = "PEER_DATA" /\ q[i].peer = p /\ q[i].n = k

\* What is between a user and its target, until the client gives the peer up.
ToTarget ==
  /\ Flow(s2c, t_rcv, s_rd)
  /\ \A p \in Peers : s_rd[p] <= u_sent[p]
  /\ \A p \in Peers : link = "up" /\ KnownToClient(p) /\ p \notin c_stop_req =>
       Complete(s2c, t_rcv, s_rd, p)

\* The same between a target and its user.
ToUser ==
  /\ Flow(c2s, u_rcv, c_rd)
  /\ \A p \in Peers : c_rd[p] <= t_sent[p]
  /\ \A p \in Peers : link = "up" /\ KnownToServer(p) /\ p \notin s_stop_req =>
       Complete(c2s, u_rcv, c_rd, p)

\* No chunk of a peer follows its packet of kind k.
Final(q, k) ==
  \A i, j \in 1..Len(q) : i < j /\ q[i].kind = k /\ q[j].kind = "PEER_DATA" => q[i].peer # q[j].peer

\* PEER_EOF of a user, in the stream or delivered, ends what is read of it.
EofIsFinal ==
  /\ \A p \in Peers : p \in c_eof \/ InFlight(s2c, "PEER_EOF", p) =>
       /\ s_pc[p] \in {"wait_stopped", "done", "cleanup", "gone"}
       /\ s_conn[p] = "open" => p \in u_fin /\ s_rd[p] = u_sent[p]
  /\ \A p \in c_eof : ~InFlight(s2c, "PEER_DATA", p) /\ (p \notin c_stop_req => Len(t_rcv[p]) = s_rd[p])
  /\ Final(s2c, "PEER_EOF")

\* PEER_STOPPED of a client peer ends what is read of its target.
StoppedIsFinal ==
  /\ \A p \in Peers : InFlight(c2s, "PEER_STOPPED", p) => c_pc[p] \in {"cleanup", "gone"}
  /\ Final(c2s, "PEER_STOPPED")

\* A broken stream delivers nothing.
BrokenIsEmpty == link = "down" => s2c = <<>> /\ c2s = <<>>

\* The tunnel's state is consistent: the tables match the tasks (RunTask of both
\* kinds of peers), the counters match the tables, and no data is read for a
\* peer that the client has not confirmed.
TunnelConsistent ==
  ServerTable /\ ClientTable /\ Counted /\ AnnouncedOnce /\ ReadAfterConfirm /\ BrokenIsEmpty
=============================================================================
