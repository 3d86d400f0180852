--------------------------- MODULE ServerRegistry ---------------------------
(***************************************************************************)
(* The tables of a Hodu server: its connections by id, address and token,  *)
(* the routes of each connection by id and by name, and the service ports. *)
(* The goroutines that change them are the handler, the waiter and the     *)
(* receiver of each connection, the task of each route, the requests of    *)
(* the control API, gRPC's report that a transport has ended, and          *)
(* Server.ReqStop.                                                         *)
(*                                                                         *)
(* A step is what happens under one lock, with the answer that is sent     *)
(* after it and the test of stop_req before the next Recv.  A lock that is *)
(* held while another one is awaited is visible in the program counters:   *)
(* the receiver holds route_mtx at "listen" and "register", a lookup by    *)
(* port holds svc_port_mtx until it ends, and every lookup holds cts_mtx   *)
(* for reading at "route".                                                 *)
(***************************************************************************)
EXTENDS Integers, FiniteSets

CONSTANTS Conns,     \* calls of PacketStream, each with the id it is given
          Addrs,     \* transports, by remote address
          AddrOf,    \* the transport of each call
          Tokens,    \* client tokens that are not numeric
          RouteIds,  \* route ids, chosen by the client
          Names,     \* ptc names, None the empty one
          Ports,     \* service ports
          Routes,    \* ServerRoute objects
          Lookups,   \* requests that look a route up
          CtsLimit,  \* RpcMaxConns, 0 for no limit
          MaxEvents, \* bound on the requests and failures of a behaviour
          None

ASSUME AddrAssumption == AddrOf \in [Conns -> Addrs]
ASSUME NoneAssumption == None \notin Conns \cup Routes \cup Tokens \cup Ports \cup (Conns \X RouteIds)

VARIABLES
  cts_map,           \* connections of the table
  cts_map_by_addr,   \* address to connection
  cts_map_by_token,  \* token to connection
  client_token,      \* ClientToken of a connection
  stop,              \* "no", who is inside ReqStop, or "done"
  handler,           \* PacketStream and ServerConn.RunTask
  waiter,            \* the goroutine that waits for ctx.Done or stop_chan
  rx,                \* receive_from_stream: program counter and route at hand
  link,              \* state of each transport
  route_map,         \* of each connection: id to route
  route_map_by_ptc_name,
  route_wg,          \* of each connection
  svc_port_map,      \* port to <<connection, route id>>
  stats_routes,
  route,             \* the ServerRoute objects and their tasks
  route_list,
  lookup,            \* the lookups in progress
  server,            \* Server.RunTask and Server.ReqStop
  events             \* requests and failures that are still to come

conns == <<cts_map, cts_map_by_addr, cts_map_by_token, client_token>>
tables == <<route_map, route_map_by_ptc_name, svc_port_map, stats_routes>>
tasks == <<handler, waiter, link, route_wg>>
vars == <<conns, tables, tasks, stop, rx, route, route_list, lookup, server, events>>

Stoppers == {"waiter", "receiver", "server", "other"}
RoutePcs == {"none", "listening", "made", "accept", "join", "unport", "unlist", "gone"}
NewRoute == [pc |-> "none", cts |-> None, id |-> None, name |-> None, port |-> None,
             stop_req |-> FALSE]
NoLookup == [pc |-> "idle", kind |-> "id", cri |-> None, found |-> None]

\* Which locks are free, from who holds them.
RouteMtxFree(c) == rx[c].pc \notin {"listen", "register"}
SvcPortMtxFree == \A l \in Lookups : lookup[l].kind = "port" => lookup[l].pc = "idle"
CtsMtxFree == \A l \in Lookups : lookup[l].pc # "route"

\* Send and Recv of a stream work until its transport or its handler ends.
StreamUp(c) == link[AddrOf[c]] = "up" /\ handler[c] \in {"running", "returning"}

Init ==
  /\ cts_map = {}
  /\ cts_map_by_addr = [a \in Addrs |-> None]
  /\ cts_map_by_token = [t \in Tokens |-> None]
  /\ client_token = [c \in Conns |-> None]
  /\ stop = [c \in Conns |-> "no"]
  /\ handler = [c \in Conns |-> "none"]
  /\ waiter = [c \in Conns |-> "none"]
  /\ rx = [c \in Conns |-> [pc |-> "none", o |-> None]]
  /\ link = [a \in Addrs |-> "up"]
  /\ route_map = [c \in Conns |-> [i \in RouteIds |-> None]]
  /\ route_map_by_ptc_name = [c \in Conns |-> [n \in Names \ {None} |-> None]]
  /\ route_wg = [c \in Conns |-> 0]
  /\ svc_port_map = [p \in Ports |-> None]
  /\ stats_routes = 0
  /\ route = [o \in Routes |-> NewRoute]
  /\ route_list = {}
  /\ lookup = [l \in Lookups |-> NoLookup]
  /\ server = [pc |-> "run", todo |-> {}]
  /\ events = MaxEvents

\* A request of an operator, a refused packet or a failure.
Disturb == events > 0 /\ events' = events - 1

-----------------------------------------------------------------------------
(* Requests to stop.  ServerRoute.ReqStop closes the listener; the first   *)
(* caller of ServerConn.ReqStop goes on to the routes, the others return.  *)

StopRoutes(S) ==
  route' = [o \in Routes |-> IF o \in S THEN [route[o] EXCEPT !.stop_req = TRUE] ELSE route[o]]

RoutesOf(c) == {route_map[c][i] : i \in RouteIds} \ {None}

CallReqStop(c, who) == stop' = IF stop[c] = "no" THEN [stop EXCEPT ![c] = who] ELSE stop

ReqStopRoutes(c) ==
  /\ stop[c] \in Stoppers
  /\ RouteMtxFree(c)
  /\ StopRoutes(RoutesOf(c))
  /\ stop' = [stop EXCEPT ![c] = "done"]
  /\ UNCHANGED <<conns, tables, tasks, rx, route_list, lookup, server, events>>

-----------------------------------------------------------------------------
(* The handler of a connection.                                            *)

\* PacketStream tests stop_req of the server before it adds the connection.
PacketStream(c) ==
  /\ handler[c] = "none"
  /\ link[AddrOf[c]] = "up"
  /\ handler' = [handler EXCEPT ![c] = IF server.pc = "run" THEN "admitted" ELSE "returned"]
  /\ UNCHANGED <<conns, tables, waiter, link, route_wg, stop, rx, route, route_list, lookup,
                 server, events>>

\* AddNewServerConn, and RunTask up to its wait.
AddNewServerConn(c) ==
  /\ handler[c] = "admitted"
  /\ CtsMtxFree
  /\ IF \/ CtsLimit > 0 /\ Cardinality(cts_map) >= CtsLimit
        \/ cts_map_by_addr[AddrOf[c]] # None
     THEN /\ handler' = [handler EXCEPT ![c] = "returned"]
          /\ UNCHANGED <<conns, waiter, rx, route_wg>>
     ELSE /\ handler' = [handler EXCEPT ![c] = "running"]
          /\ cts_map' = cts_map \cup {c}
          /\ cts_map_by_addr' = [cts_map_by_addr EXCEPT ![AddrOf[c]] = c]
          /\ rx' = [rx EXCEPT ![c].pc = "recv"]
          /\ waiter' = [waiter EXCEPT ![c] = "wait"]
          /\ route_wg' = [route_wg EXCEPT ![c] = 1]
          /\ UNCHANGED <<cts_map_by_token, client_token>>
  /\ UNCHANGED <<tables, link, stop, route, route_list, lookup, server, events>>

\* route_wg.Done: the count that reaches zero lets the handler go, and a route
\* that is added afterwards does not hold it back.
RouteWgDone(c) ==
  /\ route_wg' = [route_wg EXCEPT ![c] = @ - 1]
  /\ handler' = IF route_wg[c] = 1 /\ handler[c] = "running"
                THEN [handler EXCEPT ![c] = "returning"] ELSE handler

\* The handler returns, and gRPC ends the stream.
HandlerReturns(c) ==
  /\ handler[c] = "returning"
  /\ handler' = [handler EXCEPT ![c] = "returned"]
  /\ UNCHANGED <<conns, tables, waiter, link, route_wg, stop, rx, route, route_list, lookup,
                 server, events>>

\* ctx.Done, or the message that ReqStop has sent to stop_chan; then ReqStop,
\* in which it stays while it is the one that stops the routes, and Done.
Waiter(c) ==
  /\ waiter[c] = "wait" /\ stop[c] # "waiter"
  /\ link[AddrOf[c]] # "up" \/ stop[c] = "done"
  /\ IF stop[c] = "no"
     THEN CallReqStop(c, "waiter") /\ UNCHANGED <<waiter, handler, route_wg>>
     ELSE /\ waiter' = [waiter EXCEPT ![c] = "done"]
          /\ RouteWgDone(c)
          /\ UNCHANGED stop
  /\ UNCHANGED <<conns, tables, link, rx, route, route_list, lookup, server, events>>

-----------------------------------------------------------------------------
(* The receiver of a connection.  It blocks in Recv once it has found       *)
(* stop_req unset, whatever stop_req becomes, and handles what it receives. *)

RxGoto(c, pc, o) == rx' = [rx EXCEPT ![c] = [pc |-> pc, o |-> o]]

RxNext(c) == RxGoto(c, IF stop[c] = "no" THEN "recv" ELSE "ended", None)

\* After an answer: the receiver ends when it cannot be sent.
RxAnswered(c) == IF StreamUp(c) THEN RxNext(c) ELSE RxGoto(c, "ended", None)

RxFails(c) ==
  /\ rx[c].pc = "recv"
  /\ ~StreamUp(c)
  /\ RxGoto(c, "ended", None)
  /\ UNCHANGED <<conns, tables, tasks, stop, route, route_list, lookup, server, events>>

\* ROUTE_START: AddNewServerRoute tests id and name under route_mtx, which it
\* keeps while it makes the listener.
RouteStart(c, o, i, n) ==
  /\ rx[c].pc = "recv" /\ StreamUp(c)
  /\ route[o].pc = "none"
  /\ IF route_map[c][i] # None \/ (n # None /\ route_map_by_ptc_name[c][n] # None)
     THEN RxAnswered(c) /\ UNCHANGED route
     ELSE /\ RxGoto(c, "listen", o)
          /\ route' = [route EXCEPT ![o] = [NewRoute EXCEPT !.pc = "listening", !.cts = c,
                                                            !.id = i, !.name = n]]
  /\ UNCHANGED <<conns, tables, tasks, stop, route_list, lookup, server, events>>

\* net.ListenTCP takes the port asked for or one of its own; two addresses may
\* have the same port.
ListenTCP(c, p) ==
  /\ rx[c].pc = "listen"
  /\ route' = [route EXCEPT ![rx[c].o].port = p]
  /\ RxGoto(c, "register", rx[c].o)
  /\ UNCHANGED <<conns, tables, tasks, stop, route_list, lookup, server, events>>

ListenFails(c) ==
  /\ Disturb
  /\ rx[c].pc = "listen"
  /\ route' = [route EXCEPT ![rx[c].o].pc = "gone"]
  /\ RxAnswered(c)
  /\ UNCHANGED <<conns, tables, tasks, stop, route_list, lookup, server>>

\* Mutant of RegisterRoute: a port that is taken is taken over.
RegisterRouteOverwrites(c) ==
  LET o == rx[c].o IN
  /\ rx[c].pc = "register"
  /\ SvcPortMtxFree
  /\ route' = [route EXCEPT ![o].pc = "made"]
  /\ RxGoto(c, "spawn", o)
  /\ svc_port_map' = [svc_port_map EXCEPT ![route[o].port] = <<c, route[o].id>>]
  /\ route_map' = [route_map EXCEPT ![c][route[o].id] = o]
  /\ route_map_by_ptc_name' =
       IF route[o].name = None THEN route_map_by_ptc_name
       ELSE [route_map_by_ptc_name EXCEPT ![c][route[o].name] = o]
  /\ stats_routes' = stats_routes + 1
  /\ UNCHANGED <<conns, tasks, stop, route_list, lookup, server, events>>

\* make_route_listener registers the port under svc_port_mtx; AddNewServerRoute
\* then enters the route and gives route_mtx back.
RegisterRoute(c) ==
  LET o == rx[c].o IN
  /\ rx[c].pc = "register"
  /\ SvcPortMtxFree
  /\ IF svc_port_map[route[o].port] # None
     THEN /\ route' = [route EXCEPT ![o].pc = "gone"]
          /\ RxAnswered(c)
          /\ UNCHANGED tables
     ELSE /\ route' = [route EXCEPT ![o].pc = "made"]
          /\ RxGoto(c, "spawn", o)
          /\ svc_port_map' = [svc_port_map EXCEPT ![route[o].port] = <<c, route[o].id>>]
          /\ route_map' = [route_map EXCEPT ![c][route[o].id] = o]
          /\ route_map_by_ptc_name' =
               IF route[o].name = None THEN route_map_by_ptc_name
               ELSE [route_map_by_ptc_name EXCEPT ![c][route[o].name] = o]
          /\ stats_routes' = stats_routes + 1
  /\ UNCHANGED <<conns, tasks, stop, route_list, lookup, server, events>>

\* The task of the route starts; a route whose ROUTE_STARTED cannot be sent is
\* asked to stop.
SpawnRoute(c) ==
  LET o == rx[c].o IN
  /\ rx[c].pc = "spawn"
  /\ route_list' = route_list \cup {o}
  /\ route_wg' = [route_wg EXCEPT ![c] = @ + 1]
  /\ route' = [route EXCEPT ![o].pc = "accept", ![o].stop_req = @ \/ ~StreamUp(c)]
  /\ RxAnswered(c)
  /\ UNCHANGED <<conns, tables, handler, waiter, link, stop, lookup, server, events>>

\* What RemoveServerRoute and RemoveServerRouteById do under route_mtx ...
RemoveFromTable(o) ==
  LET c == route[o].cts
      n == route[o].name
  IN
  /\ route_map' = [route_map EXCEPT ![c][route[o].id] = None]
  /\ route_map_by_ptc_name' =
       IF n = None THEN route_map_by_ptc_name ELSE [route_map_by_ptc_name EXCEPT ![c][n] = None]
  /\ stats_routes' = stats_routes - 1
  /\ UNCHANGED svc_port_map

\* ... and then under svc_port_mtx.
ReleasePort(o) ==
  /\ SvcPortMtxFree
  /\ svc_port_map' = [svc_port_map EXCEPT ![route[o].port] = None]
  /\ UNCHANGED <<route_map, route_map_by_ptc_name, stats_routes>>

\* ROUTE_STOP of a route that is there; one of an unknown id does nothing.
RouteStop(c, i) ==
  /\ rx[c].pc = "recv" /\ StreamUp(c)
  /\ IF route_map[c][i] = None
     THEN RxNext(c) /\ UNCHANGED tables
     ELSE RxGoto(c, "unport", route_map[c][i]) /\ RemoveFromTable(route_map[c][i])
  /\ UNCHANGED <<conns, tasks, stop, route, route_list, lookup, server, events>>

\* Mutant of RouteStopReleases: the task of the route goes on.
RouteStopReleasesOnly(c) ==
  /\ rx[c].pc = "unport"
  /\ ReleasePort(rx[c].o)
  /\ RxAnswered(c)
  /\ UNCHANGED <<conns, tasks, stop, route, route_list, lookup, server, events>>

RouteStopReleases(c) ==
  /\ rx[c].pc = "unport"
  /\ ReleasePort(rx[c].o)
  /\ StopRoutes({rx[c].o})
  /\ RxAnswered(c)
  /\ UNCHANGED <<conns, tasks, stop, route_list, lookup, server, events>>

\* CONN_DESC with a token: a blank or numeric one and one that is taken stop
\* the connection, its own is ignored, a new one replaces the old.
ConnDescRefused(c) ==
  /\ Disturb
  /\ rx[c].pc = "recv" /\ StreamUp(c)
  /\ CallReqStop(c, "receiver")
  /\ RxGoto(c, "ended", None)
  /\ UNCHANGED <<conns, tables, tasks, route, route_list, lookup, server>>

\* The packet has been received; the transport may end before it is handled.
\* A client sends it once on a stream.
ConnDesc(c, t) ==
  /\ rx[c].pc = "recv" /\ StreamUp(c)
  /\ client_token[c] = None
  /\ RxGoto(c, "token", t)
  /\ UNCHANGED <<conns, tables, tasks, stop, route, route_list, lookup, server, events>>

SetToken(c) ==
  LET t == rx[c].o IN
  /\ rx[c].pc = "token"
  /\ CtsMtxFree
  /\ IF cts_map_by_token[t] # None
     THEN CallReqStop(c, "receiver") /\ RxGoto(c, "ended", None) /\ UNCHANGED conns
     ELSE /\ cts_map_by_token' = [x \in Tokens |-> IF x = t THEN c
                                    ELSE IF x = client_token[c] THEN None
                                    ELSE cts_map_by_token[x]]
          /\ client_token' = [client_token EXCEPT ![c] = t]
          /\ RxNext(c)
          /\ UNCHANGED <<cts_map, cts_map_by_addr, stop>>
  /\ UNCHANGED <<tables, tasks, route, route_list, lookup, server, events>>

-----------------------------------------------------------------------------
(* The task of a route.  Its peers are the subject of PeerTunnel.          *)

\* The listener has been closed ...
AcceptEnds(o) ==
  /\ route[o].pc = "accept" /\ route[o].stop_req
  /\ route' = [route EXCEPT ![o].pc = "join"]
  /\ UNCHANGED <<conns, tables, tasks, stop, rx, route_list, lookup, server, events>>

\* ... or AcceptTCP has failed by itself.
AcceptFails(o) ==
  /\ Disturb
  /\ route[o].pc = "accept" /\ ~route[o].stop_req
  /\ route' = [route EXCEPT ![o].pc = "join", ![o].stop_req = TRUE]
  /\ UNCHANGED <<conns, tables, tasks, stop, rx, route_list, lookup, server>>

\* RemoveServerRoute, unless ROUTE_STOP has removed the route before.
RemoveServerRoute(o) ==
  /\ route[o].pc = "join"
  /\ RouteMtxFree(route[o].cts)
  /\ IF route_map[route[o].cts][route[o].id] = o
     THEN /\ RemoveFromTable(o)
          /\ route' = [route EXCEPT ![o].pc = "unport"]
     ELSE /\ route' = [route EXCEPT ![o].pc = "unlist"]
          /\ UNCHANGED tables
  /\ UNCHANGED <<conns, tasks, stop, rx, route_list, lookup, server, events>>

RouteReleasesPort(o) ==
  /\ route[o].pc = "unport"
  /\ ReleasePort(o)
  /\ route' = [route EXCEPT ![o].pc = "unlist"]
  /\ UNCHANGED <<conns, tasks, stop, rx, route_list, lookup, server, events>>

RouteEnds(o) ==
  /\ route[o].pc = "unlist"
  /\ route_list' = route_list \ {o}
  /\ RouteWgDone(route[o].cts)
  /\ route' = [route EXCEPT ![o].pc = "gone"]
  /\ UNCHANGED <<conns, tables, waiter, link, stop, rx, lookup, server, events>>

-----------------------------------------------------------------------------
(* Lookups: by port through svc_port_map, or by connection and route id.   *)

LookupStart(l, kind, cri) ==
  /\ Disturb
  /\ lookup[l].pc = "idle" /\ lookup[l].found = None
  /\ cri # None
  /\ kind = "port" => SvcPortMtxFree
  /\ lookup' = [lookup EXCEPT ![l] = [@ EXCEPT !.pc = "cts", !.kind = kind, !.cri = cri]]
  /\ UNCHANGED <<conns, tables, tasks, stop, rx, route, route_list, server>>

LookupConn(l) ==
  /\ lookup[l].pc = "cts"
  /\ lookup' = [lookup EXCEPT ![l] = IF lookup[l].cri[1] \in cts_map THEN [@ EXCEPT !.pc = "route"]
                                           ELSE NoLookup]
  /\ UNCHANGED <<conns, tables, tasks, stop, rx, route, route_list, server, events>>

LookupRoute(l) ==
  LET c == lookup[l].cri[1] IN
  /\ lookup[l].pc = "route"
  /\ RouteMtxFree(c)
  /\ lookup' = [lookup EXCEPT ![l] = [NoLookup EXCEPT !.found = route_map[c][lookup[l].cri[2]]]]
  /\ UNCHANGED <<conns, tables, tasks, stop, rx, route, route_list, server, events>>

\* DELETE of a route that has been looked up.
DeleteRoute(l) ==
  /\ lookup[l].pc = "idle" /\ lookup[l].found # None
  /\ StopRoutes({lookup[l].found})
  /\ lookup' = [lookup EXCEPT ![l].found = None]
  /\ UNCHANGED <<conns, tables, tasks, stop, rx, route_list, server, events>>

\* DELETE of the routes of a connection.
DeleteRoutes(c) ==
  /\ Disturb
  /\ c \in cts_map
  /\ RouteMtxFree(c)
  /\ StopRoutes(RoutesOf(c))
  /\ UNCHANGED <<conns, tables, tasks, stop, rx, route_list, lookup, server>>

\* DELETE of a connection, or of each one of them.
DeleteConn(c) ==
  /\ Disturb
  /\ c \in cts_map /\ CtsMtxFree
  /\ CallReqStop(c, "other")
  /\ UNCHANGED <<conns, tables, tasks, rx, route, route_list, lookup, server>>

-----------------------------------------------------------------------------
(* Transports and the server.                                              *)

BreakLink(a) ==
  /\ Disturb
  /\ link[a] = "up"
  /\ link' = [link EXCEPT ![a] = "down"]
  /\ UNCHANGED <<conns, tables, handler, waiter, route_wg, stop, rx, route, route_list, lookup,
                 server>>

\* Mutant of ConnEnd: the address stays.
ConnEndLeavesAddr(a) ==
  LET c == cts_map_by_addr[a] IN
  /\ link[a] = "down"
  /\ CtsMtxFree
  /\ link' = [link EXCEPT ![a] = "ended"]
  /\ IF c = None
     THEN UNCHANGED <<conns, stop>>
     ELSE /\ cts_map' = cts_map \ {c}
          /\ cts_map_by_token' = [t \in Tokens |-> IF t = client_token[c] THEN None
                                                   ELSE cts_map_by_token[t]]
          /\ CallReqStop(c, "other")
          /\ UNCHANGED <<cts_map_by_addr, client_token>>
  /\ UNCHANGED <<tables, handler, waiter, route_wg, rx, route, route_list, lookup, server, events>>

\* HandleConn with ConnEnd: RemoveServerConnByAddr.
ConnEnd(a) ==
  LET c == cts_map_by_addr[a] IN
  /\ link[a] = "down"
  /\ CtsMtxFree
  /\ link' = [link EXCEPT ![a] = "ended"]
  /\ IF c = None
     THEN UNCHANGED <<conns, stop>>
     ELSE /\ cts_map' = cts_map \ {c}
          /\ cts_map_by_addr' = [cts_map_by_addr EXCEPT ![a] = None]
          /\ cts_map_by_token' = [t \in Tokens |-> IF t = client_token[c] THEN None
                                                   ELSE cts_map_by_token[t]]
          /\ CallReqStop(c, "other")
          /\ UNCHANGED client_token
  /\ UNCHANGED <<tables, handler, waiter, route_wg, rx, route, route_list, lookup, server, events>>

ServerReqStop ==
  /\ Disturb
  /\ server.pc = "run"
  /\ server' = [server EXCEPT !.pc = "snapshot"]
  /\ UNCHANGED <<conns, tables, tasks, stop, rx, route, route_list, lookup>>

ServerSnapshot ==
  /\ server.pc = "snapshot"
  /\ server' = [pc |-> "stopping", todo |-> cts_map]
  /\ UNCHANGED <<conns, tables, tasks, stop, rx, route, route_list, lookup, events>>

ServerStopsConn(c) ==
  /\ server.pc = "stopping" /\ c \in server.todo
  /\ \A d \in Conns : stop[d] # "server"
  /\ CallReqStop(c, "server")
  /\ server' = [server EXCEPT !.todo = @ \ {c}]
  /\ UNCHANGED <<conns, tables, tasks, rx, route, route_list, lookup, events>>

\* cts_wg counts the handlers and the receivers; then rpc_svr.Stop.
ServerEnds ==
  /\ server.pc = "stopping" /\ server.todo = {}
  /\ \A c \in Conns : stop[c] \notin {"server", "receiver"} /\ handler[c] \notin {"running", "returning"} /\ rx[c].pc \in {"none", "ended"}
  /\ server' = [server EXCEPT !.pc = "ended"]
  /\ link' = [a \in Addrs |-> IF link[a] = "up" THEN "down" ELSE link[a]]
  /\ UNCHANGED <<conns, tables, handler, waiter, route_wg, stop, rx, route, route_list, lookup, events>>

-----------------------------------------------------------------------------
Handler(c) == AddNewServerConn(c) \/ HandlerReturns(c)

Receiver(c) ==
  \/ RxFails(c) \/ RegisterRoute(c) \/ SpawnRoute(c) \/ RouteStopReleases(c) \/ SetToken(c)
  \/ \E p \in Ports : ListenTCP(c, p)

Calls(c) ==
  \/ PacketStream(c)
  \/ \E o \in Routes, i \in RouteIds, n \in Names : RouteStart(c, o, i, n)
  \/ \E i \in RouteIds : RouteStop(c, i)
  \/ \E t \in Tokens : ConnDesc(c, t)

RouteTask(o) ==
  AcceptEnds(o) \/ RemoveServerRoute(o) \/ RouteReleasesPort(o) \/ RouteEnds(o)

LookupTask(l) == LookupConn(l) \/ LookupRoute(l) \/ DeleteRoute(l)

Disturbance ==
  \/ \E c \in Conns : ListenFails(c) \/ ConnDescRefused(c) \/ DeleteRoutes(c) \/ DeleteConn(c)
  \/ \E o \in Routes : AcceptFails(o)
  \/ \E l \in Lookups :
       \/ \E p \in Ports : LookupStart(l, "port", svc_port_map[p])
       \/ \E c \in Conns, i \in RouteIds : LookupStart(l, "id", <<c, i>>)
  \/ \E a \in Addrs : BreakLink(a)
  \/ ServerReqStop

ServerTask == ServerSnapshot \/ (\E c \in Conns : ServerStopsConn(c)) \/ ServerEnds

Next ==
  \/ \E c \in Conns : Handler(c) \/ Waiter(c) \/ ReqStopRoutes(c) \/ Receiver(c) \/ Calls(c)
  \/ \E o \in Routes : RouteTask(o)
  \/ \E l \in Lookups : LookupTask(l)
  \/ \E a \in Addrs : ConnEnd(a)
  \/ ServerTask
  \/ Disturbance

Spec == Init /\ [][Next]_vars

\* Every goroutine that can take a step eventually does; a lock that is free
\* again and again is eventually given to a waiter.
FairSpec ==
  /\ Spec
  /\ \A c \in Conns : /\ WF_vars(HandlerReturns(c)) /\ WF_vars(Waiter(c))
                      /\ SF_vars(AddNewServerConn(c)) /\ SF_vars(ReqStopRoutes(c))
                      /\ SF_vars(Receiver(c))
  /\ \A o \in Routes : SF_vars(RouteTask(o))
  /\ \A l \in Lookups : SF_vars(LookupTask(l))
  /\ \A a \in Addrs : SF_vars(ConnEnd(a))
  /\ WF_vars(ServerTask)

-----------------------------------------------------------------------------
\* A route that the table of its connection holds.
InTable(o) == route[o].cts # None /\ route_map[route[o].cts][route[o].id] = o

\* A route that has registered its port and has not given it back: it is in
\* the table, or its task or the receiver is between the two removals.
HoldsPort(o) ==
  \/ InTable(o)
  \/ route[o].pc = "unport"
  \/ \E c \in Conns : rx[c].pc = "unport" /\ rx[c].o = o

\* Every registered port belongs to exactly one route, and names that route's
\* connection and id: neither of the two removals, by ROUTE_STOP and by the
\* task of the route, ever frees a port that a later route has taken, and none
\* leaves a port behind that no later route can have.
PortsOwned ==
  /\ \A o \in Routes : HoldsPort(o) =>
       /\ route[o].port \in Ports
       /\ svc_port_map[route[o].port] = <<route[o].cts, route[o].id>>
  /\ \A o1, o2 \in Routes : HoldsPort(o1) /\ HoldsPort(o2) /\ route[o1].port = route[o2].port
                              => o1 = o2
  /\ \A p \in Ports : svc_port_map[p] # None => \E o \in Routes : HoldsPort(o) /\ route[o].port = p

\* The three tables of connections agree: a connection in the table is found by
\* its address and, once it has described itself, by its token, and an entry of
\* the token table has the token of the connection it names.
ConnsIndexed ==
  /\ \A a \in Addrs : cts_map_by_addr[a] # None =>
       cts_map_by_addr[a] \in cts_map /\ AddrOf[cts_map_by_addr[a]] = a
  /\ \A c \in cts_map :
       /\ cts_map_by_addr[AddrOf[c]] = c
       /\ client_token[c] # None => cts_map_by_token[client_token[c]] = c
  /\ \A t \in Tokens : cts_map_by_token[t] # None => client_token[cts_map_by_token[t]] = t

\* A route whose listener is open, of which nothing has asked the stop, is in
\* the table, so that a request to stop its connection or itself reaches it.
OpenRouteReachable ==
  \A o \in Routes : route[o].pc \in {"made", "accept"} /\ ~route[o].stop_req =>
    HoldsPort(o)

\* A route that is asked to stop ends by itself and gives its port back.
StoppedRouteEnds == \A o \in Routes : route[o].stop_req /\ route[o].pc = "accept" ~> route[o].pc = "gone"
=============================================================================
