----------------------- MODULE ServerRegistry_proofs ------------------------
(* Service ports are owned by exactly one route each, and an open route can *)
(* be reached, for any number of connections, routes, ids and ports. The    *)
(* invariant relates what the receiver of a connection has at hand, where   *)
(* the task of a route is, and the two tables a route is entered in.        *)
EXTENDS ServerRegistry, TLAPS

RxPcs == {"none", "recv", "listen", "register", "spawn", "unport", "token", "ended"}

RouteRec ==
  [pc : RoutePcs, cts : Conns \cup {None}, id : RouteIds \cup {None},
   name : Names \cup {None}, port : Ports \cup {None}, stop_req : BOOLEAN]

RegType ==
  /\ route \in [Routes -> RouteRec]
  /\ rx \in [Conns -> [pc : RxPcs, o : Routes \cup Tokens \cup {None}]]
  /\ route_map \in [Conns -> [RouteIds -> Routes \cup {None}]]
  /\ svc_port_map \in [Ports -> (Conns \X RouteIds) \cup {None}]
  /\ handler \in [Conns -> {"none", "admitted", "running", "returning", "returned"}]

\* A route with a connection, an id and a port.
Known(o) == route[o].cts \in Conns /\ route[o].id \in RouteIds /\ route[o].port \in Ports

\* A route the receiver is making, and one it has taken out of the table.
Making(c, o) ==
  /\ o \in Routes
  /\ route[o].pc = "listening" /\ route[o].cts = c /\ route[o].id \in RouteIds
  /\ route_map[c][route[o].id] = None
Removed(c, o) ==
  /\ o \in Routes /\ Known(o) /\ ~InTable(o)
  /\ route[o].cts = c /\ route[o].pc \in {"made", "accept", "join", "unlist", "gone"}

RxAt(c) ==
  /\ handler[c] \in {"none", "admitted"} => rx[c].pc = "none"
  /\ rx[c].pc \in {"listen", "register"} => Making(c, rx[c].o)
  /\ rx[c].pc = "register" => route[rx[c].o].port \in Ports
  /\ rx[c].pc = "spawn" => rx[c].o \in Routes /\ route[rx[c].o].pc = "made" /\ route[rx[c].o].cts = c
  /\ rx[c].pc = "unport" => Removed(c, rx[c].o)

RxInv == \A c \in Conns : RxAt(c)

TableInv ==
  \A c \in Conns, i \in RouteIds : route_map[c][i] # None =>
    /\ route[route_map[c][i]].cts = c /\ route[route_map[c][i]].id = i
    /\ route[route_map[c][i]].pc \in {"made", "accept", "join"}

RouteInv ==
  \A o \in Routes :
    /\ route[o].pc \in {"made", "accept", "join", "unport", "unlist"} => Known(o)
    /\ route[o].pc = "unport" => ~InTable(o)
    /\ route[o].cts # None => route[o].id \in RouteIds

IInv == RegType /\ RxInv /\ TableInv /\ RouteInv /\ PortsOwned /\ OpenRouteReachable

-----------------------------------------------------------------------------
(* What a change of the route table, or of a port, does to the ports.       *)

\* Where a route is and whose it is, which a step may leave alone.
SameRoute(o) ==
  /\ route'[o].cts = route[o].cts /\ route'[o].id = route[o].id /\ route'[o].port = route[o].port

LEMMA PortsKept ==
  ASSUME PortsOwned, svc_port_map' = svc_port_map,
         \A o \in Routes : HoldsPort(o)' <=> HoldsPort(o),
         \A o \in Routes : HoldsPort(o) => SameRoute(o)
  PROVE  PortsOwned'
<1>1. PICK H : \A o \in Routes : (H[o] <=> HoldsPort(o)) /\ (H[o] <=> HoldsPort(o)')
  <2> WITNESS [o \in Routes |-> HoldsPort(o)]
  <2> QED
    OBVIOUS
<1> QED
  BY <1>1 DEF PortsOwned, SameRoute

LEMMA PortFreed ==
  ASSUME PortsOwned, RegType, NEW r \in Routes, HoldsPort(r),
         svc_port_map' = [svc_port_map EXCEPT ![route[r].port] = None],
         \A o \in Routes : HoldsPort(o)' <=> HoldsPort(o) /\ o # r,
         \A o \in Routes : HoldsPort(o) => SameRoute(o)
  PROVE  PortsOwned'
<1>1. route[r].port \in Ports
  BY DEF PortsOwned
<1>2. \A p \in Ports : svc_port_map'[p] = IF p = route[r].port THEN None ELSE svc_port_map[p]
  BY <1>1 DEF RegType
<1>3. \A o \in Routes : HoldsPort(o)' =>
        /\ route'[o].port \in Ports
        /\ svc_port_map'[route'[o].port] = <<route'[o].cts, route'[o].id>>
  <2>1. \A o \in Routes : HoldsPort(o) /\ o # r => route[o].port # route[r].port
    BY DEF PortsOwned
  <2>2. \A o \in Routes : HoldsPort(o) =>
          route[o].port \in Ports /\ svc_port_map[route[o].port] = <<route[o].cts, route[o].id>>
    BY DEF PortsOwned
  <2> HIDE DEF PortsOwned
  <2> QED
    BY <1>2, <2>1, <2>2, ZenonT(60) DEF SameRoute
<1>4. \A o1, o2 \in Routes : HoldsPort(o1)' /\ HoldsPort(o2)' /\ route'[o1].port = route'[o2].port => o1 = o2
  BY DEF PortsOwned, SameRoute
<1>5. \A p \in Ports : svc_port_map'[p] # None => \E o \in Routes : HoldsPort(o)' /\ route'[o].port = p
  BY <1>1, <1>2 DEF PortsOwned, SameRoute
<1> QED
  BY <1>3, <1>4, <1>5 DEF PortsOwned

LEMMA PortTaken ==
  ASSUME PortsOwned, RegType, NEW r \in Routes, ~HoldsPort(r), route[r].port \in Ports,
         route[r].cts \in Conns, route[r].id \in RouteIds,
         \A o \in Routes : HoldsPort(o) => Known(o),
         svc_port_map[route[r].port] = None,
         svc_port_map' = [svc_port_map EXCEPT ![route[r].port] = <<route[r].cts, route[r].id>>],
         \A o \in Routes : HoldsPort(o)' <=> HoldsPort(o) \/ o = r,
         \A o \in Routes : HoldsPort(o) \/ o = r => SameRoute(o)
  PROVE  PortsOwned'
<1>1. \A p \in Ports : svc_port_map'[p] = IF p = route[r].port THEN <<route[r].cts, route[r].id>> ELSE svc_port_map[p]
  BY DEF RegType
<1>2. \A o \in Routes : HoldsPort(o) => route[o].port # route[r].port
  <2>1. \A o \in Routes : HoldsPort(o) => svc_port_map[route[o].port] = <<route[o].cts, route[o].id>>
    BY DEF PortsOwned
  <2>2. \A o \in Routes : HoldsPort(o) => <<route[o].cts, route[o].id>> # None
    BY NoneAssumption DEF Known
  <2> QED
    BY <2>1, <2>2, Zenon
<1>3. \A o \in Routes : HoldsPort(o)' =>
        /\ route'[o].port \in Ports
        /\ svc_port_map'[route'[o].port] = <<route'[o].cts, route'[o].id>>
  <2>1. \A o \in Routes : HoldsPort(o) =>
          route[o].port \in Ports /\ svc_port_map[route[o].port] = <<route[o].cts, route[o].id>>
    BY DEF PortsOwned
  <2>2. ASSUME NEW o \in Routes, HoldsPort(o)
        PROVE  route'[o].port \in Ports /\ svc_port_map'[route'[o].port] = <<route'[o].cts, route'[o].id>>
    <3>1. /\ route'[o].port = route[o].port /\ route'[o].port \in Ports /\ route'[o].port # route[r].port
          /\ route'[o].cts = route[o].cts /\ route'[o].id = route[o].id
      BY <1>2, <2>1, <2>2 DEF SameRoute
    <3>2. svc_port_map'[route'[o].port] = svc_port_map[route[o].port]
      BY <1>1, <3>1
    <3> QED
      BY <2>1, <2>2, <3>1, <3>2
  <2>3. route'[r].port \in Ports /\ svc_port_map'[route'[r].port] = <<route'[r].cts, route'[r].id>>
    <3>1. route'[r].port = route[r].port /\ route'[r].cts = route[r].cts /\ route'[r].id = route[r].id
      BY DEF SameRoute
    <3> QED
      BY <1>1, <3>1
  <2> QED
    BY <2>2, <2>3
<1>4. \A o1, o2 \in Routes : HoldsPort(o1)' /\ HoldsPort(o2)' /\ route'[o1].port = route'[o2].port => o1 = o2
  BY <1>2 DEF PortsOwned, SameRoute
<1>5. \A p \in Ports : svc_port_map'[p] # None => \E o \in Routes : HoldsPort(o)' /\ route'[o].port = p
  BY <1>1 DEF PortsOwned, SameRoute
<1> QED
  BY <1>3, <1>4, <1>5, Zenon DEF PortsOwned

-----------------------------------------------------------------------------
(* The kinds of step.                                                       *)

reg == <<route, route_map, svc_port_map>>

HandlerLater ==
  /\ handler' \in [Conns -> {"none", "admitted", "running", "returning", "returned"}]
  /\ \A c \in Conns : handler'[c] \in {"none", "admitted"} => handler[c] \in {"none", "admitted"}

Quiet == UNCHANGED <<rx, reg>> /\ HandlerLater

\* The receiver is where it has no route at hand.
Free(c) ==
  /\ rx' \in [Conns -> [pc : RxPcs, o : Routes \cup Tokens \cup {None}]]
  /\ rx'[c].pc \in {"recv", "token", "ended"}
  /\ \A d \in Conns : d # c => rx'[d] = rx[d]

Receives(c) ==
  /\ rx[c].pc \in {"none", "recv", "token"} /\ Free(c)
  /\ UNCHANGED reg /\ HandlerLater /\ handler'[c] \notin {"none", "admitted"}

Asks == (\E S : StopRoutes(S)) /\ UNCHANGED <<rx, handler, route_map, svc_port_map>>

Works(c) ==
  \/ \E o \in Routes, i \in RouteIds, n \in Names : RouteStart(c, o, i, n)
  \/ \E p \in Ports : ListenTCP(c, p)
  \/ \E i \in RouteIds : RouteStop(c, i)
  \/ ListenFails(c) \/ RegisterRoute(c) \/ SpawnRoute(c) \/ RouteStopReleases(c)

Runs(o) == AcceptEnds(o) \/ AcceptFails(o) \/ RemoveServerRoute(o) \/ RouteReleasesPort(o) \/ RouteEnds(o)

LEMMA RxFree ==
  ASSUME RegType, NEW c \in Conns, RxNext(c) \/ RxAnswered(c) \/ RxGoto(c, "ended", None)
                                   \/ \E t \in Tokens : RxGoto(c, "token", t)
  PROVE  Free(c)
<1>1. PICK q \in {"recv", "token", "ended"}, x \in Tokens \cup {None} : RxGoto(c, q, x)
  BY DEF RxNext, RxAnswered
<1>2. rx' = [rx EXCEPT ![c] = [pc |-> q, o |-> x]]
  BY <1>1 DEF RxGoto
<1>3. [pc |-> q, o |-> x] \in [pc : RxPcs, o : Routes \cup Tokens \cup {None}]
  BY DEF RxPcs
<1> QED
  BY <1>2, <1>3 DEF RegType, Free

LEMMA WgDone ==
  ASSUME RegType, NEW c \in Conns, RouteWgDone(c)
  PROVE  HandlerLater
BY DEF RegType, RouteWgDone, HandlerLater

LEMMA SameHandler ==
  ASSUME RegType, handler' = handler
  PROVE  HandlerLater
BY DEF RegType, HandlerLater

\* The steps of a connection.
LEMMA ConnSteps ==
  ASSUME RegType, RxInv, NEW c \in Conns,
         Handler(c) \/ Waiter(c) \/ ReqStopRoutes(c) \/ Receiver(c) \/ Calls(c)
  PROVE  Quiet \/ Receives(c) \/ Asks \/ Works(c)
<1> USE DEF tables, tasks, reg
<1>1. CASE AddNewServerConn(c)
  <2>1. CASE UNCHANGED rx
    BY <1>1, <2>1, Zenon DEF AddNewServerConn, Quiet, HandlerLater, RegType
  <2>2. CASE rx' = [rx EXCEPT ![c].pc = "recv"] /\ handler' = [handler EXCEPT ![c] = "running"]
    <3>1. rx[c].pc = "none"
      BY <1>1 DEF AddNewServerConn, RxInv, RxAt
    <3>2. Free(c)
      BY <2>2 DEF Free, RegType, RxPcs
    <3>3. HandlerLater /\ handler'[c] = "running"
      BY <2>2 DEF HandlerLater, RegType
    <3> QED
      BY <1>1, <3>1, <3>2, <3>3 DEF AddNewServerConn, Receives
  <2> QED
    BY <1>1, <2>1, <2>2 DEF AddNewServerConn
<1>2. CASE HandlerReturns(c) \/ PacketStream(c)
  BY <1>2, Zenon DEF HandlerReturns, PacketStream, Quiet, HandlerLater, RegType
<1>3. CASE Waiter(c)
  BY <1>3, WgDone, SameHandler DEF Waiter, Quiet
<1>4. CASE ReqStopRoutes(c)
  BY <1>4 DEF ReqStopRoutes, Asks
<1>5. CASE RxFails(c) \/ SetToken(c) \/ \E t \in Tokens : ConnDesc(c, t)
  <2>1. rx[c].pc \in {"recv", "token"} /\ UNCHANGED <<handler, reg>> /\ Free(c)
    BY <1>5, RxFree DEF RxFails, SetToken, ConnDesc
  <2>2. handler'[c] \notin {"none", "admitted"}
    BY <2>1 DEF RxInv, RxAt
  <2> QED
    BY <2>1, <2>2, SameHandler, Zenon DEF Receives
<1> QED
  BY <1>1, <1>2, <1>3, <1>4, <1>5 DEF Handler, Receiver, Calls, Works

LEMMA Steps ==
  ASSUME RegType, RxInv, [Next]_vars
  PROVE  Quiet \/ Asks \/ (\E c \in Conns : Receives(c) \/ Works(c)) \/ \E o \in Routes : Runs(o)
<1> USE DEF tables, tasks, reg
<1>1. CASE UNCHANGED vars
  BY <1>1, SameHandler DEF vars, Quiet
<1>2. ASSUME NEW l \in Lookups, LookupTask(l)
      PROVE  Quiet \/ Asks
  BY <1>2, SameHandler DEF LookupTask, LookupConn, LookupRoute, DeleteRoute, Quiet, Asks
<1>3. ASSUME NEW a \in Addrs, ConnEnd(a) \/ BreakLink(a)
      PROVE  Quiet
  BY <1>3, SameHandler DEF ConnEnd, BreakLink, Quiet
<1>4. CASE ServerTask \/ ServerReqStop
  BY <1>4, SameHandler DEF ServerTask, ServerReqStop, ServerSnapshot, ServerStopsConn, ServerEnds, Quiet
<1>5. ASSUME NEW c \in Conns, ConnDescRefused(c)
      PROVE  Receives(c)
  <2>1. rx[c].pc = "recv" /\ UNCHANGED <<handler, reg>> /\ Free(c)
    BY <1>5, RxFree DEF ConnDescRefused
  <2>2. handler'[c] \notin {"none", "admitted"}
    BY <2>1 DEF RxInv, RxAt
  <2> QED
    BY <2>1, <2>2, SameHandler DEF Receives
<1>6. ASSUME NEW c \in Conns, DeleteRoutes(c) \/ DeleteConn(c)
      PROVE  Quiet \/ Asks
  BY <1>6, SameHandler DEF DeleteRoutes, DeleteConn, Quiet, Asks
<1>7. ASSUME NEW l \in Lookups, NEW kind, NEW cri, LookupStart(l, kind, cri)
      PROVE  Quiet
  BY <1>7, SameHandler DEF LookupStart, Quiet
<1>8. CASE Disturbance
  BY <1>3, <1>4, <1>5, <1>6, <1>7, <1>8, Zenon DEF Disturbance, Works, Runs
<1> QED
  BY <1>1, <1>2, <1>3, <1>4, <1>8, ConnSteps DEF Next, RouteTask, Runs

-----------------------------------------------------------------------------
(* Each kind of step keeps IInv.                                            *)

LEMMA HeldKnown ==
  ASSUME RegType, RxInv, TableInv, RouteInv, NEW o \in Routes, HoldsPort(o)
  PROVE  Known(o)
<1>1. CASE InTable(o)
  <2>1. route[o].cts \in Conns /\ route[o].id \in RouteIds /\ o # None
    BY <1>1, NoneAssumption DEF InTable, RegType, RouteRec, RouteInv
  <2>2. route[o].pc \in {"made", "accept", "join"}
    BY <1>1, <2>1 DEF InTable, TableInv
  <2> QED
    BY <2>2 DEF RouteInv
<1>2. CASE route[o].pc = "unport"
  BY <1>2 DEF RouteInv
<1>3. CASE \E c \in Conns : rx[c].pc = "unport" /\ rx[c].o = o
  BY <1>3 DEF RxInv, RxAt, Removed
<1> QED
  BY <1>1, <1>2, <1>3 DEF HoldsPort

\* A route that the step moves on at most by asking it to stop.
SamePlace(o) ==
  /\ SameRoute(o) /\ route'[o].pc = route[o].pc
  /\ route[o].stop_req => route'[o].stop_req

RouteType == route \in [Routes -> RouteRec]

\* No receiver moves, and the routes they have at hand stay what they were.
LEMMA SameReceivers ==
  ASSUME RxInv, rx' = rx, HandlerLater,
         \A d \in Routes : route[d].pc \in {"listening", "made"} => SameRoute(d) /\ route'[d].pc = route[d].pc,
         \A c \in Conns, d \in Routes : (Making(c, d) => Making(c, d)') /\ (Removed(c, d) => Removed(c, d)')
  PROVE  RxInv'
<1>1. ASSUME NEW c \in Conns
      PROVE  RxAt(c)'
  <2>1. RxAt(c) /\ (handler'[c] \in {"none", "admitted"} => handler[c] \in {"none", "admitted"})
    BY Zenon DEF RxInv, HandlerLater
  <2>2. rx[c].pc \in {"listen", "register"} => rx[c].o \in Routes /\ Making(c, rx[c].o) /\ route[rx[c].o].pc = "listening"
    BY <2>1 DEF RxAt, Making
  <2>3. rx[c].pc \in {"listen", "register"} => Making(c, rx[c].o)'
    BY <2>2
  <2>4. rx[c].pc = "register" => route'[rx[c].o].port \in Ports
    BY <2>1, <2>2 DEF RxAt, SameRoute
  <2>5. rx[c].pc = "spawn" => rx[c].o \in Routes /\ route'[rx[c].o].pc = "made" /\ route'[rx[c].o].cts = c
    BY <2>1 DEF RxAt, SameRoute
  <2>6. rx[c].pc = "unport" => rx[c].o \in Routes /\ Removed(c, rx[c].o)
    BY <2>1 DEF RxAt, Removed
  <2>7. rx[c].pc = "unport" => Removed(c, rx[c].o)'
    BY <2>6
  <2> QED
    BY <2>1, <2>3, <2>4, <2>5, <2>7 DEF RxAt
<1> QED
  BY <1>1 DEF RxInv

LEMMA NothingMoves ==
  ASSUME IInv, UNCHANGED <<rx, route_map, svc_port_map>>, HandlerLater, RouteType',
         \A o \in Routes : SamePlace(o)
  PROVE  IInv'
<1> USE DEF IInv, SamePlace, SameRoute
<1>1. \A o \in Routes : (InTable(o)' <=> InTable(o)) /\ (Known(o)' <=> Known(o))
  BY DEF InTable, Known
<1>2. \A o \in Routes : HoldsPort(o)' <=> HoldsPort(o)
  BY <1>1 DEF HoldsPort
<1>3. RegType'
  BY DEF RegType, RouteType, HandlerLater
<1>4. \A c \in Conns, o \in Routes : (Making(c, o) => Making(c, o)') /\ (Removed(c, o) => Removed(c, o)')
  BY <1>1 DEF Making, Removed
<1>5. RxInv'
  BY <1>4, SameReceivers
<1>6. TableInv' /\ RouteInv'
  BY <1>1, NoneAssumption DEF TableInv, RouteInv, RegType, RouteRec
<1>7. PortsOwned'
  BY <1>2, PortsKept
<1>8. OpenRouteReachable'
  BY <1>2 DEF OpenRouteReachable
<1> QED
  BY <1>3, <1>5, <1>6, <1>7, <1>8

LEMMA QuietKeeps ==
  ASSUME IInv, Quiet
  PROVE  IInv'
<1>1. \A o \in Routes : SamePlace(o)
  BY DEF Quiet, reg, SamePlace, SameRoute
<1> QED
  BY <1>1, NothingMoves DEF Quiet, reg, RouteType, IInv, RegType

LEMMA AsksKeeps ==
  ASSUME IInv, Asks
  PROVE  IInv'
<1>1. PICK S : StopRoutes(S)
  BY DEF Asks
<1>2. \A o \in Routes : route'[o] = IF o \in S THEN [route[o] EXCEPT !.stop_req = TRUE] ELSE route[o]
  BY <1>1 DEF StopRoutes
<1>3. \A o \in Routes : SamePlace(o)
  BY <1>2, Zenon DEF SamePlace, SameRoute, IInv, RegType, RouteRec
<1>4. RouteType'
  <2>1. \A o \in Routes : [route[o] EXCEPT !.stop_req = TRUE] \in RouteRec /\ route[o] \in RouteRec
    BY ZenonT(60) DEF IInv, RegType, RouteRec
  <2> QED
    BY <1>1, <2>1 DEF StopRoutes, RouteType
<1> QED
  BY <1>3, <1>4, NothingMoves, SameHandler DEF Asks, IInv

LEMMA ReceivesKeeps ==
  ASSUME IInv, NEW c \in Conns, Receives(c)
  PROVE  IInv'
<1> USE DEF IInv, reg
<1>1. /\ UNCHANGED reg /\ HandlerLater /\ rx'[c].pc \in {"recv", "token", "ended"}
      /\ rx[c].pc \in {"none", "recv", "token"} /\ handler'[c] \notin {"none", "admitted"}
      /\ \A d \in Conns : d # c => rx'[d] = rx[d]
  BY DEF Receives, Free
<1>2. \A o \in Routes : (InTable(o)' <=> InTable(o)) /\ (Known(o)' <=> Known(o))
  BY <1>1 DEF InTable, Known
<1>3. \A o \in Routes : HoldsPort(o)' <=> HoldsPort(o)
  BY <1>1, <1>2 DEF HoldsPort
<1>4. RegType' /\ TableInv' /\ RouteInv'
  BY <1>1, <1>2, SMTT(60) DEF RegType, TableInv, RouteInv, HandlerLater, Receives, Free
<1>5. RxInv'
  BY <1>1, <1>2 DEF RxInv, RxAt, HandlerLater, Making, Removed
<1>6. PortsOwned'
  BY <1>1, <1>3, PortsKept DEF SameRoute
<1>7. OpenRouteReachable'
  BY <1>1, <1>3 DEF OpenRouteReachable
<1> QED
  BY <1>4, <1>5, <1>6, <1>7

\* The task of a route goes on, with nothing of the tables changed.
Moves(o) ==
  /\ UNCHANGED <<rx, route_map, svc_port_map>> /\ HandlerLater /\ RouteType' /\ SameRoute(o)
  /\ \A d \in Routes : d # o => route'[d] = route[d]
  /\ \/ route[o].pc = "accept" /\ route'[o].pc = "join" /\ route'[o].stop_req
     \/ route[o].pc = "join" /\ route'[o].pc = "unlist" /\ ~InTable(o)
     \/ route[o].pc = "unlist" /\ route'[o].pc = "gone"

LEMMA MovesKeeps ==
  ASSUME IInv, NEW o \in Routes, Moves(o)
  PROVE  IInv'
<1> USE DEF IInv
<1>1. \A d \in Routes : SameRoute(d)
  BY DEF Moves, SameRoute
<1>2. \A d \in Routes : (InTable(d)' <=> InTable(d)) /\ (Known(d)' <=> Known(d))
  BY <1>1 DEF Moves, InTable, Known, SameRoute
<1>3. \A d \in Routes : HoldsPort(d)' <=> HoldsPort(d)
  BY <1>2 DEF Moves, HoldsPort
<1>4. RegType'
  BY DEF RegType, RouteType, HandlerLater, Moves
<1>5. \A d \in Routes : route[d].pc \in {"listening", "made"} => route'[d] = route[d]
  BY Zenon DEF Moves
<1>6. \A c \in Conns, d \in Routes : (Making(c, d) => Making(c, d)') /\ (Removed(c, d) => Removed(c, d)')
  <2>1. \A d \in Routes : route[d].pc \in {"made", "accept", "join", "unlist", "gone"} =>
                          route'[d].pc \in {"made", "accept", "join", "unlist", "gone"}
    BY DEF Moves
  <2> QED
    BY <1>1, <1>2, <1>5, <2>1 DEF Making, Removed, Moves, SameRoute
<1>7. RxInv'
  BY <1>1, <1>5, <1>6, SameReceivers DEF Moves
<1>8. TableInv'
  <2>1. ASSUME NEW c \in Conns, NEW i \in RouteIds, route_map[c][i] # None
        PROVE  /\ route'[route_map[c][i]].cts = c /\ route'[route_map[c][i]].id = i
               /\ route'[route_map[c][i]].pc \in {"made", "accept", "join"}
    <3>1. PICK d \in Routes : d = route_map[c][i]
      BY <2>1 DEF RegType
    <3>2. route[d].cts = c /\ route[d].id = i /\ route[d].pc \in {"made", "accept", "join"} /\ InTable(d)
      BY <2>1, <3>1, NoneAssumption DEF TableInv, InTable
    <3> QED
      BY <1>1, <3>1, <3>2 DEF Moves, SameRoute
  <2> QED
    BY <2>1 DEF TableInv, Moves
<1>9. RouteInv'
  <2>1. \A d \in Routes : route'[d].pc \in {"made", "accept", "join", "unport", "unlist"} =>
                          route[d].pc \in {"made", "accept", "join", "unport", "unlist"}
    BY DEF Moves
  <2>2. \A d \in Routes : route'[d].pc = "unport" => route[d].pc = "unport"
    BY DEF Moves
  <2> QED
    BY <1>1, <1>2, <2>1, <2>2 DEF RouteInv, SameRoute
<1>10. PortsOwned'
  BY <1>1, <1>3, PortsKept DEF Moves
<1>11. OpenRouteReachable'
  BY <1>3 DEF OpenRouteReachable, Moves
<1> QED
  BY <1>4, <1>7, <1>8, <1>9, <1>10, <1>11

LEMMA PcSet ==
  ASSUME RegType, NEW o \in Routes, NEW q \in RoutePcs, route' = [route EXCEPT ![o].pc = q]
  PROVE  /\ RouteType' /\ SameRoute(o) /\ route'[o].pc = q /\ route'[o].stop_req = route[o].stop_req
         /\ \A d \in Routes : d # o => route'[d] = route[d]
BY ZenonT(60) DEF RegType, RouteType, RouteRec, SameRoute

LEMMA TaskMoves ==
  ASSUME IInv, NEW o \in Routes,
         \/ AcceptEnds(o) \/ AcceptFails(o) \/ RouteEnds(o)
         \/ RemoveServerRoute(o) /\ route_map[route[o].cts][route[o].id] # o
  PROVE  Moves(o)
<1> USE DEF tables, tasks
<1>1. UNCHANGED <<rx, route_map, svc_port_map>>
  BY DEF AcceptEnds, AcceptFails, RouteEnds, RemoveServerRoute
<1>2. HandlerLater
  <2>1. CASE RouteEnds(o)
    <3>1. route[o].cts \in Conns
      BY <2>1 DEF RouteEnds, IInv, RouteInv, Known
    <3> QED
      BY <2>1, <3>1, WgDone DEF RouteEnds, IInv
  <2>2. CASE UNCHANGED handler
    BY <2>2, SameHandler DEF IInv
  <2> QED
    BY <2>1, <2>2 DEF AcceptEnds, AcceptFails, RemoveServerRoute
<1>3. CASE AcceptEnds(o)
  <2>1. route' = [route EXCEPT ![o].pc = "join"] /\ "join" \in RoutePcs /\ route[o].stop_req
    BY <1>3 DEF AcceptEnds, RoutePcs
  <2> QED
    BY <1>1, <1>2, <1>3, <2>1, PcSet, Zenon DEF Moves, AcceptEnds, IInv
<1>4. CASE AcceptFails(o)
  BY <1>1, <1>2, <1>4 DEF Moves, AcceptFails, RoutePcs, IInv, RegType, RouteRec, RouteType, SameRoute
<1>5. CASE RouteEnds(o)
  <2>1. route' = [route EXCEPT ![o].pc = "gone"] /\ "gone" \in RoutePcs
    BY <1>5 DEF RouteEnds, RoutePcs
  <2> QED
    BY <1>1, <1>2, <1>5, <2>1, PcSet, Zenon DEF Moves, RouteEnds, IInv
<1>6. CASE RemoveServerRoute(o) /\ route_map[route[o].cts][route[o].id] # o
  <2>1. route' = [route EXCEPT ![o].pc = "unlist"] /\ "unlist" \in RoutePcs /\ ~InTable(o)
    BY <1>6 DEF RemoveServerRoute, InTable, RoutePcs
  <2> QED
    BY <1>1, <1>2, <1>6, <2>1, PcSet, Zenon DEF Moves, RemoveServerRoute, IInv
<1> QED
  BY <1>3, <1>4, <1>5, <1>6

\* A route leaves the table of its connection.
Unmapped(o) ==
  /\ route_map' = [route_map EXCEPT ![route[o].cts][route[o].id] = None]
  /\ svc_port_map' = svc_port_map

LEMMA OthersStay ==
  ASSUME IInv, NEW o \in Routes, InTable(o), Unmapped(o), \A d \in Routes : SameRoute(d)
  PROVE  /\ route_map' \in [Conns -> [RouteIds -> Routes \cup {None}]]
         /\ \A d \in Routes : InTable(d)' <=> InTable(d) /\ d # o
         /\ \A c \in Conns, i \in RouteIds :
              \/ route_map'[c][i] = None
              \/ route_map'[c][i] = route_map[c][i] /\ route_map[c][i] # o
<1>1. route[o].cts \in Conns /\ route[o].id \in RouteIds /\ route_map[route[o].cts][route[o].id] = o
  BY NoneAssumption DEF IInv, InTable, RegType, RouteRec, RouteInv
<1>2. route_map' \in [Conns -> [RouteIds -> Routes \cup {None}]]
  BY <1>1 DEF IInv, RegType, Unmapped
<1>3. \A c \in Conns, i \in RouteIds :
        route_map'[c][i] = IF c = route[o].cts /\ i = route[o].id THEN None ELSE route_map[c][i]
  BY <1>1 DEF IInv, RegType, Unmapped
<1>4. \A c \in Conns, i \in RouteIds : route_map[c][i] = o => c = route[o].cts /\ i = route[o].id
  BY NoneAssumption DEF IInv, TableInv
<1>5. \A d \in Routes : route[d].cts # None => route[d].cts \in Conns /\ route[d].id \in RouteIds
  BY DEF IInv, RegType, RouteRec, RouteInv
<1>6. \A d \in Routes : InTable(d)' <=> InTable(d) /\ d # o
  BY <1>1, <1>3, <1>4, <1>5, NoneAssumption DEF InTable, SameRoute
<1> QED
  BY <1>2, <1>3, <1>4, <1>6

LEMMA RemoveKeeps ==
  ASSUME IInv, NEW o \in Routes, RemoveServerRoute(o), route_map[route[o].cts][route[o].id] = o
  PROVE  IInv'
<1> USE DEF tasks
<1>1. route' = [route EXCEPT ![o].pc = "unport"] /\ Unmapped(o) /\ UNCHANGED <<rx, handler>> /\ route[o].pc = "join"
  BY SMTT(60) DEF RemoveServerRoute, RemoveFromTable, Unmapped
<1>2. /\ RouteType' /\ SameRoute(o) /\ route'[o].pc = "unport"
      /\ \A d \in Routes : d # o => route'[d] = route[d]
  BY <1>1, PcSet, Zenon DEF IInv, RoutePcs
<1>3. InTable(o) /\ \A d \in Routes : SameRoute(d)
  BY <1>1, <1>2, NoneAssumption DEF InTable, SameRoute, IInv, RouteInv, Known
<1>4. /\ route_map' \in [Conns -> [RouteIds -> Routes \cup {None}]]
      /\ \A d \in Routes : InTable(d)' <=> InTable(d) /\ d # o
      /\ \A c \in Conns, i \in RouteIds :
           \/ route_map'[c][i] = None
           \/ route_map'[c][i] = route_map[c][i] /\ route_map[c][i] # o
  BY <1>1, <1>3, OthersStay
<1>5. RegType'
  BY <1>1, <1>2, <1>4 DEF RegType, RouteType, IInv, Unmapped
<1>6. \A d \in Routes : HoldsPort(d)' <=> HoldsPort(d)
  BY <1>1, <1>2, <1>3, <1>4 DEF HoldsPort
<1>7. \A c \in Conns, d \in Routes : Making(c, d) => d # o /\ Making(c, d)'
  BY <1>1, <1>2, <1>4, SMTT(60) DEF Making
<1>8. \A c \in Conns, d \in Routes : Removed(c, d) => d # o /\ Removed(c, d)'
  BY <1>2, <1>3, <1>4 DEF Removed, Known
<1>9. RxInv'
  <2>1. \A d \in Routes : route[d].pc \in {"listening", "made"} => SameRoute(d) /\ route'[d].pc = route[d].pc
    BY <1>1, <1>2, <1>3, Zenon
  <2> QED
    BY <1>1, <1>7, <1>8, <2>1, SameReceivers, SameHandler DEF IInv
<1>10. TableInv'
  BY <1>2, <1>4 DEF IInv, TableInv, RegType
<1>11. RouteInv'
  BY <1>1, <1>2, <1>3, <1>4 DEF IInv, RouteInv, Known, SameRoute
<1>12. PortsOwned'
  BY <1>1, <1>3, <1>6, PortsKept, SMTT(60) DEF IInv, Unmapped
<1>13. OpenRouteReachable'
  BY <1>2, <1>6 DEF IInv, OpenRouteReachable
<1> QED
  BY <1>5, <1>9, <1>10, <1>11, <1>12, <1>13 DEF IInv

LEMMA ReleaseKeeps ==
  ASSUME IInv, NEW o \in Routes, RouteReleasesPort(o)
  PROVE  IInv'
<1> USE DEF tasks
<1>1. /\ route' = [route EXCEPT ![o].pc = "unlist"] /\ UNCHANGED <<rx, handler, route_map>> /\ route[o].pc = "unport"
      /\ svc_port_map' = [svc_port_map EXCEPT ![route[o].port] = None]
  BY SMTT(60) DEF RouteReleasesPort, ReleasePort
<1>2. /\ RouteType' /\ SameRoute(o) /\ route'[o].pc = "unlist"
      /\ \A d \in Routes : d # o => route'[d] = route[d]
  BY <1>1, PcSet, Zenon DEF IInv, RoutePcs
<1>3. \A d \in Routes : SameRoute(d)
  BY <1>2 DEF SameRoute
<1>4. \A d \in Routes : (InTable(d)' <=> InTable(d)) /\ (Known(d)' <=> Known(d))
  BY <1>1, <1>3 DEF InTable, Known, SameRoute
<1>5. ~InTable(o) /\ HoldsPort(o) /\ \A c \in Conns : ~(rx[c].pc = "unport" /\ rx[c].o = o)
  BY <1>1 DEF IInv, RouteInv, HoldsPort, RxInv, RxAt, Removed
<1>6. \A d \in Routes : HoldsPort(d)' <=> HoldsPort(d) /\ d # o
  BY <1>1, <1>2, <1>4, <1>5 DEF HoldsPort
<1>7. RegType'
  BY <1>1, <1>2, Zenon DEF RegType, RouteType, IInv
<1>8. \A c \in Conns, d \in Routes : (Making(c, d) => d # o /\ Making(c, d)') /\ (Removed(c, d) => d # o /\ Removed(c, d)')
  BY <1>1, <1>2, <1>4 DEF Making, Removed
<1>9. RxInv'
  <2>1. \A d \in Routes : route[d].pc \in {"listening", "made"} => SameRoute(d) /\ route'[d].pc = route[d].pc
    BY <1>1, <1>2, <1>3
  <2> QED
    BY <1>1, <1>8, <2>1, SameReceivers, SameHandler DEF IInv
<1>10. TableInv'
  BY <1>1, <1>2 DEF IInv, TableInv, RegType
<1>11. RouteInv'
  BY <1>1, <1>2, <1>3, <1>4 DEF IInv, RouteInv, SameRoute
<1>12. PortsOwned'
  BY <1>1, <1>3, <1>5, <1>6, PortFreed, Zenon DEF IInv
<1>13. OpenRouteReachable'
  BY <1>2, <1>6 DEF IInv, OpenRouteReachable
<1> QED
  BY <1>7, <1>9, <1>10, <1>11, <1>12, <1>13 DEF IInv

-----------------------------------------------------------------------------
(* The steps of the receiver that have a route at hand.                     *)

\* The receiver of one connection moves, and no handler does.
OnlyRx(c) ==
  /\ rx' \in [Conns -> [pc : RxPcs, o : Routes \cup Tokens \cup {None}]]
  /\ \A d \in Conns : d # c => rx'[d] = rx[d]
  /\ handler' = handler /\ handler[c] \notin {"none", "admitted"}

LEMMA RxGoes ==
  ASSUME RegType, RxInv, NEW c \in Conns, rx[c].pc # "none", handler' = handler,
         NEW q \in RxPcs, NEW o \in Routes, RxGoto(c, q, o)
  PROVE  OnlyRx(c) /\ rx'[c].pc = q /\ rx'[c].o = o
BY DEF RegType, RxInv, RxAt, RxGoto, OnlyRx

LEMMA RxFrees ==
  ASSUME RegType, RxInv, NEW c \in Conns, rx[c].pc # "none", handler' = handler, Free(c)
  PROVE  OnlyRx(c) /\ rx'[c].pc \notin {"listen", "register", "spawn", "unport"}
BY DEF RxInv, RxAt, OnlyRx, Free

\* A step on a route of one connection is no concern of the other receivers.
LEMMA OtherReceivers ==
  ASSUME RxInv, NEW c \in Conns, OnlyRx(c), NEW o \in Routes, route[o].cts = c \/ route[o].pc = "none",
         \A d \in Routes : d # o => route'[d] = route[d],
         \A e \in Conns, d \in Routes : e # c /\ d # o /\ Making(e, d) => Making(e, d)',
         \A e \in Conns, d \in Routes : d # o /\ Removed(e, d) => Removed(e, d)',
         RxAt(c)'
  PROVE  RxInv'
<1>1. ASSUME NEW e \in Conns, e # c
      PROVE  RxAt(e)'
  <2>1. rx'[e] = rx[e] /\ handler' = handler /\ RxAt(e)
    BY <1>1, Zenon DEF RxInv, OnlyRx
  <2>2. rx[e].pc \in {"listen", "register", "spawn", "unport"} =>
          rx[e].o \in Routes /\ rx[e].o # o /\ route'[rx[e].o] = route[rx[e].o]
    BY <1>1, <2>1 DEF RxAt, Making, Removed
  <2>3. rx[e].pc \in {"listen", "register"} => Making(e, rx[e].o)'
    BY <2>1, <2>2, ZenonT(60) DEF RxAt
  <2>4. rx[e].pc = "unport" => Removed(e, rx[e].o)'
    BY <2>1, <2>2 DEF RxAt
  <2> QED
    BY <2>1, <2>2, <2>3, <2>4, ZenonT(60) DEF RxAt
<1> QED
  BY <1>1, Zenon DEF RxInv

LEMMA RouteStartKeeps ==
  ASSUME IInv, NEW c \in Conns, NEW o \in Routes, NEW i \in RouteIds, NEW n \in Names, RouteStart(c, o, i, n)
  PROVE  IInv'
<1> USE DEF tables, tasks
<1>1. UNCHANGED <<handler, route_map, svc_port_map>> /\ rx[c].pc = "recv" /\ route[o].pc = "none"
  BY DEF RouteStart
<1>2. CASE RxAnswered(c) /\ UNCHANGED route
  <2>1. Receives(c)
    BY <1>1, <1>2, RxFree, SameHandler, Zenon DEF Receives, reg, IInv, RxInv, RxAt
  <2> QED
    BY <2>1, ReceivesKeeps, ZenonT(60)
<1>3. CASE ~(RxAnswered(c) /\ UNCHANGED route)
  <2>1. /\ RxGoto(c, "listen", o) /\ route_map[c][i] = None
        /\ route' = [route EXCEPT ![o] = [NewRoute EXCEPT !.pc = "listening", !.cts = c, !.id = i, !.name = n]]
    BY <1>3 DEF RouteStart
  <2>2. OnlyRx(c) /\ rx'[c].pc = "listen" /\ rx'[c].o = o
    BY <1>1, <2>1, RxGoes DEF IInv, RxPcs
  <2>3. /\ RouteType' /\ route'[o].pc = "listening" /\ route'[o].cts = c /\ route'[o].id = i
        /\ \A d \in Routes : d # o => route'[d] = route[d]
    BY <2>1, Zenon DEF IInv, RegType, RouteRec, RouteType, RoutePcs, NewRoute
  <2>4. ~InTable(o) /\ ~HoldsPort(o)
    <3>1. ~InTable(o)
      BY <1>1, NoneAssumption DEF IInv, InTable, TableInv, RouteInv, RegType, RouteRec
    <3> QED
      BY <1>1, <3>1 DEF HoldsPort, IInv, RxInv, RxAt, Removed
  <2>5. ~InTable(o)' /\ \A d \in Routes : d # o => (InTable(d)' <=> InTable(d))
    BY <1>1, <2>1, <2>3, NoneAssumption DEF InTable
  <2>6. \A d \in Routes : HoldsPort(d)' <=> HoldsPort(d)
    BY <1>1, <2>2, <2>3, <2>4, <2>5 DEF HoldsPort, OnlyRx
  <2>7. \A d \in Routes : HoldsPort(d) => SameRoute(d)
    BY <2>3, <2>4, Zenon DEF SameRoute
  <2>8. RegType'
    BY <1>1, <2>2, <2>3 DEF IInv, RegType, RouteType, OnlyRx
  <2>9. Making(c, o)'
    BY <1>1, <2>1, <2>3, Zenon DEF Making
  <2>10. \A e \in Conns, d \in Routes : (Making(e, d) => d # o /\ Making(e, d)') /\ (Removed(e, d) => d # o /\ Removed(e, d)')
    BY <1>1, <2>3, <2>5, Zenon DEF Making, Removed, Known
  <2>11. RxInv'
    <3>1. RxAt(c)'
      BY <2>2, <2>9, Zenon DEF RxAt, OnlyRx
    <3> QED
      BY <1>1, <2>2, <2>3, <2>10, <3>1, OtherReceivers, Zenon DEF IInv
  <2>12. TableInv'
    BY <1>1, <2>3 DEF IInv, TableInv, RegType
  <2>13. RouteInv'
    BY <2>3, <2>5, Zenon DEF IInv, RouteInv, Known
  <2>14. PortsOwned'
    BY <1>1, <2>6, <2>7, PortsKept, Zenon DEF IInv
  <2>15. OpenRouteReachable'
    BY <2>3, <2>6 DEF IInv, OpenRouteReachable
  <2> QED
    BY <2>8, <2>11, <2>12, <2>13, <2>14, <2>15 DEF IInv
<1> QED
  BY <1>2, <1>3

LEMMA PortSet ==
  ASSUME RegType, NEW o \in Routes, NEW p \in Ports, route' = [route EXCEPT ![o].port = p]
  PROVE  /\ RouteType' /\ route'[o].pc = route[o].pc /\ route'[o].cts = route[o].cts /\ route'[o].id = route[o].id
         /\ route'[o].port = p /\ \A d \in Routes : d # o => route'[d] = route[d]
BY ZenonT(60) DEF RegType, RouteType, RouteRec

LEMMA ListenKeeps ==
  ASSUME IInv, NEW c \in Conns, NEW p \in Ports, ListenTCP(c, p)
  PROVE  IInv'
<1> USE DEF tables, tasks
<1>1. /\ UNCHANGED <<handler, route_map, svc_port_map>> /\ rx[c].pc = "listen"
      /\ route' = [route EXCEPT ![rx[c].o].port = p] /\ RxGoto(c, "register", rx[c].o)
  BY DEF ListenTCP
<1>2. PICK o \in Routes : o = rx[c].o /\ Making(c, o)
  BY <1>1 DEF IInv, RxInv, RxAt, Making
<1>3. OnlyRx(c) /\ rx'[c].pc = "register" /\ rx'[c].o = o
  BY <1>1, <1>2, RxGoes DEF IInv, RxPcs
<1>4. /\ RouteType' /\ route'[o].pc = "listening" /\ route'[o].cts = c /\ route'[o].id = route[o].id
      /\ route'[o].port = p /\ \A d \in Routes : d # o => route'[d] = route[d]
  BY <1>1, <1>2, PortSet, Zenon DEF IInv, Making
<1>5. ~InTable(o) /\ ~HoldsPort(o)
  <2>1. ~InTable(o)
    BY <1>2, NoneAssumption, Zenon DEF InTable, Making
  <2> QED
    BY <1>2, <2>1 DEF HoldsPort, IInv, RxInv, RxAt, Removed, Making
<1>6. \A d \in Routes : InTable(d)' <=> InTable(d)
  BY <1>1, <1>2, <1>4 DEF InTable, Making
<1>7. \A d \in Routes : HoldsPort(d)' <=> HoldsPort(d)
  BY <1>1, <1>2, <1>3, <1>4, <1>5, <1>6 DEF HoldsPort, OnlyRx
<1>8. RegType'
  BY <1>1, <1>3, <1>4, Zenon DEF IInv, RegType, RouteType, OnlyRx
<1>9. \A e \in Conns, d \in Routes : (Making(e, d) => Making(e, d)') /\ (Removed(e, d) => d # o /\ Removed(e, d)')
  BY <1>1, <1>2, <1>4, <1>6 DEF Making, Removed, Known
<1>11. RxInv'
  <2>1. Making(c, o)' /\ route[o].cts = c
    BY <1>2, <1>9, Zenon DEF Making
  <2>2. RxAt(c)'
    BY <1>3, <1>4, <2>1, Zenon DEF RxAt, OnlyRx
  <2> QED
    BY <1>3, <1>4, <1>9, <2>1, <2>2, OtherReceivers, Zenon DEF IInv
<1>12. TableInv' /\ RouteInv'
  BY <1>1, <1>2, <1>4, <1>6 DEF IInv, TableInv, RouteInv, RegType, Known, Making
<1>13. PortsOwned'
  BY <1>1, <1>4, <1>5, <1>7, PortsKept, Zenon DEF IInv, SameRoute
<1>14. OpenRouteReachable'
  BY <1>4, <1>7 DEF IInv, OpenRouteReachable
<1> QED
  BY <1>8, <1>11, <1>12, <1>13, <1>14 DEF IInv

\* A route that is not made after all.
LEMMA DropKeeps ==
  ASSUME IInv, NEW c \in Conns, rx[c].pc \in {"listen", "register"}, RxAnswered(c),
         route' = [route EXCEPT ![rx[c].o].pc = "gone"], UNCHANGED <<handler, route_map, svc_port_map>>
  PROVE  IInv'
<1>1. PICK o \in Routes : o = rx[c].o /\ Making(c, o)
  BY DEF IInv, RxInv, RxAt, Making
<1>2. OnlyRx(c) /\ rx'[c].pc \notin {"listen", "register", "spawn", "unport"}
  BY RxFree, RxFrees DEF IInv
<1>3. RouteType' /\ SameRoute(o) /\ route'[o].pc = "gone" /\ \A d \in Routes : d # o => route'[d] = route[d]
  BY <1>1, PcSet, Zenon DEF IInv, RoutePcs
<1>4. \A d \in Routes : SameRoute(d)
  BY <1>3, Zenon DEF SameRoute
<1>5. \A d \in Routes : InTable(d)' <=> InTable(d)
  BY <1>4 DEF InTable, SameRoute
<1>6. ~InTable(o) /\ ~HoldsPort(o)
  <2>1. ~InTable(o)
    BY <1>1, NoneAssumption DEF InTable, Making
  <2> QED
    BY <1>1, <2>1 DEF HoldsPort, IInv, RxInv, RxAt, Removed, Making
<1>7. \A d \in Routes : HoldsPort(d)' <=> HoldsPort(d)
  BY <1>2, <1>3, <1>5, <1>6, ZenonT(60) DEF HoldsPort, OnlyRx
<1>8. RegType'
  BY <1>2, <1>3 DEF IInv, RegType, RouteType, OnlyRx
<1>9. \A e \in Conns, d \in Routes : d # o => (Making(e, d) => Making(e, d)') /\ (Removed(e, d) => Removed(e, d)')
  BY <1>3, <1>5, Zenon DEF Making, Removed, Known
<1>10. RxInv'
  <2>1. RxAt(c)' /\ route[o].cts = c
    BY <1>1, <1>2 DEF RxAt, OnlyRx, Making
  <2> QED
    BY <1>2, <1>3, <1>9, <2>1, OtherReceivers DEF IInv
<1>11. TableInv'
  BY <1>1, <1>3 DEF IInv, TableInv, RegType, Making
<1>12. RouteInv'
  BY <1>3, <1>4, <1>5 DEF IInv, RouteInv, Known, SameRoute
<1>13. PortsOwned'
  BY <1>4, <1>7, PortsKept DEF IInv
<1>14. OpenRouteReachable'
  BY <1>3, <1>7 DEF IInv, OpenRouteReachable
<1> QED
  BY <1>8, <1>10, <1>11, <1>12, <1>13, <1>14 DEF IInv

LEMMA RegisterKeeps ==
  ASSUME IInv, NEW c \in Conns, RegisterRoute(c)
  PROVE  IInv'
<1> USE DEF tables, tasks
<1>1. rx[c].pc = "register" /\ UNCHANGED handler
  BY DEF RegisterRoute
<1>2. CASE svc_port_map[route[rx[c].o].port] # None
  BY <1>1, <1>2, DropKeeps DEF RegisterRoute
<1>3. CASE svc_port_map[route[rx[c].o].port] = None
  <2>1. PICK o \in Routes : o = rx[c].o /\ Making(c, o) /\ route[o].port \in Ports
    BY <1>1, Zenon DEF IInv, RxInv, RxAt, Making
  <2>2. /\ route' = [route EXCEPT ![o].pc = "made"] /\ RxGoto(c, "spawn", o)
        /\ svc_port_map' = [svc_port_map EXCEPT ![route[o].port] = <<c, route[o].id>>]
        /\ route_map' = [route_map EXCEPT ![c][route[o].id] = o]
    BY <1>3, <2>1 DEF RegisterRoute
  <2>3. OnlyRx(c) /\ rx'[c].pc = "spawn" /\ rx'[c].o = o
    BY <1>1, <2>2, RxGoes, SMTT(60) DEF IInv, RxPcs
  <2>4. RouteType' /\ SameRoute(o) /\ route'[o].pc = "made" /\ \A d \in Routes : d # o => route'[d] = route[d]
    BY <2>2, PcSet, Zenon DEF IInv, RoutePcs
  <2>5. \A d \in Routes : SameRoute(d)
    BY <2>4 DEF SameRoute
  <2>6. /\ route_map' \in [Conns -> [RouteIds -> Routes \cup {None}]]
        /\ \A e \in Conns, i \in RouteIds :
             route_map'[e][i] = IF e = c /\ i = route[o].id THEN o ELSE route_map[e][i]
    BY <2>1, <2>2, ZenonT(60) DEF IInv, RegType, Making
  <2>7. ~InTable(o) /\ ~HoldsPort(o)
    <3>1. ~InTable(o)
      BY <2>1, NoneAssumption DEF InTable, Making
    <3> QED
      BY <2>1, <3>1 DEF HoldsPort, IInv, RxInv, RxAt, Removed, Making
  <2>8. InTable(o)' /\ \A d \in Routes : d # o => (InTable(d)' <=> InTable(d))
    <3>1. \A d \in Routes : route[d].cts # None => route[d].cts \in Conns /\ route[d].id \in RouteIds
      BY Zenon DEF IInv, RegType, RouteRec, RouteInv
    <3>2. InTable(o)'
      BY <2>1, <2>5, <2>6, NoneAssumption DEF InTable, SameRoute, Making
    <3>3. ASSUME NEW d \in Routes, d # o
          PROVE  InTable(d)' <=> InTable(d)
      BY <2>1, <2>5, <2>6, <3>1, <3>3, NoneAssumption DEF InTable, SameRoute, Making
    <3> QED
      BY <3>2, <3>3
  <2>9. \A d \in Routes : HoldsPort(d)' <=> HoldsPort(d) \/ d = o
    BY <1>1, <2>3, <2>4, <2>8, SMTT(60) DEF HoldsPort, OnlyRx
  <2>10. RegType'
    BY <1>1, <2>1, <2>2, <2>3, <2>4, <2>6 DEF IInv, RegType, RouteType, OnlyRx, Making
  <2>11. \A e \in Conns, d \in Routes : d # o /\ Removed(e, d) => Removed(e, d)'
    BY <2>4, <2>8 DEF Removed, Known
  <2>12. \A e \in Conns, d \in Routes : e # c /\ d # o /\ Making(e, d) => Making(e, d)'
    BY <2>4, <2>6 DEF Making
  <2>13. RxInv'
    <3>1. RxAt(c)' /\ route[o].cts = c
      BY <1>1, <2>1, <2>3, <2>4, <2>5 DEF RxAt, OnlyRx, Making, SameRoute
    <3> QED
      BY <2>3, <2>4, <2>11, <2>12, <3>1, OtherReceivers, Zenon DEF IInv
  <2>14. TableInv'
    <3>1. ASSUME NEW e \in Conns, NEW i \in RouteIds, route_map'[e][i] # None
          PROVE  /\ route'[route_map'[e][i]].cts = e /\ route'[route_map'[e][i]].id = i
                 /\ route'[route_map'[e][i]].pc \in {"made", "accept", "join"}
      <4>1. CASE e = c /\ i = route[o].id
        BY <2>1, <2>4, <2>6, <4>1, Zenon DEF SameRoute, Making
      <4>2. CASE ~(e = c /\ i = route[o].id)
        <5>1. PICK d \in Routes : d = route_map[e][i] /\ d = route_map'[e][i]
          BY <2>6, <3>1, <4>2 DEF IInv, RegType
        <5>2. route[d].cts = e /\ route[d].id = i /\ route[d].pc \in {"made", "accept", "join"}
          <6>1. route_map[e][i] # None
            BY <5>1, NoneAssumption
          <6>2. /\ route[route_map[e][i]].cts = e /\ route[route_map[e][i]].id = i
                /\ route[route_map[e][i]].pc \in {"made", "accept", "join"}
            BY <6>1 DEF IInv, TableInv
          <6> QED
            BY <5>1, <6>2
        <5>3. d # o
          BY <2>1, <5>2, Zenon DEF Making
        <5> QED
          BY <2>4, <5>1, <5>2, <5>3, Zenon
      <4> QED
        BY <4>1, <4>2, SMTT(60)
    <3> QED
      BY <3>1, Zenon DEF TableInv
  <2>15. RouteInv'
    BY <2>1, <2>4, <2>5, <2>8, SMTT(60) DEF IInv, RouteInv, Known, SameRoute, Making
  <2>16. PortsOwned'
    <3>1. \A d \in Routes : HoldsPort(d) => Known(d)
      BY HeldKnown, Zenon DEF IInv
    <3> QED
      BY <1>3, <2>1, <2>2, <2>5, <2>7, <2>9, <3>1, PortTaken, Zenon DEF IInv, Making
  <2>17. OpenRouteReachable'
    BY <2>4, <2>9 DEF IInv, OpenRouteReachable
  <2> QED
    BY <2>10, <2>13, <2>14, <2>15, <2>16, <2>17, Zenon DEF IInv
<1> QED
  BY <1>2, <1>3, SMTT(60)

LEMMA SpawnKeeps ==
  ASSUME IInv, NEW c \in Conns, SpawnRoute(c)
  PROVE  IInv'
<1> USE DEF tables
<1>1. rx[c].pc = "spawn" /\ UNCHANGED <<handler, route_map, svc_port_map>> /\ RxAnswered(c)
  BY DEF SpawnRoute
<1>2. PICK o \in Routes : o = rx[c].o /\ route[o].pc = "made" /\ route[o].cts = c
  BY <1>1, Zenon DEF IInv, RxInv, RxAt
<1>3. OnlyRx(c) /\ rx'[c].pc \notin {"listen", "register", "spawn", "unport"}
  BY <1>1, RxFree, RxFrees DEF IInv
<1>4. /\ RouteType' /\ SameRoute(o) /\ route'[o].pc = "accept" /\ (route[o].stop_req => route'[o].stop_req)
      /\ \A d \in Routes : d # o => route'[d] = route[d]
  <2>1. PICK b \in BOOLEAN : /\ route' = [route EXCEPT ![o].pc = "accept", ![o].stop_req = b]
                             /\ route[o].stop_req => b
    <3>1. route' = [route EXCEPT ![o].pc = "accept", ![o].stop_req = route[o].stop_req \/ ~StreamUp(c)]
      BY <1>2 DEF SpawnRoute, IInv, RegType, RouteRec
    <3> QED
      BY <3>1, Zenon
  <2>2. route'[o] = [route[o] EXCEPT !.pc = "accept", !.stop_req = b] /\ \A d \in Routes : d # o => route'[d] = route[d]
    BY <2>1 DEF IInv, RegType
  <2>3. route'[o] \in RouteRec /\ SameRoute(o) /\ route'[o].pc = "accept" /\ route'[o].stop_req = b
    <3>1. PICK x \in RouteRec : x = route[o]
      BY DEF IInv, RegType
    <3>2. route'[o] = [x EXCEPT !.pc = "accept", !.stop_req = b]
      BY <2>2, <3>1
    <3>3. /\ [x EXCEPT !.pc = "accept", !.stop_req = b] \in RouteRec
          /\ [x EXCEPT !.pc = "accept", !.stop_req = b].pc = "accept"
          /\ [x EXCEPT !.pc = "accept", !.stop_req = b].stop_req = b
          /\ [x EXCEPT !.pc = "accept", !.stop_req = b].cts = x.cts
          /\ [x EXCEPT !.pc = "accept", !.stop_req = b].id = x.id
          /\ [x EXCEPT !.pc = "accept", !.stop_req = b].port = x.port
      BY Zenon DEF RouteRec, RoutePcs
    <3> QED
      BY <3>1, <3>2, <3>3 DEF SameRoute
  <2>4. RouteType'
    BY <2>1, <2>2, <2>3 DEF IInv, RegType, RouteType
  <2> QED
    BY <2>1, <2>2, <2>3, <2>4, Zenon
<1>5. \A d \in Routes : SameRoute(d)
  BY <1>4 DEF SameRoute
<1>6. \A d \in Routes : InTable(d)' <=> InTable(d)
  BY <1>1, <1>5, Zenon DEF InTable, SameRoute
<1>7. \A d \in Routes : HoldsPort(d)' <=> HoldsPort(d)
  BY <1>1, <1>2, <1>3, <1>4, <1>6 DEF HoldsPort, OnlyRx
<1>8. RegType'
  BY <1>1, <1>3, <1>4, Zenon DEF IInv, RegType, RouteType, OnlyRx
<1>9. \A e \in Conns, d \in Routes : d # o => (Making(e, d) => Making(e, d)') /\ (Removed(e, d) => Removed(e, d)')
  BY <1>1, <1>4, <1>6, Zenon DEF Making, Removed, Known
<1>10. RxInv'
  <2>1. RxAt(c)'
    BY <1>3, Zenon DEF RxAt, OnlyRx
  <2> QED
    BY <1>2, <1>3, <1>4, <1>9, <2>1, OtherReceivers, Zenon DEF IInv
<1>11. TableInv'
  BY <1>1, <1>4, <1>5, SMTT(60) DEF IInv, TableInv, RegType, SameRoute
<1>12. RouteInv'
  BY <1>2, <1>4, <1>5, <1>6 DEF IInv, RouteInv, Known, SameRoute
<1>13. PortsOwned'
  BY <1>1, <1>5, <1>7, PortsKept DEF IInv
<1>14. OpenRouteReachable'
  BY <1>2, <1>4, <1>7 DEF IInv, OpenRouteReachable
<1> QED
  BY <1>8, <1>10, <1>11, <1>12, <1>13, <1>14 DEF IInv

LEMMA RouteStopKeeps ==
  ASSUME IInv, NEW c \in Conns, NEW i \in RouteIds, RouteStop(c, i)
  PROVE  IInv'
<1> USE DEF tables, tasks
<1>1. UNCHANGED <<handler, route>> /\ rx[c].pc = "recv"
  BY DEF RouteStop
<1>2. CASE route_map[c][i] = None
  <2>1. Receives(c)
    BY <1>1, <1>2, RxFree, SameHandler DEF RouteStop, Receives, reg, IInv, RxInv, RxAt
  <2> QED
    BY <2>1, ReceivesKeeps, ZenonT(60)
<1>3. CASE route_map[c][i] # None
  <2>1. PICK o \in Routes : o = route_map[c][i]
    BY <1>3 DEF IInv, RegType
  <2>2. route[o].cts = c /\ route[o].id = i /\ route[o].pc \in {"made", "accept", "join"}
    BY <1>3, <2>1, Zenon DEF IInv, TableInv
  <2>3. InTable(o) /\ Known(o) /\ Unmapped(o) /\ RxGoto(c, "unport", o)
    BY <1>3, <2>1, <2>2, NoneAssumption, Zenon DEF InTable, Unmapped, RouteStop, RemoveFromTable, IInv, RouteInv
  <2>4. OnlyRx(c) /\ rx'[c].pc = "unport" /\ rx'[c].o = o
    BY <1>1, <2>3, RxGoes DEF IInv, RxPcs
  <2>5. \A d \in Routes : SameRoute(d)
    BY <1>1 DEF SameRoute
  <2>6. /\ route_map' \in [Conns -> [RouteIds -> Routes \cup {None}]]
        /\ \A d \in Routes : InTable(d)' <=> InTable(d) /\ d # o
        /\ \A e \in Conns, j \in RouteIds :
             \/ route_map'[e][j] = None
             \/ route_map'[e][j] = route_map[e][j] /\ route_map[e][j] # o
    BY <2>3, <2>5, OthersStay
  <2>7. \A d \in Routes : HoldsPort(d)' <=> HoldsPort(d)
    <3>1. HoldsPort(o) /\ HoldsPort(o)'
      BY <2>3, <2>4 DEF HoldsPort
    <3>2. ASSUME NEW d \in Routes, d # o
          PROVE  HoldsPort(d)' <=> HoldsPort(d)
      <4>1. \A e \in Conns : rx'[e].pc = "unport" /\ rx'[e].o = d <=> rx[e].pc = "unport" /\ rx[e].o = d
        BY <1>1, <2>4, <3>2 DEF OnlyRx
      <4>2. InTable(d)' <=> InTable(d)
        BY <2>6, <3>2, Zenon
      <4> QED
        BY <1>1, <4>1, <4>2 DEF HoldsPort
    <3> QED
      BY <3>1, <3>2, Zenon
  <2>8. RegType'
    BY <1>1, <2>3, <2>4, <2>6, Zenon DEF IInv, RegType, OnlyRx, Unmapped
  <2>9. \A e \in Conns, d \in Routes : (Making(e, d) => Making(e, d)') /\ (Removed(e, d) => Removed(e, d)')
    BY <1>1, <2>6, Zenon DEF Making, Removed, Known
  <2>10. Removed(c, o)'
    BY <1>1, <2>2, <2>3, <2>6, Zenon DEF Removed, Known
  <2>11. RxInv'
    <3>1. RxAt(c)'
      BY <2>4, <2>10, ZenonT(60) DEF RxAt, OnlyRx
    <3> QED
      BY <1>1, <2>2, <2>4, <2>9, <3>1, OtherReceivers, Zenon DEF IInv
  <2>12. TableInv'
    BY <1>1, <2>6 DEF IInv, TableInv, RegType
  <2>13. RouteInv'
    BY <1>1, <2>6 DEF IInv, RouteInv, Known
  <2>14. PortsOwned'
    BY <2>3, <2>5, <2>7, PortsKept DEF IInv, Unmapped
  <2>15. OpenRouteReachable'
    BY <1>1, <2>7, Zenon DEF IInv, OpenRouteReachable
  <2> QED
    BY <2>8, <2>11, <2>12, <2>13, <2>14, <2>15 DEF IInv
<1> QED
  BY <1>2, <1>3, Zenon

LEMMA RouteStopReleasesKeeps ==
  ASSUME IInv, NEW c \in Conns, RouteStopReleases(c)
  PROVE  IInv'
<1> USE DEF tables, tasks
<1>1. UNCHANGED <<handler, route_map>> /\ rx[c].pc = "unport" /\ RxAnswered(c)
  BY Zenon DEF RouteStopReleases, ReleasePort
<1>2. PICK o \in Routes : o = rx[c].o /\ Removed(c, o)
  BY <1>1 DEF IInv, RxInv, RxAt, Removed
<1>3. /\ svc_port_map' = [svc_port_map EXCEPT ![route[o].port] = None]
      /\ route' = [d \in Routes |-> IF d \in {o} THEN [route[d] EXCEPT !.stop_req = TRUE] ELSE route[d]]
  BY <1>2, ZenonT(60) DEF RouteStopReleases, ReleasePort, StopRoutes
<1>4. OnlyRx(c) /\ rx'[c].pc \notin {"listen", "register", "spawn", "unport"}
  BY <1>1, RxFree, RxFrees DEF IInv
<1>5. /\ RouteType' /\ SameRoute(o) /\ route'[o].pc = route[o].pc /\ route'[o].stop_req
      /\ \A d \in Routes : d # o => route'[d] = route[d]
  <2>1. route'[o] = [route[o] EXCEPT !.stop_req = TRUE] /\ \A d \in Routes : d # o => route'[d] = route[d]
    BY <1>3
  <2>2. route'[o] \in RouteRec /\ SameRoute(o) /\ route'[o].pc = route[o].pc /\ route'[o].stop_req
    BY <2>1, ZenonT(60) DEF IInv, RegType, RouteRec, SameRoute
  <2>3. RouteType'
    BY <1>3, <2>1, <2>2, Zenon DEF IInv, RegType, RouteType
  <2> QED
    BY <2>1, <2>2, <2>3
<1>6. \A d \in Routes : SameRoute(d) /\ route'[d].pc = route[d].pc
  BY <1>5 DEF SameRoute
<1>7. \A d \in Routes : (InTable(d)' <=> InTable(d)) /\ (Known(d)' <=> Known(d))
  BY <1>1, <1>6 DEF InTable, Known, SameRoute
<1>8. \A e \in Conns : rx[e].pc = "unport" /\ rx[e].o = o => e = c
  BY <1>2 DEF IInv, RxInv, RxAt, Removed
<1>9. HoldsPort(o)
  BY <1>1, <1>2 DEF HoldsPort
<1>10. \A d \in Routes : HoldsPort(d)' <=> HoldsPort(d) /\ d # o
  <2>1. ~HoldsPort(o)'
    BY <1>2, <1>4, <1>5, <1>7, <1>8, ZenonT(60) DEF HoldsPort, OnlyRx, Removed
  <2>2. ASSUME NEW d \in Routes, d # o
        PROVE  HoldsPort(d)' <=> HoldsPort(d)
    <3>1. (\E e \in Conns : rx[e].pc = "unport" /\ rx[e].o = d) <=> (\E e \in Conns : rx'[e].pc = "unport" /\ rx'[e].o = d)
      BY <1>2, <1>4, <2>2 DEF OnlyRx
    <3> QED
      BY <1>6, <1>7, <3>1 DEF HoldsPort
  <2> QED
    BY <2>1, <2>2, Zenon
<1>11. RegType'
  BY <1>1, <1>3, <1>4, <1>5, Zenon DEF IInv, RegType, RouteType, OnlyRx
<1>12. \A e \in Conns, d \in Routes : d # o => (Making(e, d) => Making(e, d)') /\ (Removed(e, d) => Removed(e, d)')
  BY <1>1, <1>5, <1>7, Zenon DEF Making, Removed
<1>13. RxInv'
  <2>1. RxAt(c)' /\ route[o].cts = c
    BY <1>2, <1>4, ZenonT(60) DEF RxAt, OnlyRx, Removed
  <2> QED
    BY <1>4, <1>5, <1>12, <2>1, OtherReceivers, Zenon DEF IInv
<1>14. TableInv'
  BY <1>1, <1>6, SMTT(60) DEF IInv, TableInv, RegType, SameRoute
<1>15. RouteInv'
  BY <1>6, <1>7, Zenon DEF IInv, RouteInv, SameRoute
<1>16. PortsOwned'
  BY <1>3, <1>6, <1>9, <1>10, PortFreed, Zenon DEF IInv
<1>17. OpenRouteReachable'
  BY <1>5, <1>6, <1>10, Zenon DEF IInv, OpenRouteReachable
<1> QED
  BY <1>11, <1>13, <1>14, <1>15, <1>16, <1>17 DEF IInv

LEMMA StepKeeps ==
  ASSUME IInv, [Next]_vars
  PROVE  IInv'
<1>1. ASSUME NEW c \in Conns, Works(c)
      PROVE  IInv'
  <2>1. CASE ListenFails(c)
    BY <2>1, DropKeeps, Zenon DEF ListenFails, tables, tasks
  <2> QED
    BY <1>1, <2>1, RouteStartKeeps, ListenKeeps, RouteStopKeeps, RegisterKeeps, SpawnKeeps, RouteStopReleasesKeeps DEF Works
<1>2. ASSUME NEW o \in Routes, Runs(o)
      PROVE  IInv'
  BY <1>2, TaskMoves, MovesKeeps, RemoveKeeps, ReleaseKeeps DEF Runs
<1> QED
  BY <1>1, <1>2, Steps, QuietKeeps, AsksKeeps, ReceivesKeeps DEF IInv

LEMMA InitInv ==
  ASSUME Init
  PROVE  IInv
<1> USE DEF Init
<1>1. RegType
  BY DEF RegType, RouteRec, NewRoute, RoutePcs, RxPcs
<1>2. \A o \in Routes : ~InTable(o) /\ ~HoldsPort(o)
  BY Zenon DEF InTable, HoldsPort, NewRoute
<1>3. RxInv /\ TableInv /\ RouteInv
  BY <1>2 DEF RxInv, RxAt, TableInv, RouteInv, NewRoute
<1>4. PortsOwned /\ OpenRouteReachable
  BY <1>2 DEF PortsOwned, OpenRouteReachable, NewRoute
<1> QED
  BY <1>1, <1>3, <1>4, Zenon DEF IInv

-----------------------------------------------------------------------------
\* The route at hand of each receiver, the task of each route and the tables
\* stay related (AddNewServerRoute, RemoveServerRoute, ServerRoute.RunTask).
THEOREM Invariance == Spec => []IInv
<1>1. Init => IInv
  BY InitInv
<1>2. IInv /\ [Next]_vars => IInv'
  BY StepKeeps
<1> QED
  BY <1>1, <1>2, PTL DEF Spec

\* No removal of a route, by ROUTE_STOP or by its own task, frees the port of
\* another one, and none leaves a port behind, for any number of connections,
\* routes and ports.
THEOREM PortsHaveOneOwner == Spec => []PortsOwned
<1>1. IInv => PortsOwned
  BY DEF IInv
<1> QED
  BY <1>1, Invariance, PTL

\* A route with an open listener that nothing has asked to stop still holds its
\* port, and a stop of its connection reaches it through the table.
THEOREM OpenRoutesReached == Spec => []OpenRouteReachable
<1>1. IInv => OpenRouteReachable
  BY DEF IInv
<1> QED
  BY <1>1, Invariance, PTL

-----------------------------------------------------------------------------
(* The tables of connections.                                               *)

ConnType ==
  /\ cts_map \subseteq Conns
  /\ cts_map_by_addr \in [Addrs -> Conns \cup {None}]
  /\ cts_map_by_token \in [Tokens -> Conns \cup {None}]
  /\ client_token \in [Conns -> Tokens \cup {None}]

\* A connection describes itself after it has been added.
Undescribed ==
  \A c \in Conns :
    /\ handler[c] \in {"none", "admitted"} => client_token[c] = None
    /\ rx[c].pc = "token" => rx[c].o \in Tokens /\ client_token[c] = None

ConnInv == ConnType /\ Undescribed /\ ConnsIndexed

conntables == <<cts_map, cts_map_by_addr, cts_map_by_token, client_token>>

\* The receivers that wait for a lock to set their token.
RxLater == \A c \in Conns : rx'[c].pc = "token" => rx[c].pc = "token" /\ rx'[c].o = rx[c].o

LEMMA ConnsSame ==
  ASSUME ConnInv, UNCHANGED conntables, HandlerLater, RxLater
  PROVE  ConnInv'
<1>1. ConnType' /\ ConnsIndexed'
  BY Zenon DEF ConnInv, ConnType, ConnsIndexed, conntables
<1>2. Undescribed'
  BY DEF ConnInv, Undescribed, HandlerLater, RxLater, conntables
<1> QED
  BY <1>1, <1>2 DEF ConnInv

LEMMA ConnAdded ==
  ASSUME ConnInv, RegType, NEW c \in Conns, AddNewServerConn(c)
  PROVE  ConnInv'
<1> USE DEF ConnInv
<1>1. CASE UNCHANGED <<conns, rx>> /\ handler' = [handler EXCEPT ![c] = "returned"]
  <2>1. HandlerLater
    BY <1>1 DEF RegType, HandlerLater
  <2> QED
    BY <1>1, <2>1, ConnsSame DEF conns, conntables, RxLater
<1>2. CASE /\ cts_map' = cts_map \cup {c} /\ cts_map_by_addr' = [cts_map_by_addr EXCEPT ![AddrOf[c]] = c]
           /\ UNCHANGED <<cts_map_by_token, client_token>> /\ handler[c] = "admitted"
           /\ cts_map_by_addr[AddrOf[c]] = None
           /\ handler' = [handler EXCEPT ![c] = "running"] /\ rx' = [rx EXCEPT ![c].pc = "recv"]
  <2>1. client_token[c] = None /\ AddrOf[c] \in Addrs /\ c # None
    BY <1>2, AddrAssumption, NoneAssumption DEF Undescribed
  <2>2. \A a \in Addrs : cts_map_by_addr'[a] = IF a = AddrOf[c] THEN c ELSE cts_map_by_addr[a]
    BY <1>2, <2>1 DEF ConnType
  <2>3. \A d \in cts_map : AddrOf[d] # AddrOf[c]
    <3>1. \A d \in cts_map : d # None
      BY NoneAssumption DEF ConnType
    <3>2. \A d \in cts_map : cts_map_by_addr[AddrOf[d]] = d
      BY DEF ConnsIndexed
    <3> QED
      BY <1>2, <3>1, <3>2
  <2>4. ConnType'
    BY <1>2, <2>1 DEF ConnType
  <2>5. Undescribed'
    BY <1>2 DEF Undescribed, RegType
  <2>6. ConnsIndexed'
    BY <1>2, <2>1, <2>2, <2>3 DEF ConnsIndexed
  <2> QED
    BY <2>4, <2>5, <2>6
<1> QED
  BY <1>1, <1>2 DEF AddNewServerConn

LEMMA TokenSet ==
  ASSUME ConnInv, RegType, RxInv, NEW c \in Conns, SetToken(c)
  PROVE  ConnInv'
<1> USE DEF ConnInv, tasks
<1>1. rx[c].pc = "token" /\ handler' = handler
  BY DEF SetToken
<1>2. rx[c].o \in Tokens /\ client_token[c] = None
  BY <1>1 DEF Undescribed
<1>3. rx'[c].pc # "token" /\ \A d \in Conns : d # c => rx'[d] = rx[d]
  BY DEF SetToken, RxNext, RxGoto, RegType
<1>4. CASE UNCHANGED conns
  <2>1. RxLater
    BY <1>3 DEF RxLater
  <2> QED
    BY <1>1, <1>4, <2>1, ConnsSame, SameHandler, ZenonT(60) DEF conns, conntables
<1>5. CASE ~UNCHANGED conns
  <2>1. PICK t \in Tokens : t = rx[c].o
    BY <1>2, SMTT(60)
  <2>2. /\ cts_map_by_token[t] = None /\ client_token' = [client_token EXCEPT ![c] = t]
        /\ cts_map_by_token' = [x \in Tokens |-> IF x = t THEN c ELSE IF x = client_token[c] THEN None ELSE cts_map_by_token[x]]
        /\ UNCHANGED <<cts_map, cts_map_by_addr>>
    BY <1>5, <2>1, Zenon DEF SetToken
  <2>3. \A x \in Tokens : cts_map_by_token'[x] = IF x = t THEN c ELSE cts_map_by_token[x]
    BY <1>2, <2>2, NoneAssumption
  <2>4. \A d \in Conns : client_token'[d] = IF d = c THEN t ELSE client_token[d]
    BY <2>2 DEF ConnType
  <2>5. ConnType'
    BY <2>2 DEF ConnType
  <2>6. Undescribed'
    <3>1. handler[c] \notin {"none", "admitted"}
      BY <1>1, ZenonT(60) DEF RxInv, RxAt
    <3> QED
      BY <1>1, <1>3, <2>4, <3>1, Zenon DEF Undescribed
  <2>7. ConnsIndexed'
    <3>1. \A d \in cts_map : client_token[d] # None => client_token[d] # t \/ d = c
      BY <2>2, NoneAssumption, SMTT(60) DEF ConnsIndexed, ConnType
    <3>2. \A a \in Addrs : cts_map_by_addr'[a] # None =>
            cts_map_by_addr'[a] \in cts_map' /\ AddrOf[cts_map_by_addr'[a]] = a
      BY <2>2 DEF ConnsIndexed
    <3>3. ASSUME NEW d \in cts_map
          PROVE  /\ cts_map_by_addr'[AddrOf[d]] = d
                 /\ client_token'[d] # None => cts_map_by_token'[client_token'[d]] = d
      <4>1. d \in Conns /\ cts_map_by_addr[AddrOf[d]] = d
            /\ (client_token[d] # None => cts_map_by_token[client_token[d]] = d /\ client_token[d] \in Tokens)
        BY DEF ConnsIndexed, ConnType
      <4>2. CASE d = c
        BY <2>2, <2>3, <2>4, <4>1, <4>2
      <4>3. CASE d # c
        BY <2>2, <2>3, <2>4, <3>1, <4>1, <4>3
      <4> QED
        BY <4>2, <4>3
    <3>4. ASSUME NEW x \in Tokens, cts_map_by_token'[x] # None
          PROVE  client_token'[cts_map_by_token'[x]] = x
      <4>1. CASE x = t
        BY <2>3, <2>4, <4>1
      <4>2. CASE x # t
        <5>1. cts_map_by_token'[x] = cts_map_by_token[x] /\ cts_map_by_token[x] \in Conns
          BY <2>3, <3>4, <4>2 DEF ConnType
        <5>2. client_token[cts_map_by_token[x]] = x
          BY <3>4, <5>1 DEF ConnsIndexed
        <5>3. cts_map_by_token[x] # c
          BY <1>2, <5>2, NoneAssumption
        <5> QED
          BY <2>4, <5>1, <5>2, <5>3
      <4> QED
        BY <4>1, <4>2
    <3> QED
      BY <2>2, <3>2, <3>3, <3>4 DEF ConnsIndexed
  <2> QED
    BY <2>5, <2>6, <2>7, ZenonT(60)
<1> QED
  BY <1>4, <1>5

LEMMA ConnRemoved ==
  ASSUME ConnInv, RegType, NEW a \in Addrs, ConnEnd(a)
  PROVE  ConnInv'
<1> USE DEF ConnInv
<1>1. UNCHANGED <<handler, rx>>
  BY DEF ConnEnd
<1>2. CASE cts_map_by_addr[a] = None
  BY <1>1, <1>2, ConnsSame, SameHandler, Zenon DEF ConnEnd, conns, conntables, RxLater
<1>3. CASE cts_map_by_addr[a] # None
  <2>1. PICK c \in Conns : c = cts_map_by_addr[a]
    BY <1>3 DEF ConnType
  <2>2. c \in cts_map /\ AddrOf[c] = a
    BY <1>3, <2>1, ZenonT(60) DEF ConnsIndexed
  <2>3. /\ cts_map' = cts_map \ {c} /\ cts_map_by_addr' = [cts_map_by_addr EXCEPT ![a] = None]
        /\ cts_map_by_token' = [t \in Tokens |-> IF t = client_token[c] THEN None ELSE cts_map_by_token[t]]
        /\ UNCHANGED client_token
    BY <1>3, <2>1, Zenon DEF ConnEnd
  <2>4. \A x \in Addrs : cts_map_by_addr'[x] = IF x = a THEN None ELSE cts_map_by_addr[x]
    BY <2>3, Zenon DEF ConnType
  <2>5. ConnType' /\ Undescribed'
    BY <1>1, <2>3 DEF ConnType, Undescribed
  <2>6. \A d \in cts_map' : AddrOf[d] # a /\ AddrOf[d] \in Addrs
    BY <2>1, <2>3, AddrAssumption, Zenon DEF ConnsIndexed, ConnType
  <2>7. \A d \in cts_map' : client_token[d] # None => client_token[d] # client_token[c]
    BY <2>2, <2>3, ZenonT(60) DEF ConnsIndexed
  <2>8. \A x \in Addrs : cts_map_by_addr'[x] # None => cts_map_by_addr'[x] \in cts_map' /\ AddrOf[cts_map_by_addr'[x]] = x
    BY <2>2, <2>3, <2>4 DEF ConnsIndexed
  <2>9. \A d \in cts_map' : /\ cts_map_by_addr'[AddrOf[d]] = d
                            /\ client_token'[d] # None => cts_map_by_token'[client_token'[d]] = d
    <3>1. \A d \in cts_map : /\ cts_map_by_addr[AddrOf[d]] = d
                             /\ client_token[d] # None => cts_map_by_token[client_token[d]] = d /\ client_token[d] \in Tokens
      BY DEF ConnsIndexed, ConnType
    <3> QED
      BY <2>3, <2>4, <2>6, <2>7, <3>1
  <2>10. \A t \in Tokens : cts_map_by_token'[t] # None => client_token'[cts_map_by_token'[t]] = t
    BY <2>3 DEF ConnsIndexed
  <2> QED
    BY <2>5, <2>8, <2>9, <2>10 DEF ConnsIndexed
<1> QED
  BY <1>2, <1>3

\* The receiver moves to a place where it sets no token.
LEMMA RxLeaves ==
  ASSUME RegType, NEW c \in Conns,
         RxNext(c) \/ RxAnswered(c) \/ \E q \in RxPcs \ {"token"} : \E x : RxGoto(c, q, x)
  PROVE  RxLater
<1>1. PICK q \in RxPcs \ {"token"} : \E x : RxGoto(c, q, x)
  BY DEF RxNext, RxAnswered, RxPcs
<1>2. PICK x : rx' = [rx EXCEPT ![c] = [pc |-> q, o |-> x]]
  BY <1>1, ZenonT(60) DEF RxGoto
<1>3. \A d \in Conns : rx'[d] = IF d = c THEN [pc |-> q, o |-> x] ELSE rx[d]
  BY <1>2 DEF RegType
<1> QED
  BY <1>3 DEF RxLater

LEMMA Described ==
  ASSUME ConnInv, RegType, NEW c \in Conns, NEW t \in Tokens, ConnDesc(c, t)
  PROVE  ConnInv'
<1>1. UNCHANGED conntables /\ UNCHANGED handler /\ client_token[c] = None
  BY Zenon DEF ConnDesc, conns, conntables, tasks
<1>2. \A d \in Conns : rx'[d] = IF d = c THEN [pc |-> "token", o |-> t] ELSE rx[d]
  BY DEF ConnDesc, RxGoto, RegType
<1>3. ConnType' /\ ConnsIndexed'
  BY <1>1, Zenon DEF ConnInv, ConnType, ConnsIndexed, conntables
<1>4. Undescribed'
  BY <1>1, <1>2 DEF ConnInv, Undescribed, conntables
<1> QED
  BY <1>3, <1>4 DEF ConnInv

\* Every other step leaves the tables of connections alone.
OthersRest == UNCHANGED conntables /\ HandlerLater /\ RxLater

LEMMA ReceiverRests ==
  ASSUME RegType, NEW c \in Conns,
         \/ RxFails(c) \/ RegisterRoute(c) \/ SpawnRoute(c) \/ RouteStopReleases(c)
         \/ ListenFails(c) \/ ConnDescRefused(c)
         \/ \E p \in Ports : ListenTCP(c, p)
         \/ \E o \in Routes, i \in RouteIds, n \in Names : RouteStart(c, o, i, n)
         \/ \E i \in RouteIds : RouteStop(c, i)
  PROVE  OthersRest
<1>1. UNCHANGED <<conns, handler>>
  BY ZenonT(60) DEF RxFails, RegisterRoute, SpawnRoute, RouteStopReleases, ListenFails, ConnDescRefused,
         ListenTCP, RouteStart, RouteStop, tasks
<1>2. RxNext(c) \/ RxAnswered(c) \/ \E q \in RxPcs \ {"token"} : \E x : RxGoto(c, q, x)
  BY Zenon DEF RxFails, RegisterRoute, SpawnRoute, RouteStopReleases, ListenFails, ConnDescRefused,
         ListenTCP, RouteStart, RouteStop, RxPcs
<1> QED
  BY <1>1, <1>2, RxLeaves, SameHandler, SMTT(60) DEF OthersRest, conns, conntables

LEMMA HandlerRests ==
  ASSUME RegType, UNCHANGED <<conns, rx>>, HandlerLater
  PROVE  OthersRest
BY DEF OthersRest, conns, conntables, RxLater

LEMMA TaskRests ==
  ASSUME RegType, RouteInv, NEW o \in Routes, Runs(o)
  PROVE  OthersRest
<1>1. CASE RouteEnds(o)
  <2>1. route[o].cts \in Conns
    BY <1>1 DEF RouteEnds, RouteInv, Known
  <2> QED
    BY <1>1, <2>1, WgDone, HandlerRests DEF RouteEnds
<1>2. CASE AcceptEnds(o) \/ AcceptFails(o) \/ RemoveServerRoute(o) \/ RouteReleasesPort(o)
  BY <1>2, SameHandler, HandlerRests DEF AcceptEnds, AcceptFails, RemoveServerRoute, RouteReleasesPort, tasks
<1> QED
  BY <1>1, <1>2 DEF Runs

LEMMA ConnStepKeeps ==
  ASSUME IInv, ConnInv, [Next]_vars
  PROVE  ConnInv'
<1> USE DEF IInv, tasks
<1>1. CASE UNCHANGED vars
  BY <1>1, SameHandler, HandlerRests, ConnsSame DEF vars, OthersRest
<1>2. ASSUME NEW c \in Conns, Handler(c) \/ Waiter(c) \/ ReqStopRoutes(c) \/ Receiver(c) \/ Calls(c)
      PROVE  ConnInv'
  <2>1. CASE HandlerReturns(c) \/ PacketStream(c)
    <3>1. HandlerLater
      BY <2>1, Zenon DEF HandlerReturns, PacketStream, HandlerLater, RegType
    <3> QED
      BY <2>1, <3>1, HandlerRests, ConnsSame, Zenon DEF HandlerReturns, PacketStream, OthersRest
  <2>2. CASE Waiter(c)
    BY <2>2, WgDone, SameHandler, HandlerRests, ConnsSame, Zenon DEF Waiter, OthersRest
  <2>3. CASE ReqStopRoutes(c)
    BY <2>3, SameHandler, HandlerRests, ConnsSame DEF ReqStopRoutes, OthersRest
  <2>4. CASE Receiver(c) /\ ~SetToken(c)
    BY <2>4, ReceiverRests, ConnsSame DEF Receiver, OthersRest
  <2>5. CASE Calls(c) /\ ~PacketStream(c)
    BY <2>5, ReceiverRests, ConnsSame, Described DEF Calls, OthersRest
  <2> QED
    BY <1>2, <2>1, <2>2, <2>3, <2>4, <2>5, ConnAdded, TokenSet, Zenon DEF Handler, Receiver, Calls
<1>3. ASSUME NEW o \in Routes, Runs(o)
      PROVE  ConnInv'
  BY <1>3, TaskRests, ConnsSame, SMTT(60) DEF OthersRest
<1>4. ASSUME NEW l \in Lookups, LookupTask(l) \/ \E kind, cri : LookupStart(l, kind, cri)
      PROVE  ConnInv'
  BY <1>4, SameHandler, HandlerRests, ConnsSame, Zenon DEF LookupTask, LookupConn, LookupRoute, DeleteRoute, LookupStart, OthersRest
<1>5. ASSUME NEW a \in Addrs, BreakLink(a)
      PROVE  ConnInv'
  BY <1>5, SameHandler, HandlerRests, ConnsSame DEF BreakLink, OthersRest
<1>6. CASE ServerTask \/ ServerReqStop
  BY <1>6, SameHandler, HandlerRests, ConnsSame DEF ServerTask, ServerReqStop, ServerSnapshot, ServerStopsConn, ServerEnds, OthersRest
<1>7. ASSUME NEW c \in Conns, ListenFails(c) \/ ConnDescRefused(c) \/ DeleteRoutes(c) \/ DeleteConn(c)
      PROVE  ConnInv'
  BY <1>7, ReceiverRests, SameHandler, HandlerRests, ConnsSame, SMTT(60) DEF DeleteRoutes, DeleteConn, OthersRest
<1>8. CASE Disturbance
  BY <1>3, <1>4, <1>5, <1>6, <1>7, <1>8, Zenon DEF Disturbance, Runs
<1> QED
  BY <1>1, <1>2, <1>3, <1>4, <1>6, <1>8, ConnRemoved DEF Next, RouteTask, Runs

\* The tables of connections by identity, by address and by token agree,
\* whenever a connection is added, describes itself or is removed
\* (AddNewServerConn, the CONN_DESC handler, RemoveServerConnByAddr).
THEOREM ConnsAgree == Spec => []ConnsIndexed
<1>1. Init => ConnInv
  <2>1. Init => ConnType /\ Undescribed /\ ConnsIndexed
    BY NoneAssumption DEF Init, ConnType, Undescribed, ConnsIndexed
  <2> QED
    BY <2>1, Zenon DEF ConnInv
<1>2. IInv /\ ConnInv /\ [Next]_vars => ConnInv'
  BY ConnStepKeeps
<1>3. ConnInv => ConnsIndexed
  BY DEF ConnInv
<1> QED
  BY <1>1, <1>2, <1>3, Invariance, PTL DEF Spec
=============================================================================
