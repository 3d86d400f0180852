-------------------------- MODULE ClientConn_proofs --------------------------
(* A client's routes are in its table under their ids, both ends of a stream *)
(* agree on which routes exist once nothing is under way, and an answer of   *)
(* the server reaches the route it is about, for any number of routes, ids,  *)
(* server addresses and configured routes.                                   *)
EXTENDS ClientConn, WellFoundedInduction, TLAPS

Pcs == {"start", "seed", "stream", "routes", "select", "recv", "disconnect", "sleep", "stop", "wait", "ended"}
RoutePcs == {"none", "start", "run", "join", "remove", "gone"}
RouteRec == [pc : RoutePcs, id : 0 .. MaxRouteId, stop_req : BOOLEAN, listening : BOOLEAN]
Up == [kind : {"START", "STOP"}, id : RouteIds, o : Routes]
Down == [kind : {"STARTED", "STOPPED"}, id : RouteIds, o : Routes]

RouteTypes ==
  /\ route \in [Routes -> RouteRec]
  /\ route_map \in [RouteIds -> Routes \cup {None}]
  /\ route_next_id \in Nat

NetTypes ==
  /\ c2s \in Seq(Up) /\ s2c \in Seq(Down)
  /\ srv \in [RouteIds -> Routes \cup {None}]

LoopTypes ==
  /\ pc \in Pcs /\ todo \in Seq(0 .. MaxRouteId)
  /\ conn \in {"nil", "open", "closed"} /\ psc \in {"nil", "open", "closed"}

Types == RouteTypes /\ NetTypes /\ LoopTypes

Alive(r) == r.pc \notin {"none", "gone"}

\* The table of routes holds the live ones, each under its id.
Table ==
  /\ \A o \in Routes : Alive(route[o]) => route[o].id \in RouteIds /\ route_map[route[o].id] = o
  /\ \A i \in RouteIds : route_map[i] # None => Alive(route[route_map[i]]) /\ route[route_map[i]].id = i

\* A stream that is not open is empty, and RunTask opens one only after it has
\* given up the one before and asked the routes that use it to stop.
Between == {"start", "seed", "stream", "sleep"}

Streams ==
  /\ psc # "open" => c2s = <<>> /\ s2c = <<>> /\ \A i \in RouteIds : srv[i] = None
  /\ pc \in Between \cup {"disconnect"} => psc # "open"
  /\ pc \in {"seed", "stream", "routes", "select", "recv"} => conn # "nil"
  /\ pc \in Between \/ (pc = "disconnect" /\ conn = "nil") =>
       \A o \in Routes : route[o].pc = "run" => route[o].stop_req

UnderWay(q, kind, i) == \E k \in 1 .. Len(q) : q[k].kind = kind /\ q[k].id = i

\* What ROUTE_START of a running route has come to: it is under way with no
\* later word about its id, the server has the route, or has refused it.
Asked(o) ==
  \/ \E k \in 1 .. Len(c2s) : /\ c2s[k].kind = "START" /\ c2s[k].o = o /\ c2s[k].id = route[o].id
                              /\ \A l \in 1 .. Len(c2s) : l > k => c2s[l].id # route[o].id
  \/ /\ \A k \in 1 .. Len(c2s) : c2s[k].id # route[o].id
     /\ \/ srv[route[o].id] = o /\ (route[o].listening \/ UnderWay(s2c, "STARTED", route[o].id))
        \/ UnderWay(s2c, "STOPPED", route[o].id)

RunningAsked ==
  psc = "open" => \A o \in Routes : route[o].pc = "run" /\ ~route[o].stop_req => Asked(o)

\* A route that the server has, or will start, is one that the client still
\* runs, or there is a ROUTE_STOP on its way.
Held(o, i) == route[o].id = i /\ route[o].pc \in {"run", "join"}

ServerHolds ==
  /\ \A i \in RouteIds : srv[i] # None => Held(srv[i], i) \/ UnderWay(c2s, "STOP", i)
  /\ \A k \in 1 .. Len(c2s) : c2s[k].kind = "START" =>
       \/ Held(c2s[k].o, c2s[k].id)
       \/ \E l \in 1 .. Len(c2s) : l > k /\ c2s[l].kind = "STOP" /\ c2s[l].id = c2s[k].id

\* Ids that are chosen by AddNewClientRoute are not used again.
Fresh ==
  Automatic =>
    /\ todo \in Seq({0})
    /\ ~restarted =>
         /\ \A i \in RouteIds : route_map[i] # None => i < route_next_id
         /\ \A k \in 1 .. Len(c2s) : c2s[k].id < route_next_id /\ route_map[c2s[k].id] \in {None, c2s[k].o}
         /\ \A k \in 1 .. Len(s2c) : s2c[k].id < route_next_id /\ route_map[s2c[k].id] \in {None, s2c[k].o}

Inv == Types /\ Table /\ Streams /\ RunningAsked /\ ServerHolds /\ Fresh

-----------------------------------------------------------------------------
(* What the operators shared by the actions do.                            *)

\* AddNewClientRoute finds the least of the free ids.
LEMMA LeastId ==
  ASSUME NEW S \in SUBSET Nat, S # {}
  PROVE  Min(S) \in S
<1> DEFINE R == OpToRel(<, Nat)
<1>1. \E x \in S : \A y \in S : ~(<<y, x>> \in R)
  BY NatLessThanWellFounded, WFMin, Zenon
<1>2. \A x, y \in Nat : y < x => <<y, x>> \in R
  BY DEF OpToRel
<1> HIDE DEF R
<1>3. \E x \in S : \A y \in S : x <= y
  <2>1. PICK x \in S : \A y \in S : ~(<<y, x>> \in R)
    BY <1>1, Zenon
  <2>2. ASSUME NEW y \in S PROVE x <= y
    <3>1. x \in Nat /\ y \in Nat
      BY Zenon
    <3>2. ~(y < x)
      BY <1>2, <2>1, <3>1, Zenon
    <3> QED BY <3>1, <3>2
  <2> QED BY <2>2, Zenon
<1> QED BY <1>3, Zenon DEF Min

\* The first of a sequence, and the others.
LEMMA HeadTail ==
  ASSUME NEW S, NEW q \in Seq(S), q # <<>>
  PROVE  /\ Head(q) \in S /\ Tail(q) \in Seq(S) /\ Len(q) \in Nat \ {0} /\ Head(q) = q[1]
         /\ Len(Tail(q)) = Len(q) - 1 /\ \A k \in 1 .. Len(Tail(q)) : Tail(q)[k] = q[k + 1]
OBVIOUS

\* A sequence with one more element.
LEMMA OneMore ==
  ASSUME NEW S, NEW q \in Seq(S), NEW m \in S
  PROVE  /\ Append(q, m) \in Seq(S) /\ Len(q) \in Nat /\ Len(Append(q, m)) = Len(q) + 1
         /\ Append(q, m)[Len(q) + 1] = m /\ \A k \in 1 .. Len(q) : Append(q, m)[k] = q[k]
OBVIOUS

\* StopRoutes asks some routes to stop and changes nothing else of a route.
Same(o) == route'[o].pc = route[o].pc /\ route'[o].id = route[o].id /\ route'[o].listening = route[o].listening

LEMMA StopRoutesDoes ==
  ASSUME RouteTypes, NEW S, StopRoutes(S)
  PROVE  /\ route' \in [Routes -> RouteRec]
         /\ \A o \in Routes : Same(o)
         /\ \A o \in Routes : route'[o].stop_req <=> route[o].stop_req \/ o \in S
<1>1. route \in [Routes -> RouteRec]
  BY Zenon DEF RouteTypes
<1>2. ASSUME NEW o \in Routes
      PROVE  /\ route'[o] \in RouteRec /\ Same(o)
             /\ route'[o].stop_req <=> route[o].stop_req \/ o \in S
  <2>1. route'[o] = IF o \in S THEN [route[o] EXCEPT !.stop_req = TRUE] ELSE route[o]
    BY Zenon DEF StopRoutes
  <2> QED BY <1>1, <2>1, Zenon DEF RouteRec, Same
<1>3. route' = [o \in Routes |-> route'[o]]
  BY Zenon DEF StopRoutes
<1> QED BY <1>2, <1>3, Zenon

\* A route's task takes one step of its own.
Moves(o, p) ==
  /\ route' \in [Routes -> RouteRec]
  /\ \A d \in Routes : d # o => route'[d] = route[d]
  /\ route'[o].pc = p /\ route'[o].id = route[o].id /\ route'[o].listening = route[o].listening

LEMMA PcSet ==
  ASSUME RouteTypes, NEW o \in Routes, NEW p \in RoutePcs, route' = [route EXCEPT ![o].pc = p]
  PROVE  Moves(o, p) /\ route'[o].stop_req = route[o].stop_req
BY DEF RouteTypes, RouteRec, Moves

\* The route that AddNewClientRoute makes.
Adds(o, id) ==
  /\ id \in RouteIds /\ route_map[id] = None /\ o \in Routes /\ ~InUse(o)
  /\ route' \in [Routes -> RouteRec]
  /\ \A d \in Routes : d # o => route'[d] = route[d]
  /\ route'[o].pc = "start" /\ route'[o].id = id
  /\ route_map' = [route_map EXCEPT ![id] = o]

LEMMA AddDoes ==
  ASSUME RouteTypes, NEW o \in Routes, NEW i \in 0 .. MaxRouteId, CanAdd(i), AddNewClientRoute(o, i)
  PROVE  /\ \E id \in RouteIds : /\ Adds(o, id)
                                 /\ i = 0 => id >= route_next_id /\ route_next_id' = id + 1
         /\ i # 0 => route_next_id' = route_next_id
         /\ route_next_id' \in Nat /\ restarted' = restarted
<1> DEFINE id == IF i = 0 THEN Min(FreeIds) ELSE i
<1>a. route \in [Routes -> RouteRec] /\ route_map \in [RouteIds -> Routes \cup {None}] /\ route_next_id \in Nat
  BY Zenon DEF RouteTypes
<1>b. MaxRouteId \in Nat
  BY RouteIdAssumption
<1>1. id \in RouteIds /\ route_map[id] = None /\ (i = 0 => id >= route_next_id)
  <2>1. CASE i = 0
    <3>1. FreeIds \in SUBSET Nat /\ FreeIds # {}
      BY <2>1, <1>b DEF CanAdd, FreeIds, RouteIds
    <3>2. Min(FreeIds) \in FreeIds
      BY <3>1, LeastId, Zenon
    <3> QED BY <2>1, <3>2 DEF FreeIds
  <2>2. CASE i # 0
    BY <1>b, <2>2 DEF CanAdd, RouteIds
  <2> QED BY <2>1, <2>2, Zenon
<1>2. /\ route' = [route EXCEPT ![o] = NewRoute("start", id)]
      /\ route_map' = [route_map EXCEPT ![id] = o]
      /\ route_next_id' = IF i = 0 THEN id + 1 ELSE route_next_id
      /\ restarted' = restarted /\ ~InUse(o)
  BY Zenon DEF AddNewClientRoute
<1> HIDE DEF id
<1>3. NewRoute("start", id) \in RouteRec /\ NewRoute("start", id).pc = "start" /\ NewRoute("start", id).id = id
  <2>1. id \in 0 .. MaxRouteId
    BY <1>1, <1>b DEF RouteIds
  <2> QED BY <2>1 DEF NewRoute, RouteRec, RoutePcs
<1>4. Adds(o, id)
  BY <1>1, <1>2, <1>3, <1>a DEF Adds
<1>5. id \in Nat
  BY <1>1, <1>b DEF RouteIds
<1> QED BY <1>1, <1>2, <1>4, <1>5, <1>a

\* A stream that is closed takes everything with it.
LEMMA CloseDoes ==
  ASSUME LoopTypes, CloseStream
  PROVE  NetTypes' /\ psc' \in {"nil", "closed"} /\ c2s' = <<>> /\ s2c' = <<>> /\ \A i \in RouteIds : srv'[i] = None
BY DEF CloseStream, NetTypes, LoopTypes

\* What a route's task sends joins an open stream.
Word(kind, o) == [kind |-> kind, id |-> route[o].id, o |-> o]

LEMMA SendDoes ==
  ASSUME NetTypes, NEW o \in Routes, route[o].id \in RouteIds, NEW kind \in {"START", "STOP"}, Send(kind, o)
  PROVE  /\ Word(kind, o) \in Up /\ c2s' \in Seq(Up)
         /\ psc = "open" => c2s' = Append(c2s, Word(kind, o))
         /\ psc # "open" => c2s' = c2s
<1>1. Word(kind, o) \in Up
  BY DEF Word, Up
<1>2. c2s' = IF psc = "open" THEN Append(c2s, Word(kind, o)) ELSE c2s
  BY Zenon DEF Send, Word
<1> QED BY <1>1, <1>2 DEF NetTypes

-----------------------------------------------------------------------------
(* The kinds of steps, by what they do to the routes and to the stream.    *)

Quiet ==
  /\ UNCHANGED <<route, route_map, c2s, s2c, srv>>
  /\ psc' = psc \/ (psc # "open" /\ psc' = "closed")

Stops == (\E S : StopRoutes(S)) /\ UNCHANGED <<route_map, c2s, s2c, srv, psc>>

Cuts == CloseStream /\ (route' = route \/ \E S : StopRoutes(S)) /\ UNCHANGED route_map

Adding == (\E o \in Routes, id \in RouteIds : Adds(o, id)) /\ UNCHANGED <<c2s, s2c, srv, psc>>

Kind ==
  \/ Quiet \/ Stops \/ Cuts \/ PacketStream \/ Adding \/ Recv
  \/ \E o \in Routes : RouteTask(o)
  \/ ServerReceives

\* A route is added only for an id that can be had.
LEMMA StaticAdds ==
  ASSUME Types, NEW o \in Routes, AddStaticRoute(o)
  PROVE  /\ Head(todo) \in 0 .. MaxRouteId /\ Tail(todo) \in Seq(0 .. MaxRouteId)
         /\ \/ CanAdd(Head(todo)) /\ AddNewClientRoute(o, Head(todo)) /\ pc' = pc /\ todo' = Tail(todo)
            \/ pc' = "stop" /\ todo' = <<>> /\ UNCHANGED routes
<1>1. todo \in Seq(0 .. MaxRouteId) /\ todo # <<>>
  BY Zenon DEF Types, LoopTypes, AddStaticRoute
<1>2. Head(todo) \in 0 .. MaxRouteId /\ Tail(todo) \in Seq(0 .. MaxRouteId)
  BY <1>1, HeadTail, Zenon
<1> QED BY <1>2, Zenon DEF AddStaticRoute

LEMMA DisconnectKind ==
  ASSUME Disconnect, UNCHANGED route_map
  PROVE  Quiet \/ Cuts
BY Zenon DEF Disconnect, Quiet, Cuts, net

LEMMA Kinds ==
  ASSUME Types, Streams, [Next]_vars
  PROVE  Kind
<1>1. CASE RunTask
  <2>1. CASE NewClient \/ GetSeed \/ RoutesAdded \/ Select \/ RecvFails \/ ConnError \/ Sleep \/ Terminate
    BY <2>1, Zenon DEF Kind, Quiet, NewClient, GetSeed, RoutesAdded, Select, RecvFails, ConnError, Sleep,
       Terminate, routes, link, net
  <2>2. CASE ConnectFails
    <3>1. UNCHANGED <<route, route_map, c2s, s2c, srv>>
      BY <2>2, Zenon DEF ConnectFails, routes, net
    <3>2. psc # "open"
      BY <2>2 DEF ConnectFails, Streams, Between
    <3>3. psc' = psc \/ psc' = "closed"
      BY <2>2 DEF ConnectFails
    <3> QED BY <3>1, <3>2, <3>3, Zenon DEF Kind, Quiet
  <2>3. ASSUME NEW o \in Routes, AddStaticRoute(o) PROVE Kind
    <3>1. UNCHANGED <<c2s, s2c, srv, psc>>
      BY <2>3, Zenon DEF AddStaticRoute, link, net
    <3>2. CASE UNCHANGED routes
      BY <3>1, <3>2, Zenon DEF Kind, Quiet, routes
    <3>3. CASE Head(todo) \in 0 .. MaxRouteId /\ CanAdd(Head(todo)) /\ AddNewClientRoute(o, Head(todo))
      <4>1. \E id \in RouteIds : Adds(o, id)
        BY <3>3, AddDoes, Zenon DEF Types
      <4> QED BY <3>1, <4>1, Zenon DEF Kind, Adding
    <3> QED BY <2>3, <3>2, <3>3, StaticAdds, Zenon
  <2>4. CASE ActiveDisconnect
    BY <2>4, DisconnectKind, Zenon DEF ActiveDisconnect, ids, Kind
  <2>5. CASE StopAndWait
    BY <2>5, DisconnectKind, Zenon DEF StopAndWait, ids, Kind, Quiet, net
  <2> QED BY <1>1, <2>1, <2>2, <2>3, <2>4, <2>5, Zenon DEF RunTask, Kind
<1>2. CASE Requests
  <2>1. ASSUME NEW o \in Routes, DeleteRoute(o) PROVE Kind
    BY <2>1, Zenon DEF DeleteRoute, ids, net, link, Kind, Stops
  <2>2. ASSUME NEW o \in Routes, NEW i \in ApiIds, PostRoute(o, i) PROVE Kind
    <3>1. UNCHANGED <<c2s, s2c, srv, psc>>
      BY <2>2, Zenon DEF PostRoute, link, net
    <3>2. i \in 0 .. MaxRouteId
      BY RouteIdAssumption
    <3>3. \E id \in RouteIds : Adds(o, id)
      BY <2>2, <3>2, AddDoes, Zenon DEF PostRoute, Types
    <3> QED BY <3>1, <3>3, Zenon DEF Kind, Adding
  <2>3. CASE DeleteRoutes
    BY <2>3, Zenon DEF DeleteRoutes, ids, net, link, Kind, Stops
  <2>4. CASE DeleteConn
    BY <2>4, Zenon DEF DeleteConn, routes, net, link, Kind, Quiet
  <2>5. CASE ClientReqStop
    BY <2>5, Zenon DEF ClientReqStop, routes, Kind, Cuts
  <2> QED BY <1>2, <2>1, <2>2, <2>3, <2>4, <2>5, Zenon DEF Requests
<1>3. CASE ReqStopDisconnects
  BY <1>3, DisconnectKind, Zenon DEF ReqStopDisconnects, ids, Kind
<1>4. CASE BreakLink
  BY <1>4, Zenon DEF BreakLink, routes, Kind, Cuts
<1>5. CASE UNCHANGED vars
  BY <1>5, Zenon DEF vars, routes, net, link, Kind, Quiet
<1> QED BY <1>1, <1>2, <1>3, <1>4, <1>5, Zenon DEF Next, Kind

\* dispatch_packet takes one packet, and marks or stops the route under its id.
LEMMA RecvDoes ==
  ASSUME Types, Recv
  PROVE  /\ s2c # <<>> /\ s2c' = Tail(s2c) /\ UNCHANGED <<c2s, srv, psc, conn, route_map, route_next_id, restarted, todo>>
         /\ psc = "open" /\ pc' = "select" /\ pc = "recv"
         /\ route' \in [Routes -> RouteRec]
         /\ \A o \in Routes :
              /\ route'[o].pc = route[o].pc /\ route'[o].id = route[o].id
              /\ route[o].listening => route'[o].listening
              /\ route[o].stop_req => route'[o].stop_req
              /\ o = route_map[Head(s2c).id] =>
                   IF Head(s2c).kind = "STARTED" THEN route'[o].listening ELSE route'[o].stop_req
<1>a. route \in [Routes -> RouteRec] /\ route_map \in [RouteIds -> Routes \cup {None}] /\ s2c \in Seq(Down)
  BY Zenon DEF Types, RouteTypes, NetTypes
<1>b. s2c # <<>>
  BY Zenon DEF Recv
<1>c. Head(s2c) \in Down
  BY <1>a, <1>b, HeadTail, Zenon
<1>1. /\ s2c' = Tail(s2c) /\ UNCHANGED <<c2s, srv, psc, conn, route_map, route_next_id, restarted, todo>>
      /\ psc = "open" /\ pc' = "select" /\ pc = "recv"
  BY Zenon DEF Recv, Goto, link, ids
<1> DEFINE r == route_map[Head(s2c).id]
<1>2. r \in Routes \cup {None} /\ Head(s2c).kind \in {"STARTED", "STOPPED"}
  BY <1>a, <1>c DEF Down
<1>3. \/ r = None /\ route' = route
      \/ r # None /\ Head(s2c).kind = "STARTED" /\ route' = [route EXCEPT ![r].listening = TRUE]
      \/ r # None /\ Head(s2c).kind = "STOPPED" /\ StopRoutes({r})
  BY <1>2, Zenon DEF Recv
<1> DEFINE Good ==
      /\ route' \in [Routes -> RouteRec]
      /\ \A o \in Routes :
           /\ route'[o].pc = route[o].pc /\ route'[o].id = route[o].id
           /\ route[o].listening => route'[o].listening
           /\ route[o].stop_req => route'[o].stop_req
           /\ o = r => IF Head(s2c).kind = "STARTED" THEN route'[o].listening ELSE route'[o].stop_req
<1> SUFFICES Good
  BY <1>b, <1>1, Zenon
<1> HIDE DEF r
<1>4. CASE r = None /\ route' = route
  BY <1>4, <1>a, NoneAssumption
<1>5. CASE r # None /\ Head(s2c).kind = "STARTED" /\ route' = [route EXCEPT ![r].listening = TRUE]
  <2>1. r \in Routes
    BY <1>2, <1>5
  <2>2. route' \in [Routes -> RouteRec]
    BY <1>a, <1>5, <2>1, Zenon DEF RouteRec
  <2>3. \A o \in Routes : o # r => route'[o] = route[o]
    BY <1>a, <1>5
  <2>4. /\ route'[r].pc = route[r].pc /\ route'[r].id = route[r].id /\ route'[r].stop_req = route[r].stop_req
        /\ route'[r].listening = TRUE
    BY <1>a, <1>5, <2>1 DEF RouteRec
  <2> QED BY <1>5, <2>2, <2>3, <2>4, Zenon
<1>6. CASE r # None /\ Head(s2c).kind = "STOPPED" /\ StopRoutes({r})
  <2>1. /\ route' \in [Routes -> RouteRec] /\ \A o \in Routes : Same(o)
        /\ \A o \in Routes : route'[o].stop_req <=> route[o].stop_req \/ o \in {r}
    BY <1>6, StopRoutesDoes, Zenon DEF Types
  <2> QED BY <1>6, <2>1 DEF Same
<1> QED BY <1>3, <1>4, <1>5, <1>6, Zenon

\* The server takes one packet and answers it, or does not know the route.
Reply(kind) == [kind |-> kind, id |-> Head(c2s).id, o |-> Head(c2s).o]

LEMMA ServerDoes ==
  ASSUME Types, ServerReceives
  PROVE  /\ c2s # <<>> /\ c2s' = Tail(c2s) /\ Head(c2s) \in Up
         /\ UNCHANGED <<route, route_map, route_next_id, restarted, psc, pc, conn, todo>>
         /\ Reply("STARTED") \in Down /\ Reply("STOPPED") \in Down
         /\ \/ /\ Head(c2s).kind = "START" /\ srv[Head(c2s).id] = None
               /\ srv' = [srv EXCEPT ![Head(c2s).id] = Head(c2s).o] /\ s2c' = Append(s2c, Reply("STARTED"))
            \/ /\ Head(c2s).kind = "START" /\ srv' = srv /\ s2c' = Append(s2c, Reply("STOPPED"))
            \/ /\ Head(c2s).kind = "STOP"
               /\ srv' = [srv EXCEPT ![Head(c2s).id] = None] /\ s2c' = Append(s2c, Reply("STOPPED"))
            \/ Head(c2s).kind = "STOP" /\ srv[Head(c2s).id] = None /\ srv' = srv /\ s2c' = s2c
<1>1. c2s # <<>> /\ c2s' = Tail(c2s) /\ UNCHANGED <<route, route_map, route_next_id, restarted, psc, pc, conn, todo>>
  BY Zenon DEF ServerReceives, loop, link, routes
<1>2. Head(c2s) \in Up
  BY <1>1, HeadTail, Zenon DEF Types, NetTypes
<1>3. Reply("STARTED") \in Down /\ Reply("STOPPED") \in Down
  BY <1>2 DEF Reply, Up, Down
<1> QED BY <1>1, <1>2, <1>3, Zenon DEF ServerReceives, Answer, Reply

\* The four steps of a route's task.
LEMMA TaskDoes ==
  ASSUME Types, Table, NEW o \in Routes, RouteTask(o)
  PROVE  /\ route[o].id \in RouteIds /\ route_map[route[o].id] = o
         /\ UNCHANGED <<psc, pc, conn, todo, route_next_id, restarted, s2c, srv>>
         /\ \/ /\ route[o].pc = "start" /\ Send("START", o) /\ UNCHANGED route_map
               /\ Moves(o, IF psc = "open" THEN "run" ELSE "join") /\ route'[o].stop_req = route[o].stop_req
            \/ /\ route[o].pc = "run" /\ UNCHANGED <<c2s, route_map>>
               /\ Moves(o, "join") /\ route'[o].stop_req
            \/ /\ route[o].pc = "join" /\ Send("STOP", o) /\ UNCHANGED route_map
               /\ Moves(o, "remove") /\ route'[o].stop_req = route[o].stop_req
            \/ /\ route[o].pc = "remove" /\ UNCHANGED c2s
               /\ route_map' = [route_map EXCEPT ![route[o].id] = None]
               /\ Moves(o, "gone") /\ route'[o].stop_req = route[o].stop_req
<1>a. RouteTypes /\ route \in [Routes -> RouteRec]
  BY Zenon DEF Types, RouteTypes
<1>b. {"start", "run", "join", "remove", "gone"} \subseteq RoutePcs
  BY DEF RoutePcs
<1>1. Alive(route[o])
  BY Zenon DEF RouteTask, RouteStart, RouteStops, RouteStop, RemoveClientRoute, Alive
<1>2. route[o].id \in RouteIds /\ route_map[route[o].id] = o
  BY <1>1, Zenon DEF Table
<1>3. UNCHANGED <<psc, pc, conn, todo, route_next_id, restarted, s2c, srv>>
  BY Zenon DEF RouteTask, RouteStart, RouteStops, RouteStop, RemoveClientRoute, loop, link, ids, net
<1> DEFINE Good ==
  \/ /\ route[o].pc = "start" /\ Send("START", o) /\ UNCHANGED route_map
     /\ Moves(o, IF psc = "open" THEN "run" ELSE "join") /\ route'[o].stop_req = route[o].stop_req
  \/ /\ route[o].pc = "run" /\ UNCHANGED <<c2s, route_map>>
     /\ Moves(o, "join") /\ route'[o].stop_req
  \/ /\ route[o].pc = "join" /\ Send("STOP", o) /\ UNCHANGED route_map
     /\ Moves(o, "remove") /\ route'[o].stop_req = route[o].stop_req
  \/ /\ route[o].pc = "remove" /\ UNCHANGED c2s
     /\ route_map' = [route_map EXCEPT ![route[o].id] = None]
     /\ Moves(o, "gone") /\ route'[o].stop_req = route[o].stop_req
<1> SUFFICES Good
  BY <1>2, <1>3, Zenon
<1>4. CASE RouteStart(o)
  <2>1. (IF psc = "open" THEN "run" ELSE "join") \in RoutePcs
    BY DEF RoutePcs
  <2>2. route' = [route EXCEPT ![o].pc = IF psc = "open" THEN "run" ELSE "join"]
    BY <1>4, Zenon DEF RouteStart
  <2>3. Moves(o, IF psc = "open" THEN "run" ELSE "join") /\ route'[o].stop_req = route[o].stop_req
    BY <1>a, <2>1, <2>2, PcSet, Zenon
  <2> QED BY <1>4, <2>3, Zenon DEF RouteStart, ids
<1>5. CASE RouteStops(o)
  <2>1. route' = [route EXCEPT ![o].pc = "join", ![o].stop_req = TRUE] /\ route[o].pc = "run" /\ UNCHANGED <<c2s, route_map>>
    BY <1>5, Zenon DEF RouteStops, ids, net
  <2>2. Moves(o, "join") /\ route'[o].stop_req
    BY <1>a, <1>b, <2>1, Zenon DEF Moves, RouteRec
  <2> QED BY <2>1, <2>2, Zenon
<1>6. CASE RouteStop(o)
  <2>1. Moves(o, "remove") /\ route'[o].stop_req = route[o].stop_req
    BY <1>6, <1>a, <1>b, PcSet, Zenon DEF RouteStop
  <2> QED BY <1>6, <2>1, Zenon DEF RouteStop, ids
<1>7. CASE RemoveClientRoute(o)
  <2>1. Moves(o, "gone") /\ route'[o].stop_req = route[o].stop_req
    BY <1>7, <1>a, <1>b, PcSet, Zenon DEF RemoveClientRoute
  <2> QED BY <1>2, <1>7, <2>1, Zenon DEF RemoveClientRoute, net
<1> QED BY <1>4, <1>5, <1>6, <1>7, Zenon DEF RouteTask

-----------------------------------------------------------------------------
(* Types and the table of routes.                                          *)

\* No step changes the routes' ids but by adding a route.
LEMMA RouteTypesStep ==
  ASSUME Types, Table, Streams, [Next]_vars
  PROVE  RouteTypes'
<1>a. RouteTypes /\ LoopTypes
  BY Zenon DEF Types
<1>b. route \in [Routes -> RouteRec] /\ route_map \in [RouteIds -> Routes \cup {None}]
  BY Zenon DEF Types, RouteTypes
<1>1. route_next_id' \in Nat
  <2>1. ASSUME NEW o \in Routes, AddStaticRoute(o) PROVE route_next_id' \in Nat
    <3>1. CASE UNCHANGED routes
      BY <1>a, <3>1, Zenon DEF routes, RouteTypes
    <3>2. CASE Head(todo) \in 0 .. MaxRouteId /\ CanAdd(Head(todo)) /\ AddNewClientRoute(o, Head(todo))
      BY <1>a, <3>2, AddDoes, Zenon
    <3> QED BY <2>1, <3>1, <3>2, StaticAdds, Zenon
  <2>2. ASSUME NEW o \in Routes, NEW i \in ApiIds, PostRoute(o, i) PROVE route_next_id' \in Nat
    <3>1. i \in 0 .. MaxRouteId
      BY RouteIdAssumption
    <3> QED BY <1>a, <2>2, <3>1, AddDoes, Zenon DEF PostRoute
  <2>3. CASE GetSeed
    BY <2>3 DEF GetSeed
  <2>4. CASE route_next_id' = route_next_id
    BY <1>a, <2>4, Zenon DEF RouteTypes
  <2>5. ASSUME RunTask, ~GetSeed, \A o \in Routes : ~AddStaticRoute(o) PROVE route_next_id' = route_next_id
    BY <2>5, Zenon DEF RunTask, NewClient, PacketStream, ConnectFails, RoutesAdded, Select, RecvFails, Recv,
       ConnError, ActiveDisconnect, Sleep, StopAndWait, Terminate, routes, ids
  <2>6. ASSUME NEW o \in Routes, RouteTask(o) PROVE route_next_id' = route_next_id
    BY <2>6, TaskDoes, Zenon
  <2>7. ASSUME \/ \E o \in Routes : DeleteRoute(o) 
               \/ DeleteRoutes \/ DeleteConn \/ ClientReqStop \/ ReqStopDisconnects \/ ServerReceives \/ BreakLink
               \/ UNCHANGED vars
        PROVE  route_next_id' = route_next_id
    BY <2>7, Zenon DEF DeleteRoute, DeleteRoutes, DeleteConn, ClientReqStop, ReqStopDisconnects, ServerReceives,
       BreakLink, routes, ids, vars
  <2> QED BY <2>1, <2>2, <2>3, <2>4, <2>5, <2>6, <2>7, Zenon DEF Next, Requests
<1>2. route' \in [Routes -> RouteRec] /\ route_map' \in [RouteIds -> Routes \cup {None}]
  <2> DEFINE Good == route' \in [Routes -> RouteRec] /\ route_map' \in [RouteIds -> Routes \cup {None}]
  <2>1. ASSUME route' = route \/ \E S : StopRoutes(S), UNCHANGED route_map PROVE Good
    BY <1>a, <1>b, <2>1, StopRoutesDoes, Zenon
  <2>2. ASSUME NEW o \in Routes, NEW id \in RouteIds, Adds(o, id) PROVE Good
    BY <1>b, <2>2 DEF Adds
  <2>3. ASSUME Recv PROVE Good
    BY <1>b, <2>3, RecvDoes, Zenon
  <2>4. ASSUME NEW o \in Routes, RouteTask(o) PROVE Good
    <3>1. route' \in [Routes -> RouteRec]
      BY <2>4, TaskDoes, Zenon DEF Moves
    <3>2. route_map' = route_map \/ route_map' = [route_map EXCEPT ![route[o].id] = None]
      BY <2>4, TaskDoes, Zenon
    <3> QED BY <1>b, <3>1, <3>2
  <2> HIDE DEF Good
  <2>5. Good
    <3>1. Kind
      BY Kinds, Zenon
    <3> QED BY <2>1, <2>2, <2>3, <2>4, <3>1, Zenon DEF Kind, Quiet, Stops, Cuts, Adding, PacketStream, routes,
               ServerReceives
  <2> QED BY <2>5, Zenon DEF Good
<1> QED BY <1>1, <1>2, Zenon DEF RouteTypes

LEMMA NetTypesStep ==
  ASSUME Types, Table, Streams, [Next]_vars
  PROVE  NetTypes'
<1>a. NetTypes /\ LoopTypes /\ c2s \in Seq(Up) /\ s2c \in Seq(Down) /\ srv \in [RouteIds -> Routes \cup {None}]
  BY Zenon DEF Types, NetTypes
<1>1. ASSUME UNCHANGED <<c2s, s2c, srv>> PROVE NetTypes'
  BY <1>a, <1>1, Zenon DEF NetTypes
<1>2. ASSUME CloseStream PROVE NetTypes'
  BY <1>a, <1>2, CloseDoes, Zenon
<1>3. ASSUME Recv PROVE NetTypes'
  <2>1. s2c' \in Seq(Down) /\ UNCHANGED <<c2s, srv>>
    <3>1. s2c # <<>> /\ s2c' = Tail(s2c) /\ UNCHANGED <<c2s, srv>>
      BY <1>3, RecvDoes, Zenon
    <3>2. Tail(s2c) \in Seq(Down)
      BY <1>a, <3>1, HeadTail, Zenon
    <3> QED BY <3>1, <3>2, Zenon
  <2> QED BY <1>a, <2>1, Zenon DEF NetTypes
<1>4. ASSUME NEW o \in Routes, RouteTask(o) PROVE NetTypes'
  <2>1. UNCHANGED <<s2c, srv>> /\ route[o].id \in RouteIds
    BY <1>4, TaskDoes, Zenon
  <2>2. c2s' = c2s \/ Send("START", o) \/ Send("STOP", o)
    BY <1>4, TaskDoes, Zenon
  <2>3. c2s' \in Seq(Up)
    BY <1>a, <2>1, <2>2, SendDoes, Zenon
  <2> QED BY <1>a, <2>1, <2>3, Zenon DEF NetTypes
<1>5. ASSUME ServerReceives PROVE NetTypes'
  <2>1. c2s' \in Seq(Up)
    BY <1>a, <1>5, ServerDoes, HeadTail, Zenon
  <2>2. s2c' \in Seq(Down)
    <3>1. Append(s2c, Reply("STARTED")) \in Seq(Down) /\ Append(s2c, Reply("STOPPED")) \in Seq(Down)
      BY <1>a, <1>5, ServerDoes, OneMore, Zenon
    <3> QED BY <1>a, <1>5, <3>1, ServerDoes, Zenon
  <2>3. Head(c2s).id \in RouteIds /\ Head(c2s).o \in Routes
    BY <1>5, ServerDoes DEF Up
  <2>4. srv' = srv \/ \E v \in Routes \cup {None} : srv' = [srv EXCEPT ![Head(c2s).id] = v]
    BY <1>5, <2>3, ServerDoes, Zenon
  <2>5. srv' \in [RouteIds -> Routes \cup {None}]
    BY <1>a, <2>3, <2>4
  <2> QED BY <2>1, <2>2, <2>5, Zenon DEF NetTypes
<1>6. Kind
  BY Kinds, Zenon
<1> QED BY <1>1, <1>2, <1>3, <1>4, <1>5, <1>6, Zenon DEF Kind, Quiet, Stops, Cuts, Adding, PacketStream, net

LEMMA LoopTypesStep ==
  ASSUME Types, Table, Streams, [Next]_vars
  PROVE  LoopTypes'
<1>a. pc \in Pcs /\ todo \in Seq(0 .. MaxRouteId) /\ conn \in {"nil", "open", "closed"} /\ psc \in {"nil", "open", "closed"}
  BY Zenon DEF Types, LoopTypes
<1>1. pc' \in Pcs
  <2>1. ASSUME RunTask PROVE pc' = pc \/ pc' \in Pcs
    BY <2>1, Zenon DEF RunTask, NewClient, GetSeed, PacketStream, ConnectFails, AddStaticRoute, RoutesAdded, Select,
       RecvFails, Recv, ConnError, ActiveDisconnect, Sleep, StopAndWait, Terminate, Goto, Pcs
  <2>2. ASSUME ~RunTask PROVE pc' = pc
    BY <2>2, Zenon DEF Next, RouteTask, RouteStart, RouteStops, RouteStop, RemoveClientRoute, Requests, DeleteRoute,
       PostRoute, DeleteRoutes, DeleteConn, ClientReqStop, ReqStopDisconnects, ServerReceives, BreakLink, loop, vars
  <2> QED BY <1>a, <2>1, <2>2, Zenon
<1>2. todo' \in Seq(0 .. MaxRouteId)
  <2>1. ASSUME NEW o \in Routes, AddStaticRoute(o) PROVE todo' \in Seq(0 .. MaxRouteId)
    <3>1. <<>> \in Seq(0 .. MaxRouteId)
      OBVIOUS
    <3>2. todo' = todo \/ todo' = Tail(todo) \/ todo' = <<>>
      BY <2>1, StaticAdds, Zenon
    <3> QED BY <1>a, <2>1, <3>1, <3>2, StaticAdds, Zenon
  <2>2. ASSUME RunTask, \A o \in Routes : ~AddStaticRoute(o) PROVE todo' = todo \/ todo' = Statics
    BY <2>2, Zenon DEF RunTask, NewClient, GetSeed, PacketStream, ConnectFails, RoutesAdded, Select,
       RecvFails, Recv, ConnError, ActiveDisconnect, Sleep, StopAndWait, Terminate, Goto
  <2>3. ASSUME ~RunTask PROVE todo' = todo
    BY <2>3, Zenon DEF Next, RouteTask, RouteStart, RouteStops, RouteStop, RemoveClientRoute, Requests, DeleteRoute,
       PostRoute, DeleteRoutes, DeleteConn, ClientReqStop, ReqStopDisconnects, ServerReceives, BreakLink, loop, vars
  <2> QED BY <1>a, <2>1, <2>2, <2>3, RouteIdAssumption, Zenon
<1>3. conn' \in {"nil", "open", "closed"}
  <2>1. ASSUME RunTask PROVE conn' = conn \/ conn' \in {"nil", "open", "closed"}
    BY <2>1, Zenon DEF RunTask, NewClient, GetSeed, PacketStream, ConnectFails, AddStaticRoute, RoutesAdded, Select,
       RecvFails, Recv, ConnError, ActiveDisconnect, Sleep, StopAndWait, Terminate, Disconnect, link
  <2>2. ASSUME ~RunTask PROVE conn' = conn \/ conn' = "closed"
    BY <2>2, Zenon DEF Next, RouteTask, RouteStart, RouteStops, RouteStop, RemoveClientRoute, Requests, DeleteRoute,
       PostRoute, DeleteRoutes, DeleteConn, ClientReqStop, ReqStopDisconnects, ServerReceives, BreakLink, Disconnect,
       link, vars
  <2> QED BY <1>a, <2>1, <2>2, Zenon
<1>4. psc' \in {"nil", "open", "closed"}
  <2>1. Kind
    BY Kinds, Zenon
  <2>2. \/ psc' = psc \/ psc' = "closed" \/ psc' = "open" \/ CloseStream
    BY <2>1, RecvDoes, ServerDoes, TaskDoes, Zenon DEF Kind, Quiet, Stops, Cuts, Adding, PacketStream
  <2> QED BY <1>a, <2>2 DEF CloseStream
<1> QED BY <1>1, <1>2, <1>3, <1>4, Zenon DEF LoopTypes

LEMMA TypesStep == Types /\ Table /\ Streams /\ [Next]_vars => Types'
BY RouteTypesStep, NetTypesStep, LoopTypesStep, Zenon DEF Types

\* A step that leaves the routes at their places keeps the table.
LEMMA TableKept ==
  ASSUME Table, RouteTypes, \A o \in Routes : route'[o].pc = route[o].pc /\ route'[o].id = route[o].id, UNCHANGED route_map
  PROVE  Table'
<1>1. \A o \in Routes : Alive(route'[o]) <=> Alive(route[o])
  BY Zenon DEF Alive
<1>2. \A i \in RouteIds : route_map[i] # None => route_map[i] \in Routes
  BY DEF RouteTypes
<1> QED BY <1>1, <1>2 DEF Table

LEMMA TableStep == Types /\ Table /\ Streams /\ [Next]_vars => Table'
<1> SUFFICES ASSUME Types, Table, Streams, [Next]_vars PROVE Table'
  BY Zenon
<1>a. RouteTypes /\ route \in [Routes -> RouteRec] /\ route_map \in [RouteIds -> Routes \cup {None}]
  BY Zenon DEF Types, RouteTypes
<1>1. ASSUME route' = route \/ \E S : StopRoutes(S), UNCHANGED route_map PROVE Table'
  <2>1. \A o \in Routes : route'[o].pc = route[o].pc /\ route'[o].id = route[o].id
    BY <1>1, <1>a, StopRoutesDoes, Zenon DEF Same
  <2> QED BY <1>1, <1>a, <2>1, TableKept, Zenon
<1>2. ASSUME NEW o \in Routes, NEW id \in RouteIds, Adds(o, id) PROVE Table'
  <2>1. ~Alive(route[o]) /\ Alive(route'[o]) /\ route'[o].id = id
    BY <1>2 DEF Adds, InUse, Alive
  <2>2. \A d \in Routes : d # o => (Alive(route'[d]) <=> Alive(route[d])) /\ route'[d].id = route[d].id
    BY <1>2, Zenon DEF Adds, Alive
  <2>3. route_map[id] = None /\ route_map' = [route_map EXCEPT ![id] = o]
    BY <1>2, Zenon DEF Adds
  <2>4. \A i \in RouteIds : route_map[i] # None => route_map[i] \in Routes
    BY <1>a
  <2>5. ASSUME NEW d \in Routes, Alive(route'[d]) PROVE route'[d].id \in RouteIds /\ route_map'[route'[d].id] = d
    BY <1>a, <2>1, <2>2, <2>3, <2>5, NoneAssumption DEF Table
  <2>6. ASSUME NEW i \in RouteIds, route_map'[i] # None PROVE Alive(route'[route_map'[i]]) /\ route'[route_map'[i]].id = i
    <3>1. CASE i = id
      BY <1>a, <2>1, <2>3, <3>1
    <3>2. CASE i # id
      <4>1. route_map'[i] = route_map[i]
        BY <1>a, <2>3, <3>2
      <4>2. route_map[i] \in Routes /\ Alive(route[route_map[i]]) /\ route[route_map[i]].id = i
        BY <2>4, <2>6, <4>1, Zenon DEF Table
      <4>3. route_map[i] # o
        BY <2>1, <4>2, Zenon
      <4> QED BY <2>2, <4>1, <4>2, <4>3
    <3> QED BY <3>1, <3>2, Zenon
  <2> QED BY <2>5, <2>6, Zenon DEF Table
<1>3. ASSUME Recv PROVE Table'
  BY <1>3, <1>a, RecvDoes, TableKept, Zenon
<1>4. ASSUME NEW o \in Routes, RouteTask(o) PROVE Table'
  <2>0. route[o].id \in RouteIds /\ route_map[route[o].id] = o
    BY <1>4, TaskDoes, Zenon
  <2>1. ASSUME NEW p \in {"run", "join", "remove"}, Moves(o, p), UNCHANGED route_map, Alive(route[o]) PROVE Table'
    <3>1. \A d \in Routes : (Alive(route'[d]) <=> Alive(route[d])) /\ route'[d].id = route[d].id
      BY <2>1 DEF Alive, Moves
    <3>2. \A i \in RouteIds : route_map[i] # None => route_map[i] \in Routes
      BY <1>a
    <3> QED BY <2>1, <3>1, <3>2 DEF Table
  <2>2. ASSUME Moves(o, "gone"), route_map' = [route_map EXCEPT ![route[o].id] = None] PROVE Table'
    <3>1. ~Alive(route'[o]) /\ \A d \in Routes : d # o => (Alive(route'[d]) <=> Alive(route[d])) /\ route'[d].id = route[d].id
      BY <2>2 DEF Alive, Moves
    <3>2. \A i \in RouteIds : route_map'[i] = IF i = route[o].id THEN None ELSE route_map[i]
      BY <1>a, <2>2
    <3>3. \A i \in RouteIds : route_map[i] # None => route_map[i] \in Routes
      BY <1>a
    <3>4. \A d \in Routes : d # o /\ Alive(route[d]) => route[d].id # route[o].id
      BY <2>0, Zenon DEF Table
    <3>5. \A i \in RouteIds : route_map[i] = o => i = route[o].id
      BY NoneAssumption, Zenon DEF Table
    <3>6. ASSUME NEW d \in Routes, Alive(route'[d]) PROVE route'[d].id \in RouteIds /\ route_map'[route'[d].id] = d
      <4>1. d # o /\ Alive(route[d]) /\ route'[d].id = route[d].id
        BY <3>1, <3>6, Zenon
      <4>2. route[d].id \in RouteIds /\ route_map[route[d].id] = d /\ route[d].id # route[o].id
        BY <3>4, <4>1, Zenon DEF Table
      <4> QED BY <3>2, <4>1, <4>2, Zenon
    <3>7. ASSUME NEW i \in RouteIds, route_map'[i] # None PROVE Alive(route'[route_map'[i]]) /\ route'[route_map'[i]].id = i
      <4>1. route_map'[i] = route_map[i] /\ i # route[o].id
        BY <3>2, <3>7, Zenon
      <4>2. route_map[i] \in Routes /\ Alive(route[route_map[i]]) /\ route[route_map[i]].id = i /\ route_map[i] # o
        BY <3>3, <3>5, <3>7, <4>1, Zenon DEF Table
      <4> QED BY <3>1, <4>1, <4>2
    <3> QED BY <3>6, <3>7, Zenon DEF Table
  <2>3. (IF psc = "open" THEN "run" ELSE "join") \in {"run", "join", "remove"}
    OBVIOUS
  <2>4. Alive(route[o])
    BY <1>4, TaskDoes DEF Alive
  <2> QED BY <1>4, <2>1, <2>2, <2>3, <2>4, TaskDoes, Zenon
<1>5. Kind
  BY Kinds, Zenon
<1> QED BY <1>1, <1>2, <1>3, <1>4, <1>5, Zenon DEF Kind, Quiet, Stops, Cuts, Adding, PacketStream, routes, ServerReceives

-----------------------------------------------------------------------------
(* The streams: what RunTask has done before it opens another one.         *)

\* Every step keeps a closed stream empty.
LEMMA ClosedEmpty ==
  ASSUME Types, Table, Streams, [Next]_vars
  PROVE  psc' # "open" => c2s' = <<>> /\ s2c' = <<>> /\ \A i \in RouteIds : srv'[i] = None
<1> DEFINE Good == psc' # "open" => c2s' = <<>> /\ s2c' = <<>> /\ \A i \in RouteIds : srv'[i] = None
<1>a. LoopTypes /\ NetTypes
  BY Zenon DEF Types
<1>b. psc # "open" => c2s = <<>> /\ s2c = <<>> /\ \A i \in RouteIds : srv[i] = None
  BY Zenon DEF Streams
<1>1. ASSUME UNCHANGED <<c2s, s2c, srv>>, psc' # "open" => psc # "open" PROVE Good
  BY <1>1, <1>b, Zenon
<1>2. ASSUME CloseStream PROVE Good
  BY <1>a, <1>2, CloseDoes, Zenon
<1>3. ASSUME Recv PROVE Good
  BY <1>3, RecvDoes, Zenon
<1>4. ASSUME NEW o \in Routes, RouteTask(o) PROVE Good
  <2>1. UNCHANGED <<psc, s2c, srv>> /\ route[o].id \in RouteIds
    BY <1>4, TaskDoes, Zenon
  <2>2. c2s' = c2s \/ Send("START", o) \/ Send("STOP", o)
    BY <1>4, TaskDoes, Zenon
  <2>3. psc # "open" => c2s' = c2s
    BY <1>a, <2>1, <2>2, SendDoes, Zenon
  <2> QED BY <1>b, <2>1, <2>3, Zenon
<1>5. ASSUME ServerReceives PROVE Good
  BY <1>5, <1>b, ServerDoes, Zenon
<1>6. ASSUME PacketStream PROVE Good
  BY <1>6, Zenon DEF PacketStream
<1> HIDE DEF Good
<1>7. Kind
  BY Kinds, Zenon
<1>8. Good
  BY <1>1, <1>2, <1>3, <1>4, <1>5, <1>6, <1>7, Zenon DEF Kind, Quiet, Stops, Cuts, Adding
<1> QED BY <1>8, Zenon DEF Good

\* Nobody but PacketStream opens the stream.
LEMMA OpensOnly ==
  ASSUME Types, Table, Streams, [Next]_vars, psc' = "open"
  PROVE  psc = "open" \/ PacketStream
<1>1. CloseStream => psc' # "open"
  BY CloseDoes DEF Types
<1>2. Kind
  BY Kinds, Zenon
<1> QED BY <1>1, <1>2, RecvDoes, ServerDoes, TaskDoes, Zenon DEF Kind, Quiet, Stops, Cuts, Adding

\* The steps of other tasks leave RunTask alone, and take no connection away.
LEMMA OthersLeaveLoop ==
  ASSUME [Next]_vars, ~RunTask
  PROVE  pc' = pc /\ (conn' = conn \/ (conn # "nil" /\ conn' = "closed"))
BY Zenon DEF Next, RouteTask, RouteStart, RouteStops, RouteStop, RemoveClientRoute, Requests, DeleteRoute,
   PostRoute, DeleteRoutes, DeleteConn, ClientReqStop, ReqStopDisconnects, Disconnect, ServerReceives, BreakLink,
   loop, link, vars

\* RunTask comes to a place only from the places before it.
LEMMA LoopMoves ==
  ASSUME RunTask
  PROVE  /\ pc' \in Between => pc \in Between \cup {"disconnect"}
         /\ pc' = "disconnect" => \/ pc \in {"start", "seed", "stream"} /\ (conn' = "nil" => pc = "start" \/ conn = "nil")
                                  \/ pc = "recv" /\ psc # "open" /\ UNCHANGED <<conn, psc>>
         /\ pc' \in {"seed", "stream", "routes", "select", "recv"} =>
              \/ pc = "start" /\ conn' = "open"
              \/ pc \in {"seed", "stream", "routes", "select", "recv"} /\ conn' = conn
         /\ pc = "disconnect" => ActiveDisconnect
         /\ pc' \in Between /\ pc \in {"start", "seed", "stream"} => psc' = psc
BY Zenon DEF RunTask, NewClient, GetSeed, PacketStream, ConnectFails, AddStaticRoute, RoutesAdded, Select, RecvFails,
   Recv, ConnError, ActiveDisconnect, Sleep, StopAndWait, Terminate, Goto, link, Between

\* Without an open stream no route gets to run.
Calm == \A o \in Routes : route[o].pc = "run" => route[o].stop_req

LEMMA CalmKept ==
  ASSUME Types, Table, Streams, [Next]_vars, Calm, psc # "open"
  PROVE  Calm'
<1>a. RouteTypes
  BY Zenon DEF Types
<1>1. ASSUME route' = route \/ \E S : StopRoutes(S) PROVE Calm'
  <2>1. \A o \in Routes : route'[o].pc = route[o].pc /\ (route[o].stop_req => route'[o].stop_req)
    BY <1>1, <1>a, StopRoutesDoes, Zenon DEF Same
  <2> QED BY <2>1, Zenon DEF Calm
<1>2. ASSUME NEW o \in Routes, NEW id \in RouteIds, Adds(o, id) PROVE Calm'
  BY <1>2 DEF Adds, Calm
<1>3. ASSUME NEW o \in Routes, RouteTask(o) PROVE Calm'
  <2>1. route'[o].pc # "run" /\ \A d \in Routes : d # o => route'[d] = route[d]
    BY <1>3, TaskDoes DEF Moves
  <2> QED BY <2>1, Zenon DEF Calm
<1>4. Kind
  BY Kinds, Zenon
<1> QED BY <1>1, <1>2, <1>3, <1>4, RecvDoes, Zenon DEF Kind, Quiet, Stops, Cuts, Adding, PacketStream, routes, ServerReceives

\* disconnect_from_server asks every route to stop that is in the table.
LEMMA DisconnectCalms ==
  ASSUME Types, Table, Disconnect, conn # "nil"
  PROVE  Calm'
<1>a. RouteTypes /\ route_map \in [RouteIds -> Routes \cup {None}]
  BY Zenon DEF Types, RouteTypes
<1>1. StopRoutes(Mapped)
  BY Zenon DEF Disconnect
<1>2. ASSUME NEW o \in Routes, route'[o].pc = "run" PROVE route'[o].stop_req
  <2>1. Alive(route[o])
    BY <1>1, <1>2, <1>a, StopRoutesDoes DEF Same, Alive
  <2>2. o \in Mapped
    BY <2>1, NoneAssumption DEF Table, Mapped
  <2> QED BY <1>1, <1>a, <2>2, StopRoutesDoes, Zenon
<1> QED BY <1>2, Zenon DEF Calm

LEMMA StreamsStep == Types /\ Table /\ Streams /\ [Next]_vars => Streams'
<1> SUFFICES ASSUME Types, Table, Streams, [Next]_vars PROVE Streams'
  BY Zenon
<1>a. /\ pc \in Between \cup {"disconnect"} => psc # "open"
      /\ pc \in {"seed", "stream", "routes", "select", "recv"} => conn # "nil"
      /\ pc \in Between \/ (pc = "disconnect" /\ conn = "nil") => Calm
  BY Zenon DEF Streams, Calm
<1>b. Between = {"start", "seed", "stream", "sleep"}
  BY Zenon DEF Between
<1>1. psc' # "open" => c2s' = <<>> /\ s2c' = <<>> /\ \A i \in RouteIds : srv'[i] = None
  BY ClosedEmpty, Zenon
<1>2. ASSUME pc' \in Between \cup {"disconnect"}, psc' = "open" PROVE FALSE
  <2>1. CASE PacketStream
    <3>1. pc' = "routes"
      BY <2>1, Zenon DEF PacketStream
    <3> QED BY <1>2, <1>b, <3>1
  <2>2. CASE psc = "open"
    <3>1. pc \notin Between \cup {"disconnect"}
      BY <1>a, <2>2, Zenon
    <3>2. CASE RunTask
      BY <1>2, <1>b, <2>2, <3>1, <3>2, LoopMoves
    <3>3. CASE ~RunTask
      BY <1>2, <3>1, <3>3, OthersLeaveLoop, Zenon
    <3> QED BY <3>2, <3>3, Zenon
  <2> QED BY <1>2, <2>1, <2>2, OpensOnly, Zenon
<1>3. pc' \in {"seed", "stream", "routes", "select", "recv"} => conn' # "nil"
  <2>1. CASE RunTask
    BY <1>a, <2>1, LoopMoves
  <2>2. CASE ~RunTask
    BY <1>a, <2>2, OthersLeaveLoop
  <2> QED BY <2>1, <2>2, Zenon
<1>4. ASSUME pc' \in Between \/ (pc' = "disconnect" /\ conn' = "nil") PROVE Calm'
  <2>1. CASE pc \in Between \/ (pc = "disconnect" /\ conn = "nil")
    BY <1>a, <2>1, CalmKept, Zenon
  <2>2. CASE ActiveDisconnect /\ conn # "nil"
    BY <2>2, DisconnectCalms, Zenon DEF ActiveDisconnect
  <2>3. CASE ~RunTask
    BY <1>4, <2>1, <2>3, OthersLeaveLoop
  <2>4. CASE RunTask
    <3>1. CASE pc' \in Between
      BY <2>1, <2>2, <2>4, <3>1, LoopMoves, Zenon
    <3>2. CASE pc' = "disconnect" /\ conn' = "nil"
      BY <1>a, <1>b, <2>1, <2>4, <3>2, LoopMoves
    <3> QED BY <1>4, <3>1, <3>2, Zenon
  <2> QED BY <2>3, <2>4, Zenon
<1> QED BY <1>1, <1>2, <1>3, <1>4, Zenon DEF Streams, Calm

-----------------------------------------------------------------------------
(* What the two ends know of each other's routes.                          *)

\* A packet in a sequence with one more is the new one or was there before.
LEMMA UnderWayAppend ==
  ASSUME NEW S, NEW q \in Seq(S), NEW m \in S, NEW kind, NEW i
  PROVE  /\ UnderWay(q, kind, i) => UnderWay(Append(q, m), kind, i)
         /\ m.kind = kind /\ m.id = i => UnderWay(Append(q, m), kind, i)
<1>1. /\ Len(q) \in Nat /\ Len(Append(q, m)) = Len(q) + 1
      /\ Append(q, m)[Len(q) + 1] = m /\ \A k \in 1 .. Len(q) : Append(q, m)[k] = q[k]
  OBVIOUS
<1>2. 1 .. Len(q) \subseteq 1 .. (Len(q) + 1) /\ Len(q) + 1 \in 1 .. (Len(q) + 1)
  BY <1>1
<1> QED BY <1>1, <1>2, Zenon DEF UnderWay

LEMMA UnderWayTail ==
  ASSUME NEW S, NEW q \in Seq(S), q # <<>>, NEW kind, NEW i, UnderWay(q, kind, i)
  PROVE  (Head(q).kind = kind /\ Head(q).id = i) \/ UnderWay(Tail(q), kind, i)
<1>1. /\ Len(q) \in Nat \ {0} /\ Head(q) = q[1] /\ Len(Tail(q)) = Len(q) - 1
      /\ \A k \in 1 .. Len(Tail(q)) : Tail(q)[k] = q[k + 1]
  BY HeadTail, Zenon
<1>2. PICK k \in 1 .. Len(q) : q[k].kind = kind /\ q[k].id = i
  BY Zenon DEF UnderWay
<1>3. CASE k = 1
  BY <1>1, <1>2, <1>3, Zenon
<1>4. CASE k # 1
  <2>1. k - 1 \in 1 .. Len(Tail(q)) /\ (k - 1) + 1 = k
    BY <1>1, <1>4
  <2>2. Tail(q)[k - 1] = q[k]
    BY <1>1, <2>1
  <2> QED BY <1>2, <2>1, <2>2, Zenon DEF UnderWay
<1> QED BY <1>3, <1>4, Zenon

\* A step that takes no route away from the server's view keeps ServerHolds.
LEMMA HoldsKept ==
  ASSUME Types, ServerHolds, UNCHANGED <<c2s, srv>>, \A o \in Routes, i \in RouteIds : Held(o, i) => Held(o, i)'
  PROVE  ServerHolds'
<1>a. c2s \in Seq(Up) /\ srv \in [RouteIds -> Routes \cup {None}]
  BY Zenon DEF Types, NetTypes
<1>1. ASSUME NEW i \in RouteIds, srv'[i] # None PROVE Held(srv[i], i)' \/ UnderWay(c2s', "STOP", i)
  <2>1. srv[i] \in Routes /\ srv[i] # None
    BY <1>a, <1>1
  <2>2. Held(srv[i], i) \/ UnderWay(c2s, "STOP", i)
    BY <2>1, Zenon DEF ServerHolds
  <2>3. Held(srv[i], i) => Held(srv[i], i)'
    <3>1. \A o \in Routes : srv[i] = o /\ Held(o, i) => srv'[i] = o /\ Held(o, i)'
      BY Zenon
    <3> QED BY <2>1, <3>1 DEF Held
  <2> QED BY <2>2, <2>3, Zenon
<1>2. ASSUME NEW k \in 1 .. Len(c2s), c2s[k].kind = "START"
      PROVE  \/ Held(c2s[k].o, c2s[k].id)'
             \/ \E l \in 1 .. Len(c2s) : l > k /\ c2s[l].kind = "STOP" /\ c2s[l].id = c2s[k].id
  <2>1. c2s[k] \in Up
    BY <1>a
  <2>2. c2s[k].o \in Routes /\ c2s[k].id \in RouteIds
    BY <2>1 DEF Up
  <2>3. \/ Held(c2s[k].o, c2s[k].id)
        \/ \E l \in 1 .. Len(c2s) : l > k /\ c2s[l].kind = "STOP" /\ c2s[l].id = c2s[k].id
    BY <1>2, Zenon DEF ServerHolds
  <2>4. \A o \in Routes, i \in RouteIds : c2s[k].o = o /\ c2s[k].id = i /\ Held(o, i) => Held(c2s[k].o, c2s[k].id)'
    BY Zenon DEF Held
  <2> QED BY <2>2, <2>3, <2>4, Zenon
<1> QED BY <1>1, <1>2, Zenon DEF ServerHolds

\* What a route's task sends keeps it: ROUTE_START is sent by a route that then
\* runs, and a route that the server may have leaves with ROUTE_STOP.
LEMMA HoldsSent ==
  ASSUME Types, ServerHolds, NEW w \in Up, c2s' = Append(c2s, w), srv' = srv,
         \A o \in Routes, i \in RouteIds : Held(o, i) => Held(o, i)' \/ (w.kind = "STOP" /\ w.id = i),
         w.kind = "START" => route'[w.o].id = w.id /\ route'[w.o].pc \in {"run", "join"}
  PROVE  ServerHolds'
<1> DEFINE Kept(o, i) == route'[o].id = i /\ route'[o].pc \in {"run", "join"}
           n == Len(c2s) + 1
<1>a. c2s \in Seq(Up) /\ srv \in [RouteIds -> Routes \cup {None}]
  BY Zenon DEF Types, NetTypes
<1>b. \A o \in Routes, i \in RouteIds : Held(o, i) => Kept(o, i) \/ (w.kind = "STOP" /\ w.id = i)
  BY Zenon DEF Held
<1>c. /\ Len(c2s) \in Nat /\ Len(c2s') = n /\ c2s'[n] = w /\ n \in 1 .. Len(c2s')
      /\ \A k \in 1 .. Len(c2s) : c2s'[k] = c2s[k] /\ k \in 1 .. Len(c2s') /\ n > k
      /\ \A k \in 1 .. Len(c2s') : k = n \/ k \in 1 .. Len(c2s)
  BY <1>a
<1> HIDE DEF n
<1>1. ASSUME NEW i \in RouteIds, srv[i] # None PROVE Kept(srv[i], i) \/ UnderWay(c2s', "STOP", i)
  <2>1. srv[i] \in Routes
    BY <1>a, <1>1
  <2>2. Held(srv[i], i) \/ UnderWay(c2s, "STOP", i)
    BY <1>1, Zenon DEF ServerHolds
  <2>3. UnderWay(c2s, "STOP", i) => UnderWay(c2s', "STOP", i)
    BY <1>c, Zenon DEF UnderWay
  <2>4. w.kind = "STOP" /\ w.id = i => UnderWay(c2s', "STOP", i)
    BY <1>c, Zenon DEF UnderWay
  <2> QED BY <1>b, <2>1, <2>2, <2>3, <2>4, Zenon
<1>2. ASSUME NEW k \in 1 .. Len(c2s'), c2s'[k].kind = "START"
      PROVE  \/ Kept(c2s'[k].o, c2s'[k].id)
             \/ \E l \in 1 .. Len(c2s') : l > k /\ c2s'[l].kind = "STOP" /\ c2s'[l].id = c2s'[k].id
  <2>1. CASE k = n
    BY <1>2, <1>c, <2>1, Zenon
  <2>2. CASE k \in 1 .. Len(c2s)
    <3>1. c2s'[k] = c2s[k] /\ c2s[k] \in Up
      BY <1>a, <1>c, <2>2
    <3>2. c2s[k].o \in Routes /\ c2s[k].id \in RouteIds
      BY <3>1 DEF Up
    <3>3. \/ Held(c2s[k].o, c2s[k].id)
          \/ \E l \in 1 .. Len(c2s) : l > k /\ c2s[l].kind = "STOP" /\ c2s[l].id = c2s[k].id
      BY <1>2, <2>2, <3>1, Zenon DEF ServerHolds
    <3>4. CASE \E l \in 1 .. Len(c2s) : l > k /\ c2s[l].kind = "STOP" /\ c2s[l].id = c2s[k].id
      BY <1>c, <3>1, <3>4, Zenon
    <3>5. CASE Held(c2s[k].o, c2s[k].id)
      <4>1. Kept(c2s[k].o, c2s[k].id) \/ (w.kind = "STOP" /\ w.id = c2s[k].id)
        BY <1>b, <3>2, <3>5, Zenon
      <4>2. n > k /\ c2s'[n] = w /\ n \in 1 .. Len(c2s')
        BY <1>c, <2>2, Zenon
      <4> QED BY <3>1, <4>1, <4>2, Zenon
    <3> QED BY <3>3, <3>4, <3>5, Zenon
  <2> QED BY <1>c, <1>2, <2>1, <2>2, Zenon
<1> QED BY <1>1, <1>2, Zenon DEF ServerHolds, Held

\* The server takes the first packet.
LEMMA HoldsReceived ==
  ASSUME Types, ServerHolds, ServerReceives
  PROVE  ServerHolds'
<1> DEFINE m == Head(c2s)
<1>a. c2s \in Seq(Up) /\ srv \in [RouteIds -> Routes \cup {None}] /\ c2s # <<>> /\ c2s' = Tail(c2s) /\ m \in Up /\ route' = route
  BY ServerDoes, Zenon DEF Types, NetTypes
<1>b. /\ Len(c2s) \in Nat \ {0} /\ m = c2s[1] /\ Len(c2s') = Len(c2s) - 1
      /\ \A k \in 1 .. Len(c2s') : c2s'[k] = c2s[k + 1]
  BY <1>a, HeadTail, Zenon
<1>c. m.id \in RouteIds /\ m.o \in Routes /\ m.kind \in {"START", "STOP"}
  BY <1>a DEF Up
<1>d. \A l \in 1 .. Len(c2s) : l = 1 \/ (l - 1 \in 1 .. Len(c2s') /\ c2s'[l - 1] = c2s[l])
  BY <1>b
<1>e. \A k \in 1 .. Len(c2s') : k + 1 \in 1 .. Len(c2s)
  BY <1>b
<1> HIDE DEF m
<1>1. ASSUME NEW i \in RouteIds, srv'[i] # None PROVE Held(srv'[i], i) \/ UnderWay(c2s', "STOP", i)
  <2>1. ASSUME srv'[i] = srv[i], ~(m.kind = "STOP" /\ m.id = i) PROVE Held(srv'[i], i) \/ UnderWay(c2s', "STOP", i)
    <3>1. Held(srv[i], i) \/ UnderWay(c2s, "STOP", i)
      BY <1>1, <2>1, Zenon DEF ServerHolds
    <3>2. UnderWay(c2s, "STOP", i) => UnderWay(c2s', "STOP", i)
      BY <1>a, <2>1, UnderWayTail, Zenon DEF m
    <3> QED BY <2>1, <3>1, <3>2, Zenon
  <2>2. CASE m.kind = "START" /\ srv' = [srv EXCEPT ![m.id] = m.o]
    <3>1. CASE i # m.id
      <4>1. srv'[i] = srv[i]
        BY <1>a, <2>2, <3>1
      <4> QED BY <2>1, <3>1, <4>1, Zenon
    <3>2. CASE i = m.id
      <4>1. srv'[i] = m.o
        BY <1>a, <2>2, <3>2
      <4>2. \/ Held(m.o, m.id)
            \/ \E l \in 1 .. Len(c2s) : l > 1 /\ c2s[l].kind = "STOP" /\ c2s[l].id = m.id
        <5>1. 1 \in 1 .. Len(c2s)
          BY <1>b
        <5> QED BY <1>b, <2>2, <5>1, Zenon DEF ServerHolds
      <4>3. ASSUME NEW l \in 1 .. Len(c2s), l > 1, c2s[l].kind = "STOP", c2s[l].id = m.id PROVE UnderWay(c2s', "STOP", i)
        <5>1. l # 1
          BY <4>3
        <5> QED BY <1>d, <3>2, <4>3, <5>1, Zenon DEF UnderWay
      <4> QED BY <3>2, <4>1, <4>2, <4>3, Zenon
    <3> QED BY <3>1, <3>2, Zenon
  <2>3. CASE m.kind = "START" /\ srv' = srv
    <3>1. m.kind # "STOP"
      BY <2>3
    <3> QED BY <2>1, <2>3, <3>1, Zenon
  <2>4. CASE m.kind = "STOP" /\ (srv' = [srv EXCEPT ![m.id] = None] \/ (srv[m.id] = None /\ srv' = srv))
    <3>1. srv'[m.id] = None
      BY <1>a, <1>c, <2>4
    <3>2. i # m.id
      BY <1>1, <3>1, Zenon
    <3>3. srv'[i] = srv[i]
      BY <1>a, <2>4, <3>2
    <3> QED BY <2>1, <3>2, <3>3, Zenon
  <2> QED BY <2>2, <2>3, <2>4, ServerDoes, Zenon DEF m
<1>2. ASSUME NEW k \in 1 .. Len(c2s'), c2s'[k].kind = "START"
      PROVE  \/ Held(c2s'[k].o, c2s'[k].id)
             \/ \E l \in 1 .. Len(c2s') : l > k /\ c2s'[l].kind = "STOP" /\ c2s'[l].id = c2s'[k].id
  <2>1. k + 1 \in 1 .. Len(c2s) /\ c2s'[k] = c2s[k + 1]
    BY <1>b, <1>e, Zenon
  <2>2. \/ Held(c2s[k + 1].o, c2s[k + 1].id)
        \/ \E l \in 1 .. Len(c2s) : l > k + 1 /\ c2s[l].kind = "STOP" /\ c2s[l].id = c2s[k + 1].id
    BY <1>2, <2>1, Zenon DEF ServerHolds
  <2>3. ASSUME NEW l \in 1 .. Len(c2s), l > k + 1, c2s[l].kind = "STOP", c2s[l].id = c2s[k + 1].id
        PROVE  \E j \in 1 .. Len(c2s') : j > k /\ c2s'[j].kind = "STOP" /\ c2s'[j].id = c2s'[k].id
    <3>1. l # 1 /\ l - 1 > k
      BY <2>3
    <3> QED BY <1>d, <2>1, <2>3, <3>1, Zenon
  <2> QED BY <2>1, <2>2, <2>3, Zenon
<1>3. \A o, i : Held(o, i)' <=> Held(o, i)
  BY <1>a, Zenon DEF Held
<1> QED BY <1>1, <1>2, <1>a, Zenon DEF ServerHolds, Held

LEMMA ServerHoldsStep == Types /\ Table /\ Streams /\ ServerHolds /\ [Next]_vars => ServerHolds'
<1> SUFFICES ASSUME Types, Table, Streams, ServerHolds, [Next]_vars PROVE ServerHolds'
  BY Zenon
<1>a. RouteTypes /\ NetTypes /\ LoopTypes
  BY Zenon DEF Types
<1>1. ASSUME UNCHANGED <<c2s, srv>>, route' = route \/ \E S : StopRoutes(S) PROVE ServerHolds'
  <2>1. \A o \in Routes : route'[o].pc = route[o].pc /\ route'[o].id = route[o].id
    BY <1>1, <1>a, StopRoutesDoes, Zenon DEF Same
  <2> QED BY <1>1, <2>1, HoldsKept, Zenon DEF Held
<1>2. ASSUME NEW o \in Routes, NEW id \in RouteIds, Adds(o, id), UNCHANGED <<c2s, srv>> PROVE ServerHolds'
  <2>1. route[o].pc \in {"none", "gone"} /\ \A d \in Routes : d # o => route'[d] = route[d]
    BY <1>2, Zenon DEF Adds, InUse
  <2>2. \A d \in Routes, i \in RouteIds : Held(d, i) => Held(d, i)'
    BY <2>1 DEF Held
  <2> QED BY <1>2, <2>2, HoldsKept, Zenon
<1>3. ASSUME CloseStream PROVE ServerHolds'
  <2>1. c2s' = <<>> /\ \A i \in RouteIds : srv'[i] = None
    BY <1>3, <1>a, CloseDoes, Zenon
  <2> QED BY <2>1 DEF ServerHolds
<1>4. ASSUME Recv PROVE ServerHolds'
  BY <1>4, RecvDoes, HoldsKept, Zenon DEF Held
<1>5. ASSUME NEW o \in Routes, RouteTask(o) PROVE ServerHolds'
  <2>0. srv' = srv /\ route[o].id \in RouteIds
    BY <1>5, TaskDoes, Zenon
  <2>1. ASSUME route[o].pc = "start", Send("START", o), Moves(o, IF psc = "open" THEN "run" ELSE "join") PROVE ServerHolds'
    <3>1. \A d \in Routes, i \in RouteIds : Held(d, i) => Held(d, i)'
      BY <2>1 DEF Held, Moves
    <3>2. CASE psc # "open"
      BY <1>a, <2>0, <2>1, <3>1, <3>2, SendDoes, HoldsKept, Zenon
    <3>3. CASE psc = "open"
      <4>1. Word("START", o) \in Up /\ c2s' = Append(c2s, Word("START", o))
        BY <1>a, <2>0, <2>1, <3>3, SendDoes, Zenon
      <4>2. route'[o].id = route[o].id /\ route'[o].pc \in {"run", "join"}
        BY <2>1, <3>3 DEF Moves
      <4>3. Word("START", o).o = o /\ Word("START", o).id = route[o].id
        BY DEF Word
      <4> QED BY <2>0, <3>1, <4>1, <4>2, <4>3, HoldsSent, Zenon
    <3> QED BY <3>2, <3>3, Zenon
  <2>2. ASSUME route[o].pc = "join", Send("STOP", o), Moves(o, "remove") PROVE ServerHolds'
    <3>1. CASE psc # "open"
      <4>1. c2s' = <<>> /\ \A i \in RouteIds : srv'[i] = None
        BY <1>a, <2>0, <2>2, <3>1, SendDoes, Zenon DEF Streams
      <4> QED BY <4>1 DEF ServerHolds
    <3>2. CASE psc = "open"
      <4>1. Word("STOP", o) \in Up /\ c2s' = Append(c2s, Word("STOP", o))
        BY <1>a, <2>0, <2>2, <3>2, SendDoes, Zenon
      <4>2. Word("STOP", o).kind = "STOP" /\ Word("STOP", o).id = route[o].id
        BY DEF Word
      <4>3. \A d \in Routes, i \in RouteIds : Held(d, i) => Held(d, i)' \/ route[o].id = i
        BY <2>2 DEF Held, Moves
      <4>4. Word("STOP", o).kind # "START"
        BY <4>2
      <4> QED BY <2>0, <4>1, <4>2, <4>3, <4>4, HoldsSent, Zenon
    <3> QED BY <3>1, <3>2, Zenon
  <2>3. ASSUME UNCHANGED c2s, Moves(o, "join") \/ (route[o].pc = "remove" /\ Moves(o, "gone")) PROVE ServerHolds'
    <3>1. \A d \in Routes, i \in RouteIds : Held(d, i) => Held(d, i)'
      BY <2>3 DEF Held, Moves
    <3> QED BY <2>0, <2>3, <3>1, HoldsKept, Zenon
  <2> QED BY <1>5, <2>1, <2>2, <2>3, TaskDoes, Zenon
<1>6. Kind
  BY Kinds, Zenon
<1> QED BY <1>1, <1>2, <1>3, <1>4, <1>5, <1>6, HoldsReceived, Zenon DEF Kind, Quiet, Stops, Cuts, Adding, PacketStream, routes, net

\* What a running route that goes on running has asked for stays so: another
\* route's words have another id.
LEMMA AskedKept ==
  ASSUME Types, NEW o \in Routes, Asked(o), route'[o].id = route[o].id, route[o].listening => route'[o].listening,
         UNCHANGED <<s2c, srv>>,
         c2s' = c2s \/ \E w \in Up : w.id # route[o].id /\ c2s' = Append(c2s, w)
  PROVE  Asked(o)'
<1> DEFINE i == route[o].id
<1>a. c2s \in Seq(Up)
  BY Zenon DEF Types, NetTypes
<1>1. /\ \A k \in 1 .. Len(c2s) : c2s'[k] = c2s[k] /\ k \in 1 .. Len(c2s')
      /\ \A k \in 1 .. Len(c2s') : k \in 1 .. Len(c2s) \/ c2s'[k].id # i
  <2>1. ASSUME NEW w \in Up, w.id # i, c2s' = Append(c2s, w)
        PROVE  /\ \A k \in 1 .. Len(c2s) : c2s'[k] = c2s[k] /\ k \in 1 .. Len(c2s')
               /\ \A k \in 1 .. Len(c2s') : k \in 1 .. Len(c2s) \/ c2s'[k].id # i
    BY <1>a, <2>1
  <2> QED BY <2>1, Zenon
<1>b. route'[o].id = i
  BY Zenon
<1> HIDE DEF i
<1>2. ASSUME NEW k \in 1 .. Len(c2s), c2s[k].kind = "START", c2s[k].o = o, c2s[k].id = i,
             \A l \in 1 .. Len(c2s) : l > k => c2s[l].id # i
      PROVE  Asked(o)'
  <2>1. k \in 1 .. Len(c2s') /\ c2s'[k].kind = "START" /\ c2s'[k].o = o /\ c2s'[k].id = i
    BY <1>1, <1>2, Zenon
  <2>2. \A l \in 1 .. Len(c2s') : l > k => c2s'[l].id # i
    BY <1>1, <1>2, Zenon
  <2> QED BY <1>b, <2>1, <2>2, Zenon DEF Asked
<1>3. ASSUME \A k \in 1 .. Len(c2s) : c2s[k].id # i,
             \/ srv[i] = o /\ (route[o].listening \/ UnderWay(s2c, "STARTED", i))
             \/ UnderWay(s2c, "STOPPED", i)
      PROVE  Asked(o)'
  <2>1. \A k \in 1 .. Len(c2s') : c2s'[k].id # i
    BY <1>1, <1>3, Zenon
  <2>2. \/ srv'[i] = o /\ (route'[o].listening \/ UnderWay(s2c', "STARTED", i))
        \/ UnderWay(s2c', "STOPPED", i)
    BY <1>3, Zenon
  <2> QED BY <1>b, <2>1, <2>2, Zenon DEF Asked
<1> QED BY <1>2, <1>3, Zenon DEF Asked, i

\* The answer to ROUTE_START marks the route or stops it.
LEMMA AskedAnswered ==
  ASSUME Types, Recv, NEW o \in Routes, route_map[route[o].id] = o, Asked(o), ~route'[o].stop_req
  PROVE  Asked(o)'
<1> DEFINE i == route[o].id
<1>a. /\ s2c \in Seq(Down) /\ s2c # <<>> /\ s2c' = Tail(s2c) /\ UNCHANGED <<c2s, srv>> /\ route'[o].id = i
      /\ route[o].listening => route'[o].listening
      /\ o = route_map[Head(s2c).id] =>
           IF Head(s2c).kind = "STARTED" THEN route'[o].listening ELSE route'[o].stop_req
  BY RecvDoes, Zenon DEF Types, NetTypes
<1>1. UnderWay(s2c, "STARTED", i) => route'[o].listening \/ UnderWay(s2c', "STARTED", i)
  BY <1>a, UnderWayTail, Zenon
<1>2. UnderWay(s2c, "STOPPED", i) => UnderWay(s2c', "STOPPED", i)
  <2>1. "STOPPED" # "STARTED"
    OBVIOUS
  <2> QED BY <1>a, <2>1, UnderWayTail, Zenon
<1>b. route'[o].id = i
  BY <1>a, Zenon
<1> HIDE DEF i
<1>3. ASSUME \A k \in 1 .. Len(c2s) : c2s[k].id # i,
             \/ srv[i] = o /\ (route[o].listening \/ UnderWay(s2c, "STARTED", i))
             \/ UnderWay(s2c, "STOPPED", i)
      PROVE  Asked(o)'
  <2>1. \/ srv'[i] = o /\ (route'[o].listening \/ UnderWay(s2c', "STARTED", i))
        \/ UnderWay(s2c', "STOPPED", i)
    BY <1>a, <1>1, <1>2, <1>3, Zenon
  <2>2. \A k \in 1 .. Len(c2s') : c2s'[k].id # i
    BY <1>a, <1>3, Zenon
  <2> QED BY <1>b, <2>1, <2>2, Zenon DEF Asked
<1>4. ASSUME NEW k \in 1 .. Len(c2s), c2s[k].kind = "START", c2s[k].o = o, c2s[k].id = i,
             \A l \in 1 .. Len(c2s) : l > k => c2s[l].id # i
      PROVE  Asked(o)'
  <2>1. k \in 1 .. Len(c2s') /\ c2s'[k].kind = "START" /\ c2s'[k].o = o /\ c2s'[k].id = i
    BY <1>a, <1>4, Zenon
  <2>2. \A l \in 1 .. Len(c2s') : l > k => c2s'[l].id # i
    BY <1>a, <1>4, Zenon
  <2> QED BY <1>b, <2>1, <2>2, Zenon DEF Asked
<1> QED BY <1>3, <1>4, Zenon DEF Asked, i

\* The server starts the route or refuses it.
LEMMA AskedServed ==
  ASSUME Types, ServerReceives, NEW o \in Routes, Asked(o), route[o].id \in RouteIds
  PROVE  Asked(o)'
<1> DEFINE i == route[o].id
           m == Head(c2s)
<1>a. c2s \in Seq(Up) /\ s2c \in Seq(Down) /\ srv \in [RouteIds -> Routes \cup {None}] /\ c2s # <<>> /\ c2s' = Tail(c2s) /\ route' = route
  BY ServerDoes, Zenon DEF Types, NetTypes
<1>b. /\ Len(c2s) \in Nat \ {0} /\ m = c2s[1] /\ Len(c2s') = Len(c2s) - 1
      /\ \A k \in 1 .. Len(c2s') : c2s'[k] = c2s[k + 1]
  BY <1>a, HeadTail, Zenon
<1>c. \A k \in 1 .. Len(c2s) : k = 1 \/ (k - 1 \in 1 .. Len(c2s') /\ c2s'[k - 1] = c2s[k])
  BY <1>b
<1>d. \A k \in 1 .. Len(c2s') : k + 1 \in 1 .. Len(c2s) /\ k + 1 > 1 /\ c2s'[k] = c2s[k + 1]
  BY <1>b
<1>e. /\ Reply("STARTED") \in Down /\ Reply("STOPPED") \in Down
      /\ Reply("STARTED").kind = "STARTED" /\ Reply("STOPPED").kind = "STOPPED"
      /\ Reply("STARTED").id = m.id /\ Reply("STOPPED").id = m.id
  BY ServerDoes DEF Reply
<1>f. s2c' = s2c \/ s2c' = Append(s2c, Reply("STARTED")) \/ s2c' = Append(s2c, Reply("STOPPED"))
  BY ServerDoes, Zenon
<1>g. \A kind : UnderWay(s2c, kind, i) => UnderWay(s2c', kind, i)
  BY <1>a, <1>e, <1>f, UnderWayAppend, Zenon
<1> HIDE DEF m, i
<1>1. ASSUME NEW k \in 1 .. Len(c2s), c2s[k].kind = "START", c2s[k].o = o, c2s[k].id = i,
             \A l \in 1 .. Len(c2s) : l > k => c2s[l].id # i
      PROVE  Asked(o)'
  <2>1. CASE k = 1
    <3>1. \A l \in 1 .. Len(c2s') : c2s'[l].id # i
      BY <1>1, <1>d, <2>1, Zenon
    <3>2. m.kind = "START" /\ m.o = o /\ m.id = i
      BY <1>1, <1>b, <2>1, Zenon
    <3>3. m.kind # "STOP"
      BY <3>2
    <3>4. CASE srv' = [srv EXCEPT ![m.id] = m.o] /\ s2c' = Append(s2c, Reply("STARTED"))
      <4>1. srv'[i] = o
        BY <1>a, <3>2, <3>4 DEF i
      <4>2. UnderWay(s2c', "STARTED", i)
        BY <1>a, <1>e, <3>2, <3>4, UnderWayAppend, Zenon
      <4> QED BY <1>a, <3>1, <4>1, <4>2, Zenon DEF Asked, i
    <3>5. CASE s2c' = Append(s2c, Reply("STOPPED"))
      <4>1. UnderWay(s2c', "STOPPED", i)
        BY <1>a, <1>e, <3>2, <3>5, UnderWayAppend, Zenon
      <4> QED BY <1>a, <3>1, <4>1, Zenon DEF Asked, i
    <3> QED BY <3>3, <3>4, <3>5, ServerDoes, Zenon DEF m
  <2>2. CASE k # 1
    <3>1. k - 1 \in 1 .. Len(c2s') /\ c2s'[k - 1] = c2s[k]
      BY <1>c, <2>2, Zenon
    <3>2. ASSUME NEW l \in 1 .. Len(c2s'), l > k - 1 PROVE c2s'[l].id # i
      <4>1. l + 1 > k /\ l + 1 \in 1 .. Len(c2s)
        BY <1>d, <3>2
      <4> QED BY <1>1, <1>d, <4>1, Zenon
    <3> QED BY <1>1, <1>a, <3>1, <3>2, ZenonT(60) DEF Asked, i
  <2> QED BY <2>1, <2>2, Zenon
<1>2. ASSUME \A k \in 1 .. Len(c2s) : c2s[k].id # i,
             \/ srv[i] = o /\ (route[o].listening \/ UnderWay(s2c, "STARTED", i))
             \/ UnderWay(s2c, "STOPPED", i)
      PROVE  Asked(o)'
  <2>1. \A k \in 1 .. Len(c2s') : c2s'[k].id # i
    BY <1>2, <1>d, Zenon
  <2>2. m.id # i
    <3>1. 1 \in 1 .. Len(c2s)
      BY <1>b
    <3> QED BY <1>2, <1>b, <3>1, Zenon
  <2>3. srv' = srv \/ \E v : srv' = [srv EXCEPT ![m.id] = v]
    BY ServerDoes, Zenon DEF m
  <2>4. srv'[i] = srv[i]
    BY <1>a, <2>2, <2>3 DEF i
  <2> QED BY <1>2, <1>a, <1>g, <2>1, <2>4, Zenon DEF Asked, i
<1> QED BY <1>1, <1>2, Zenon DEF Asked, i

LEMMA RunningAskedStep == Types /\ Table /\ Streams /\ RunningAsked /\ [Next]_vars => RunningAsked'
<1> SUFFICES ASSUME Types, Table, Streams, RunningAsked, [Next]_vars, psc' = "open",
                    NEW o \in Routes, route'[o].pc = "run", ~route'[o].stop_req
             PROVE  Asked(o)'
  BY Zenon DEF RunningAsked
<1>a. RouteTypes /\ NetTypes /\ LoopTypes /\ c2s \in Seq(Up)
  BY Zenon DEF Types, NetTypes
<1>b. ASSUME route[o].pc = "run", ~route[o].stop_req, psc = "open"
      PROVE  Asked(o) /\ route[o].id \in RouteIds /\ route_map[route[o].id] = o
  <2>1. Alive(route[o])
    BY <1>b DEF Alive
  <2> QED BY <1>b, <2>1, Zenon DEF RunningAsked, Table
<1>1. ASSUME PacketStream PROVE FALSE
  <2>1. pc = "stream" /\ route' = route
    BY <1>1, Zenon DEF PacketStream, routes
  <2>2. Calm
    BY <2>1 DEF Streams, Between, Calm
  <2> QED BY <2>1, <2>2, Zenon DEF Calm
<1>2. psc = "open"
  BY <1>1, OpensOnly, Zenon
<1>3. ASSUME UNCHANGED <<c2s, s2c, srv>>, route' = route \/ \E S : StopRoutes(S) PROVE Asked(o)'
  <2>1. /\ route'[o].pc = route[o].pc /\ route'[o].id = route[o].id /\ route'[o].listening = route[o].listening
        /\ route[o].stop_req => route'[o].stop_req
    BY <1>3, <1>a, StopRoutesDoes, Zenon DEF Same
  <2> QED BY <1>3, <1>b, <1>2, <2>1, AskedKept, Zenon
<1>4. ASSUME NEW d \in Routes, NEW id \in RouteIds, Adds(d, id), UNCHANGED <<c2s, s2c, srv>> PROVE Asked(o)'
  <2>1. d # o
    BY <1>4 DEF Adds
  <2>2. route'[o] = route[o]
    BY <1>4, <2>1, Zenon DEF Adds
  <2> QED BY <1>4, <1>b, <1>2, <2>2, AskedKept, Zenon
<1>5. ASSUME Recv PROVE Asked(o)'
  <2>1. route[o].pc = "run" /\ ~route[o].stop_req
    BY <1>5, RecvDoes, Zenon
  <2> QED BY <1>5, <1>b, <1>2, <2>1, AskedAnswered, Zenon
<1>6. ASSUME NEW d \in Routes, RouteTask(d) PROVE Asked(o)'
  <2>0. route[d].id \in RouteIds /\ route_map[route[d].id] = d /\ UNCHANGED <<s2c, srv>>
    BY <1>6, TaskDoes, Zenon
  <2>1. CASE d = o
    <3>1. Send("START", o) /\ route'[o].id = route[o].id
      BY <1>6, <2>1, TaskDoes DEF Moves
    <3>2. Word("START", o) \in Up /\ c2s' = Append(c2s, Word("START", o))
      BY <1>a, <1>2, <2>0, <2>1, <3>1, SendDoes, Zenon
    <3>3. Word("START", o).kind = "START" /\ Word("START", o).o = o /\ Word("START", o).id = route[o].id
      BY DEF Word
    <3>4. /\ Len(c2s) + 1 \in 1 .. Len(c2s') /\ c2s'[Len(c2s) + 1] = Word("START", o)
          /\ \A l \in 1 .. Len(c2s') : ~(l > Len(c2s) + 1)
      BY <1>a, <3>2
    <3> QED BY <3>1, <3>3, <3>4, Zenon DEF Asked
  <2>2. CASE d # o
    <3>1. \A p : Moves(d, p) => route'[o] = route[o]
      BY <2>2, ZenonT(60) DEF Moves
    <3>0. route'[o] = route[o]
      BY <1>6, <3>1, TaskDoes, Zenon
    <3>2. Asked(o) /\ route[o].id # route[d].id
      BY <1>b, <1>2, <2>0, <2>2, <3>0, Zenon
    <3>3. c2s' = c2s \/ Send("START", d) \/ Send("STOP", d)
      BY <1>6, TaskDoes, Zenon
    <3>4. \A kind \in {"START", "STOP"} : Word(kind, d).id = route[d].id
      BY DEF Word
    <3>5. c2s' = c2s \/ \E w \in Up : w.id # route[o].id /\ c2s' = Append(c2s, w)
      <4>1. ASSUME NEW kind \in {"START", "STOP"}, Send(kind, d)
            PROVE  \E w \in Up : w.id # route[o].id /\ c2s' = Append(c2s, w)
        <5>1. Word(kind, d) \in Up /\ c2s' = Append(c2s, Word(kind, d)) /\ Word(kind, d).id # route[o].id
          BY <1>a, <1>2, <2>0, <3>2, <3>4, <4>1, SendDoes, Zenon
        <5> QED BY <5>1, Zenon
      <4> QED BY <3>3, <4>1, Zenon
    <3> QED BY <2>0, <3>0, <3>2, <3>5, AskedKept, Zenon
  <2> QED BY <2>1, <2>2, Zenon
<1>7. ASSUME ServerReceives PROVE Asked(o)'
  <2>1. route' = route
    BY <1>7, ServerDoes, Zenon
  <2> QED BY <1>7, <1>b, <1>2, <2>1, AskedServed, Zenon
<1>8. ASSUME CloseStream PROVE FALSE
  BY <1>8, <1>a, CloseDoes
<1>9. Kind
  BY Kinds, Zenon
<1> QED BY <1>1, <1>3, <1>4, <1>5, <1>6, <1>7, <1>8, <1>9, Zenon DEF Kind, Quiet, Stops, Cuts, Adding

-----------------------------------------------------------------------------
(* Ids that AddNewClientRoute has chosen.                                  *)

\* The packets of a stream are about routes that are gone or still have their
\* ids, and ids in use are below the next one.
Below(q) == \A k \in 1 .. Len(q) : q[k].id < route_next_id /\ route_map[q[k].id] \in {None, q[k].o}
Used == \A i \in RouteIds : route_map[i] # None => i < route_next_id

LEMMA FreshDef == Fresh <=> (Automatic => todo \in Seq({0}) /\ (~restarted => Used /\ Below(c2s) /\ Below(s2c)))
BY Zenon DEF Fresh, Used, Below

\* AddNewClientRoute for a configured route or a request.
AddsFor(i) ==
  /\ i \in ApiIds \/ (todo # <<>> /\ i = Head(todo))
  /\ CanAdd(i) /\ \E o \in Routes : AddNewClientRoute(o, i)
  /\ UNCHANGED <<c2s, s2c>>

\* Only GetSeed and AddNewClientRoute have to do with the next id.
LEMMA IdsStep ==
  ASSUME [Next]_vars
  PROVE  \/ GetSeed
         \/ \E i \in ApiIds \cup {Head(todo)} : AddsFor(i)
         \/ UNCHANGED <<route_next_id, restarted>> /\ (UNCHANGED route_map \/ \E o \in Routes : RouteTask(o))
<1>1. ASSUME NEW o \in Routes, AddStaticRoute(o)
      PROVE  UNCHANGED <<route_next_id, restarted, route_map>> \/ \E i \in ApiIds \cup {Head(todo)} : AddsFor(i)
  BY <1>1, Zenon DEF AddStaticRoute, AddsFor, routes, net
<1>2. ASSUME NEW o \in Routes, NEW i \in ApiIds, PostRoute(o, i)
      PROVE  \E j \in ApiIds \cup {Head(todo)} : AddsFor(j)
  BY <1>2, Zenon DEF PostRoute, AddsFor, net
<1>3. CASE RunTask
  BY <1>1, <1>3, Zenon DEF RunTask, NewClient, PacketStream, ConnectFails, RoutesAdded, Select, RecvFails, Recv,
     ConnError, ActiveDisconnect, Sleep, StopAndWait, Terminate, routes, ids
<1>4. CASE Requests
  BY <1>2, <1>4, Zenon DEF Requests, DeleteRoute, DeleteRoutes, DeleteConn, ClientReqStop, routes, ids
<1>5. ASSUME NEW o \in Routes, RouteTask(o) PROVE UNCHANGED <<route_next_id, restarted>>
  BY <1>5, Zenon DEF RouteTask, RouteStart, RouteStops, RouteStop, RemoveClientRoute, ids
<1> QED BY <1>3, <1>4, <1>5, Zenon DEF Next, ReqStopDisconnects, ServerReceives, BreakLink, routes, ids, vars

\* The configured routes that are still to be added are some of all.
LEMMA TodoStep ==
  ASSUME Types, [Next]_vars, Automatic, todo \in Seq({0})
  PROVE  todo' \in Seq({0})
<1>1. todo' \in {todo, Statics, <<>>} \/ (todo # <<>> /\ todo' = Tail(todo))
  <2>1. CASE RunTask
    BY <2>1, Zenon DEF RunTask, NewClient, GetSeed, PacketStream, ConnectFails, AddStaticRoute, RoutesAdded, Select,
       RecvFails, Recv, ConnError, ActiveDisconnect, Sleep, StopAndWait, Terminate, Goto
  <2>2. CASE ~RunTask
    BY <2>2, Zenon DEF Next, RouteTask, RouteStart, RouteStops, RouteStop, RemoveClientRoute, Requests, DeleteRoute,
       PostRoute, DeleteRoutes, DeleteConn, ClientReqStop, ReqStopDisconnects, ServerReceives, BreakLink, loop, vars
  <2> QED BY <2>1, <2>2, Zenon
<1>2. Statics \in Seq({0}) /\ <<>> \in Seq({0})
  BY DEF Automatic
<1>3. todo # <<>> => Tail(todo) \in Seq({0})
  BY HeadTail, Zenon
<1> QED BY <1>1, <1>2, <1>3, Zenon

\* A step that adds no route removes at most one from the table.
Fewer == \A i \in RouteIds : route_map'[i] \in {None, route_map[i]}

LEMMA FewerStep ==
  ASSUME Types, Table, UNCHANGED route_map \/ \E o \in Routes : RouteTask(o)
  PROVE  Fewer
<1>1. CASE UNCHANGED route_map
  BY <1>1, Zenon DEF Fewer
<1>2. ASSUME NEW o \in Routes, RouteTask(o) PROVE Fewer
  <2>1. route_map' = route_map \/ route_map' = [route_map EXCEPT ![route[o].id] = None]
    BY <1>2, TaskDoes, Zenon
  <2>2. route_map \in [RouteIds -> Routes \cup {None}]
    BY Zenon DEF Types, RouteTypes
  <2> QED BY <2>1, <2>2 DEF Fewer
<1> QED BY <1>1, <1>2, Zenon

\* A packet that is under way was so before, or is the word of a live route.
LEMMA UpFrom ==
  ASSUME Types, Table, Streams, [Next]_vars
  PROVE  \A k \in 1 .. Len(c2s') :
           \/ \E j \in 1 .. Len(c2s) : c2s'[k] = c2s[j]
           \/ \E d \in Routes : /\ c2s'[k].o = d /\ c2s'[k].id = route[d].id
                                /\ route[d].id \in RouteIds /\ route_map[route[d].id] = d
<1> DEFINE Good == \A k \in 1 .. Len(c2s') :
                     \/ \E j \in 1 .. Len(c2s) : c2s'[k] = c2s[j]
                     \/ \E d \in Routes : /\ c2s'[k].o = d /\ c2s'[k].id = route[d].id
                                          /\ route[d].id \in RouteIds /\ route_map[route[d].id] = d
<1>a. NetTypes /\ c2s \in Seq(Up)
  BY Zenon DEF Types, NetTypes
<1>1. ASSUME c2s' = c2s PROVE Good
  BY <1>1, Zenon
<1>2. ASSUME c2s' = <<>> PROVE Good
  BY <1>2
<1>3. ASSUME c2s # <<>>, c2s' = Tail(c2s) PROVE Good
  <2>1. \A k \in 1 .. Len(c2s') : k + 1 \in 1 .. Len(c2s) /\ c2s'[k] = c2s[k + 1]
    BY <1>3, <1>a, HeadTail
  <2> QED BY <2>1, Zenon
<1>4. ASSUME NEW o \in Routes, RouteTask(o) PROVE Good
  <2>1. route[o].id \in RouteIds /\ route_map[route[o].id] = o
    BY <1>4, TaskDoes, Zenon
  <2>2. c2s' = c2s \/ Send("START", o) \/ Send("STOP", o)
    BY <1>4, TaskDoes, Zenon
  <2>3. ASSUME NEW kind \in {"START", "STOP"}, Send(kind, o) PROVE Good
    <3>1. Word(kind, o) \in Up /\ (c2s' = c2s \/ c2s' = Append(c2s, Word(kind, o)))
      BY <1>a, <2>1, <2>3, SendDoes, Zenon
    <3>2. Word(kind, o).o = o /\ Word(kind, o).id = route[o].id
      BY DEF Word
    <3>3. ASSUME c2s' = Append(c2s, Word(kind, o)) PROVE Good
      <4>1. ASSUME NEW k \in 1 .. Len(c2s')
            PROVE  (k \in 1 .. Len(c2s) /\ c2s'[k] = c2s[k]) \/ c2s'[k] = Word(kind, o)
        BY <1>a, <3>1, <3>3
      <4> QED BY <2>1, <3>2, <4>1, Zenon
    <3> QED BY <1>1, <3>1, <3>3, Zenon
  <2> QED BY <1>1, <2>2, <2>3, Zenon
<1> HIDE DEF Good
<1>5. Good
  BY <1>1, <1>2, <1>3, <1>4, Kinds, RecvDoes, ServerDoes, Zenon
     DEF Kind, Quiet, Stops, Cuts, CloseStream, PacketStream, Adding, net
<1> QED BY <1>5, Zenon DEF Good

\* An answer that is under way was so before, or is about the packet answered.
LEMMA DownFrom ==
  ASSUME Types, Table, Streams, [Next]_vars
  PROVE  \A k \in 1 .. Len(s2c') :
           \/ \E j \in 1 .. Len(s2c) : s2c'[k] = s2c[j]
           \/ \E j \in 1 .. Len(c2s) : s2c'[k].id = c2s[j].id /\ s2c'[k].o = c2s[j].o
<1> DEFINE Good == \A k \in 1 .. Len(s2c') :
                     \/ \E j \in 1 .. Len(s2c) : s2c'[k] = s2c[j]
                     \/ \E j \in 1 .. Len(c2s) : s2c'[k].id = c2s[j].id /\ s2c'[k].o = c2s[j].o
<1>a. NetTypes /\ c2s \in Seq(Up) /\ s2c \in Seq(Down)
  BY Zenon DEF Types, NetTypes
<1>1. ASSUME s2c' = s2c PROVE Good
  BY <1>1, Zenon
<1>2. ASSUME s2c' = <<>> PROVE Good
  BY <1>2
<1>3. ASSUME s2c # <<>>, s2c' = Tail(s2c) PROVE Good
  <2>1. \A k \in 1 .. Len(s2c') : k + 1 \in 1 .. Len(s2c) /\ s2c'[k] = s2c[k + 1]
    BY <1>3, <1>a, HeadTail
  <2> QED BY <2>1, Zenon
<1>4. ASSUME ServerReceives PROVE Good
  <2>1. c2s # <<>> /\ (s2c' = s2c \/ \E kind \in {"STARTED", "STOPPED"} :
                                       Reply(kind) \in Down /\ s2c' = Append(s2c, Reply(kind)))
    BY <1>4, ServerDoes, Zenon
  <2>2. ASSUME NEW kind \in {"STARTED", "STOPPED"}, Reply(kind) \in Down, s2c' = Append(s2c, Reply(kind)) PROVE Good
    <3>1. Reply(kind).id = Head(c2s).id /\ Reply(kind).o = Head(c2s).o
      BY DEF Reply
    <3>2. 1 \in 1 .. Len(c2s) /\ Head(c2s) = c2s[1]
      BY <1>a, <2>1, HeadTail
    <3>3. ASSUME NEW k \in 1 .. Len(s2c')
          PROVE  (k \in 1 .. Len(s2c) /\ s2c'[k] = s2c[k]) \/ s2c'[k] = Reply(kind)
      BY <1>a, <2>2
    <3> QED BY <3>1, <3>2, <3>3, Zenon
  <2> QED BY <1>1, <2>1, <2>2, Zenon
<1>5. ASSUME NEW o \in Routes, RouteTask(o) PROVE Good
  BY <1>1, <1>5, TaskDoes, Zenon
<1> HIDE DEF Good
<1>6. Good
  BY <1>1, <1>2, <1>3, <1>4, <1>5, Kinds, RecvDoes, Zenon
     DEF Kind, Quiet, Stops, Cuts, CloseStream, PacketStream, Adding, net
<1> QED BY <1>6, Zenon DEF Good

LEMMA FreshStep == Types /\ Table /\ Streams /\ Fresh /\ [Next]_vars => Fresh'
<1> SUFFICES ASSUME Types, Table, Streams, Fresh, [Next]_vars PROVE Fresh'
  BY Zenon
<1>a. Automatic' <=> Automatic
  BY Zenon DEF Automatic
<1> SUFFICES ASSUME Automatic PROVE todo' \in Seq({0}) /\ (~restarted' => Used' /\ Below(c2s)' /\ Below(s2c)')
  BY <1>a, Zenon DEF Fresh, Used, Below
<1>b. /\ todo \in Seq({0}) /\ (~restarted => Used /\ Below(c2s) /\ Below(s2c))
  BY FreshDef, Zenon
<1>c. todo' \in Seq({0})
  BY <1>b, TodoStep, Zenon
<1>d. /\ RouteTypes /\ route_map \in [RouteIds -> Routes \cup {None}] /\ route_next_id \in Nat
      /\ c2s \in Seq(Up) /\ s2c \in Seq(Down)
  BY Zenon DEF Types, RouteTypes, NetTypes
<1>e. /\ \A k \in 1 .. Len(c2s) : c2s[k].id \in RouteIds
      /\ \A k \in 1 .. Len(s2c) : s2c[k].id \in RouteIds
  <2>1. (\A k \in 1 .. Len(c2s) : c2s[k] \in Up) /\ (\A k \in 1 .. Len(s2c) : s2c[k] \in Down)
    BY <1>d
  <2>2. (\A m \in Up : m.id \in RouteIds) /\ (\A m \in Down : m.id \in RouteIds)
    BY DEF Up, Down
  <2> QED BY <2>1, <2>2, Zenon
<1> DEFINE Good == ~restarted' => Used' /\ Below(c2s)' /\ Below(s2c)'
<1>1. ASSUME GetSeed PROVE Good
  <2> SUFFICES ASSUME ~restarted' PROVE Used' /\ Below(c2s)' /\ Below(s2c)'
    BY Zenon
  <2>1. pc = "seed" /\ Mapped = {} /\ UNCHANGED <<route_map, c2s, s2c>>
    BY <1>1, Zenon DEF GetSeed, net
  <2>2. \A i \in RouteIds : route_map'[i] = None
    BY <2>1, Zenon DEF Mapped
  <2>3. c2s' = <<>> /\ s2c' = <<>>
    BY <2>1 DEF Streams, Between
  <2> QED BY <2>2, <2>3 DEF Used, Below
<1>2. ASSUME NEW i, AddsFor(i) PROVE Good
  <2>1. i = 0
    <3>1. todo # <<>> => Head(todo) \in {0}
      BY <1>b, HeadTail, Zenon
    <3> QED BY <1>2, <3>1, Zenon DEF AddsFor, Automatic
  <2>2. PICK o \in Routes : AddNewClientRoute(o, i)
    BY <1>2, Zenon DEF AddsFor
  <2>3. i \in 0 .. MaxRouteId /\ CanAdd(i)
    BY <1>2, <2>1, RouteIdAssumption DEF AddsFor
  <2>4. PICK id \in RouteIds : Adds(o, id) /\ id >= route_next_id /\ route_next_id' = id + 1
    BY <1>d, <2>1, <2>2, <2>3, AddDoes, Zenon
  <2>5. restarted' = restarted /\ UNCHANGED <<c2s, s2c>>
    BY <1>2, <2>2, Zenon DEF AddNewClientRoute, AddsFor
  <2>6. route_map' = [route_map EXCEPT ![id] = o]
    BY <2>4, Zenon DEF Adds
  <2> SUFFICES ASSUME Used, Below(c2s), Below(s2c) PROVE Used' /\ Below(c2s)' /\ Below(s2c)'
    BY <1>b, <2>5, Zenon
  <2>7. \A j \in RouteIds : j < route_next_id => route_map'[j] = route_map[j] /\ j < route_next_id'
    BY <1>d, <2>4, <2>6 DEF RouteIds
  <2>8. Used'
    <3>1. \A j \in RouteIds : route_map'[j] # None => j = id \/ route_map[j] # None
      BY <1>d, <2>6
    <3>2. id < route_next_id'
      BY <2>4 DEF RouteIds
    <3> QED BY <2>7, <3>1, <3>2, Zenon DEF Used
  <2>9. Below(c2s)'
    BY <1>e, <2>5, <2>7, Zenon DEF Below
  <2>10. Below(s2c)'
    BY <1>e, <2>5, <2>7, Zenon DEF Below
  <2> QED BY <2>8, <2>9, <2>10, Zenon
<1>3. ASSUME UNCHANGED <<route_next_id, restarted>>, UNCHANGED route_map \/ \E o \in Routes : RouteTask(o) PROVE Good
  <2>1. Fewer
    BY <1>3, FewerStep, Zenon
  <2> SUFFICES ASSUME Used, Below(c2s), Below(s2c) PROVE Used' /\ Below(c2s)' /\ Below(s2c)'
    BY <1>b, <1>3, Zenon
  <2>2. Used'
    BY <1>3, <2>1, Zenon DEF Used, Fewer
  <2>3. \A m : m.id \in RouteIds /\ m.id < route_next_id /\ route_map[m.id] \in {None, m.o} =>
               m.id < route_next_id' /\ route_map'[m.id] \in {None, m.o}
    BY <1>3, <2>1, Zenon DEF Fewer
  <2>4. Below(c2s)'
    <3> SUFFICES ASSUME NEW k \in 1 .. Len(c2s')
                 PROVE  c2s'[k].id < route_next_id' /\ route_map'[c2s'[k].id] \in {None, c2s'[k].o}
      BY Zenon DEF Below
    <3>1. ASSUME NEW j \in 1 .. Len(c2s), c2s'[k] = c2s[j]
          PROVE  c2s'[k].id \in RouteIds /\ c2s'[k].id < route_next_id /\ route_map[c2s'[k].id] \in {None, c2s'[k].o}
      BY <1>e, <3>1, Zenon DEF Below
    <3>2. ASSUME NEW d \in Routes, c2s'[k].o = d, c2s'[k].id = route[d].id,
                 route[d].id \in RouteIds, route_map[route[d].id] = d
          PROVE  c2s'[k].id \in RouteIds /\ c2s'[k].id < route_next_id /\ route_map[c2s'[k].id] \in {None, c2s'[k].o}
      BY <3>2, NoneAssumption, Zenon DEF Used
    <3> QED BY <2>3, <3>1, <3>2, UpFrom, Zenon
  <2>5. Below(s2c)'
    <3> SUFFICES ASSUME NEW k \in 1 .. Len(s2c')
                 PROVE  s2c'[k].id < route_next_id' /\ route_map'[s2c'[k].id] \in {None, s2c'[k].o}
      BY Zenon DEF Below
    <3>1. ASSUME NEW j \in 1 .. Len(s2c), s2c'[k] = s2c[j]
          PROVE  s2c'[k].id \in RouteIds /\ s2c'[k].id < route_next_id /\ route_map[s2c'[k].id] \in {None, s2c'[k].o}
      BY <1>e, <3>1, Zenon DEF Below
    <3>2. ASSUME NEW j \in 1 .. Len(c2s), s2c'[k].id = c2s[j].id, s2c'[k].o = c2s[j].o
          PROVE  s2c'[k].id \in RouteIds /\ s2c'[k].id < route_next_id /\ route_map[s2c'[k].id] \in {None, s2c'[k].o}
      BY <1>e, <3>2, Zenon DEF Below
    <3> QED BY <2>3, <3>1, <3>2, DownFrom, Zenon
  <2> QED BY <2>2, <2>4, <2>5, Zenon
<1> HIDE DEF Good
<1>4. Good
  BY <1>1, <1>2, <1>3, IdsStep, Zenon
<1> QED BY <1>c, <1>4, Zenon DEF Good

-----------------------------------------------------------------------------
LEMMA InitInv == Init => Inv
<1> SUFFICES ASSUME Init PROVE Inv
  BY Zenon
<1>1. route_map \in [RouteIds -> Routes \cup {None}] /\ srv \in [RouteIds -> Routes \cup {None}] /\ route_next_id \in Nat
      /\ \A i \in RouteIds : route_map[i] = None /\ srv[i] = None
  BY DEF Init
<1>2. NewRoute("none", 0) \in RouteRec /\ NewRoute("none", 0).pc = "none"
  BY RouteIdAssumption DEF RouteRec, RoutePcs, NewRoute
<1>3. route \in [Routes -> RouteRec] /\ \A o \in Routes : route[o].pc = "none"
  BY <1>2, Zenon DEF Init
<1>4. c2s \in Seq(Up) /\ s2c \in Seq(Down) /\ c2s = <<>> /\ s2c = <<>> /\ Len(c2s) = 0 /\ Len(s2c) = 0
      /\ todo \in Seq(0 .. MaxRouteId) /\ todo \in Seq({0})
  BY DEF Init
<1>5. pc \in Pcs /\ pc = "start" /\ conn = "nil" /\ psc = "nil"
  BY DEF Init, Pcs
<1>6. Types
  BY <1>1, <1>3, <1>4, <1>5 DEF Types, RouteTypes, NetTypes, LoopTypes
<1>7. Table
  BY <1>1, <1>3 DEF Table, Alive
<1>8. Streams
  BY <1>1, <1>3, <1>4, <1>5 DEF Streams
<1>9. RunningAsked
  BY <1>5 DEF RunningAsked
<1>10. ServerHolds
  BY <1>1, <1>4 DEF ServerHolds
<1>11. Fresh
  BY <1>1, <1>4 DEF Fresh
<1> QED BY <1>6, <1>7, <1>8, <1>9, <1>10, <1>11, Zenon DEF Inv

\* What a client and the server at the other end of its stream know of the
\* client's routes, at every step of RunTask, the routes' tasks, the requests
\* and the server's receiver: the inductive invariant.
THEOREM Invariance == Spec => []Inv
<1>1. Inv /\ [Next]_vars => Inv'
  BY TypesStep, TableStep, StreamsStep, RunningAskedStep, ServerHoldsStep, FreshStep, Zenon DEF Inv
<1> QED BY <1>1, InitInv, PTL DEF Spec

\* A route whose task has not ended is in cts.route_map under its id, so that
\* ReqStopAllClientRoutes and the answers of the server find it: neither the
\* ids that start again at GetSeed nor RemoveClientRoute of an earlier route
\* takes it out.
THEOREM RoutesInTable == Spec => []LiveRouteMapped
<1>1. Inv => LiveRouteMapped
  BY Zenon DEF Inv, Table, Alive, LiveRouteMapped
<1> QED BY <1>1, Invariance, PTL

\* When nothing is under way and no route is on its way in or out, the routes
\* that the server has for the stream are the client's, under the same ids,
\* and the client knows that the server listens for each.
THEOREM EndsInAgreement == Spec => []EndsAgree
<1>1. ASSUME Inv, pc \in {"select", "recv"}, psc = "open", c2s = <<>>, s2c = <<>>,
             \A o \in Routes : route[o].pc \in {"none", "gone"} \/ (route[o].pc = "run" /\ ~route[o].stop_req)
      PROVE  srv = route_map /\ \A o \in Mapped : route[o].listening
  <2>1. /\ route_map \in [RouteIds -> Routes \cup {None}] /\ srv \in [RouteIds -> Routes \cup {None}]
        /\ Table /\ RunningAsked /\ ServerHolds
    BY <1>1, Zenon DEF Inv, Types, RouteTypes, NetTypes
  <2>2. (\A k \in 1 .. Len(c2s) : FALSE) /\ (\A k \in 1 .. Len(s2c) : FALSE)
    BY <1>1
  <2>3. ASSUME NEW i \in RouteIds, route_map[i] # None PROVE srv[i] = route_map[i] /\ route[route_map[i]].listening
    <3>1. route_map[i] \in Routes /\ Alive(route[route_map[i]]) /\ route[route_map[i]].id = i
      BY <2>1, <2>3, Zenon DEF Table
    <3>2. route[route_map[i]].pc = "run" /\ ~route[route_map[i]].stop_req
      BY <1>1, <3>1, Zenon DEF Alive
    <3>3. Asked(route_map[i])
      BY <1>1, <2>1, <3>1, <3>2, Zenon DEF RunningAsked
    <3> QED BY <2>2, <3>1, <3>3, Zenon DEF Asked, UnderWay
  <2>4. ASSUME NEW i \in RouteIds, srv[i] # None PROVE route_map[i] = srv[i]
    <3>1. srv[i] \in Routes /\ Held(srv[i], i)
      BY <2>1, <2>2, <2>4, Zenon DEF ServerHolds, UnderWay
    <3>2. Alive(route[srv[i]]) /\ route[srv[i]].id = i
      BY <3>1 DEF Held, Alive
    <3> QED BY <2>1, <3>1, <3>2, Zenon DEF Table
  <2>5. \A i \in RouteIds : srv[i] = route_map[i]
    BY <2>3, <2>4, Zenon
  <2>6. srv = route_map
    BY <2>1, <2>5
  <2> QED BY <2>3, <2>6, Zenon DEF Mapped
<1>2. Inv => EndsAgree
  BY <1>1, Zenon DEF EndsAgree
<1> QED BY <1>2, Invariance, PTL

\* ROUTE_STARTED and ROUTE_STOPPED reach the route that was asked for, or none,
\* when AddNewClientRoute chooses the ids: it never gives the id of a packet
\* that is still under way to another route.
THEOREM AnswersReachTheirRoutes == Spec => []AnswerReachesItsRoute
<1>1. ASSUME Inv, Automatic, ~restarted, s2c # <<>> PROVE route_map[Head(s2c).id] \in {None, Head(s2c).o}
  <2>1. s2c \in Seq(Down) /\ Below(s2c)
    BY <1>1, FreshDef, Zenon DEF Inv, Types, NetTypes
  <2>2. 1 \in 1 .. Len(s2c) /\ Head(s2c) = s2c[1]
    BY <1>1, <2>1, HeadTail
  <2> QED BY <2>1, <2>2, Zenon DEF Below
<1>2. Inv => AnswerReachesItsRoute
  BY <1>1, Zenon DEF AnswerReachesItsRoute
<1> QED BY <1>2, Invariance, PTL
=============================================================================
