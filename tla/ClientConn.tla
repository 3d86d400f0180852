----------------------------- MODULE ClientConn -----------------------------
(***************************************************************************)
(* One connection of a Hodu client: ClientConn.RunTask connects to one     *)
(* server address after another, adds the configured routes, dispatches    *)
(* packets, and starts over when the stream fails.  The tasks of its       *)
(* routes, the requests of the control API and Client.ReqStop run beside   *)
(* it.  The other end of every stream is the part of the server's receiver *)
(* that starts and stops routes, so that the two ends' ideas of which      *)
(* routes exist can be compared.                                           *)
(*                                                                         *)
(* A packet carries, beside its route id, the route object it is about: no *)
(* action of the program reads it, it is there for the properties.  An     *)
(* object is used again once its task has ended and no packet is about it. *)
(***************************************************************************)
EXTENDS Integers, Sequences, FiniteSetsExt, Functions

CONSTANTS Servers,    \* number of configured server addresses
          Statics,    \* ids of the configured routes, 0 for automatic
          ApiIds,     \* ids that requests of the control API ask for
          MaxRouteId, \* bound on the route ids
          Routes,     \* ClientRoute objects
          Faults,     \* the failures and requests that may happen
          None

ASSUME ServersAssumption == Servers \in Nat \ {0}
ASSUME RouteIdAssumption == MaxRouteId \in Nat \ {0} /\ ApiIds \subseteq 0 .. MaxRouteId
                            /\ Statics \in Seq(0 .. MaxRouteId)
ASSUME NoneAssumption == None \notin Routes

VARIABLES
  pc,            \* RunTask
  todo,          \* configured routes that are still to be added
  index,         \* cfg.Index
  conn,          \* cts.conn: "nil", "open" or "closed"
  psc,           \* the stream of cts.psc: "nil", "open" or "closed"
  stop_req,      \* stop_req of the connection
  stopper,       \* an operator's ReqStop, between its two effects
  stop_chan,     \* messages in stop_chan
  cancelled,     \* the context of the client
  disturbed,     \* history: a DELETE of the connection or a POST of a route
  route_map, route_next_id, route,
  restarted,     \* history: the ids have restarted with routes left
  c2s, s2c,      \* packets under way on the open stream
  srv            \* the server's route_map for it

loop == <<pc, todo, index>>
link == <<conn, psc>>
request == <<stop_req, stopper, stop_chan, cancelled, disturbed>>
ids == <<route_map, route_next_id, restarted>>
routes == <<route_map, route_next_id, route, restarted>>
net == <<c2s, s2c, srv>>
vars == <<loop, link, request, routes, net>>

RouteIds == 1 .. MaxRouteId
NewRoute(p, id) == [pc |-> p, id |-> id, stop_req |-> FALSE, listening |-> FALSE]

Init ==
  /\ pc = "start" /\ todo = <<>> /\ index = Servers - 1
  /\ conn = "nil" /\ psc = "nil"
  /\ stop_req = FALSE /\ stopper = "idle" /\ stop_chan = 0 /\ cancelled = FALSE /\ disturbed = FALSE
  /\ route_map = [i \in RouteIds |-> None]
  /\ route_next_id = 1 /\ restarted = FALSE
  /\ route = [o \in Routes |-> NewRoute("none", 0)]
  /\ c2s = <<>> /\ s2c = <<>>
  /\ srv = [i \in RouteIds |-> None]

-----------------------------------------------------------------------------
(* What several operations share.                                          *)

StopRoutes(S) ==
  route' = [o \in Routes |-> IF o \in S THEN [route[o] EXCEPT !.stop_req = TRUE] ELSE route[o]]

Mapped == {route_map[i] : i \in RouteIds} \ {None}

\* What is under way on a stream, and the server's routes, end with it.
CloseStream ==
  /\ psc' = IF psc = "nil" THEN "nil" ELSE "closed"
  /\ c2s' = <<>> /\ s2c' = <<>>
  /\ srv' = [i \in RouteIds |-> None]

\* Mutant of Disconnect: the routes are left running.
DisconnectOnly ==
  IF conn = "nil" THEN UNCHANGED <<conn, psc, route, net>>
  ELSE conn' = "closed" /\ CloseStream /\ UNCHANGED route

\* disconnect_from_server: nothing before grpc.NewClient has succeeded.
Disconnect ==
  IF conn = "nil" THEN UNCHANGED <<conn, psc, route, net>>
  ELSE conn' = "closed" /\ StopRoutes(Mapped) /\ CloseStream

\* cts.psc.Send fails when the stream is closed.
Send(kind, o) ==
  c2s' = IF psc = "open" THEN Append(c2s, [kind |-> kind, id |-> route[o].id, o |-> o]) ELSE c2s

\* Mutant of FreeIds: an id is used again at once.
FreeIdsReused == {i \in RouteIds : route_map[i] = None}

\* AddNewClientRoute refuses an id that is taken, and assigns the first free
\* one from route_next_id on; MaxRouteId keeps it from wrapping around.
FreeIds == {i \in RouteIds : i >= route_next_id /\ route_map[i] = None}

CanAdd(i) == IF i = 0 THEN FreeIds # {} ELSE route_map[i] = None

InUse(o) ==
  \/ route[o].pc \notin {"none", "gone"}
  \/ \E m \in Range(c2s) \cup Range(s2c) : m.o = o

AddNewClientRoute(o, i) ==
  LET id == IF i = 0 THEN Min(FreeIds) ELSE i IN
  /\ ~InUse(o)
  /\ route' = [route EXCEPT ![o] = NewRoute("start", id)]
  /\ route_map' = [route_map EXCEPT ![id] = o]
  /\ UNCHANGED restarted
  /\ route_next_id' = IF i = 0 THEN id + 1 ELSE route_next_id

-----------------------------------------------------------------------------
(* ClientConn.RunTask.                                                     *)

Goto(p) == pc' = p /\ UNCHANGED <<todo, index>>

\* start_over: the next address; grpc.NewClient may refuse it, which sets
\* cts.conn to nil.
NewClient ==
  /\ pc = "start"
  /\ index' = (index + 1) % Servers
  /\ \/ conn' = "open" /\ pc' = "seed"
     \/ "address" \in Faults /\ conn' = "nil" /\ pc' = "disconnect"
  /\ UNCHANGED <<todo, psc, request, routes, net>>

\* Mutant of GetSeed: the table of routes starts again too.
GetSeedClears ==
  /\ pc = "seed"
  /\ conn = "open" /\ ~cancelled
  /\ route_next_id' = 1
  /\ restarted' = (restarted \/ Mapped # {})
  /\ route_map' = [i \in RouteIds |-> None]
  /\ Goto("stream")
  /\ UNCHANGED <<link, request, route, net>>

\* GetSeed; route ids start again from 1.
GetSeed ==
  /\ pc = "seed"
  /\ conn = "open" /\ ~cancelled
  /\ route_next_id' = 1
  /\ restarted' = (restarted \/ Mapped # {})
  /\ Goto("stream")
  /\ UNCHANGED <<link, request, route_map, route, net>>

\* PacketStream, and the token that is sent on the new stream.
PacketStream ==
  /\ pc = "stream"
  /\ conn = "open" /\ ~cancelled
  /\ psc' = "open"
  /\ pc' = "routes" /\ todo' = Statics
  /\ UNCHANGED <<index, conn, request, routes, net>>

\* GetSeed or PacketStream fails, the former also by its timeout, or the token
\* cannot be sent on the new stream.
ConnectFails ==
  /\ pc \in {"seed", "stream"}
  /\ conn # "open" \/ cancelled \/ "connect" \in Faults
  /\ psc' \in IF pc = "stream" THEN {psc, "closed"} ELSE {psc}
  /\ Goto("disconnect")
  /\ UNCHANGED <<conn, request, routes, net>>

\* add_client_routes gives up, and the connection with it, at the first route
\* that cannot be added.
AddStaticRoute(o) ==
  /\ pc = "routes" /\ todo # <<>>
  /\ IF CanAdd(Head(todo))
     THEN AddNewClientRoute(o, Head(todo)) /\ pc' = pc /\ todo' = Tail(todo)
     ELSE pc' = "stop" /\ todo' = <<>> /\ UNCHANGED routes
  /\ UNCHANGED <<index, link, request, net>>

RoutesAdded ==
  /\ pc = "routes" /\ todo = <<>>
  /\ Goto("select")
  /\ UNCHANGED <<link, request, routes, net>>

\* The select before Recv.
Select ==
  /\ pc = "select"
  /\ \/ cancelled /\ Goto("stop") /\ UNCHANGED stop_chan
     \/ stop_chan > 0 /\ stop_chan' = stop_chan - 1 /\ Goto("stop")
     \/ ~cancelled /\ stop_chan = 0 /\ Goto("recv") /\ UNCHANGED stop_chan
  /\ UNCHANGED <<link, stop_req, stopper, cancelled, disturbed, routes, net>>

RecvFails ==
  /\ pc = "recv"
  /\ psc # "open"
  /\ Goto("disconnect")
  /\ UNCHANGED <<link, request, routes, net>>

\* dispatch_packet of ROUTE_STARTED and ROUTE_STOPPED.
Recv ==
  /\ pc = "recv"
  /\ psc = "open" /\ s2c # <<>>
  /\ LET m == Head(s2c)
         r == route_map[m.id]
     IN CASE r = None -> UNCHANGED route
          [] r # None /\ m.kind = "STARTED" -> route' = [route EXCEPT ![r].listening = TRUE]
          [] r # None /\ m.kind = "STOPPED" -> StopRoutes({r})
  /\ s2c' = Tail(s2c)
  /\ Goto("select")
  /\ UNCHANGED <<link, request, ids, c2s, srv>>

\* CONN_ERROR with CloseOnConnErrorEvent.
ConnError ==
  /\ "error" \in Faults
  /\ pc = "recv" /\ psc = "open"
  /\ Goto("stop")
  /\ UNCHANGED <<link, request, routes, net>>

\* reconnect_to_server: active disconnection, then the wait of two seconds.
ActiveDisconnect ==
  /\ pc = "disconnect"
  /\ Disconnect
  /\ Goto("sleep")
  /\ UNCHANGED <<request, ids>>

\* The timer may win over a message that has come at the same time.
Sleep ==
  /\ pc = "sleep"
  /\ \/ cancelled /\ Goto("stop") /\ UNCHANGED stop_chan
     \/ stop_chan > 0 /\ stop_chan' = stop_chan - 1 /\ Goto("wait")
     \/ ~cancelled /\ Goto("start") /\ UNCHANGED stop_chan
  /\ UNCHANGED <<link, stop_req, stopper, cancelled, disturbed, routes, net>>

\* done: RunTask's own ReqStop does nothing when another has been there before.
StopAndWait ==
  /\ pc = "stop"
  /\ IF stop_req THEN UNCHANGED <<conn, psc, route, net, stop_chan>>
     ELSE Disconnect /\ stop_chan' = stop_chan + 1
  /\ stop_req' = TRUE
  /\ Goto("wait")
  /\ UNCHANGED <<stopper, cancelled, disturbed, ids>>

\* route_wg.Wait and RemoveClientConn.
Terminate ==
  /\ pc = "wait"
  /\ \A o \in Routes : route[o].pc \in {"none", "gone"}
  /\ Goto("ended")
  /\ UNCHANGED <<link, request, routes, net>>

-----------------------------------------------------------------------------
(* The task of a route.  It uses the stream that cts.psc names now.        *)

RouteStart(o) ==
  /\ route[o].pc = "start"
  /\ Send("START", o)
  /\ route' = [route EXCEPT ![o].pc = IF psc = "open" THEN "run" ELSE "join"]
  /\ UNCHANGED <<loop, link, request, ids, s2c, srv>>

\* A stop request, or the end of the route's lifetime.
RouteStops(o) ==
  /\ route[o].pc = "run"
  /\ route[o].stop_req \/ "lifetime" \in Faults
  /\ route' = [route EXCEPT ![o].pc = "join", ![o].stop_req = TRUE]
  /\ UNCHANGED <<loop, link, request, ids, net>>

\* Mutant of RouteStop: the server is not told.
RouteStopSilently(o) ==
  /\ route[o].pc = "join"
  /\ route' = [route EXCEPT ![o].pc = "remove"]
  /\ UNCHANGED <<loop, link, request, ids, net>>

\* Its peers have ended.
RouteStop(o) ==
  /\ route[o].pc = "join"
  /\ Send("STOP", o)
  /\ route' = [route EXCEPT ![o].pc = "remove"]
  /\ UNCHANGED <<loop, link, request, ids, s2c, srv>>

\* RemoveClientRoute.
RemoveClientRoute(o) ==
  /\ route[o].pc = "remove"
  /\ route' = [route EXCEPT ![o].pc = "gone"]
  /\ route_map' = IF route_map[route[o].id] = o THEN [route_map EXCEPT ![route[o].id] = None]
                  ELSE route_map
  /\ UNCHANGED <<loop, link, request, route_next_id, restarted, net>>

-----------------------------------------------------------------------------
(* Requests of the control API, and the end of the client.                 *)

\* POST of a route to a connection that has had a stream.
PostRoute(o, i) ==
  /\ "post" \in Faults
  /\ pc # "ended" /\ psc # "nil"
  /\ CanAdd(i) /\ AddNewClientRoute(o, i)
  /\ disturbed' = TRUE
  /\ UNCHANGED <<loop, link, stop_req, stopper, stop_chan, cancelled, net>>

DeleteRoute(o) ==
  /\ "delete" \in Faults
  /\ o \in Mapped
  /\ StopRoutes({o})
  /\ UNCHANGED <<loop, link, request, ids, net>>

DeleteRoutes ==
  /\ "delete" \in Faults
  /\ StopRoutes(Mapped)
  /\ UNCHANGED <<loop, link, request, ids, net>>

\* DELETE of the connection: ReqStop sets stop_req first ...
DeleteConn ==
  /\ "stop" \in Faults
  /\ pc # "ended" /\ ~stop_req
  /\ stop_req' = TRUE /\ stopper' = "disconnect" /\ disturbed' = TRUE
  /\ UNCHANGED <<loop, link, stop_chan, cancelled, routes, net>>

\* ... then disconnects and posts to stop_chan.
ReqStopDisconnects ==
  /\ stopper = "disconnect"
  /\ Disconnect
  /\ stop_chan' = stop_chan + 1 /\ stopper' = "idle"
  /\ UNCHANGED <<loop, stop_req, cancelled, disturbed, ids>>

\* Client.ReqStop cancels the context, and the stream with it, then stops its
\* connections.
ClientReqStop ==
  /\ "cancel" \in Faults
  /\ ~cancelled
  /\ cancelled' = TRUE /\ CloseStream
  /\ IF stop_req \/ pc = "ended" THEN UNCHANGED <<stop_req, stopper>>
     ELSE stop_req' = TRUE /\ stopper' = "disconnect"
  /\ UNCHANGED <<loop, conn, stop_chan, disturbed, routes>>

-----------------------------------------------------------------------------
(* The server's end of a stream.                                           *)

Answer(kind, m) == s2c' = Append(s2c, [kind |-> kind, id |-> m.id, o |-> m.o])

\* ROUTE_START of an id that exists, or whose listener cannot be made, is
\* answered with ROUTE_STOPPED; ROUTE_STOP of an unknown id is not answered.
ServerReceives ==
  /\ c2s # <<>>
  /\ c2s' = Tail(c2s)
  /\ LET m == Head(c2s)
         taken == srv[m.id] # None
     IN \/ /\ m.kind = "START" /\ ~taken
           /\ srv' = [srv EXCEPT ![m.id] = m.o]
           /\ Answer("STARTED", m)
        \/ /\ m.kind = "START" /\ (taken \/ "listen" \in Faults)
           /\ Answer("STOPPED", m)
           /\ UNCHANGED srv
        \/ /\ m.kind = "STOP" /\ taken
           /\ srv' = [srv EXCEPT ![m.id] = None]
           /\ Answer("STOPPED", m)
        \/ /\ m.kind = "STOP" /\ ~taken
           /\ UNCHANGED <<srv, s2c>>
  /\ UNCHANGED <<loop, link, request, routes>>

\* The transport fails, or the server closes the stream.
BreakLink ==
  /\ "break" \in Faults
  /\ psc = "open"
  /\ CloseStream
  /\ UNCHANGED <<loop, conn, request, routes>>

-----------------------------------------------------------------------------
RunTask ==
  \/ NewClient \/ GetSeed \/ PacketStream \/ ConnectFails
  \/ (\E o \in Routes : AddStaticRoute(o)) \/ RoutesAdded
  \/ Select \/ RecvFails \/ Recv \/ ConnError
  \/ ActiveDisconnect \/ Sleep \/ StopAndWait \/ Terminate

RouteTask(o) == RouteStart(o) \/ RouteStops(o) \/ RouteStop(o) \/ RemoveClientRoute(o)

Requests ==
  \/ \E o \in Routes : DeleteRoute(o) \/ \E i \in ApiIds : PostRoute(o, i)
  \/ DeleteRoutes \/ DeleteConn \/ ClientReqStop

Next ==
  \/ RunTask
  \/ \E o \in Routes : RouteTask(o)
  \/ Requests \/ ReqStopDisconnects
  \/ ServerReceives \/ BreakLink

Spec == Init /\ [][Next]_vars

\* The tasks of the client run; nothing is assumed of the server and the API.
FairSpec ==
  /\ Spec
  /\ WF_vars(RunTask)
  /\ WF_vars(ReqStopDisconnects)
  /\ \A o \in Routes : WF_vars(RouteStart(o) \/ RouteStop(o) \/ RemoveClientRoute(o)
                               \/ (route[o].stop_req /\ RouteStops(o)))

-----------------------------------------------------------------------------
\* No route asks for an id of its own.
Automatic == ApiIds \subseteq {0} /\ Statics \in Seq({0})

\* When AddNewClientRoute chooses every id, and as long as the ids have only
\* restarted with no routes left, an answer of the server reaches the route it
\* is about, or none: a route is never told to stop in the place of another one
\* that had its id before.
AnswerReachesItsRoute ==
  Automatic /\ ~restarted /\ pc = "recv" /\ s2c # <<>> => route_map[Head(s2c).id] \in {None, Head(s2c).o}

\* When nothing is under way on the current stream and no route is on its way
\* in or out, both ends have the same routes under the same ids, and the client
\* knows of each that the server listens.
EndsAgree ==
  /\ pc \in {"select", "recv"} /\ psc = "open"
  /\ c2s = <<>> /\ s2c = <<>>
  /\ \A o \in Routes : route[o].pc \in {"none", "gone"} \/ (route[o].pc = "run" /\ ~route[o].stop_req)
  => /\ srv = route_map
     /\ \A o \in Mapped : route[o].listening

\* A live route is in the table under its id, so that a request to stop the
\* connection reaches it.
LiveRouteMapped ==
  \A o \in Routes : route[o].pc \notin {"none", "gone"} => route_map[route[o].id] = o

\* The end of the client ends the connection with all its routes, whatever it
\* was doing, when no DELETE of it has come first and no route is posted.
CancelEndsConn ==
  cancelled /\ ~disturbed
    ~> disturbed \/ (pc = "ended" /\ \A o \in Routes : route[o].pc \in {"none", "gone"})
=============================================================================
