------------------------------ MODULE Services ------------------------------
(* The life of a server or a client program: its services are started,     *)
(* run, and are stopped by a signal or by the program that embeds it, with *)
(* the bulletin among them. The control API reaches the bulletin through   *)
(* the control service, connections fire events, and a stop blocks it.     *)
EXTENDS Bulletin

CONSTANT Conns   \* streams of clients, or connections of the client

Order == <<"ctl", "ect", "rpx", "pxy", "wpx">>
Http == {Order[i] : i \in 1 .. 5}
Callers == {"signal", "program"}

VARIABLES
  role, configured,         \* server or client, and its HTTP services
  main,                     \* where main is: start, ext, wait, exited, killed
  hs, down,                 \* where each HTTP service is, and those shut down
  stop_req, ctx,            \* stop_req and the cancellation of Ctx
  caller,                   \* where each caller of StopServices is
  run, rpc, server_stop,    \* Server.RunTask, its listeners and stop_chan
  conn, asked,              \* the connections and those told to stop
  purger,
  sh, sh_stop, sigterm,     \* the signal handler, its stop_req, the signal
  ext_svcs, ext_closed

program == <<role, configured>>
signals == <<sh, sh_stop, sigterm>>
exts == <<ext_svcs, ext_closed>>
stopping == <<stop_req, ctx, caller>>
grpc == <<run, rpc, server_stop>>
links == <<conn, asked>>
svars == <<program, main, hs, down, stopping, grpc, links, purger, signals, exts>>
vars == <<bvars, svars>>

Init ==
  /\ BulletinInit
  /\ \/ role = "server" /\ configured \in SUBSET Http
     \/ role = "client" /\ configured = {"ctl"}
  /\ main = "start" /\ hs = [h \in Http |-> "none"] /\ down = {}
  /\ stop_req = FALSE /\ ctx = FALSE /\ caller = [c \in Callers |-> "idle"]
  /\ run = "none" /\ rpc = "listen" /\ server_stop = FALSE
  /\ conn = [c \in Conns |-> "none"] /\ asked = {} /\ purger = "none"
  /\ sh = "none" /\ sh_stop = FALSE /\ sigterm = FALSE
  /\ ext_svcs = {} /\ ext_closed = FALSE

-----------------------------------------------------------------------------
(* Starting. A goroutine that has been started may begin at any later time.*)

StartHttpServices == hs' = [h \in Http |-> IF h \in configured THEN "check" ELSE "none"]

StartService ==
  /\ main = "start" /\ main' = "ext"
  /\ StartBulletin /\ StartHttpServices
  /\ IF role = "server" THEN run' = "wait" /\ purger' = "run" ELSE UNCHANGED <<run, purger>>
  /\ UNCHANGED <<program, down, stopping, rpc, server_stop, links, signals, exts>>

\* Mutant of StartExtService: the server has no ext_closed, like the client.
StartExtServiceAnyway ==
  /\ main = "ext" /\ main' = "wait"
  /\ ext_svcs' = {"sh"} /\ sh' = "start"
  /\ UNCHANGED <<bvars, program, hs, down, stopping, grpc, links, purger, sh_stop, sigterm, ext_closed>>

\* The signal handler, which a server that is stopped already does not start.
StartExtService ==
  /\ main = "ext" /\ main' = "wait"
  /\ IF ext_closed THEN UNCHANGED <<ext_svcs, sh>> ELSE ext_svcs' = {"sh"} /\ sh' = "start"
  /\ UNCHANGED <<bvars, program, hs, down, stopping, grpc, links, purger, sh_stop, sigterm, ext_closed>>

Ended ==
  /\ task = "ended" /\ purger \in {"none", "ended"} /\ run \in {"none", "ended"}
  /\ sh \in {"none", "ended"}
  /\ \A h \in configured : hs[h] = "ended"
  /\ role = "client" => \A c \in Conns : conn[c] # "running"

WaitForTermination ==
  /\ main = "wait" /\ Ended
  /\ main' = "exited"
  /\ UNCHANGED <<bvars, program, hs, down, stopping, grpc, links, purger, signals, exts>>

-----------------------------------------------------------------------------
(* The HTTP services. Serve returns once Shutdown has been called, also    *)
(* when it is called after it.                                             *)

RunSingle(h) ==
  /\ \/ hs[h] = "check" /\ \E p \in (IF stop_req THEN {} ELSE {"listen"}) \cup {"ended"} : hs' = [hs EXCEPT ![h] = p]
     \/ hs[h] = "listen" /\ hs' = [hs EXCEPT ![h] = IF stop_req THEN "ended" ELSE "serve"]
     \/ hs[h] = "serve" /\ hs' = [hs EXCEPT ![h] = IF h \in down THEN "ended" ELSE "serving"]
     \/ hs[h] = "serving" /\ h \in down /\ hs' = [hs EXCEPT ![h] = "ended"]
  /\ UNCHANGED <<bvars, program, main, down, stopping, grpc, links, purger, signals, exts>>

run_single_ctl_server == role = "server" /\ RunSingle("ctl")
run_single_ect_server == RunSingle("ect")
run_single_rpx_server == RunSingle("rpx")
run_single_pxy_server == RunSingle("pxy")
run_single_wpx_server == RunSingle("wpx")
run_single_client_ctl_server == role = "client" /\ RunSingle("ctl")
HttpServers ==
  \/ run_single_ctl_server \/ run_single_ect_server \/ run_single_rpx_server
  \/ run_single_pxy_server \/ run_single_wpx_server \/ run_single_client_ctl_server

-----------------------------------------------------------------------------
(* Connections.                                                            *)

Stream(c, p) == conn' = [conn EXCEPT ![c] = p]

\* A stream of a client, refused after a stop request.
PacketStream(c) ==
  /\ role = "server" /\ conn[c] = "none" /\ run \in {"wait", "rpc", "cts"}
  /\ Stream(c, IF stop_req THEN "ended" ELSE "admitted")
  /\ UNCHANGED <<bvars, program, main, hs, down, stopping, grpc, asked, purger, signals, exts>>

AddNewServerConn(c) ==
  /\ role = "server" /\ conn[c] = "admitted"
  /\ Stream(c, "added")
  /\ UNCHANGED <<bvars, program, main, hs, down, stopping, grpc, asked, purger, signals, exts>>

\* RunTask of a connection begins, which the server then waits for, and fires an event.
ConnStarts(c) ==
  /\ conn[c] = "added"
  /\ Stream(c, "running") /\ Enqueue
  /\ UNCHANGED <<program, main, hs, down, stopping, grpc, asked, purger, signals, exts>>

\* The client's connections: configured ones, and those added by the control API.
StartClientConn(c) ==
  /\ role = "client" /\ conn[c] = "none"
  /\ main = "ext" \/ hs["ctl"] = "serving"
  /\ Stream(c, "running") /\ Enqueue
  /\ UNCHANGED <<program, main, hs, down, stopping, grpc, asked, purger, signals, exts>>

\* A connection told to stop, one whose context is cancelled or whose transport is closed.
ConnEnds(c) ==
  /\ conn[c] = "running"
  /\ c \in asked \/ (role = "client" /\ ctx) \/ run = "ended"
  /\ Stream(c, "ended") /\ Enqueue
  /\ UNCHANGED <<program, main, hs, down, stopping, grpc, asked, purger, signals, exts>>

PeerLeaves(c) ==
  /\ conn[c] = "running"
  /\ Stream(c, "ended") /\ Enqueue
  /\ UNCHANGED <<program, main, hs, down, stopping, grpc, asked, purger, signals, exts>>

\* Server.RunTask: stop_chan, rpc_wg, cts_wg, and then rpc_svr.Stop.
ServerRunTask ==
  /\ \/ run = "wait" /\ server_stop /\ run' = "rpc"
     \/ run = "rpc" /\ rpc = "closed" /\ run' = "cts"
     \/ run = "cts" /\ (\A c \in Conns : conn[c] # "running") /\ run' = "ended"
  /\ UNCHANGED <<bvars, program, main, hs, down, stopping, rpc, server_stop, links, purger, signals, exts>>

PurgerEnds ==
  /\ purger = "run" /\ ctx /\ purger' = "ended"
  /\ UNCHANGED <<bvars, program, main, hs, down, stopping, grpc, links, signals, exts>>

-----------------------------------------------------------------------------
(* StopServices, called by the signal handler and by an embedding program. *)

At(k, p) == caller[k] = p
To(k, p) == caller' = [caller EXCEPT ![k] = p]

ProgramStops ==
  /\ At("program", "idle") /\ main \in (IF role = "server" THEN {"ext", "wait"} ELSE {"wait"})
  /\ To("program", "stop")
  /\ UNCHANGED <<bvars, program, main, hs, down, stop_req, ctx, grpc, links, purger, signals, exts>>

\* ReqStop is for the first caller; the other goes on to the bulletin.
ReqStop(k) ==
  /\ At(k, "stop")
  /\ stop_req' = TRUE /\ To(k, IF stop_req THEN "bulletin" ELSE "block")
  /\ UNCHANGED <<bvars, program, main, hs, down, ctx, grpc, links, purger, signals, exts>>

BlockAndCancel(k) ==
  /\ At(k, "block")
  /\ Block /\ ctx' = TRUE /\ To(k, "shutdown")
  /\ UNCHANGED <<program, main, hs, down, stop_req, grpc, links, purger, signals, exts>>

Shutdown(k) ==
  /\ At(k, "shutdown")
  /\ \/ \E i \in 1 .. 5 :
          /\ Order[i] \in configured \ down
          /\ \A j \in 1 .. i - 1 : Order[j] \notin configured \ down
          /\ down' = down \cup {Order[i]} /\ UNCHANGED caller
     \/ configured \subseteq down /\ UNCHANGED down /\ To(k, "conns")
  /\ UNCHANGED <<bvars, program, main, hs, stop_req, ctx, grpc, links, purger, signals, exts>>

\* The listeners, the connections of the moment, and stop_chan.
StopConns(k) ==
  /\ At(k, "conns")
  /\ rpc' = "closed" /\ server_stop' = TRUE
  /\ asked' = {c \in Conns : conn[c] \in {"added", "running"}}
  /\ To(k, "bulletin")
  /\ UNCHANGED <<bvars, program, main, hs, down, stop_req, ctx, run, conn, purger, signals, exts>>

StopBulletin(k) ==
  /\ At(k, "bulletin")
  /\ BulletinReqStop /\ To(k, "ext")
  /\ UNCHANGED <<program, main, hs, down, stop_req, ctx, grpc, links, purger, signals, exts>>

\* SIGTERM, which ends a program whose signal handler has not called Notify.
Kill ==
  IF sh \in {"none", "start"} THEN main' = "killed" /\ UNCHANGED sigterm
  ELSE sigterm' = TRUE /\ UNCHANGED main

\* signal_handler.StopServices for the services of the moment, under ext_mtx.
StopExt(k) ==
  /\ At(k, "ext") /\ To(k, "done")
  /\ IF ext_svcs = {} \/ sh_stop THEN UNCHANGED <<main, sh_stop, sigterm>>
     ELSE sh_stop' = TRUE /\ Kill
  /\ ext_closed' = (role = "server")
  /\ UNCHANGED <<bvars, program, hs, down, stop_req, ctx, grpc, links, purger, sh, ext_svcs>>

StopServices(k) == ReqStop(k) \/ BlockAndCancel(k) \/ Shutdown(k) \/ StopConns(k) \/ StopBulletin(k) \/ StopExt(k)

SignalSent ==
  /\ ~sigterm /\ sh # "ended" /\ Kill
  /\ UNCHANGED <<bvars, program, hs, down, stopping, grpc, links, purger, sh, sh_stop, exts>>

\* The signal handler: Notify, the signal, StopServices and its end.
SignalHandler ==
  /\ \/ sh = "start" /\ sh' = "run" /\ UNCHANGED <<sh_stop, caller>>
     \/ sh = "run" /\ sigterm /\ sh' = "stopping" /\ sh_stop' = TRUE /\ To("signal", "stop")
     \/ sh = "stopping" /\ At("signal", "done") /\ sh' = "ended" /\ UNCHANGED <<sh_stop, caller>>
  /\ UNCHANGED <<bvars, program, main, hs, down, stop_req, ctx, grpc, links, purger, sigterm, exts>>

-----------------------------------------------------------------------------
Events(w) ==
  \/ hs["ctl"] = "serving" /\ RequestEvents(w)
  \/ Refuse(w) \/ Subscribe(w) \/ SendEvent(w) \/ BrowserLeaves(w)

Main == StartService \/ StartExtService \/ WaitForTermination
ConnTask(c) == AddNewServerConn(c) \/ ConnStarts(c) \/ ConnEnds(c)

BulletinNext ==
  /\ RunTask \/ SelectTimer \/ FireEvent \/ \E w \in Subscribers : EventSocket(w) \/ Events(w)
  /\ UNCHANGED svars

Next ==
  /\ main \notin {"exited", "killed"}
  /\ \/ Main \/ HttpServers \/ ServerRunTask \/ PurgerEnds \/ SignalHandler \/ SignalSent \/ ProgramStops
     \/ \E k \in Callers : StopServices(k)
     \/ \E c \in Conns : PacketStream(c) \/ ConnTask(c) \/ StartClientConn(c) \/ PeerLeaves(c)
     \/ BulletinNext

Spec == Init /\ [][Next]_vars

Alive == main \notin {"exited", "killed"}

\* Goroutines run; a select takes each of its ready cases in time.
Fairness ==
  /\ WF_vars(Alive /\ Main)
  /\ \A h \in Http : WF_vars(Alive /\ RunSingle(h))
  /\ WF_vars(Alive /\ ServerRunTask) /\ WF_vars(Alive /\ PurgerEnds) /\ WF_vars(Alive /\ SignalHandler)
  /\ \A k \in Callers : WF_vars(Alive /\ StopServices(k))
  /\ \A c \in Conns : WF_vars(Alive /\ ConnTask(c))
  /\ WF_vars(Alive /\ RunTask /\ UNCHANGED svars) /\ SF_vars(Alive /\ SelectStop /\ UNCHANGED svars)
  /\ \A w \in Subscribers : WF_vars(Alive /\ EventSocket(w) /\ UNCHANGED svars)

-----------------------------------------------------------------------------
(* Properties.                                                             *)

Promise == INSTANCE Feed WITH fired <- fired, latest <- latest, count <- count

\* A browser on the event socket gets events that were fired, in the order
\* they were fired and each once, whatever is dropped by a full ring or a
\* full channel (Enqueue, RunTask, ServeWebsocket).
InOrder == Promise!Spec

\* An event put into the ring leaves it although the timer of RunTask is
\* stopped by the event before and is not armed again: the notification of
\* Enqueue is not lost.
EventForwarded == []<>(r = <<>> \/ blocked \/ ~Alive)

\* A web socket left by its browser, even one that had stopped reading, ends
\* its handler and its sending goroutine (ServeWebsocket, Unsubscribe).
SocketEnds == \A w \in Subscribers : ws[w] = "gone" ~> handler[w] = "done" \/ ~Alive

\* A stream that passed PacketStream's test of stop_req and was added after
\* ReqStop had taken its snapshot.
Slipped == \E c \in Conns : conn[c] = "running" /\ c \notin asked /\ rpc = "closed"

\* A stop, by a signal or by the program, at any point of starting, serving
\* or stopping, ends the program: every service sees it, and none is waited
\* for that was not told. A stream that slipped in is the exception.
StopTerminates == stop_req ~> ~Alive \/ (role = "server" /\ Slipped)
=============================================================================
