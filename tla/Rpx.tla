-------------------------------- MODULE Rpx --------------------------------
(***************************************************************************)
(* The reverse proxy of one client connection.  On the server a request is *)
(* served by two goroutines, ServeHTTP, which sends the request's body,    *)
(* and handle_response, which copies the response out of a pipe.  On the   *)
(* client RpxLoop asks the target.  Each end has one receiver for all      *)
(* requests of the connection; it writes a packet of data to the request's *)
(* pipe itself, and does nothing else until that data has been read.       *)
(*                                                                         *)
(* A body and a response are counted in packets.  The browser and the      *)
(* target are part of the environment.                                     *)
(***************************************************************************)
EXTENDS Integers, Sequences, FiniteSets

CONSTANTS Reqs,     \* requests; a request is its own rpx id
          MaxBody,  \* packets of a request's body
          MaxResp,  \* packets of a response, at least one
          DoneMax,  \* capacity of done_chan
          Faults    \* subset of {"abort", "break", "target"}

\* The states of the receivers are not requests.
ASSUME ReqsAssumption == Reqs \cap {"recv", "ended"} = {}

ASSUME BoundsAssumption == MaxBody \in Nat /\ MaxResp \in Nat \ {0} /\ DoneMax \in Nat \ {0}

VARIABLES
  sh,         \* ServeHTTP
  rh,         \* handle_response
  srpx,       \* ServerRpx
  rpx_map,    \* the server's rpx_map
  recv,       \* receive_from_stream: the request whose pipe it writes to, or a state
  conn_stop,  \* stop_req of the ServerConn
  browser,    \* what the browser does and sees
  cl,         \* RpxLoop
  crpx,       \* ClientRpx
  client_map, \* the client's rpx_map
  crecv,      \* the client's receiver
  target,     \* what the target does and sees
  s2c, c2s, link,
  disturbed   \* history: the browser has gone or the stream has failed

server == <<sh, rh, srpx, rpx_map, recv, conn_stop>>
client == <<cl, crpx, client_map, crecv>>
net == <<s2c, c2s, link>>
vars == <<server, browser, client, target, net, disturbed>>

Msg(kind, q) == [kind |-> kind, q |-> q]

Init ==
  /\ sh = [q \in Reqs |-> "none"] /\ rh = [q \in Reqs |-> "none"]
  /\ srpx = [q \in Reqs |-> [upgrade |-> FALSE, start |-> "none", done |-> 0, br |-> "none",
                             pw |-> "open", body |-> "open", error |-> FALSE]]
  /\ rpx_map = {} /\ recv = "recv" /\ conn_stop = FALSE
  /\ browser = [q \in Reqs |-> [sent |-> 0, got |-> 0, gone |-> FALSE, result |-> "none"]]
  /\ cl = [q \in Reqs |-> "none"]
  /\ crpx = [q \in Reqs |-> [pr |-> "open", pw |-> "open", copy |-> "none"]]
  /\ client_map = {} /\ crecv = "recv"
  /\ target = [q \in Reqs |-> [sent |-> 0, got |-> 0, failed |-> FALSE]]
  /\ s2c = <<>> /\ c2s = <<>> /\ link = "up"
  /\ disturbed = FALSE

-----------------------------------------------------------------------------
(* What several steps share.                                               *)

SendToClient(m) == s2c' = IF link = "up" THEN Append(s2c, m) ELSE s2c
SendToServer(m) == c2s' = IF link = "up" THEN Append(c2s, m) ELSE c2s

\* ServerRpx.ReqStop: it waits for room in done_chan.
CanStop(q) == srpx[q].done < DoneMax

Stopped(x, close_web) ==
  [x EXCEPT !.done = @ + 1, !.pw = "closed", !.body = IF close_web THEN "closed" ELSE @]

ReqStop(q, close_web) == srpx' = [srpx EXCEPT ![q] = Stopped(@, close_web)]

\* ClientRpx.ReqStop.
ClientStopped(x) == [x EXCEPT !.pr = "closed", !.pw = "closed"]

-----------------------------------------------------------------------------
(* ServeHTTP.                                                              *)

\* The handler returns: the entry is cleared, and STOP is sent if START was.
Return(q, result) ==
  /\ sh' = [sh EXCEPT ![q] = "returned"]
  /\ rpx_map' = rpx_map \ {q}
  /\ browser' = [browser EXCEPT ![q].result = result]
  /\ SendToClient(Msg("STOP", q))

\* A request that selects this connection; one to upgrade has no body.
ServeHTTP(q, upgrade) ==
  /\ sh[q] = "none" /\ ~browser[q].gone
  /\ srpx' = [srpx EXCEPT ![q].upgrade = upgrade]
  /\ IF link = "up"
     THEN /\ SendToClient([kind |-> "START", q |-> q, upgrade |-> upgrade])
          /\ sh' = [sh EXCEPT ![q] = IF upgrade THEN "upgrade" ELSE "body"]
          /\ rh' = [rh EXCEPT ![q] = "header"]
          /\ rpx_map' = rpx_map \cup {q}
          /\ UNCHANGED browser
     ELSE /\ sh' = [sh EXCEPT ![q] = "returned"]
          /\ browser' = [browser EXCEPT ![q].result = "error"]
          /\ UNCHANGED <<rh, rpx_map, s2c>>
  /\ UNCHANGED <<recv, conn_stop, client, target, c2s, link, disturbed>>

\* It waits until handle_response has switched protocols, or has not.
UpgradeKnown(q) ==
  /\ sh[q] = "upgrade"
  /\ srpx[q].br # "none"
  /\ sh' = [sh EXCEPT ![q] = "body"]
  /\ UNCHANGED <<rh, srpx, rpx_map, recv, conn_stop, browser, client, target, net, disturbed>>

Switched(q) == srpx[q].br = "switched"

BodyData(q) ==
  /\ sh[q] = "body" /\ srpx[q].body = "open" /\ ~browser[q].gone
  /\ browser[q].sent < MaxBody
  /\ srpx[q].upgrade => Switched(q)
  /\ IF link = "up"
     THEN /\ browser' = [browser EXCEPT ![q].sent = @ + 1]
          /\ SendToClient(Msg("DATA", q))
          /\ UNCHANGED <<sh, rpx_map>>
     ELSE Return(q, "error")
  /\ UNCHANGED <<rh, srpx, recv, conn_stop, client, target, c2s, link, disturbed>>

\* The end of the body; of a web socket, that the browser has closed it.
BodyEof(q) ==
  /\ sh[q] = "body" /\ srpx[q].body = "open"
  /\ IF Switched(q) THEN browser[q].gone ELSE srpx[q].upgrade \/ browser[q].sent = MaxBody
  /\ IF link = "up"
     THEN /\ sh' = [sh EXCEPT ![q] = "join"]
          /\ SendToClient(Msg("EOF", q))
          /\ UNCHANGED <<rpx_map, browser>>
     ELSE Return(q, "error")
  /\ UNCHANGED <<rh, srpx, recv, conn_stop, client, target, c2s, link, disturbed>>

\* The browser has gone, or ReqStop has closed the body.
BodyError(q) ==
  /\ sh[q] = "body"
  /\ srpx[q].body = "closed" \/ (browser[q].gone /\ ~Switched(q))
  /\ Return(q, "error")
  /\ UNCHANGED <<rh, srpx, recv, conn_stop, client, target, c2s, link, disturbed>>

\* wg.Wait.
Join(q) ==
  /\ sh[q] = "join" /\ rh[q] = "done"
  /\ IF srpx[q].error THEN Return(q, "error")
     ELSE sh' = [sh EXCEPT ![q] = "final"] /\ UNCHANGED <<rpx_map, browser, s2c>>
  /\ UNCHANGED <<rh, srpx, recv, conn_stop, client, target, c2s, link, disturbed>>

\* The context of a hijacked connection outlives the browser.
Final(q) ==
  /\ sh[q] = "final"
  /\ \/ srpx[q].done > 0 /\ srpx' = [srpx EXCEPT ![q].done = @ - 1]
     \/ browser[q].gone /\ ~Switched(q) /\ UNCHANGED srpx
  /\ Return(q, "ok")
  /\ UNCHANGED <<rh, recv, conn_stop, client, target, c2s, link, disturbed>>

-----------------------------------------------------------------------------
(* handle_response.                                                        *)

\* Mutant of HeaderArrives: a refused upgrade is not reported to ServeHTTP.
HeaderArrivesSilently(q) ==
  /\ rh[q] = "header" /\ srpx[q].start # "none"
  /\ rh' = [rh EXCEPT ![q] = "copy"]
  /\ srpx' = [srpx EXCEPT ![q].br = IF srpx[q].start = "101" THEN "switched" ELSE @,
                          ![q].start = "none"]
  /\ UNCHANGED <<sh, rpx_map, recv, conn_stop, browser, client, target, net, disturbed>>

\* The select takes any of the channels that are ready.
HeaderArrives(q) ==
  /\ rh[q] = "header" /\ srpx[q].start # "none"
  /\ rh' = [rh EXCEPT ![q] = "copy"]
  /\ srpx' = [srpx EXCEPT ![q].br = IF srpx[q].start = "101" THEN "switched" ELSE "refused",
                          ![q].start = "none"]
  /\ UNCHANGED <<sh, rpx_map, recv, conn_stop, browser, client, target, net, disturbed>>

DoneBeforeHeader(q) ==
  /\ rh[q] = "header"
  /\ srpx[q].done > 0 \/ browser[q].gone
  /\ rh' = [rh EXCEPT ![q] = "done"]
  /\ srpx' = [srpx EXCEPT ![q].error = TRUE, ![q].br = "refused",
                          ![q].done = IF @ > 0 THEN @ - 1 ELSE @]
  /\ UNCHANGED <<sh, rpx_map, recv, conn_stop, browser, client, target, net, disturbed>>

\* Mutant of ReadPipe: what has been read is not written.
ReadPipeDrops(q) ==
  /\ rh[q] = "copy" /\ recv = q /\ srpx[q].pw = "open"
  /\ recv' = "recv"
  /\ UNCHANGED <<sh, rh, srpx, rpx_map, conn_stop, browser, client, target, net, disturbed>>

\* Reading the pipe lets the receiver go on.
ReadPipe(q) ==
  /\ rh[q] = "copy" /\ recv = q /\ srpx[q].pw = "open"
  /\ rh' = [rh EXCEPT ![q] = "write"] /\ recv' = "recv"
  /\ UNCHANGED <<sh, srpx, rpx_map, conn_stop, browser, client, target, net, disturbed>>

PipeEof(q) ==
  /\ rh[q] = "copy" /\ srpx[q].pw = "closed"
  /\ rh' = [rh EXCEPT ![q] = "done"]
  /\ UNCHANGED <<sh, srpx, rpx_map, recv, conn_stop, browser, client, target, net, disturbed>>

WriteToBrowser(q) ==
  /\ rh[q] = "write"
  /\ IF browser[q].gone
     THEN /\ rh' = [rh EXCEPT ![q] = "done"]
          /\ srpx' = [srpx EXCEPT ![q].error = TRUE]
          /\ UNCHANGED browser
     ELSE /\ rh' = [rh EXCEPT ![q] = "copy"]
          /\ browser' = [browser EXCEPT ![q].got = @ + 1]
          /\ UNCHANGED srpx
  /\ UNCHANGED <<sh, rpx_map, recv, conn_stop, client, target, net, disturbed>>

-----------------------------------------------------------------------------
(* HandleRpxEvent of the server's receiver, and the end of the stream.     *)

Receive(m) ==
  \/ m.q \notin rpx_map /\ UNCHANGED <<srpx, recv>>
  \/ /\ m.q \in rpx_map /\ m.kind = "START"
     /\ srpx' = [srpx EXCEPT ![m.q].start = m.status]
     /\ UNCHANGED recv
  \/ m.q \in rpx_map /\ m.kind = "STOP" /\ CanStop(m.q) /\ ReqStop(m.q, TRUE) /\ UNCHANGED recv
  \/ m.q \in rpx_map /\ m.kind = "EOF" /\ CanStop(m.q) /\ ReqStop(m.q, FALSE) /\ UNCHANGED recv
  \/ m.q \in rpx_map /\ m.kind = "DATA" /\ recv' = m.q /\ UNCHANGED srpx

ServerReceives ==
  /\ recv = "recv" /\ c2s # <<>>
  /\ Receive(Head(c2s))
  /\ c2s' = Tail(c2s)
  /\ UNCHANGED <<sh, rh, rpx_map, conn_stop, browser, client, target, s2c, link, disturbed>>

\* The pipe has been closed under the receiver.
WriteFails(q) ==
  /\ recv = q /\ srpx[q].pw = "closed" /\ CanStop(q)
  /\ ReqStop(q, TRUE)
  /\ recv' = "recv"
  /\ UNCHANGED <<sh, rh, rpx_map, conn_stop, browser, client, target, net, disturbed>>

StopAll(close_web) ==
  /\ \A q \in rpx_map : CanStop(q)
  /\ srpx' = [q \in Reqs |-> IF q \in rpx_map THEN Stopped(srpx[q], close_web) ELSE srpx[q]]

ReceiverEnds ==
  /\ recv = "recv" /\ link = "down"
  /\ recv' = "ended"
  /\ StopAll(FALSE)
  /\ UNCHANGED <<sh, rh, rpx_map, conn_stop, browser, client, target, net, disturbed>>

\* Mutant of ConnReqStop: it does not remember that it has been called.
ConnReqStopAgain ==
  /\ link = "down" /\ ~conn_stop
  /\ StopAll(TRUE)
  /\ UNCHANGED <<sh, rh, rpx_map, recv, conn_stop, browser, client, target, net, disturbed>>

\* ServerConn.ReqStop, when the stream's context is done.
ConnReqStop ==
  /\ link = "down" /\ ~conn_stop
  /\ conn_stop' = TRUE
  /\ StopAll(TRUE)
  /\ UNCHANGED <<sh, rh, rpx_map, recv, browser, client, target, net, disturbed>>

-----------------------------------------------------------------------------
(* The client: HandleRpxEvent and RpxLoop.                                 *)

StartRpx(m) ==
  /\ m.kind = "START"
  /\ client_map' = client_map \cup {m.q}
  /\ cl' = [cl EXCEPT ![m.q] = IF m.upgrade THEN "ws" ELSE "http"]
  /\ UNCHANGED <<crpx, crecv>>

StopRpx(m) ==
  /\ m.kind = "STOP"
  /\ crpx' = IF m.q \in client_map THEN [crpx EXCEPT ![m.q] = ClientStopped(@)] ELSE crpx
  /\ UNCHANGED <<cl, client_map, crecv>>

\* Mutant of WriteRpx: the receiver does not wait for the pipe.
WriteRpxDrops(m) ==
  /\ m.kind = "DATA"
  /\ UNCHANGED <<cl, crpx, client_map, crecv>>

WriteRpx(m) ==
  /\ m.kind = "DATA"
  /\ crecv' = IF m.q \in client_map THEN m.q ELSE crecv
  /\ UNCHANGED <<cl, crpx, client_map>>

EofRpx(m) ==
  /\ m.kind = "EOF"
  /\ crpx' = IF m.q \in client_map THEN [crpx EXCEPT ![m.q].pw = "closed"] ELSE crpx
  /\ UNCHANGED <<cl, client_map, crecv>>

ClientReceives ==
  /\ crecv = "recv" /\ s2c # <<>>
  /\ LET m == Head(s2c) IN StartRpx(m) \/ StopRpx(m) \/ WriteRpx(m) \/ EofRpx(m)
  /\ s2c' = Tail(s2c)
  /\ UNCHANGED <<server, browser, target, c2s, link, disturbed>>

\* The reader of the pipe is the transport, or server_pipe_to_ws_target.
TargetReads(q) ==
  /\ crecv = q /\ crpx[q].pr = "open"
  /\ IF cl[q] \in {"http", "http_body"} THEN TRUE ELSE crpx[q].copy = "run"
  /\ target' = [target EXCEPT ![q].got = @ + 1]
  /\ crecv' = "recv"
  /\ UNCHANGED <<server, browser, cl, crpx, client_map, net, disturbed>>

ClientWriteFails(q) ==
  /\ crecv = q /\ crpx[q].pr = "closed"
  /\ crecv' = "recv"
  /\ UNCHANGED <<server, browser, cl, crpx, client_map, target, net, disturbed>>

PipeToTargetEnds(q) ==
  /\ crpx[q].copy = "run"
  /\ crpx[q].pw = "closed" /\ crecv # q
  /\ crpx' = [crpx EXCEPT ![q].copy = "ended"]
  /\ UNCHANGED <<server, browser, cl, client_map, crecv, target, net, disturbed>>

\* done: of RpxLoop.
EndLoop(q, msgs) ==
  /\ c2s' = IF link = "up" THEN c2s \o Append(msgs, Msg("STOP", q)) ELSE c2s
  /\ crpx' = [crpx EXCEPT ![q] = ClientStopped(@)]
  /\ client_map' = client_map \ {q}
  /\ cl' = [cl EXCEPT ![q] = "ended"]

StartOf(q, status) == [kind |-> "START", q |-> q, status |-> status]

\* The target answers, possibly before it has read the whole body.
TargetAnswers(q) ==
  /\ cl[q] = "http" /\ crpx[q].pr = "open"
  /\ IF link = "up"
     THEN /\ SendToServer(StartOf(q, "200"))
          /\ cl' = [cl EXCEPT ![q] = "http_body"]
          /\ UNCHANGED <<crpx, client_map>>
     ELSE EndLoop(q, <<>>)
  /\ UNCHANGED <<server, browser, crecv, target, s2c, link, disturbed>>

TargetSwitches(q) ==
  /\ cl[q] = "ws" /\ crpx[q].pr = "open"
  /\ IF link = "up"
     THEN /\ SendToServer(StartOf(q, "101"))
          /\ cl' = [cl EXCEPT ![q] = "ws_body"]
          /\ crpx' = [crpx EXCEPT ![q].copy = "run"]
          /\ UNCHANGED client_map
     ELSE EndLoop(q, <<>>)
  /\ UNCHANGED <<server, browser, crecv, target, s2c, link, disturbed>>

\* Another status: the answer has no body and the loop ends.
TargetRefuses(q) ==
  /\ cl[q] = "ws" /\ crpx[q].pr = "open"
  /\ EndLoop(q, <<StartOf(q, "403")>>)
  /\ target' = [target EXCEPT ![q].failed = TRUE]
  /\ UNCHANGED <<server, browser, crecv, s2c, link, disturbed>>

\* The target cannot be reached, closes too early, or the request is stopped.
TargetFails(q) ==
  /\ cl[q] \in {"http", "ws", "http_body", "ws_body"}
  /\ "target" \in Faults \/ crpx[q].pr = "closed"
  /\ EndLoop(q, <<>>)
  /\ target' = [target EXCEPT ![q].failed = TRUE]
  /\ UNCHANGED <<server, browser, crecv, s2c, link, disturbed>>

TargetSends(q) ==
  /\ cl[q] \in {"http_body", "ws_body"} /\ crpx[q].pr = "open"
  /\ target[q].sent < MaxResp
  /\ IF link = "up"
     THEN /\ SendToServer(Msg("DATA", q))
          /\ target' = [target EXCEPT ![q].sent = @ + 1]
          /\ UNCHANGED <<cl, crpx, client_map>>
     ELSE EndLoop(q, <<>>) /\ UNCHANGED target
  /\ UNCHANGED <<server, browser, crecv, s2c, link, disturbed>>

TargetEnds(q) ==
  /\ target[q].sent = MaxResp
  /\ \/ cl[q] = "http_body" /\ EndLoop(q, <<>>)
     \/ /\ cl[q] = "ws_body"
        /\ SendToServer(Msg("EOF", q))
        /\ cl' = [cl EXCEPT ![q] = "join"]
        /\ UNCHANGED <<crpx, client_map>>
     \/ cl[q] = "join" /\ crpx[q].copy = "ended" /\ EndLoop(q, <<>>)
  /\ UNCHANGED <<server, browser, crecv, target, s2c, link, disturbed>>

-----------------------------------------------------------------------------
BrowserGoes(q) ==
  /\ sh[q] \notin {"none", "returned"} /\ ~browser[q].gone
  /\ "abort" \in Faults \/ Switched(q)
  /\ browser' = [browser EXCEPT ![q].gone = TRUE]
  /\ disturbed' = (disturbed \/ ~Switched(q) \/ browser[q].got < MaxResp)
  /\ UNCHANGED <<server, client, target, net>>

\* disconnect_from_server stops every request of the client.
BreakLink ==
  /\ "break" \in Faults /\ link = "up"
  /\ link' = "down" /\ s2c' = <<>> /\ c2s' = <<>>
  /\ crpx' = [q \in Reqs |-> IF q \in client_map THEN ClientStopped(crpx[q]) ELSE crpx[q]]
  /\ disturbed' = TRUE
  /\ UNCHANGED <<server, browser, cl, client_map, crecv, target>>

Handler(q) ==
  \/ UpgradeKnown(q) \/ BodyData(q) \/ BodyEof(q) \/ BodyError(q) \/ Join(q) \/ Final(q)

Response(q) ==
  HeaderArrives(q) \/ DoneBeforeHeader(q) \/ ReadPipe(q) \/ PipeEof(q) \/ WriteToBrowser(q)

Receiver == ServerReceives \/ ReceiverEnds \/ \E q \in Reqs : WriteFails(q)

ClientReceiver ==
  ClientReceives \/ \E q \in Reqs : TargetReads(q) \/ ClientWriteFails(q)

Loop(q) ==
  \/ TargetAnswers(q) \/ TargetSwitches(q) \/ TargetRefuses(q)
  \/ TargetSends(q) \/ TargetEnds(q) \/ TargetFails(q)

Next ==
  \/ \E q \in Reqs : \E upgrade \in BOOLEAN : ServeHTTP(q, upgrade)
  \/ \E q \in Reqs : Handler(q) \/ Response(q) \/ Loop(q) \/ PipeToTargetEnds(q) \/ BrowserGoes(q)
  \/ Receiver \/ ConnReqStop \/ ClientReceiver \/ BreakLink

Spec == Init /\ [][Next]_vars

\* Goroutines run, the target answers, and a browser does not keep a web socket
\* for ever.
FairSpec ==
  /\ Spec
  /\ WF_vars(Receiver) /\ WF_vars(ConnReqStop) /\ WF_vars(ClientReceiver)
  /\ \A q \in Reqs :
       /\ WF_vars(Handler(q)) /\ WF_vars(Response(q)) /\ WF_vars(Loop(q))
       /\ WF_vars(PipeToTargetEnds(q)) /\ WF_vars(Switched(q) /\ BrowserGoes(q))

-----------------------------------------------------------------------------
\* Packets of data for a request that a queue holds.
Packets(msgs, q) == Cardinality({i \in DOMAIN msgs : msgs[i].q = q /\ msgs[i].kind = "DATA"})

Count(b) == IF b THEN 1 ELSE 0

\* A response that ServeHTTP reports as a success is the whole response of the
\* target, unless the target failed or the stream did.
ResponseComplete ==
  \A q \in Reqs :
    browser[q].result = "ok" /\ ~target[q].failed /\ ~disturbed => browser[q].got = MaxResp

\* Nothing of a request's body is skipped: what the target has read, what is
\* being written to it and what is under way is all that the browser sent, as
\* long as the client serves the request.
BodyInOrder ==
  \A q \in client_map :
    link = "up" /\ crpx[q].pr = "open" =>
      target[q].got + Count(crecv = q) + Packets(s2c, q) = browser[q].sent

\* Stopping a request never waits: done_chan has room for every message that
\* the receiver's handlers, its end and ServerConn.ReqStop can put into it.
StopNeverWaits == \A q \in Reqs : CanStop(q)

\* A request that has been returned to the browser ends on the client too.
Answered ==
  \A q \in Reqs : sh[q] # "none" ~> disturbed \/ (sh[q] = "returned" /\ q \notin client_map)
=============================================================================
