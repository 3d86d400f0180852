------------------------------- MODULE Xterm -------------------------------
(***************************************************************************)
(* The terminals of one web socket: serve_xterm_sessions reads the         *)
(* browser's messages, run_session runs beside it for each session, with a *)
(* goroutine that reads the terminal, and a writer sends what all of them  *)
(* put into one queue.  The terminal is a local process (open_xterm_pty),  *)
(* a process of a Hodu client (open_xterm_rpty and the client's RptyLoop), *)
(* or a channel of an SSH connection that sessions with the same           *)
(* credentials share (xterm_ssh_pool).                                     *)
(*                                                                         *)
(* Sessions are numbered in the order in which they are opened.  The       *)
(* number is also the rpty id, which the server assigns in that order.     *)
(***************************************************************************)
EXTENDS Integers, Sequences, FiniteSets

CONSTANTS Kinds,       \* of {"pty", "rpty", "ssh"}
          Ids,         \* session names of the browser
          Legacy,      \* the empty name among them
          Opens,       \* bound on the number of sessions
          RptyOpens,   \* the same for remote terminals
          SessionMax,  \* xterm_session_max
          OutputMax,   \* capacity of the output queue
          ChunksMax,   \* capacity of xterm_rpty_output.chunks
          ChannelMax   \* bound on data packets under way from the client

ASSUME LimitsAssumption ==
  /\ Opens \in Nat /\ RptyOpens \in 0 .. Opens /\ SessionMax \in Nat /\ ChunksMax \in Nat \ {0}
  /\ OutputMax \in Nat \ {0}

VARIABLES
  kind,      \* of the web socket's terminals
  main,      \* serve_xterm_sessions
  writer,    \* its writer goroutine
  ws,        \* "open", "expired" (read deadline) or "closed"
  ctx,       \* the context of the connection is cancelled
  output,    \* number of events in the output queue
  sessions,  \* the table: a session, or 0
  opened,    \* number of sessions so far
  sess,      \* per session: run_session and what it owns
  reader,    \* per session: the goroutine that reads the terminal
  term,      \* per session: the terminal
  rpty_map, chunks, s2c, c2s, link, receiver,       \* "rpty"
  client, leases, alive, closed_pool                 \* "ssh"

conn == <<main, writer, ws, ctx, output>>
table == <<sessions, opened>>
remote == <<rpty_map, chunks, s2c, c2s, link, receiver>>
pool == <<client, leases, alive, closed_pool>>
vars == <<kind, conn, table, sess, reader, term, remote, pool>>

S == 1 .. Opens

NewSession ==
  [pc |-> "none", id |-> Legacy, cancelled |-> FALSE, backend |-> "none",
   setup |-> "none", client |-> 0]

Init ==
  /\ kind \in Kinds
  /\ main = "receive" /\ writer = "run" /\ ws = "open" /\ ctx = FALSE /\ output = 0
  /\ sessions = [i \in Ids |-> 0] /\ opened = 0
  /\ sess = [s \in S |-> NewSession]
  /\ reader = [s \in S |-> "none"]
  /\ term = [s \in S |-> "none"]
  /\ rpty_map = {} /\ s2c = <<>> /\ c2s = <<>> /\ link = "up" /\ receiver = "run"
  /\ chunks = [s \in S |-> [n |-> 0, done |-> FALSE, overflow |-> FALSE, lost |-> FALSE]]
  /\ client = 0 /\ leases = [c \in S |-> 0] /\ alive = [c \in S |-> FALSE] /\ closed_pool = FALSE

-----------------------------------------------------------------------------
(* xterm_connection.send never waits: a browser that is too slow loses the *)
(* connection.                                                             *)

\* What is left in the queue is not sent any more.
Cancel == ctx' = TRUE /\ ws' = "closed" /\ output' = 0

Send ==
  IF ctx THEN UNCHANGED <<ws, ctx, output>>
  ELSE IF output < OutputMax THEN output' = output + 1 /\ UNCHANGED <<ws, ctx>>
  ELSE Cancel

Quiet == UNCHANGED <<ws, ctx, output>>

Cancelled(s) == ctx \/ sess[s].cancelled

Goto(s, p) == sess' = [sess EXCEPT ![s].pc = p]

-----------------------------------------------------------------------------
(* serve_xterm_sessions.                                                   *)

Receiving == main = "receive" /\ ws = "open"

Open(i) ==
  /\ Receiving
  /\ IF sessions[i] # 0 \/ Cardinality({j \in Ids : sessions[j] # 0}) >= SessionMax
     THEN Send /\ UNCHANGED <<table, sess>>
     ELSE /\ opened < IF kind = "rpty" THEN RptyOpens ELSE Opens
          /\ opened' = opened + 1
          /\ sessions' = [sessions EXCEPT ![i] = opened + 1]
          /\ sess' = [sess EXCEPT ![opened + 1] = [NewSession EXCEPT !.pc = "opening", !.id = i]]
          /\ Quiet
  /\ UNCHANGED <<kind, main, writer, reader, term, remote, pool>>

\* A message for no session, or one that is not understood.
Refuse ==
  /\ Receiving
  /\ Send
  /\ UNCHANGED <<kind, main, writer, table, sess, reader, term, remote, pool>>

Close(i) ==
  /\ Receiving /\ sessions[i] # 0
  /\ sess' = [sess EXCEPT ![sessions[i]].cancelled = TRUE]
  /\ UNCHANGED <<kind, conn, table, reader, term, remote, pool>>

\* "iov" and "size": what cannot be written is reported, and a session that does
\* not take its input, which it does between other steps, is closed.
Input(i) ==
  /\ Receiving /\ sessions[i] # 0
  /\ \/ Quiet /\ UNCHANGED sess
     \/ Send /\ UNCHANGED sess
     \/ Send /\ sess' = [sess EXCEPT ![sessions[i]].cancelled = TRUE]
  /\ UNCHANGED <<kind, main, writer, table, reader, term, remote, pool>>

BrowserCloses ==
  /\ ws # "closed"
  /\ ws' = "closed"
  /\ UNCHANGED <<kind, main, writer, ctx, output, table, sess, reader, term, remote, pool>>

ReceiveFails ==
  /\ main = "receive" /\ ws # "open"
  /\ main' = IF kind = "ssh" THEN "close_pool" ELSE "join"
  /\ Cancel
  /\ UNCHANGED <<kind, writer, table, sess, reader, term, remote, pool>>

\* conn.wg.Wait, then the writer.
JoinSessions ==
  /\ main = "join"
  /\ \A s \in S : sess[s].pc \in {"none", "ended"}
  /\ main' = "join_writer"
  /\ UNCHANGED <<kind, writer, ws, ctx, output, table, sess, reader, term, remote, pool>>

Return ==
  /\ main = "join_writer" /\ writer = "done"
  /\ main' = "returned"
  /\ UNCHANGED <<kind, writer, ws, ctx, output, table, sess, reader, term, remote, pool>>

Write ==
  /\ writer = "run" /\ output > 0
  /\ \/ ws # "closed" /\ output' = output - 1 /\ UNCHANGED <<writer, ws, ctx>>
     \/ writer' = "done" /\ Cancel
  /\ UNCHANGED <<kind, main, table, sess, reader, term, remote, pool>>

WriterEnds ==
  /\ writer = "run" /\ ctx
  /\ writer' = "done"
  /\ UNCHANGED <<kind, main, ws, ctx, output, table, sess, reader, term, remote, pool>>

-----------------------------------------------------------------------------
(* The pool of SSH connections; client is the one in pool.clients, or 0.   *)

Gone == {"ended", "none"}

\* Mutant of Release: the first to release the connection closes it.
ReleaseFirst(c) ==
  /\ leases' = [leases EXCEPT ![c] = @ - 1]
  /\ client' = IF client = c THEN 0 ELSE client
  /\ alive' = [alive EXCEPT ![c] = FALSE]
  /\ UNCHANGED closed_pool

\* release: the last lease closes the connection, and its channels with it.
Release(c) ==
  /\ leases' = [leases EXCEPT ![c] = @ - 1]
  /\ IF leases[c] = 1
     THEN client' = (IF client = c THEN 0 ELSE client) /\ alive' = [alive EXCEPT ![c] = FALSE]
     ELSE UNCHANGED <<client, alive>>
  /\ UNCHANGED closed_pool

\* get_client.  The time for opening a session may be over at any moment, which
\* fails it; the mutex is held while a new connection is made.
Dialing == \E s \in S : sess[s].pc = "dial"

GetClient(s) ==
  /\ kind = "ssh" /\ sess[s].pc = "opening" /\ ~Dialing
  /\ \/ /\ IF Cancelled(s) THEN Quiet ELSE Send
        /\ Goto(s, "delete") /\ UNCHANGED leases
     \/ ~Cancelled(s) /\ client = 0 /\ Goto(s, "dial") /\ Quiet /\ UNCHANGED leases
     \/ /\ ~Cancelled(s) /\ client # 0
        /\ leases' = [leases EXCEPT ![client] = @ + 1]
        /\ sess' = [sess EXCEPT ![s].pc = "leased", ![s].client = client]
        /\ Quiet
  /\ UNCHANGED <<kind, main, writer, table, reader, term, remote, client, alive, closed_pool>>

Dial(s) ==
  /\ sess[s].pc = "dial"
  /\ \/ /\ ~Cancelled(s)
        /\ client' = s /\ alive' = [alive EXCEPT ![s] = TRUE]
        /\ leases' = [leases EXCEPT ![s] = 1]
        /\ sess' = [sess EXCEPT ![s].pc = "leased", ![s].client = s]
        /\ Quiet
     \/ /\ IF Cancelled(s) THEN Quiet ELSE Send
        /\ Goto(s, "delete")
        /\ UNCHANGED <<client, alive, leases>>
  /\ UNCHANGED <<kind, main, writer, table, reader, term, remote, closed_pool>>

StartSetup(s) ==
  /\ sess[s].pc = "leased"
  /\ sess' = [sess EXCEPT ![s].pc = "result", ![s].setup = "session"]
  /\ UNCHANGED <<kind, conn, table, reader, term, remote, pool>>

\* The goroutine that opens a channel and a shell on it.
SetupSession(s) ==
  /\ sess[s].setup = "session"
  /\ \/ /\ alive[sess[s].client]
        /\ sess' = [sess EXCEPT ![s].setup = "offer"]
        /\ term' = [term EXCEPT ![s] = "running"]
        /\ UNCHANGED pool
     \/ /\ sess' = [sess EXCEPT ![s].setup = "failed"]
        /\ Release(sess[s].client)
        /\ UNCHANGED term
  /\ UNCHANGED <<kind, conn, table, reader, remote>>

\* It hands the backend over, or cleans up when the time for that is over.
SetupGivesUp(s) ==
  /\ sess[s].setup = "offer"
  /\ sess' = [sess EXCEPT ![s].setup = "drop"]
  /\ term' = [term EXCEPT ![s] = IF @ = "running" THEN "killed" ELSE @]
  /\ UNCHANGED <<kind, conn, table, reader, remote, pool>>

SetupDrops(s) ==
  /\ sess[s].setup = "drop" /\ term[s] = "ended"
  /\ sess' = [sess EXCEPT ![s].setup = "failed"]
  /\ Release(sess[s].client)
  /\ UNCHANGED <<kind, conn, table, reader, term, remote>>

\* The select of open.
OpenResult(s) ==
  /\ sess[s].pc = "result"
  /\ \/ /\ sess[s].setup = "offer"
        /\ sess' = [sess EXCEPT ![s].pc = "loop", ![s].setup = "taken", ![s].backend = "open"]
        /\ reader' = [reader EXCEPT ![s] = "read"]
        /\ Send
     \/ /\ Goto(s, "delete") /\ UNCHANGED reader
        /\ IF Cancelled(s) THEN Quiet ELSE Send
  /\ UNCHANGED <<kind, main, writer, table, term, remote, pool>>

ClosePool ==
  /\ main = "close_pool" /\ ~closed_pool /\ ~Dialing
  /\ closed_pool' = TRUE
  /\ alive' = IF client = 0 THEN alive ELSE [alive EXCEPT ![client] = FALSE]
  /\ UNCHANGED <<kind, conn, table, sess, reader, term, remote, client, leases>>

PoolClosed ==
  /\ main = "close_pool" /\ closed_pool
  /\ \A s \in S : sess[s].setup \in {"none", "failed", "taken"}
  /\ main' = "join"
  /\ UNCHANGED <<kind, writer, ws, ctx, output, table, sess, reader, term, remote, pool>>

\* The SSH server closes the connection.
SshBreaks(c) ==
  /\ alive[c]
  /\ alive' = [alive EXCEPT ![c] = FALSE]
  /\ UNCHANGED <<kind, conn, table, sess, reader, term, remote, client, leases, closed_pool>>

-----------------------------------------------------------------------------
(* Opening a local or a remote terminal.                                   *)

OpenFails(s) ==
  /\ Goto(s, "delete")
  /\ IF Cancelled(s) THEN Quiet ELSE Send
  /\ UNCHANGED <<reader, term, rpty_map, s2c>>

Opened(s) ==
  /\ sess' = [sess EXCEPT ![s].pc = "loop", ![s].backend = "open"]
  /\ reader' = [reader EXCEPT ![s] = "read"]
  /\ Send

\* connect_pty: a shell on a new terminal.
ConnectPty(s) == term' = [term EXCEPT ![s] = "running"]

OpenPty(s) ==
  /\ kind = "pty" /\ sess[s].pc = "opening"
  /\ \/ OpenFails(s)
     \/ ~Cancelled(s) /\ Opened(s) /\ ConnectPty(s) /\ UNCHANGED <<rpty_map, s2c>>
  /\ UNCHANGED <<kind, main, writer, table, chunks, c2s, link, receiver, pool>>

\* start_rpty: the table, then START; without a stream the entry is taken back.
ServerStartRpty(s) ==
  /\ rpty_map' = rpty_map \cup {s}
  /\ s2c' = Append(s2c, [kind |-> "START", s |-> s])

OpenRpty(s) ==
  /\ kind = "rpty" /\ sess[s].pc = "opening"
  /\ IF Cancelled(s) \/ link = "down" THEN OpenFails(s)
     ELSE Opened(s) /\ ServerStartRpty(s) /\ UNCHANGED term
  /\ UNCHANGED <<kind, main, writer, table, chunks, c2s, link, receiver, pool>>

-----------------------------------------------------------------------------
(* run_session.                                                            *)

\* Mutant of CloseBackend: the client is not told.
CloseBackendHere(s) ==
  IF sess[s].backend # "open" THEN UNCHANGED <<term, rpty_map, chunks, s2c>>
  ELSE IF kind = "rpty"
  THEN /\ chunks' = [chunks EXCEPT ![s].done = TRUE]
       /\ rpty_map' = rpty_map \ {s}
       /\ UNCHANGED <<term, s2c>>
  ELSE /\ term' = [term EXCEPT ![s] = IF @ = "running" THEN "killed" ELSE @]
       /\ UNCHANGED <<rpty_map, chunks, s2c>>

\* backend.close, which acts once.
CloseBackend(s) ==
  IF sess[s].backend # "open" THEN UNCHANGED <<term, rpty_map, chunks, s2c>>
  ELSE IF kind = "rpty"
  THEN /\ chunks' = [chunks EXCEPT ![s].done = TRUE]
       /\ rpty_map' = rpty_map \ {s}
       /\ s2c' = IF link = "up" THEN Append(s2c, [kind |-> "STOP", s |-> s]) ELSE s2c
       /\ UNCHANGED term
  ELSE /\ term' = [term EXCEPT ![s] = IF @ = "running" THEN "killed" ELSE @]
       /\ UNCHANGED <<rpty_map, chunks, s2c>>

\* context.AfterFunc(ctx, backend.close).
CloseOnCancel(s) ==
  /\ sess[s].pc = "loop" /\ sess[s].backend = "open" /\ Cancelled(s)
  /\ CloseBackend(s)
  /\ sess' = [sess EXCEPT ![s].backend = "closed"]
  /\ UNCHANGED <<kind, conn, table, reader, c2s, link, receiver, pool>>

SessionCancelled(s) ==
  /\ sess[s].pc = "loop" /\ Cancelled(s)
  /\ CloseBackend(s)
  /\ sess' = [sess EXCEPT ![s].pc = "wait", ![s].backend = "closed"]
  /\ UNCHANGED <<kind, conn, table, reader, c2s, link, receiver, pool>>

ReadDone(s) ==
  /\ sess[s].pc = "loop" /\ reader[s] \in {"eof", "error"}
  /\ IF reader[s] = "error" /\ ~Cancelled(s) THEN Send ELSE Quiet
  /\ CloseBackend(s)
  /\ sess' = [sess EXCEPT ![s].pc = "wait", ![s].backend = "closed"]
  /\ UNCHANGED <<kind, main, writer, table, reader, c2s, link, receiver, pool>>

\* Mutant of Wait: the reader is not waited for.
WaitForTerminal(s) ==
  /\ sess[s].pc = "wait"
  /\ kind # "rpty" => term[s] = "ended"
  /\ IF kind = "ssh" THEN Release(sess[s].client) ELSE UNCHANGED pool
  /\ Goto(s, "delete")
  /\ UNCHANGED <<kind, conn, table, reader, term, remote>>

\* The session waits for the reader, then backend.wait.
Wait(s) ==
  /\ sess[s].pc = "wait" /\ reader[s] \in {"eof", "error"}
  /\ kind # "rpty" => term[s] = "ended"
  /\ IF kind = "ssh" THEN Release(sess[s].client) ELSE UNCHANGED pool
  /\ Goto(s, "delete")
  /\ UNCHANGED <<kind, conn, table, reader, term, remote>>

\* It leaves the table and says so; the end of the session without a name ends
\* the connection.
DeleteSession(s) ==
  /\ sess[s].pc = "delete"
  /\ sess' = [sess EXCEPT ![s].pc = "ended", ![s].cancelled = TRUE]
  /\ sessions' = [sessions EXCEPT ![sess[s].id] = 0]
  /\ IF sess[s].id = Legacy /\ ws = "open" /\ output < OutputMax
     THEN ws' = "expired" /\ output' = output + 1 /\ UNCHANGED ctx
     ELSE Send
  /\ UNCHANGED <<kind, main, writer, opened, reader, term, remote, pool>>

-----------------------------------------------------------------------------
(* The goroutine that reads the terminal.                                  *)

ReaderEnds(s, result) == reader' = [reader EXCEPT ![s] = result] /\ Quiet /\ UNCHANGED chunks

\* A local process or an SSH channel.
ReadTerminal(s) ==
  /\ kind # "rpty" /\ reader[s] = "read"
  /\ \/ term[s] = "running" /\ Send /\ UNCHANGED <<reader, chunks>>
     \/ term[s] = "ended" /\ ReaderEnds(s, "eof")
     \/ kind = "pty" /\ Cancelled(s) /\ ReaderEnds(s, "eof")
     \/ kind = "ssh" /\ sess[s].backend = "closed" /\ ReaderEnds(s, "error")
  /\ UNCHANGED <<kind, main, writer, table, sess, term, rpty_map, s2c, c2s, link, receiver, pool>>

\* xterm_rpty_output.Read: what is in the queue goes before its end.
ReadChunk(s) ==
  /\ reader[s] = "read" /\ chunks[s].n > 0
  /\ chunks' = [chunks EXCEPT ![s].n = @ - 1]
  /\ Send
  /\ UNCHANGED <<kind, main, writer, table, sess, reader, term, rpty_map, s2c, c2s, link,
                 receiver, pool>>

ReadEnd(s) ==
  /\ kind = "rpty" /\ reader[s] = "read"
  /\ chunks[s].n = 0 /\ chunks[s].done
  /\ ReaderEnds(s, IF chunks[s].overflow THEN "error" ELSE "eof")
  /\ UNCHANGED <<kind, main, writer, table, sess, term, rpty_map, s2c, c2s, link, receiver, pool>>

-----------------------------------------------------------------------------
(* HandleRptyEvent of the server's receiver.                               *)

\* Mutant of Push: a full queue ends the terminal without a mark.
PushUnmarked(s) ==
  chunks' = IF chunks[s].done THEN chunks
            ELSE IF chunks[s].n < ChunksMax THEN [chunks EXCEPT ![s].n = @ + 1]
            ELSE [chunks EXCEPT ![s].done = TRUE, ![s].lost = TRUE]

\* push: a full queue ends the terminal, the mark first.
Push(s) ==
  chunks' = IF chunks[s].done THEN chunks
            ELSE IF chunks[s].n < ChunksMax THEN [chunks EXCEPT ![s].n = @ + 1]
            ELSE [chunks EXCEPT ![s].overflow = TRUE, ![s].done = TRUE, ![s].lost = TRUE]

ServerReceives ==
  /\ receiver = "run" /\ c2s # <<>>
  /\ LET m == Head(c2s) IN
     \/ m.s \notin rpty_map /\ UNCHANGED chunks
     \/ m.s \in rpty_map /\ m.kind = "STOP" /\ chunks' = [chunks EXCEPT ![m.s].done = TRUE]
     \/ m.s \in rpty_map /\ m.kind = "DATA" /\ Push(m.s)
  /\ c2s' = Tail(c2s)
  /\ UNCHANGED <<kind, conn, table, sess, reader, term, rpty_map, s2c, link, receiver, pool>>

ReceiverEnds ==
  /\ receiver = "run" /\ link = "down"
  /\ receiver' = "ended"
  /\ chunks' = [s \in S |-> IF s \in rpty_map THEN [chunks[s] EXCEPT !.done = TRUE] ELSE chunks[s]]
  /\ UNCHANGED <<kind, conn, table, sess, reader, term, rpty_map, s2c, c2s, link, pool>>

(* The client: StartRpty, StopRpty, WriteRpty and RptyLoop.                *)

ToServer(k, s) == c2s' = IF link = "up" THEN Append(c2s, [kind |-> k, s |-> s]) ELSE c2s

ClientReceives ==
  /\ s2c # <<>>
  /\ LET m == Head(s2c) IN
     \/ m.kind = "START" /\ ConnectPty(m.s) /\ UNCHANGED c2s
     \/ m.kind = "START" /\ ToServer("STOP", m.s) /\ UNCHANGED term
     \/ /\ m.kind = "STOP"
        /\ term' = [term EXCEPT ![m.s] = IF @ = "running" THEN "killed" ELSE @]
        /\ UNCHANGED c2s
  /\ s2c' = Tail(s2c)
  /\ UNCHANGED <<kind, conn, table, sess, reader, rpty_map, chunks, link, receiver, pool>>

RptyOutput(s) ==
  /\ kind = "rpty" /\ term[s] = "running" /\ link = "up" /\ Len(c2s) < ChannelMax
  /\ ToServer("DATA", s)
  /\ UNCHANGED <<kind, conn, table, sess, reader, term, rpty_map, chunks, s2c, link, receiver, pool>>

\* The shell exits, or is killed.
RptyEnds(s) ==
  /\ kind = "rpty" /\ term[s] \in {"running", "killed"}
  /\ term' = [term EXCEPT ![s] = "ended"]
  /\ ToServer("STOP", s)
  /\ UNCHANGED <<kind, conn, table, sess, reader, rpty_map, chunks, s2c, link, receiver, pool>>

\* The stream fails: disconnect_from_server stops the client's terminals.
BreakLink ==
  /\ kind = "rpty" /\ link = "up"
  /\ link' = "down" /\ s2c' = <<>> /\ c2s' = <<>>
  /\ term' = [s \in S |-> IF term[s] = "running" THEN "killed" ELSE term[s]]
  /\ UNCHANGED <<kind, conn, table, sess, reader, rpty_map, chunks, receiver, pool>>

\* A shell exits; a killed process ends, an SSH channel also with its connection.
ShellExits(s) ==
  /\ kind # "rpty" /\ term[s] = "running"
  /\ term' = [term EXCEPT ![s] = "ended"]
  /\ UNCHANGED <<kind, conn, table, sess, reader, remote, pool>>

TerminalEnds(s) ==
  /\ kind # "rpty"
  /\ term[s] = "killed" \/ (kind = "ssh" /\ term[s] = "running" /\ ~alive[sess[s].client])
  /\ term' = [term EXCEPT ![s] = "ended"]
  /\ UNCHANGED <<kind, conn, table, sess, reader, remote, pool>>

-----------------------------------------------------------------------------
Main == ReceiveFails \/ JoinSessions \/ Return \/ ClosePool \/ PoolClosed
Browser == Refuse \/ BrowserCloses \/ \E i \in Ids : Open(i) \/ Close(i) \/ Input(i)
Writer == Write \/ WriterEnds
Opening(s) == OpenPty(s) \/ OpenRpty(s) \/ GetClient(s) \/ Dial(s) \/ StartSetup(s) \/ OpenResult(s)
Setup(s) == SetupSession(s) \/ SetupGivesUp(s) \/ SetupDrops(s)
Session(s) ==
  \/ SessionCancelled(s) \/ ReadDone(s) \/ Wait(s) \/ DeleteSession(s)
Reader(s) == ReadTerminal(s) \/ ReadChunk(s) \/ ReadEnd(s)
Client == ClientReceives \/ \E s \in S : term[s] = "killed" /\ RptyEnds(s)

Next ==
  \/ Main \/ Browser \/ Writer
  \/ \E s \in S : \/ Opening(s) \/ Setup(s) \/ Session(s) \/ Reader(s) \/ CloseOnCancel(s)
                  \/ ShellExits(s) \/ TerminalEnds(s) \/ RptyOutput(s) \/ RptyEnds(s)
                  \/ SshBreaks(s)
  \/ Client \/ ServerReceives \/ ReceiverEnds \/ BreakLink

Spec == Init /\ [][Next]_vars

\* Goroutines run.  A killed process ends; an SSH channel is only known to end
\* when its connection is closed.
FairSpec ==
  /\ Spec
  /\ WF_vars(Main) /\ WF_vars(Writer) /\ WF_vars(Client)
  /\ WF_vars(ServerReceives) /\ WF_vars(ReceiverEnds)
  /\ \A s \in S :
       /\ WF_vars(Opening(s)) /\ WF_vars(Session(s)) /\ WF_vars(Reader(s))
       /\ WF_vars((sess[s].client # 0 => ~alive[sess[s].client]) /\ Setup(s))
       /\ WF_vars((sess[s].client # 0 => ~alive[sess[s].client]) /\ TerminalEnds(s))

-----------------------------------------------------------------------------
\* "closed" is the last that the browser hears of a terminal: when it is sent the
\* goroutine that reads the terminal has ended, and so have the processes of a
\* local one.
OutputBeforeClosed ==
  \A s \in S : sess[s].pc = "ended" =>
    /\ reader[s] # "read"
    /\ kind = "pty" => term[s] \in Gone

\* A session holds a lease from get_client until it, or the goroutine that set
\* it up, has released it.
Holds(s, c) ==
  /\ sess[s].client = c
  /\ \/ sess[s].pc = "leased"
     \/ sess[s].setup \in {"session", "offer", "drop"}
     \/ sess[s].setup = "taken" /\ sess[s].pc \in {"loop", "wait"}

\* An SSH connection is leased to exactly the sessions that use it, and stays in
\* the pool as long as there is one: closing a panel never closes the connection
\* under another.
LeasesHeld ==
  \A c \in S :
    /\ leases[c] = Cardinality({s \in S : Holds(s, c)})
    /\ leases[c] > 0 <=> client = c

\* A remote terminal ends without an error only after all of its output has been
\* read: what its shell wrote last is neither overtaken by its end nor dropped.
NoSilentLoss ==
  \A s \in S :
    kind = "rpty" /\ reader[s] = "eof" /\ sess[s].backend = "open" /\ link = "up" =>
      /\ chunks[s].n = 0 /\ ~chunks[s].lost
      /\ \A k \in 1 .. Len(c2s) : c2s[k].s = s => c2s[k].kind # "DATA"

\* When the web socket is closed the handler returns, every terminal that it
\* had opened ends, here or on the client, and nothing of it is left behind.
SocketEndsAll ==
  ws = "closed" ~> /\ main = "returned" /\ rpty_map = {}
                   /\ \A s \in S : leases[s] = 0 /\ term[s] \in Gone
=============================================================================
