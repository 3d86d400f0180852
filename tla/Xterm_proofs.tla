---------------------------- MODULE Xterm_proofs ----------------------------
(***************************************************************************)
(* Proofs about Xterm, for every number of sessions and every capacity of  *)
(* the queues.                                                             *)
(***************************************************************************)
EXTENDS Xterm, FiniteSetTheorems, TLAPS

-----------------------------------------------------------------------------
(* The inductive invariant.                                                *)

Pcs == {"none", "opening", "dial", "leased", "result", "loop", "wait", "delete", "ended"}
Setups == {"none", "session", "offer", "drop", "failed", "taken"}
Backends == {"none", "open", "closed"}
Readers == {"none", "read", "eof", "error"}
Terms == {"none", "running", "killed", "ended"}

SessionRec ==
  [pc : Pcs, id : Ids \cup {Legacy}, cancelled : BOOLEAN, backend : Backends, setup : Setups,
   client : 0 .. Opens]

ChunksRec == [n : Nat, done : BOOLEAN, overflow : BOOLEAN, lost : BOOLEAN]
ToClientRec == [kind : {"START", "STOP"}, s : S]
ToServerRec == [kind : {"DATA", "STOP"}, s : S]

Types ==
  /\ sess \in [S -> SessionRec]
  /\ reader \in [S -> Readers] /\ term \in [S -> Terms]
  /\ opened \in 0 .. Opens /\ sessions \in [Ids -> 0 .. Opens]
  /\ rpty_map \subseteq S /\ chunks \in [S -> ChunksRec] /\ link \in {"up", "down"}
  /\ s2c \in Seq(ToClientRec) /\ c2s \in Seq(ToServerRec)
  /\ client \in 0 .. Opens /\ leases \in [S -> Int]

\* How far a session has come, and what it has got by then.
PhaseOf(s) ==
  /\ sess[s].pc \in {"none", "opening", "dial", "leased"} => sess[s].setup = "none"
  /\ sess[s].setup = "taken" => sess[s].pc \in {"loop", "wait", "delete", "ended"}
  /\ sess[s].pc \in {"loop", "wait"} /\ kind = "ssh" => sess[s].setup = "taken"
  /\ sess[s].setup # "none" \/ sess[s].pc \in {"dial", "leased", "result"} => kind = "ssh"
  /\ sess[s].backend = "open" => sess[s].pc = "loop"
  /\ sess[s].pc \in {"none", "opening"} => sess[s].backend = "none"
  /\ reader[s] = "read" => sess[s].pc \in {"loop", "wait"}
  /\ kind = "pty" /\ term[s] \in {"running", "killed"} => sess[s].pc \in {"loop", "wait"}

Phases ==
  /\ \A s \in S : s > opened => sess[s].pc = "none"
  /\ \A s \in S : PhaseOf(s)
  /\ kind # "rpty" => s2c = <<>>

\* The leases and who has them.
Uses(s) ==
  \/ sess[s].pc = "leased"
  \/ sess[s].setup \in {"session", "offer", "drop"}
  \/ sess[s].setup = "taken" /\ sess[s].pc \in {"loop", "wait"}

Holders(c) == {s \in S : Holds(s, c)}

Leases ==
  /\ \A s, t \in S : sess[s].pc = "dial" /\ sess[t].pc = "dial" => s = t
  /\ \A s \in S : sess[s].pc = "dial" => client = 0
  /\ \A s \in S : Uses(s) => sess[s].client \in S
  /\ LeasesHeld

\* Messages under way: a message of a kind and a session is in a queue; the START
\* of a session is there once; nothing of a terminal comes after its end.
Under(q, k, s) == \E i \in 1 .. Len(q) : q[i].kind = k /\ q[i].s = s

StartedOnce(q) ==
  \A i, j \in 1 .. Len(q) :
    q[i].kind = "START" /\ q[j].kind = "START" /\ q[i].s = q[j].s => i = j

DataBeforeStop(q) ==
  \A i, j \in 1 .. Len(q) :
    q[i].kind = "STOP" /\ q[j].kind = "DATA" /\ q[i].s = q[j].s => j < i

\* The server has been told that the terminal has ended.
Told(s) == chunks[s].done /\ ~chunks[s].overflow /\ sess[s].backend = "open" /\ link = "up"

StreamOf(s) ==
  /\ chunks[s].lost => chunks[s].overflow
  /\ sess[s].backend = "none" => ~chunks[s].done /\ s \notin rpty_map
  /\ Under(s2c, "START", s) => term[s] = "none" /\ ~Under(c2s, "STOP", s) /\ ~Told(s)
  /\ kind = "rpty" /\ sess[s].pc \in {"none", "opening"} =>
       ~Under(s2c, "START", s) /\ term[s] = "none" /\ ~Under(c2s, "STOP", s)
  /\ kind = "rpty" /\ (Under(c2s, "STOP", s) \/ Told(s)) => term[s] # "running"
  /\ kind = "rpty" /\ Told(s) => ~Under(c2s, "DATA", s)
  /\ kind = "rpty" /\ reader[s] = "eof" /\ sess[s].backend = "open" /\ link = "up" =>
       Told(s) /\ chunks[s].n = 0

Streams == (\A s \in S : StreamOf(s)) /\ StartedOnce(s2c) /\ DataBeforeStop(c2s)

-----------------------------------------------------------------------------
(* What a step does to one session.                                        *)

Moves(s, p, u, b, c) ==
  /\ sess' \in [S -> SessionRec]
  /\ sess'[s].pc = p /\ sess'[s].setup = u /\ sess'[s].backend = b /\ sess'[s].client = c
  /\ \A t \in S \ {s} : sess'[t] = sess[t]

\* Replacing one value of a function.
LEMMA PutOne ==
  ASSUME NEW D, NEW R, NEW f \in [D -> R], NEW d \in D, NEW r \in R
  PROVE  /\ [f EXCEPT ![d] = r] \in [D -> R]
         /\ [f EXCEPT ![d] = r][d] = r
         /\ \A e \in D \ {d} : [f EXCEPT ![d] = r][e] = f[e]
OBVIOUS

\* A session that gets another record.
LEMMA PutSession ==
  ASSUME sess \in [S -> SessionRec], NEW s \in S, NEW r \in SessionRec,
         sess' = [sess EXCEPT ![s] = r]
  PROVE  Moves(s, r.pc, r.setup, r.backend, r.client)
<1>1. sess' \in [S -> SessionRec] /\ sess'[s] = r /\ \A t \in S \ {s} : sess'[t] = sess[t]
  BY PutOne, Zenon
<1> QED
  BY <1>1, Zenon DEF Moves

\* The state of run_session changes.
LEMMA MovePc ==
  ASSUME sess \in [S -> SessionRec], NEW s \in S, NEW p \in Pcs,
         sess' = [sess EXCEPT ![s].pc = p]
  PROVE  Moves(s, p, sess[s].setup, sess[s].backend, sess[s].client)
<1> DEFINE r == [sess[s] EXCEPT !.pc = p]
<1>1. sess[s] \in SessionRec
  BY Zenon
<1>2. /\ r \in SessionRec
      /\ r.pc = p /\ r.setup = sess[s].setup /\ r.backend = sess[s].backend /\ r.client = sess[s].client
  BY <1>1, Zenon DEF SessionRec
<1>3. sess' = [sess EXCEPT ![s] = r]
  BY Zenon
<1> HIDE DEF r
<1> QED
  BY <1>2, <1>3, PutSession, Zenon

\* ... and what it owns of the terminal.
LEMMA MovePcBackend ==
  ASSUME sess \in [S -> SessionRec], NEW s \in S, NEW p \in Pcs, NEW b \in Backends,
         sess' = [sess EXCEPT ![s].pc = p, ![s].backend = b]
  PROVE  Moves(s, p, sess[s].setup, b, sess[s].client)
<1> DEFINE r == [sess[s] EXCEPT !.pc = p, !.backend = b]
<1>1. sess[s] \in SessionRec
  BY Zenon
<1>2. /\ r \in SessionRec
      /\ r.pc = p /\ r.setup = sess[s].setup /\ r.backend = b /\ r.client = sess[s].client
  BY <1>1, Zenon DEF SessionRec
<1>3. sess' = [sess EXCEPT ![s] = r]
  BY Zenon
<1> HIDE DEF r
<1> QED
  BY <1>2, <1>3, PutSession, Zenon

\* ... and the connection that it has leased.
LEMMA MovePcClient ==
  ASSUME sess \in [S -> SessionRec], NEW s \in S, NEW p \in Pcs, NEW c \in 0 .. Opens,
         sess' = [sess EXCEPT ![s].pc = p, ![s].client = c]
  PROVE  Moves(s, p, sess[s].setup, sess[s].backend, c)
<1> DEFINE r == [sess[s] EXCEPT !.pc = p, !.client = c]
<1>1. sess[s] \in SessionRec
  BY Zenon
<1>2. /\ r \in SessionRec
      /\ r.pc = p /\ r.setup = sess[s].setup /\ r.backend = sess[s].backend /\ r.client = c
  BY <1>1, Zenon DEF SessionRec
<1>3. sess' = [sess EXCEPT ![s] = r]
  BY Zenon
<1> HIDE DEF r
<1> QED
  BY <1>2, <1>3, PutSession, Zenon

\* ... and the goroutine that sets it up.
LEMMA MovePcSetup ==
  ASSUME sess \in [S -> SessionRec], NEW s \in S, NEW p \in Pcs, NEW u \in Setups,
         sess' = [sess EXCEPT ![s].pc = p, ![s].setup = u]
  PROVE  Moves(s, p, u, sess[s].backend, sess[s].client)
<1> DEFINE r == [sess[s] EXCEPT !.pc = p, !.setup = u]
<1>1. sess[s] \in SessionRec
  BY Zenon
<1>2. /\ r \in SessionRec
      /\ r.pc = p /\ r.setup = u /\ r.backend = sess[s].backend /\ r.client = sess[s].client
  BY <1>1, Zenon DEF SessionRec
<1>3. sess' = [sess EXCEPT ![s] = r]
  BY Zenon
<1> HIDE DEF r
<1> QED
  BY <1>2, <1>3, PutSession, Zenon

\* ... and both.
LEMMA MoveTaken ==
  ASSUME sess \in [S -> SessionRec], NEW s \in S, NEW p \in Pcs, NEW u \in Setups, NEW b \in Backends,
         sess' = [sess EXCEPT ![s].pc = p, ![s].setup = u, ![s].backend = b]
  PROVE  Moves(s, p, u, b, sess[s].client)
<1> DEFINE r == [sess[s] EXCEPT !.pc = p, !.setup = u, !.backend = b]
<1>1. sess[s] \in SessionRec
  BY Zenon
<1>2. /\ r \in SessionRec
      /\ r.pc = p /\ r.setup = u /\ r.backend = b /\ r.client = sess[s].client
  BY <1>1, Zenon DEF SessionRec
<1>3. sess' = [sess EXCEPT ![s] = r]
  BY Zenon
<1> HIDE DEF r
<1> QED
  BY <1>2, <1>3, PutSession, Zenon

\* The goroutine that sets it up goes on.
LEMMA MoveSetup ==
  ASSUME sess \in [S -> SessionRec], NEW s \in S, NEW u \in Setups,
         sess' = [sess EXCEPT ![s].setup = u]
  PROVE  Moves(s, sess[s].pc, u, sess[s].backend, sess[s].client)
<1> DEFINE r == [sess[s] EXCEPT !.setup = u]
<1>1. sess[s] \in SessionRec
  BY Zenon
<1>2. /\ r \in SessionRec
      /\ r.pc = sess[s].pc /\ r.setup = u /\ r.backend = sess[s].backend /\ r.client = sess[s].client
  BY <1>1, Zenon DEF SessionRec
<1>3. sess' = [sess EXCEPT ![s] = r]
  BY Zenon
<1> HIDE DEF r
<1> QED
  BY <1>2, <1>3, PutSession, Zenon

\* The terminal is closed.
LEMMA MoveBackend ==
  ASSUME sess \in [S -> SessionRec], NEW s \in S, NEW b \in Backends,
         sess' = [sess EXCEPT ![s].backend = b]
  PROVE  Moves(s, sess[s].pc, sess[s].setup, b, sess[s].client)
<1> DEFINE r == [sess[s] EXCEPT !.backend = b]
<1>1. sess[s] \in SessionRec
  BY Zenon
<1>2. /\ r \in SessionRec
      /\ r.pc = sess[s].pc /\ r.setup = sess[s].setup /\ r.backend = b /\ r.client = sess[s].client
  BY <1>1, Zenon DEF SessionRec
<1>3. sess' = [sess EXCEPT ![s] = r]
  BY Zenon
<1> HIDE DEF r
<1> QED
  BY <1>2, <1>3, PutSession, Zenon

\* The session ends.
LEMMA MoveEnded ==
  ASSUME sess \in [S -> SessionRec], NEW s \in S, NEW p \in Pcs,
         sess' = [sess EXCEPT ![s].pc = p, ![s].cancelled = TRUE]
  PROVE  Moves(s, p, sess[s].setup, sess[s].backend, sess[s].client)
<1> DEFINE r == [sess[s] EXCEPT !.pc = p, !.cancelled = TRUE]
<1>1. sess[s] \in SessionRec
  BY Zenon
<1>2. /\ r \in SessionRec
      /\ r.pc = p /\ r.setup = sess[s].setup /\ r.backend = sess[s].backend /\ r.client = sess[s].client
  BY <1>1, Zenon DEF SessionRec
<1>3. sess' = [sess EXCEPT ![s] = r]
  BY Zenon
<1> HIDE DEF r
<1> QED
  BY <1>2, <1>3, PutSession, Zenon

\* The session is told to end.
LEMMA MoveCancelled ==
  ASSUME sess \in [S -> SessionRec], NEW s \in S,
         sess' = [sess EXCEPT ![s].cancelled = TRUE]
  PROVE  Moves(s, sess[s].pc, sess[s].setup, sess[s].backend, sess[s].client)
<1> DEFINE r == [sess[s] EXCEPT !.cancelled = TRUE]
<1>1. sess[s] \in SessionRec
  BY Zenon
<1>2. /\ r \in SessionRec
      /\ r.pc = sess[s].pc /\ r.setup = sess[s].setup /\ r.backend = sess[s].backend /\ r.client = sess[s].client
  BY <1>1, Zenon DEF SessionRec
<1>3. sess' = [sess EXCEPT ![s] = r]
  BY Zenon
<1> HIDE DEF r
<1> QED
  BY <1>2, <1>3, PutSession, Zenon

-----------------------------------------------------------------------------
(* The session's part of each action.                                      *)

Same(s, p) == Moves(s, p, sess[s].setup, sess[s].backend, sess[s].client)
Closed(s, p) == Moves(s, p, sess[s].setup, "closed", sess[s].client)

LEMMA OpenMoves ==
  ASSUME Types, NEW i \in Ids, Open(i)
  PROVE  \/ UNCHANGED <<opened, sessions, sess>>
         \/ \E s \in S : /\ s = opened + 1 /\ opened' = s
                         /\ sessions' = [sessions EXCEPT ![i] = s]
                         /\ Moves(s, "opening", "none", "none", 0)
<1> DEFINE r == [NewSession EXCEPT !.pc = "opening", !.id = i]
<1>1. SUFFICES ASSUME opened < IF kind = "rpty" THEN RptyOpens ELSE Opens, opened' = opened + 1,
                      sessions' = [sessions EXCEPT ![i] = opened + 1],
                      sess' = [sess EXCEPT ![opened + 1] = r]
               PROVE  opened + 1 \in S /\ Moves(opened + 1, "opening", "none", "none", 0)
  BY Zenon DEF Open, table
<1>2. opened + 1 \in S
  BY <1>1, LimitsAssumption, SMT DEF Types, S
<1>3. 0 \in 0 .. Opens
  BY LimitsAssumption, SMT
<1>4. NewSession \in SessionRec
  BY <1>3, Zenon DEF NewSession, SessionRec, Pcs, Backends, Setups
<1>5. r \in SessionRec /\ r.pc = "opening" /\ r.setup = "none" /\ r.backend = "none" /\ r.client = 0
  BY <1>3, <1>4, Zenon DEF NewSession, SessionRec, Pcs
<1> HIDE DEF r
<1>6. sess \in [S -> SessionRec]
  BY Zenon DEF Types
<1> QED
  BY <1>1, <1>2, <1>5, <1>6, PutSession, Zenon

LEMMA CancelMoves ==
  ASSUME Types, NEW i \in Ids, sessions[i] # 0,
         sess' = [sess EXCEPT ![sessions[i]].cancelled = TRUE]
  PROVE  sessions[i] \in S /\ Same(sessions[i], sess[sessions[i]].pc)
<1>1. sessions[i] \in S
  BY LimitsAssumption, SMT DEF Types, S
<1>2. sess \in [S -> SessionRec]
  BY Zenon DEF Types
<1> QED
  BY <1>1, <1>2, MoveCancelled, Zenon DEF Same

LEMMA GetClientMoves ==
  ASSUME Types, NEW s \in S, GetClient(s)
  PROVE  \/ Same(s, "delete") /\ UNCHANGED leases
         \/ client = 0 /\ Same(s, "dial") /\ UNCHANGED leases
         \/ /\ client # 0 /\ leases' = [leases EXCEPT ![client] = @ + 1]
            /\ Moves(s, "leased", sess[s].setup, sess[s].backend, client)
<1>1. sess \in [S -> SessionRec] /\ client \in 0 .. Opens
  BY Zenon DEF Types
<1>2. ASSUME NEW p \in Pcs, Goto(s, p) PROVE Same(s, p)
  BY <1>1, <1>2, MovePc, Zenon DEF Same, Goto
<1>3. "delete" \in Pcs /\ "dial" \in Pcs /\ "leased" \in Pcs
  BY Zenon DEF Pcs
<1>4. ASSUME sess' = [sess EXCEPT ![s].pc = "leased", ![s].client = client]
      PROVE  Moves(s, "leased", sess[s].setup, sess[s].backend, client)
  BY <1>1, <1>3, <1>4, MovePcClient, Zenon
<1> QED
  BY <1>2, <1>3, <1>4, Zenon DEF GetClient

LEMMA DialMoves ==
  ASSUME Types, NEW s \in S, Dial(s)
  PROVE  \/ Same(s, "delete") /\ UNCHANGED <<client, leases>>
         \/ /\ client' = s /\ leases' = [leases EXCEPT ![s] = 1]
            /\ Moves(s, "leased", sess[s].setup, sess[s].backend, s)
<1>1. sess \in [S -> SessionRec] /\ s \in 0 .. Opens
  BY LimitsAssumption, SMT DEF Types, S
<1>2. "delete" \in Pcs /\ "leased" \in Pcs
  BY Zenon DEF Pcs
<1>3. ASSUME Goto(s, "delete") PROVE Same(s, "delete")
  BY <1>1, <1>2, <1>3, MovePc, Zenon DEF Same, Goto
<1>4. ASSUME sess' = [sess EXCEPT ![s].pc = "leased", ![s].client = s]
      PROVE  Moves(s, "leased", sess[s].setup, sess[s].backend, s)
  BY <1>1, <1>2, <1>4, MovePcClient, Zenon
<1> QED
  BY <1>3, <1>4, Zenon DEF Dial

LEMMA StartSetupMoves ==
  ASSUME Types, NEW s \in S, StartSetup(s)
  PROVE  Moves(s, "result", "session", sess[s].backend, sess[s].client)
<1>1. sess \in [S -> SessionRec] /\ "result" \in Pcs /\ "session" \in Setups
  BY Zenon DEF Types, Pcs, Setups
<1> QED
  BY <1>1, MovePcSetup, Zenon DEF StartSetup

LEMMA SetupMoves ==
  ASSUME Types, NEW s \in S, NEW u \in Setups, sess' = [sess EXCEPT ![s].setup = u]
  PROVE  Moves(s, sess[s].pc, u, sess[s].backend, sess[s].client)
<1>1. sess \in [S -> SessionRec]
  BY Zenon DEF Types
<1> QED
  BY <1>1, MoveSetup, Zenon

LEMMA OpenResultMoves ==
  ASSUME Types, NEW s \in S, OpenResult(s)
  PROVE  \/ Same(s, "delete") /\ UNCHANGED reader
         \/ /\ sess[s].setup = "offer" /\ reader' = [reader EXCEPT ![s] = "read"]
            /\ Moves(s, "loop", "taken", "open", sess[s].client)
<1>1. sess \in [S -> SessionRec]
  BY Zenon DEF Types
<1>2. "delete" \in Pcs /\ "loop" \in Pcs /\ "taken" \in Setups /\ "open" \in Backends
  BY Zenon DEF Pcs, Setups, Backends
<1>3. ASSUME Goto(s, "delete") PROVE Same(s, "delete")
  BY <1>1, <1>2, <1>3, MovePc, Zenon DEF Same, Goto
<1>4. ASSUME sess' = [sess EXCEPT ![s].pc = "loop", ![s].setup = "taken", ![s].backend = "open"]
      PROVE  Moves(s, "loop", "taken", "open", sess[s].client)
  BY <1>1, <1>2, <1>4, MoveTaken, Zenon
<1> QED
  BY <1>3, <1>4, Zenon DEF OpenResult

\* Opening a local or a remote terminal.
LEMMA OpenedMoves ==
  ASSUME Types, NEW s \in S
  PROVE  /\ OpenFails(s) => Same(s, "delete") /\ UNCHANGED <<reader, term, rpty_map, s2c>>
         /\ Opened(s) => /\ Moves(s, "loop", sess[s].setup, "open", sess[s].client)
                         /\ reader' = [reader EXCEPT ![s] = "read"]
<1>1. sess \in [S -> SessionRec]
  BY Zenon DEF Types
<1>2. "delete" \in Pcs /\ "loop" \in Pcs /\ "open" \in Backends
  BY Zenon DEF Pcs, Backends
<1>3. ASSUME OpenFails(s) PROVE Same(s, "delete") /\ UNCHANGED <<reader, term, rpty_map, s2c>>
  BY <1>1, <1>2, <1>3, MovePc, Zenon DEF Same, Goto, OpenFails
<1>4. ASSUME Opened(s)
      PROVE  /\ Moves(s, "loop", sess[s].setup, "open", sess[s].client)
             /\ reader' = [reader EXCEPT ![s] = "read"]
  BY <1>1, <1>2, <1>4, MovePcBackend, Zenon DEF Opened
<1> QED
  BY <1>3, <1>4, Zenon

LEMMA CloseMoves ==
  ASSUME Types, NEW s \in S
  PROVE  /\ CloseOnCancel(s) => Closed(s, sess[s].pc)
         /\ SessionCancelled(s) \/ ReadDone(s) => Closed(s, "wait")
<1>1. sess \in [S -> SessionRec]
  BY Zenon DEF Types
<1>2. "wait" \in Pcs /\ "closed" \in Backends
  BY Zenon DEF Pcs, Backends
<1>3. ASSUME CloseOnCancel(s) PROVE Closed(s, sess[s].pc)
  BY <1>1, <1>2, <1>3, MoveBackend, Zenon DEF Closed, CloseOnCancel
<1>4. ASSUME SessionCancelled(s) \/ ReadDone(s) PROVE Closed(s, "wait")
  BY <1>1, <1>2, <1>4, MovePcBackend, Zenon DEF Closed, SessionCancelled, ReadDone
<1> QED
  BY <1>3, <1>4, Zenon

LEMMA EndMoves ==
  ASSUME Types, NEW s \in S
  PROVE  /\ Wait(s) => Same(s, "delete")
         /\ DeleteSession(s) => Same(s, "ended")
<1>1. sess \in [S -> SessionRec] /\ "delete" \in Pcs /\ "ended" \in Pcs
  BY Zenon DEF Types, Pcs
<1>2. ASSUME Wait(s) PROVE Same(s, "delete")
  BY <1>1, <1>2, MovePc, Zenon DEF Same, Wait, Goto
<1>3. ASSUME DeleteSession(s) PROVE Same(s, "ended")
  BY <1>1, <1>3, MoveEnded, Zenon DEF Same, DeleteSession
<1> QED
  BY <1>2, <1>3, Zenon

-----------------------------------------------------------------------------
(* The cases of a step.                                                    *)

core == <<kind, opened, sessions, sess, reader, term, rpty_map, chunks, s2c, c2s, link, client,
          leases>>

SessionStep(s) ==
  \/ OpenPty(s) \/ OpenRpty(s) \/ GetClient(s) \/ Dial(s) \/ StartSetup(s) \/ OpenResult(s)
  \/ SetupSession(s) \/ SetupGivesUp(s) \/ SetupDrops(s)
  \/ SessionCancelled(s) \/ ReadDone(s) \/ Wait(s) \/ DeleteSession(s) \/ CloseOnCancel(s)

TerminalStep(s) ==
  \/ ReadTerminal(s) \/ ReadChunk(s) \/ ReadEnd(s) \/ ShellExits(s) \/ TerminalEnds(s)
  \/ RptyOutput(s) \/ RptyEnds(s)

LEMMA StepCases ==
  ASSUME [Next]_vars
  PROVE  \/ UNCHANGED core
         \/ \E i \in Ids : Open(i) \/ Close(i) \/ Input(i)
         \/ \E s \in S : SessionStep(s) \/ TerminalStep(s)
         \/ ClientReceives \/ ServerReceives \/ ReceiverEnds \/ BreakLink
<1>1. Main => UNCHANGED core
  BY Zenon DEF Main, ReceiveFails, JoinSessions, Return, ClosePool, PoolClosed, core, table,
               remote, pool
<1>2. Writer \/ Refuse \/ BrowserCloses => UNCHANGED core
  BY Zenon DEF Writer, Write, WriterEnds, Refuse, BrowserCloses, core, table, remote, pool
<1>3. (\E s \in S : SshBreaks(s)) \/ UNCHANGED vars => UNCHANGED core
  BY Zenon DEF SshBreaks, vars, core, table, remote, pool
<1> HIDE DEF core
<1> QED
  BY <1>1, <1>2, <1>3, Zenon DEF Next, Browser, Opening, Setup, Session, Reader, Client,
                                 SessionStep, TerminalStep

-----------------------------------------------------------------------------
(* The queue of a remote terminal's output.                                *)

LEMMA PutChunks ==
  ASSUME chunks \in [S -> ChunksRec], NEW s \in S, NEW r \in ChunksRec,
         chunks' = [chunks EXCEPT ![s] = r]
  PROVE  chunks' \in [S -> ChunksRec] /\ chunks'[s] = r /\ \A t \in S \ {s} : chunks'[t] = chunks[t]
BY PutOne, Zenon

LEMMA ChunksDone ==
  ASSUME Types, NEW s \in S, chunks' = [chunks EXCEPT ![s].done = TRUE]
  PROVE  /\ chunks' \in [S -> ChunksRec]
         /\ chunks'[s].n = chunks[s].n /\ chunks'[s].done = TRUE
         /\ chunks'[s].overflow = chunks[s].overflow /\ chunks'[s].lost = chunks[s].lost
         /\ \A t \in S \ {s} : chunks'[t] = chunks[t]
<1> DEFINE r == [chunks[s] EXCEPT !.done = TRUE]
<1>1. chunks \in [S -> ChunksRec] /\ chunks[s] \in ChunksRec
  BY Zenon DEF Types
<1>2. r \in ChunksRec
  BY <1>1, Zenon DEF ChunksRec
<1>3. r.n = chunks[s].n /\ r.done = TRUE /\ r.overflow = chunks[s].overflow /\ r.lost = chunks[s].lost
  BY <1>1, Zenon DEF ChunksRec
<1>4. chunks' = [chunks EXCEPT ![s] = r]
  BY Zenon
<1> HIDE DEF r
<1>5. chunks' \in [S -> ChunksRec] /\ chunks'[s] = r /\ \A t \in S \ {s} : chunks'[t] = chunks[t]
  BY <1>1, <1>2, <1>4, PutChunks, ZenonT(60)
<1> QED
  BY <1>3, <1>5, Zenon

LEMMA ChunksCount ==
  ASSUME Types, NEW s \in S, NEW n \in Nat, chunks' = [chunks EXCEPT ![s].n = n]
  PROVE  /\ chunks' \in [S -> ChunksRec]
         /\ chunks'[s].n = n /\ chunks'[s].done = chunks[s].done
         /\ chunks'[s].overflow = chunks[s].overflow /\ chunks'[s].lost = chunks[s].lost
         /\ \A t \in S \ {s} : chunks'[t] = chunks[t]
<1> DEFINE r == [chunks[s] EXCEPT !.n = n]
<1>1. chunks \in [S -> ChunksRec] /\ chunks[s] \in ChunksRec
  BY Zenon DEF Types
<1>2. r \in ChunksRec
  BY <1>1, Zenon DEF ChunksRec
<1>3. r.n = n /\ r.done = chunks[s].done /\ r.overflow = chunks[s].overflow /\ r.lost = chunks[s].lost
  BY <1>1, Zenon DEF ChunksRec
<1>4. chunks' = [chunks EXCEPT ![s] = r]
  BY Zenon
<1> HIDE DEF r
<1>5. chunks' \in [S -> ChunksRec] /\ chunks'[s] = r /\ \A t \in S \ {s} : chunks'[t] = chunks[t]
  BY <1>1, <1>2, <1>4, PutChunks, ZenonT(60)
<1> QED
  BY <1>3, <1>5, Zenon

\* push: nothing after the end, one more, or the end with its mark.
LEMMA PushChunks ==
  ASSUME Types, NEW s \in S, Push(s)
  PROVE  /\ chunks' \in [S -> ChunksRec]
         /\ \A t \in S \ {s} : chunks'[t] = chunks[t]
         /\ \/ chunks'[s] = chunks[s]
            \/ /\ ~chunks[s].done /\ chunks'[s].done = chunks[s].done
               /\ chunks'[s].overflow = chunks[s].overflow /\ chunks'[s].lost = chunks[s].lost
            \/ chunks'[s].done = TRUE /\ chunks'[s].overflow = TRUE /\ ~chunks[s].done
<1>1. chunks \in [S -> ChunksRec] /\ chunks[s] \in ChunksRec
  BY Zenon DEF Types
<1>2. chunks[s].n + 1 \in Nat
  BY <1>1, SMT DEF ChunksRec
<1>3. CASE chunks' = chunks
  BY <1>1, <1>3, Zenon
<1>4. CASE ~chunks[s].done /\ chunks' = [chunks EXCEPT ![s].n = @ + 1]
  <2>1. chunks' = [chunks EXCEPT ![s].n = chunks[s].n + 1]
    BY <1>4, Zenon
  <2> QED
    BY <1>2, <1>4, <2>1, ChunksCount, Zenon
<1>5. CASE /\ ~chunks[s].done
           /\ chunks' = [chunks EXCEPT ![s].overflow = TRUE, ![s].done = TRUE, ![s].lost = TRUE]
  <2> DEFINE r == [chunks[s] EXCEPT !.overflow = TRUE, !.done = TRUE, !.lost = TRUE]
  <2>1. r \in ChunksRec /\ r.done = TRUE /\ r.overflow = TRUE
    BY <1>1, Zenon DEF ChunksRec
  <2>2. chunks' = [chunks EXCEPT ![s] = r]
    BY <1>5, Zenon
  <2> HIDE DEF r
  <2>3. chunks' \in [S -> ChunksRec] /\ chunks'[s] = r
        /\ \A t \in S \ {s} : chunks'[t] = chunks[t]
    BY <1>1, <2>1, <2>2, PutChunks, ZenonT(60)
  <2> QED
    BY <1>5, <2>1, <2>3, Zenon
<1> QED
  BY <1>3, <1>4, <1>5, Zenon DEF Push

\* backend.close.
LEMMA CloseBackendEffect ==
  ASSUME Types, NEW s \in S, CloseBackend(s)
  PROVE  \/ sess[s].backend # "open" /\ UNCHANGED <<term, rpty_map, chunks, s2c>>
         \/ /\ kind = "rpty" /\ chunks' = [chunks EXCEPT ![s].done = TRUE]
            /\ rpty_map' = rpty_map \ {s} /\ UNCHANGED term
            /\ s2c' = s2c \/ s2c' = Append(s2c, [kind |-> "STOP", s |-> s])
         \/ /\ kind # "rpty" /\ UNCHANGED <<rpty_map, chunks, s2c>>
            /\ term' = [term EXCEPT ![s] = IF @ = "running" THEN "killed" ELSE @]
BY Zenon DEF CloseBackend

-----------------------------------------------------------------------------
(* Messages under way.                                                     *)

LEMMA AppendMessage ==
  ASSUME NEW R, NEW q \in Seq(R), NEW m \in R
  PROVE  /\ Append(q, m) \in Seq(R)
         /\ \A k, s : Under(Append(q, m), k, s) <=> Under(q, k, s) \/ (m.kind = k /\ m.s = s)
<1>1. Append(q, m) \in Seq(R) /\ Len(q) \in Nat /\ Len(Append(q, m)) = Len(q) + 1
  BY SMT
<1>2. \A i \in 1 .. Len(q) : Append(q, m)[i] = q[i]
  BY SMT
<1>3. Append(q, m)[Len(q) + 1] = m
  BY SMT
<1>4. 1 .. Len(Append(q, m)) = 1 .. Len(q) \cup {Len(q) + 1}
  BY <1>1, SMT
<1> QED
  BY <1>1, <1>2, <1>3, <1>4, Zenon DEF Under

LEMMA AppendUnder ==
  ASSUME NEW R, NEW q \in Seq(R), NEW k, NEW s, [kind |-> k, s |-> s] \in R
  PROVE  \A j, t : Under(Append(q, [kind |-> k, s |-> s]), j, t) <=> Under(q, j, t) \/ (j = k /\ t = s)
<1> DEFINE m == [kind |-> k, s |-> s]
<1>1. m \in R /\ m.kind = k /\ m.s = s
  BY Zenon
<1> HIDE DEF m
<1>2. \A j, t : Under(Append(q, m), j, t) <=> Under(q, j, t) \/ (j = k /\ t = s)
  BY <1>1, AppendMessage, Zenon
<1> QED
  BY <1>2, Zenon DEF m

LEMMA TailMessage ==
  ASSUME NEW R, NEW q \in Seq(R), q # <<>>
  PROVE  /\ Head(q) \in R /\ Tail(q) \in Seq(R) /\ Under(q, Head(q).kind, Head(q).s)
         /\ \A k, s : Under(Tail(q), k, s) => Under(q, k, s)
<1>1. Head(q) \in R /\ Tail(q) \in Seq(R) /\ 1 \in 1 .. Len(q) /\ Head(q) = q[1]
  BY SMT
<1>2. \A i \in 1 .. Len(Tail(q)) : i + 1 \in 1 .. Len(q) /\ Tail(q)[i] = q[i + 1]
  BY SMT
<1> QED
  BY <1>1, <1>2, Zenon DEF Under

\* One START of each session.
LEMMA OneStart ==
  ASSUME NEW R, NEW q \in Seq(R), StartedOnce(q)
  PROVE  /\ \A m \in R : (m.kind = "START" => ~Under(q, "START", m.s)) => StartedOnce(Append(q, m))
         /\ q # <<>> => /\ StartedOnce(Tail(q))
                        /\ Head(q).kind = "START" => ~Under(Tail(q), "START", Head(q).s)
<1>1. ASSUME NEW m \in R, m.kind = "START" => ~Under(q, "START", m.s)
      PROVE  StartedOnce(Append(q, m))
  <2>1. /\ Len(q) \in Nat /\ Len(Append(q, m)) = Len(q) + 1
        /\ \A i \in 1 .. Len(q) : Append(q, m)[i] = q[i]
        /\ Append(q, m)[Len(q) + 1] = m
    BY SMT
  <2>2. \A i \in 1 .. Len(q) + 1 : i \in 1 .. Len(q) \/ i = Len(q) + 1
    BY <2>1, SMT
  <2> QED
    BY <1>1, <2>1, <2>2, Zenon DEF StartedOnce, Under
<1>2. ASSUME q # <<>>
      PROVE  /\ StartedOnce(Tail(q))
             /\ Head(q).kind = "START" => ~Under(Tail(q), "START", Head(q).s)
  <2>1. 1 \in 1 .. Len(q) /\ Head(q) = q[1]
    BY <1>2, SMT
  <2>2. \A i \in 1 .. Len(Tail(q)) : i + 1 \in 1 .. Len(q) /\ Tail(q)[i] = q[i + 1]
    BY <1>2, SMT
  <2>3. \A i, j \in 1 .. Len(Tail(q)) : (i + 1 = j + 1 => i = j) /\ i + 1 # 1
    BY SMT
  <2>4. StartedOnce(Tail(q))
    <3> SUFFICES ASSUME NEW i \in 1 .. Len(Tail(q)), NEW j \in 1 .. Len(Tail(q)),
                        Tail(q)[i].kind = "START", Tail(q)[j].kind = "START",
                        Tail(q)[i].s = Tail(q)[j].s
                 PROVE  i + 1 = j + 1
      BY <2>3, Zenon DEF StartedOnce
    <3>1. i + 1 \in 1 .. Len(q) /\ Tail(q)[i] = q[i + 1]
      BY <2>2, ZenonT(60)
    <3>2. j + 1 \in 1 .. Len(q) /\ Tail(q)[j] = q[j + 1]
      BY <2>2, ZenonT(60)
    <3> QED
      BY <3>1, <3>2, Zenon DEF StartedOnce
  <2>5. Head(q).kind = "START" => ~Under(Tail(q), "START", Head(q).s)
    BY <2>1, <2>2, <2>3, Zenon DEF StartedOnce, Under
  <2> QED
    BY <2>4, <2>5
<1> QED
  BY <1>1, <1>2, Zenon

\* No output after the end.
LEMMA StopLast ==
  ASSUME NEW R, NEW q \in Seq(R), DataBeforeStop(q)
  PROVE  /\ \A m \in R : (m.kind = "DATA" => ~Under(q, "STOP", m.s)) => DataBeforeStop(Append(q, m))
         /\ q # <<>> => /\ DataBeforeStop(Tail(q))
                        /\ Head(q).kind = "STOP" => ~Under(Tail(q), "DATA", Head(q).s)
<1>1. ASSUME NEW m \in R, m.kind = "DATA" => ~Under(q, "STOP", m.s)
      PROVE  DataBeforeStop(Append(q, m))
  <2>1. /\ Len(q) \in Nat /\ Len(Append(q, m)) = Len(q) + 1
        /\ \A i \in 1 .. Len(q) : Append(q, m)[i] = q[i]
        /\ Append(q, m)[Len(q) + 1] = m
    BY SMT
  <2>2. \A i \in 1 .. Len(q) + 1 : i \in 1 .. Len(q) \/ i = Len(q) + 1
    BY <2>1, SMT
  <2>3. \A i \in 1 .. Len(q) : i < Len(q) + 1
    BY <2>1, SMT
  <2>4. "DATA" # "STOP"
    OBVIOUS
  <2> QED
    BY <1>1, <2>1, <2>2, <2>3, <2>4, Zenon DEF DataBeforeStop, Under
<1>2. ASSUME q # <<>>
      PROVE  /\ DataBeforeStop(Tail(q))
             /\ Head(q).kind = "STOP" => ~Under(Tail(q), "DATA", Head(q).s)
  <2>1. 1 \in 1 .. Len(q) /\ Head(q) = q[1]
    BY <1>2, SMT
  <2>2. \A i \in 1 .. Len(Tail(q)) : i + 1 \in 1 .. Len(q) /\ Tail(q)[i] = q[i + 1]
    BY <1>2, SMT
  <2>3. \A i, j \in 1 .. Len(Tail(q)) : (i + 1 < j + 1 => i < j) /\ ~(i + 1 < 1)
    BY SMT
  <2> QED
    BY <2>1, <2>2, <2>3, Zenon DEF DataBeforeStop, Under
<1> QED
  BY <1>1, <1>2, Zenon

-----------------------------------------------------------------------------
(* Types.                                                                  *)

\* One terminal or one reader changes.
LEMMA TypesTerm ==
  ASSUME Types, NEW s \in S
  PROVE  /\ term \in [S -> Terms]
         /\ [term EXCEPT ![s] = "running"] \in [S -> Terms]
         /\ [term EXCEPT ![s] = "ended"] \in [S -> Terms]
         /\ [term EXCEPT ![s] = IF @ = "running" THEN "killed" ELSE @] \in [S -> Terms]
<1>1. term \in [S -> Terms]
  BY Zenon DEF Types
<1>2. "running" \in Terms /\ "ended" \in Terms /\ "killed" \in Terms /\ term[s] \in Terms
  BY <1>1, Zenon DEF Terms
<1> QED
  BY <1>1, <1>2, Zenon

LEMMA TypesReader ==
  ASSUME Types, NEW s \in S
  PROVE  /\ reader \in [S -> Readers]
         /\ [reader EXCEPT ![s] = "read"] \in [S -> Readers]
         /\ [reader EXCEPT ![s] = "eof"] \in [S -> Readers]
         /\ [reader EXCEPT ![s] = "error"] \in [S -> Readers]
<1>1. reader \in [S -> Readers]
  BY Zenon DEF Types
<1>2. "read" \in Readers /\ "eof" \in Readers /\ "error" \in Readers
  BY Zenon DEF Readers
<1> QED
  BY <1>1, <1>2, Zenon

\* A message more, or one less.
LEMMA TypesMessages ==
  ASSUME Types, NEW s \in S
  PROVE  /\ Append(s2c, [kind |-> "START", s |-> s]) \in Seq(ToClientRec)
         /\ Append(s2c, [kind |-> "STOP", s |-> s]) \in Seq(ToClientRec)
         /\ Append(c2s, [kind |-> "DATA", s |-> s]) \in Seq(ToServerRec)
         /\ Append(c2s, [kind |-> "STOP", s |-> s]) \in Seq(ToServerRec)
<1>1. s2c \in Seq(ToClientRec) /\ c2s \in Seq(ToServerRec)
  BY Zenon DEF Types
<1>2. [kind |-> "START", s |-> s] \in ToClientRec /\ [kind |-> "STOP", s |-> s] \in ToClientRec
  BY Zenon DEF ToClientRec
<1>3. [kind |-> "DATA", s |-> s] \in ToServerRec /\ [kind |-> "STOP", s |-> s] \in ToServerRec
  BY Zenon DEF ToServerRec
<1> QED
  BY <1>1, <1>2, <1>3, AppendMessage, Zenon

LEMMA TypesTail ==
  ASSUME Types
  PROVE  /\ s2c # <<>> => Head(s2c).s \in S /\ Tail(s2c) \in Seq(ToClientRec)
         /\ c2s # <<>> => Head(c2s).s \in S /\ Tail(c2s) \in Seq(ToServerRec)
<1>1. s2c \in Seq(ToClientRec) /\ c2s \in Seq(ToServerRec)
  BY Zenon DEF Types
<1>2. \A m \in ToClientRec : m.s \in S
  BY Zenon DEF ToClientRec
<1>3. \A m \in ToServerRec : m.s \in S
  BY Zenon DEF ToServerRec
<1>4. s2c # <<>> => Head(s2c) \in ToClientRec /\ Tail(s2c) \in Seq(ToClientRec)
  BY <1>1, TailMessage, Zenon
<1>5. c2s # <<>> => Head(c2s) \in ToServerRec /\ Tail(c2s) \in Seq(ToServerRec)
  BY <1>1, TailMessage, Zenon
<1> QED
  BY <1>2, <1>3, <1>4, <1>5, Zenon

\* backend.close.
LEMMA TypesClose ==
  ASSUME Types, NEW s \in S, CloseBackend(s)
  PROVE  /\ term' \in [S -> Terms] /\ chunks' \in [S -> ChunksRec]
         /\ rpty_map' \subseteq S /\ s2c' \in Seq(ToClientRec)
<1>1. /\ term \in [S -> Terms] /\ chunks \in [S -> ChunksRec] /\ rpty_map \subseteq S
      /\ s2c \in Seq(ToClientRec)
  BY Zenon DEF Types
<1>2. term' \in [S -> Terms]
  BY <1>1, CloseBackendEffect, TypesTerm, Zenon
<1>3. chunks' \in [S -> ChunksRec]
  BY <1>1, CloseBackendEffect, ChunksDone, Zenon
<1>4. rpty_map' \subseteq S /\ s2c' \in Seq(ToClientRec)
  BY <1>1, CloseBackendEffect, TypesMessages, Zenon
<1> QED
  BY <1>2, <1>3, <1>4

\* The leases.
LEMMA TypesLeases ==
  ASSUME Types, NEW c \in S
  PROVE  /\ Release(c) => client' \in 0 .. Opens /\ leases' \in [S -> Int]
         /\ [leases EXCEPT ![c] = @ + 1] \in [S -> Int] /\ [leases EXCEPT ![c] = 1] \in [S -> Int]
<1>1. leases \in [S -> Int]
  BY Zenon DEF Types
<1>2. [leases EXCEPT ![c] = @ - 1] \in [S -> Int]
  BY <1>1, SMT
<1>3. [leases EXCEPT ![c] = @ + 1] \in [S -> Int] /\ [leases EXCEPT ![c] = 1] \in [S -> Int]
  BY <1>1, SMT
<1>4. 0 \in 0 .. Opens /\ client \in 0 .. Opens
  BY LimitsAssumption, SMT DEF Types
<1> QED
  BY <1>2, <1>3, <1>4, Zenon DEF Release

LEMMA TypesStep ==
  ASSUME Types, Phases, Leases, [Next]_vars
  PROVE  Types'
<1>1. CASE UNCHANGED core
  BY <1>1, Zenon DEF Types, core
<1>2. ASSUME NEW i \in Ids, Open(i) PROVE Types'
  <2>1. sess' \in [S -> SessionRec] /\ opened' \in 0 .. Opens /\ sessions' \in [Ids -> 0 .. Opens]
    <3>1. opened + 1 \in S => opened + 1 \in 0 .. Opens /\ [sessions EXCEPT ![i] = opened + 1] \in [Ids -> 0 .. Opens]
      BY LimitsAssumption, SMT DEF Types, S
    <3>2. sess \in [S -> SessionRec] /\ opened \in 0 .. Opens /\ sessions \in [Ids -> 0 .. Opens]
      BY Zenon DEF Types
    <3> QED
      BY <1>2, <3>1, <3>2, OpenMoves, Zenon DEF Moves
  <2> QED
    BY <1>2, <2>1, Zenon DEF Types, Open, conn, table, remote, pool
<1>3. ASSUME NEW i \in Ids, Close(i) PROVE Types'
  <2>1. sess' \in [S -> SessionRec]
    BY <1>3, CancelMoves, Zenon DEF Types, Close, Same, Moves
  <2> QED
    BY <1>3, <2>1, Zenon DEF Types, Close, conn, table, remote, pool
<1>4. ASSUME NEW i \in Ids, Input(i) PROVE Types'
  <2>1. sess' \in [S -> SessionRec]
    BY <1>4, CancelMoves, Zenon DEF Types, Input, Same, Moves
  <2> QED
    BY <1>4, <2>1, Zenon DEF Types, Input, conn, table, remote, pool
<1>5. ASSUME NEW s \in S, GetClient(s) PROVE Types'
  <2>1. sess' \in [S -> SessionRec]
    BY <1>5, GetClientMoves, Zenon DEF Same, Moves
  <2>2. leases' \in [S -> Int]
    <3>1. client # 0 => client \in S
      BY LimitsAssumption, SMT DEF Types, S
    <3> QED
      BY <1>5, <3>1, GetClientMoves, TypesLeases, Zenon DEF Types
  <2> QED
    BY <1>5, <2>1, <2>2, Zenon DEF Types, GetClient, conn, table, remote, pool
<1>6. ASSUME NEW s \in S, Dial(s) PROVE Types'
  <2>1. sess' \in [S -> SessionRec]
    BY <1>6, DialMoves, Zenon DEF Same, Moves
  <2>2. leases' \in [S -> Int] /\ client' \in 0 .. Opens
    <3>1. s \in 0 .. Opens
      BY LimitsAssumption, SMT DEF S
    <3> QED
      BY <1>6, <3>1, DialMoves, TypesLeases, Zenon DEF Types
  <2> QED
    BY <1>6, <2>1, <2>2, Zenon DEF Types, Dial, conn, table, remote, pool
<1>7. ASSUME NEW s \in S, StartSetup(s) PROVE Types'
  <2>1. sess' \in [S -> SessionRec]
    BY <1>7, StartSetupMoves, Zenon DEF Moves
  <2> QED
    BY <1>7, <2>1, Zenon DEF Types, StartSetup, conn, table, remote, pool
<1>8. ASSUME NEW s \in S, OpenResult(s) PROVE Types'
  <2>1. sess' \in [S -> SessionRec]
    BY <1>8, OpenResultMoves, Zenon DEF Same, Moves
  <2>2. reader' \in [S -> Readers]
    BY <1>8, OpenResultMoves, TypesReader, Zenon
  <2> QED
    BY <1>8, <2>1, <2>2, Zenon DEF Types, OpenResult, conn, table, remote, pool
<1>9. ASSUME NEW s \in S, SetupSession(s) PROVE Types'
  <2>1. sess' \in [S -> SessionRec]
    BY <1>9, SetupMoves, Zenon DEF SetupSession, Moves, Setups
  <2>2. term' \in [S -> Terms]
    <3>1. term' = term \/ term' = [term EXCEPT ![s] = "running"]
      BY <1>9, Zenon DEF SetupSession
    <3> QED
      BY <3>1, TypesTerm, Zenon
  <2>3. client' \in 0 .. Opens /\ leases' \in [S -> Int]
    <3>1. sess[s].client \in S
      BY <1>9, Zenon DEF Leases, Uses, SetupSession
    <3> QED
      BY <1>9, <3>1, TypesLeases, Zenon DEF SetupSession, pool, Types
  <2> QED
    BY <1>9, <2>1, <2>2, <2>3, Zenon DEF Types, SetupSession, conn, table, remote, pool
<1>10. ASSUME NEW s \in S, SetupGivesUp(s) PROVE Types'
  <2>1. sess' \in [S -> SessionRec]
    BY <1>10, SetupMoves, Zenon DEF SetupGivesUp, Moves, Setups
  <2>2. term' \in [S -> Terms]
    BY <1>10, TypesTerm, Zenon DEF SetupGivesUp
  <2> QED
    BY <1>10, <2>1, <2>2, Zenon DEF Types, SetupGivesUp, conn, table, remote, pool
<1>11. ASSUME NEW s \in S, SetupDrops(s) PROVE Types'
  <2>1. sess' \in [S -> SessionRec]
    BY <1>11, SetupMoves, Zenon DEF SetupDrops, Moves, Setups
  <2>2. client' \in 0 .. Opens /\ leases' \in [S -> Int]
    <3>1. sess[s].client \in S
      BY <1>11, Zenon DEF Leases, Uses, SetupDrops
    <3> QED
      BY <1>11, <3>1, TypesLeases, Zenon DEF SetupDrops, Types
  <2> QED
    BY <1>11, <2>1, <2>2, Zenon DEF Types, SetupDrops, conn, table, remote, pool
<1>12. ASSUME NEW s \in S, OpenPty(s) PROVE Types'
  <2>1. sess' \in [S -> SessionRec]
    BY <1>12, OpenedMoves, Zenon DEF OpenPty, Same, Moves
  <2>2. reader' \in [S -> Readers]
    BY <1>12, OpenedMoves, TypesReader, Zenon DEF OpenPty
  <2>3. term' \in [S -> Terms]
    BY <1>12, OpenedMoves, TypesTerm, Zenon DEF OpenPty, ConnectPty
  <2>4. UNCHANGED <<rpty_map, s2c>>
    BY <1>12, OpenedMoves, Zenon DEF OpenPty
  <2> QED
    BY <1>12, <2>1, <2>2, <2>3, <2>4, Zenon DEF Types, OpenPty, conn, table, remote, pool
<1>13. ASSUME NEW s \in S, OpenRpty(s) PROVE Types'
  <2>1. sess' \in [S -> SessionRec]
    BY <1>13, OpenedMoves, Zenon DEF OpenRpty, Same, Moves
  <2>2. reader' \in [S -> Readers]
    BY <1>13, OpenedMoves, TypesReader, Zenon DEF OpenRpty
  <2>3. UNCHANGED term
    BY <1>13, OpenedMoves, Zenon DEF OpenRpty
  <2>4. rpty_map' \subseteq S
    BY <1>13, OpenedMoves, Zenon DEF OpenRpty, ServerStartRpty, Types
  <2>5. s2c' \in Seq(ToClientRec)
    BY <1>13, OpenedMoves, TypesMessages, Zenon DEF OpenRpty, ServerStartRpty, Types
  <2> QED
    BY <1>13, <2>1, <2>2, <2>3, <2>4, <2>5, Zenon DEF Types, OpenRpty, conn, table, remote, pool
<1>14. ASSUME NEW s \in S, SessionCancelled(s) PROVE Types'
  <2>1. sess' \in [S -> SessionRec]
    BY <1>14, CloseMoves, Zenon DEF Closed, Moves
  <2>2. /\ term' \in [S -> Terms] /\ chunks' \in [S -> ChunksRec]
        /\ rpty_map' \subseteq S /\ s2c' \in Seq(ToClientRec)
    BY <1>14, TypesClose, Zenon DEF SessionCancelled
  <2> QED
    BY <1>14, <2>1, <2>2, Zenon DEF Types, SessionCancelled, conn, table, remote, pool
<1>15. ASSUME NEW s \in S, ReadDone(s) PROVE Types'
  <2>1. sess' \in [S -> SessionRec]
    BY <1>15, CloseMoves, Zenon DEF Closed, Moves
  <2>2. /\ term' \in [S -> Terms] /\ chunks' \in [S -> ChunksRec]
        /\ rpty_map' \subseteq S /\ s2c' \in Seq(ToClientRec)
    BY <1>15, TypesClose, Zenon DEF ReadDone
  <2> QED
    BY <1>15, <2>1, <2>2, Zenon DEF Types, ReadDone, conn, table, remote, pool
<1>16. ASSUME NEW s \in S, CloseOnCancel(s) PROVE Types'
  <2>1. sess' \in [S -> SessionRec]
    BY <1>16, CloseMoves, Zenon DEF Closed, Moves
  <2>2. /\ term' \in [S -> Terms] /\ chunks' \in [S -> ChunksRec]
        /\ rpty_map' \subseteq S /\ s2c' \in Seq(ToClientRec)
    BY <1>16, TypesClose, Zenon DEF CloseOnCancel
  <2> QED
    BY <1>16, <2>1, <2>2, Zenon DEF Types, CloseOnCancel, conn, table, remote, pool
<1>17. ASSUME NEW s \in S, Wait(s) PROVE Types'
  <2>1. sess' \in [S -> SessionRec]
    BY <1>17, EndMoves, Zenon DEF Same, Moves
  <2>2. client' \in 0 .. Opens /\ leases' \in [S -> Int]
    <3>1. kind = "ssh" => sess[s].client \in S
      BY <1>17, Zenon DEF Phases, PhaseOf, Leases, Uses, Wait
    <3> QED
      BY <1>17, <3>1, TypesLeases, Zenon DEF Wait, pool, Types
  <2> QED
    BY <1>17, <2>1, <2>2, Zenon DEF Types, Wait, conn, table, remote, pool
<1>18. ASSUME NEW s \in S, DeleteSession(s) PROVE Types'
  <2>1. sess' \in [S -> SessionRec]
    BY <1>18, EndMoves, Zenon DEF Same, Moves
  <2>2. sessions' \in [Ids -> 0 .. Opens]
    <3>1. sessions \in [Ids -> 0 .. Opens] /\ 0 \in 0 .. Opens
      BY LimitsAssumption, SMT DEF Types
    <3>2. sessions' = [sessions EXCEPT ![sess[s].id] = 0]
      BY <1>18, Zenon DEF DeleteSession
    <3> QED
      BY <3>1, <3>2, Zenon
  <2> QED
    BY <1>18, <2>1, <2>2, Zenon DEF Types, DeleteSession, conn, table, remote, pool
<1>19. ASSUME NEW s \in S, ReadTerminal(s) PROVE Types'
  <2>1. reader' \in [S -> Readers] /\ UNCHANGED chunks
    BY <1>19, TypesReader, Zenon DEF ReadTerminal, ReaderEnds
  <2> QED
    BY <1>19, <2>1, Zenon DEF Types, ReadTerminal, conn, table, remote, pool
<1>20. ASSUME NEW s \in S, ReadChunk(s) PROVE Types'
  <2>1. chunks' \in [S -> ChunksRec]
    <3>1. chunks[s].n - 1 \in Nat /\ chunks' = [chunks EXCEPT ![s].n = chunks[s].n - 1]
      BY <1>20, SMT DEF ReadChunk, Types, ChunksRec
    <3> QED
      BY <3>1, ChunksCount, Zenon
  <2> QED
    BY <1>20, <2>1, Zenon DEF Types, ReadChunk, conn, table, remote, pool
<1>21. ASSUME NEW s \in S, ReadEnd(s) PROVE Types'
  <2>1. reader' \in [S -> Readers] /\ UNCHANGED chunks
    BY <1>21, TypesReader, Zenon DEF ReadEnd, ReaderEnds
  <2> QED
    BY <1>21, <2>1, Zenon DEF Types, ReadEnd, conn, table, remote, pool
<1>22. ASSUME NEW s \in S, ShellExits(s) PROVE Types'
  <2>1. term' \in [S -> Terms]
    BY <1>22, TypesTerm, Zenon DEF ShellExits
  <2> QED
    BY <1>22, <2>1, Zenon DEF Types, ShellExits, conn, table, remote, pool
<1>23. ASSUME NEW s \in S, TerminalEnds(s) PROVE Types'
  <2>1. term' \in [S -> Terms]
    BY <1>23, TypesTerm, Zenon DEF TerminalEnds
  <2> QED
    BY <1>23, <2>1, Zenon DEF Types, TerminalEnds, conn, table, remote, pool
<1>24. ASSUME NEW s \in S, RptyOutput(s) PROVE Types'
  <2>1. c2s' \in Seq(ToServerRec)
    BY <1>24, TypesMessages, Zenon DEF RptyOutput, ToServer, Types
  <2> QED
    BY <1>24, <2>1, Zenon DEF Types, RptyOutput, conn, table, remote, pool
<1>25. ASSUME NEW s \in S, RptyEnds(s) PROVE Types'
  <2>1. term' \in [S -> Terms]
    BY <1>25, TypesTerm, Zenon DEF RptyEnds
  <2>2. c2s' \in Seq(ToServerRec)
    BY <1>25, TypesMessages, Zenon DEF RptyEnds, ToServer, Types
  <2> QED
    BY <1>25, <2>1, <2>2, Zenon DEF Types, RptyEnds, conn, table, remote, pool
<1>26. ASSUME ClientReceives PROVE Types'
  <2>1. Head(s2c).s \in S /\ Tail(s2c) \in Seq(ToClientRec)
    BY <1>26, TypesTail, Zenon DEF ClientReceives
  <2>2. term' \in [S -> Terms]
    <3>1. PICK s \in S : \/ term' = term
                          \/ term' = [term EXCEPT ![s] = "running"]
                          \/ term' = [term EXCEPT ![s] = IF @ = "running" THEN "killed" ELSE @]
      BY <1>26, <2>1, Zenon DEF ClientReceives, ConnectPty
    <3> QED
      BY <3>1, TypesTerm, Zenon
  <2>3. c2s' \in Seq(ToServerRec)
    BY <1>26, <2>1, TypesMessages, Zenon DEF ClientReceives, ToServer, Types
  <2> QED
    BY <1>26, <2>1, <2>2, <2>3, Zenon DEF Types, ClientReceives, conn, table, remote, pool
<1>27. ASSUME ServerReceives PROVE Types'
  <2>1. Head(c2s).s \in S /\ Tail(c2s) \in Seq(ToServerRec)
    BY <1>27, TypesTail, Zenon DEF ServerReceives
  <2>2. chunks' \in [S -> ChunksRec]
    BY <1>27, <2>1, ChunksDone, PushChunks, Zenon DEF ServerReceives, Types
  <2> QED
    BY <1>27, <2>1, <2>2, Zenon DEF Types, ServerReceives, conn, table, remote, pool
<1>28. ASSUME ReceiverEnds PROVE Types'
  <2>1. \A s \in S : chunks[s] \in ChunksRec
    BY Zenon DEF Types
  <2>2. \A r \in ChunksRec : [r EXCEPT !.done = TRUE] \in ChunksRec
    BY Zenon DEF ChunksRec
  <2>3. chunks' \in [S -> ChunksRec]
    BY <1>28, <2>1, <2>2, Zenon DEF ReceiverEnds
  <2> QED
    BY <1>28, <2>3, Zenon DEF Types, ReceiverEnds, conn, table, remote, pool
<1>29. ASSUME BreakLink PROVE Types'
  <2>1. term' \in [S -> Terms]
    BY <1>29, Zenon DEF BreakLink, Types, Terms
  <2>2. s2c' \in Seq(ToClientRec) /\ c2s' \in Seq(ToServerRec) /\ link' \in {"up", "down"}
    BY <1>29, SMT DEF BreakLink
  <2> QED
    BY <1>29, <2>1, <2>2, Zenon DEF Types, BreakLink, conn, table, remote, pool
<1> QED
  BY <1>1, <1>2, <1>3, <1>4, <1>5, <1>6, <1>7, <1>8, <1>9, <1>10, <1>11, <1>12, <1>13, <1>14, <1>15, <1>16, <1>17, <1>18, <1>19, <1>20, <1>21, <1>22, <1>23, <1>24, <1>25, <1>26, <1>27, <1>28, <1>29, StepCases, Zenon DEF SessionStep, TerminalStep

-----------------------------------------------------------------------------
(* Phases.                                                                 *)

TermTo(s, v) == term'[s] = v /\ \A t \in S \ {s} : term'[t] = term[t]
ReaderTo(s, v) == reader'[s] = v /\ \A t \in S \ {s} : reader'[t] = reader[t]
Killed(v) == IF v = "running" THEN "killed" ELSE v

LEMMA TermPut ==
  ASSUME Types, NEW s \in S
  PROVE  /\ term' = term => TermTo(s, term[s])
         /\ term' = [term EXCEPT ![s] = "running"] => TermTo(s, "running")
         /\ term' = [term EXCEPT ![s] = "ended"] => TermTo(s, "ended")
         /\ term' = [term EXCEPT ![s] = IF @ = "running" THEN "killed" ELSE @] =>
              TermTo(s, Killed(term[s]))
<1>1. term \in [S -> Terms]
  BY Zenon DEF Types
<1> QED
  BY <1>1, Zenon DEF TermTo, Killed

LEMMA ReaderPut ==
  ASSUME Types, NEW s \in S
  PROVE  /\ reader' = reader => ReaderTo(s, reader[s])
         /\ reader' = [reader EXCEPT ![s] = "read"] => ReaderTo(s, "read")
         /\ reader' = [reader EXCEPT ![s] = "eof"] => ReaderTo(s, "eof")
         /\ reader' = [reader EXCEPT ![s] = "error"] => ReaderTo(s, "error")
<1>1. reader \in [S -> Readers]
  BY Zenon DEF Types
<1> QED
  BY <1>1, Zenon DEF ReaderTo

\* Closing the terminal.
LEMMA CloseTerm ==
  ASSUME Types, NEW s \in S, CloseBackend(s)
  PROVE  /\ s2c' = s2c \/ kind = "rpty"
         /\ TermTo(s, term[s]) \/ (kind # "rpty" /\ TermTo(s, Killed(term[s])))
BY CloseBackendEffect, TermPut, Zenon

\* A session that a step does not touch.
LEMMA PhaseFrame ==
  ASSUME NEW s \in S, PhaseOf(s), sess'[s] = sess[s], reader'[s] = reader[s],
         kind = "pty" => term'[s] = term[s], kind' = kind
  PROVE  PhaseOf(s)'
BY Zenon DEF PhaseOf

\* A step of one session that has been opened.
LEMMA PhasesOne ==
  ASSUME Phases, NEW s \in S, sess[s].pc # "none", UNCHANGED <<kind, opened>>,
         s2c' = s2c \/ kind = "rpty",
         \A t \in S \ {s} : /\ sess'[t] = sess[t] /\ reader'[t] = reader[t]
                            /\ kind = "pty" => term'[t] = term[t],
         PhaseOf(s)'
  PROVE  Phases'
<1>1. \A t \in S : PhaseOf(t)'
  <2> SUFFICES ASSUME NEW t \in S PROVE PhaseOf(t)'
    OBVIOUS
  <2>1. CASE t = s
    BY <2>1, Zenon
  <2>2. CASE t # s
    <3>1. PhaseOf(t)
      BY Zenon DEF Phases
    <3> QED
      BY <2>2, <3>1, PhaseFrame, Zenon
  <2> QED
    BY <2>1, <2>2
<1>2. \A t \in S : t > opened' => sess'[t].pc = "none"
  BY Zenon DEF Phases
<1>3. kind' # "rpty" => s2c' = <<>>
  BY Zenon DEF Phases
<1> QED
  BY <1>1, <1>2, <1>3, Zenon DEF Phases

\* A step that touches no session.
LEMMA PhasesFrame ==
  ASSUME Phases, UNCHANGED <<kind, opened, sess, reader>>, kind = "pty" => UNCHANGED term,
         s2c' = s2c \/ kind = "rpty"
  PROVE  Phases'
<1>1. \A t \in S : PhaseOf(t)'
  <2> SUFFICES ASSUME NEW t \in S PROVE PhaseOf(t)'
    OBVIOUS
  <2>1. PhaseOf(t)
    BY Zenon DEF Phases
  <2> QED
    BY <2>1, PhaseFrame, Zenon
<1>2. \A t \in S : t > opened' => sess'[t].pc = "none"
  BY Zenon DEF Phases
<1>3. kind' # "rpty" => s2c' = <<>>
  BY Zenon DEF Phases
<1> QED
  BY <1>1, <1>2, <1>3, Zenon DEF Phases

LEMMA PhasesStep ==
  ASSUME Types, Phases, [Next]_vars
  PROVE  Phases'
<1>1. CASE UNCHANGED core
  BY <1>1, PhasesFrame, Zenon DEF core
<1>2. ASSUME NEW i \in Ids, Open(i) PROVE Phases'
  <2>1. CASE UNCHANGED <<opened, sessions, sess>>
    BY <1>2, <2>1, PhasesFrame, Zenon DEF Open, remote
  <2>2. CASE \E s \in S : /\ s = opened + 1 /\ opened' = s
                          /\ Moves(s, "opening", "none", "none", 0)
    <3>0. PICK s \in S : /\ s = opened + 1 /\ opened' = s
                         /\ Moves(s, "opening", "none", "none", 0)
      BY <2>2
    <3>1. s > opened /\ \A t \in S : t > opened' => t > opened /\ t # s
      BY <3>0, LimitsAssumption, SMT DEF Types, S
    <3>2. sess[s].pc = "none" /\ PhaseOf(s)
      BY <3>0, <3>1, Zenon DEF Phases
    <3>3. UNCHANGED <<kind, reader, term, s2c>>
      BY <1>2, Zenon DEF Open, remote
    <3>4. PhaseOf(s)'
      BY <3>0, <3>2, <3>3, SMT DEF PhaseOf, Moves
    <3>5. ASSUME NEW t \in S, t # s PROVE PhaseOf(t)'
      <4>1. PhaseOf(t) /\ sess'[t] = sess[t]
        BY <3>0, <3>5, Zenon DEF Phases, Moves
      <4> QED
        BY <3>3, <4>1, PhaseFrame, Zenon
    <3>6. \A t \in S : t > opened' => sess'[t].pc = "none"
      BY <3>0, <3>1, Zenon DEF Phases, Moves
    <3> QED
      BY <3>3, <3>4, <3>5, <3>6, Zenon DEF Phases
  <2> QED
    BY <1>2, <2>1, <2>2, OpenMoves, Zenon
<1>3. ASSUME NEW i \in Ids, Close(i) \/ Input(i) PROVE Phases'
  <2>1. UNCHANGED <<kind, opened, reader, term, s2c>>
    BY <1>3, Zenon DEF Close, Input, table, remote
  <2>2. CASE UNCHANGED sess
    BY <2>1, <2>2, PhasesFrame, Zenon
  <2>3. CASE sessions[i] # 0 /\ sess' = [sess EXCEPT ![sessions[i]].cancelled = TRUE]
    <3>1. PICK s \in S : Same(s, sess[s].pc)
      BY <2>3, CancelMoves, Zenon
    <3>2. PhaseOf(s)
      BY Zenon DEF Phases
    <3>3. PhaseOf(s)'
      BY <2>1, <3>1, <3>2, Zenon DEF PhaseOf, Same, Moves
    <3>4. \A t \in S : PhaseOf(t)'
      <4> SUFFICES ASSUME NEW t \in S, t # s PROVE PhaseOf(t)'
        BY <3>3, Zenon
      <4>1. PhaseOf(t) /\ sess'[t] = sess[t]
        BY <3>1, Zenon DEF Phases, Same, Moves
      <4> QED
        BY <2>1, <4>1, PhaseFrame, Zenon
    <3>5. \A t \in S : t > opened => sess'[t].pc = "none"
      BY <3>1, Zenon DEF Phases, Same, Moves
    <3> QED
      BY <2>1, <3>4, <3>5, Zenon DEF Phases
  <2> QED
    BY <1>3, <2>2, <2>3, Zenon DEF Close, Input
<1>4. ASSUME NEW s \in S, GetClient(s) PROVE Phases'
  <2>1. sess[s].pc = "opening" /\ (Same(s, "delete") \/ Same(s, "dial") \/ Moves(s, "leased", sess[s].setup, sess[s].backend, client))
    BY <1>4, GetClientMoves, Zenon DEF GetClient
  <2>2. ReaderTo(s, reader[s])
    BY <1>4, ReaderPut, Zenon DEF GetClient
  <2>3. TermTo(s, term[s])
    BY <1>4, TermPut, Zenon DEF GetClient
  <2>4. UNCHANGED <<kind, opened>> /\ s2c' = s2c /\ kind = "ssh"
    BY <1>4, Zenon DEF GetClient, table, remote
  <2>5. PhaseOf(s)
    BY Zenon DEF Phases
  <2>6. PhaseOf(s)'
    BY <2>1, <2>2, <2>3, <2>4, <2>5, SMT DEF PhaseOf, Moves, Same, Closed, TermTo, ReaderTo, Killed
  <2>7. /\ sess[s].pc # "none"
        /\ \A t \in S \ {s} : sess'[t] = sess[t] /\ reader'[t] = reader[t] /\ term'[t] = term[t]
    BY <2>1, <2>2, <2>3, <2>4, <2>5, Zenon DEF PhaseOf, Moves, Same, Closed, TermTo, ReaderTo
  <2> QED
    BY <2>1, <2>2, <2>3, <2>4, <2>5, <2>6, <2>7, PhasesOne, Zenon
<1>5. ASSUME NEW s \in S, Dial(s) PROVE Phases'
  <2>1. sess[s].pc = "dial" /\ (Same(s, "delete") \/ Moves(s, "leased", sess[s].setup, sess[s].backend, s))
    BY <1>5, DialMoves, Zenon DEF Dial
  <2>2. ReaderTo(s, reader[s])
    BY <1>5, ReaderPut, Zenon DEF Dial
  <2>3. TermTo(s, term[s])
    BY <1>5, TermPut, Zenon DEF Dial
  <2>4. UNCHANGED <<kind, opened>> /\ s2c' = s2c
    BY <1>5, Zenon DEF Dial, table, remote
  <2>5. PhaseOf(s)
    BY Zenon DEF Phases
  <2>6. PhaseOf(s)'
    BY <2>1, <2>2, <2>3, <2>4, <2>5, SMT DEF PhaseOf, Moves, Same, Closed, TermTo, ReaderTo, Killed
  <2>7. /\ sess[s].pc # "none"
        /\ \A t \in S \ {s} : sess'[t] = sess[t] /\ reader'[t] = reader[t] /\ term'[t] = term[t]
    BY <2>1, <2>2, <2>3, <2>4, <2>5, Zenon DEF PhaseOf, Moves, Same, Closed, TermTo, ReaderTo
  <2> QED
    BY <2>1, <2>2, <2>3, <2>4, <2>5, <2>6, <2>7, PhasesOne, Zenon
<1>6. ASSUME NEW s \in S, StartSetup(s) PROVE Phases'
  <2>1. sess[s].pc = "leased" /\ Moves(s, "result", "session", sess[s].backend, sess[s].client)
    BY <1>6, StartSetupMoves, Zenon DEF StartSetup
  <2>2. ReaderTo(s, reader[s])
    BY <1>6, ReaderPut, Zenon DEF StartSetup
  <2>3. TermTo(s, term[s])
    BY <1>6, TermPut, Zenon DEF StartSetup
  <2>4. UNCHANGED <<kind, opened>> /\ s2c' = s2c
    BY <1>6, Zenon DEF StartSetup, table, remote
  <2>5. PhaseOf(s)
    BY Zenon DEF Phases
  <2>6. PhaseOf(s)'
    BY <2>1, <2>2, <2>3, <2>4, <2>5, SMT DEF PhaseOf, Moves, Same, Closed, TermTo, ReaderTo, Killed
  <2>7. /\ sess[s].pc # "none"
        /\ \A t \in S \ {s} : sess'[t] = sess[t] /\ reader'[t] = reader[t] /\ term'[t] = term[t]
    BY <2>1, <2>2, <2>3, <2>4, <2>5, Zenon DEF PhaseOf, Moves, Same, Closed, TermTo, ReaderTo
  <2> QED
    BY <2>1, <2>2, <2>3, <2>4, <2>5, <2>6, <2>7, PhasesOne, Zenon
<1>7. ASSUME NEW s \in S, OpenResult(s) PROVE Phases'
  <2>1. sess[s].pc = "result" /\ ((Same(s, "delete") /\ ReaderTo(s, reader[s])) \/ (Moves(s, "loop", "taken", "open", sess[s].client) /\ ReaderTo(s, "read")))
    <3>1. (reader' = reader => ReaderTo(s, reader[s])) /\ (reader' = [reader EXCEPT ![s] = "read"] => ReaderTo(s, "read"))
      BY ReaderPut, Zenon
    <3>2. sess[s].pc = "result"
      BY <1>7, Zenon DEF OpenResult
    <3> QED
      BY <1>7, <3>1, <3>2, OpenResultMoves, Zenon
  <2>2. TermTo(s, term[s])
    BY <1>7, TermPut, Zenon DEF OpenResult
  <2>3. UNCHANGED <<kind, opened>> /\ s2c' = s2c
    BY <1>7, Zenon DEF OpenResult, table, remote
  <2>4. PhaseOf(s)
    BY Zenon DEF Phases
  <2>5. PhaseOf(s)'
    BY <2>1, <2>2, <2>3, <2>4, SMT DEF PhaseOf, Moves, Same, Closed, TermTo, ReaderTo, Killed
  <2>6. /\ sess[s].pc # "none"
        /\ \A t \in S \ {s} : sess'[t] = sess[t] /\ reader'[t] = reader[t] /\ term'[t] = term[t]
    BY <2>1, <2>2, <2>3, <2>4, Zenon DEF PhaseOf, Moves, Same, Closed, TermTo, ReaderTo
  <2> QED
    BY <2>1, <2>2, <2>3, <2>4, <2>5, <2>6, PhasesOne, Zenon
<1>8. ASSUME NEW s \in S, SetupSession(s) PROVE Phases'
  <2>1. sess[s].setup = "session" /\ ((Moves(s, sess[s].pc, "offer", sess[s].backend, sess[s].client) /\ TermTo(s, "running")) \/ (Moves(s, sess[s].pc, "failed", sess[s].backend, sess[s].client) /\ TermTo(s, term[s])))
    <3>1. (term' = term => TermTo(s, term[s])) /\ (term' = [term EXCEPT ![s] = "running"] => TermTo(s, "running"))
      BY TermPut, Zenon
    <3>2. /\ sess' = [sess EXCEPT ![s].setup = "offer"] => Moves(s, sess[s].pc, "offer", sess[s].backend, sess[s].client)
          /\ sess' = [sess EXCEPT ![s].setup = "failed"] => Moves(s, sess[s].pc, "failed", sess[s].backend, sess[s].client)
      BY SetupMoves, Zenon DEF Setups
    <3> QED
      BY <1>8, <3>1, <3>2, Zenon DEF SetupSession
  <2>2. ReaderTo(s, reader[s])
    BY <1>8, ReaderPut, Zenon DEF SetupSession
  <2>3. UNCHANGED <<kind, opened>> /\ s2c' = s2c
    BY <1>8, Zenon DEF SetupSession, table, remote
  <2>4. PhaseOf(s)
    BY Zenon DEF Phases
  <2>5. PhaseOf(s)'
    BY <2>1, <2>2, <2>3, <2>4, SMT DEF PhaseOf, Moves, Same, Closed, TermTo, ReaderTo, Killed
  <2>6. /\ sess[s].pc # "none"
        /\ \A t \in S \ {s} : sess'[t] = sess[t] /\ reader'[t] = reader[t] /\ term'[t] = term[t]
    BY <2>1, <2>2, <2>3, <2>4, Zenon DEF PhaseOf, Moves, Same, Closed, TermTo, ReaderTo
  <2> QED
    BY <2>1, <2>2, <2>3, <2>4, <2>5, <2>6, PhasesOne, Zenon
<1>9. ASSUME NEW s \in S, SetupGivesUp(s) PROVE Phases'
  <2>1. sess[s].setup = "offer" /\ Moves(s, sess[s].pc, "drop", sess[s].backend, sess[s].client)
    BY <1>9, SetupMoves, Zenon DEF SetupGivesUp, Setups
  <2>2. ReaderTo(s, reader[s])
    BY <1>9, ReaderPut, Zenon DEF SetupGivesUp
  <2>3. TermTo(s, Killed(term[s]))
    BY <1>9, TermPut, Zenon DEF SetupGivesUp
  <2>4. UNCHANGED <<kind, opened>> /\ s2c' = s2c
    BY <1>9, Zenon DEF SetupGivesUp, table, remote
  <2>5. PhaseOf(s)
    BY Zenon DEF Phases
  <2>6. PhaseOf(s)'
    BY <2>1, <2>2, <2>3, <2>4, <2>5, SMT DEF PhaseOf, Moves, Same, Closed, TermTo, ReaderTo, Killed
  <2>7. /\ sess[s].pc # "none"
        /\ \A t \in S \ {s} : sess'[t] = sess[t] /\ reader'[t] = reader[t] /\ term'[t] = term[t]
    BY <2>1, <2>2, <2>3, <2>4, <2>5, Zenon DEF PhaseOf, Moves, Same, Closed, TermTo, ReaderTo
  <2> QED
    BY <2>1, <2>2, <2>3, <2>4, <2>5, <2>6, <2>7, PhasesOne, Zenon
<1>10. ASSUME NEW s \in S, SetupDrops(s) PROVE Phases'
  <2>1. sess[s].setup = "drop" /\ Moves(s, sess[s].pc, "failed", sess[s].backend, sess[s].client)
    BY <1>10, SetupMoves, Zenon DEF SetupDrops, Setups
  <2>2. ReaderTo(s, reader[s])
    BY <1>10, ReaderPut, Zenon DEF SetupDrops
  <2>3. TermTo(s, term[s])
    BY <1>10, TermPut, Zenon DEF SetupDrops
  <2>4. UNCHANGED <<kind, opened>> /\ s2c' = s2c
    BY <1>10, Zenon DEF SetupDrops, table, remote
  <2>5. PhaseOf(s)
    BY Zenon DEF Phases
  <2>6. PhaseOf(s)'
    BY <2>1, <2>2, <2>3, <2>4, <2>5, SMT DEF PhaseOf, Moves, Same, Closed, TermTo, ReaderTo, Killed
  <2>7. /\ sess[s].pc # "none"
        /\ \A t \in S \ {s} : sess'[t] = sess[t] /\ reader'[t] = reader[t] /\ term'[t] = term[t]
    BY <2>1, <2>2, <2>3, <2>4, <2>5, Zenon DEF PhaseOf, Moves, Same, Closed, TermTo, ReaderTo
  <2> QED
    BY <2>1, <2>2, <2>3, <2>4, <2>5, <2>6, <2>7, PhasesOne, Zenon
<1>11. ASSUME NEW s \in S, OpenPty(s) PROVE Phases'
  <2>1. kind = "pty" /\ sess[s].pc = "opening" /\ s2c' = s2c /\ ((Same(s, "delete") /\ ReaderTo(s, reader[s]) /\ TermTo(s, term[s])) \/ (Moves(s, "loop", sess[s].setup, "open", sess[s].client) /\ ReaderTo(s, "read") /\ TermTo(s, "running")))
    <3>1. (reader' = reader => ReaderTo(s, reader[s])) /\ (reader' = [reader EXCEPT ![s] = "read"] => ReaderTo(s, "read"))
      BY ReaderPut, Zenon
    <3>2. (term' = term => TermTo(s, term[s])) /\ (term' = [term EXCEPT ![s] = "running"] => TermTo(s, "running"))
      BY TermPut, Zenon
    <3>3. kind = "pty" /\ sess[s].pc = "opening" /\ (OpenFails(s) \/ (Opened(s) /\ ConnectPty(s) /\ s2c' = s2c))
      BY <1>11, Zenon DEF OpenPty
    <3> QED
      BY <3>1, <3>2, <3>3, OpenedMoves, Zenon DEF ConnectPty
  <2>2. UNCHANGED <<kind, opened>>
    BY <1>11, Zenon DEF OpenPty, table, remote
  <2>3. PhaseOf(s)
    BY Zenon DEF Phases
  <2>4. PhaseOf(s)'
    BY <2>1, <2>2, <2>3, SMT DEF PhaseOf, Moves, Same, Closed, TermTo, ReaderTo, Killed
  <2>5. /\ sess[s].pc # "none"
        /\ \A t \in S \ {s} : sess'[t] = sess[t] /\ reader'[t] = reader[t] /\ term'[t] = term[t]
    BY <2>1, <2>2, <2>3, Zenon DEF PhaseOf, Moves, Same, Closed, TermTo, ReaderTo
  <2> QED
    BY <2>1, <2>2, <2>3, <2>4, <2>5, PhasesOne, Zenon
<1>12. ASSUME NEW s \in S, OpenRpty(s) PROVE Phases'
  <2>1. kind = "rpty" /\ sess[s].pc = "opening" /\ ((Same(s, "delete") /\ ReaderTo(s, reader[s])) \/ (Moves(s, "loop", sess[s].setup, "open", sess[s].client) /\ ReaderTo(s, "read")))
    <3>1. (reader' = reader => ReaderTo(s, reader[s])) /\ (reader' = [reader EXCEPT ![s] = "read"] => ReaderTo(s, "read"))
      BY ReaderPut, Zenon
    <3>2. kind = "rpty" /\ sess[s].pc = "opening" /\ (OpenFails(s) \/ Opened(s))
      BY <1>12, Zenon DEF OpenRpty
    <3> QED
      BY <3>1, <3>2, OpenedMoves, Zenon
  <2>2. TermTo(s, term[s])
    BY <1>12, OpenedMoves, TermPut, Zenon DEF OpenRpty
  <2>3. UNCHANGED <<kind, opened>> /\ kind = "rpty"
    BY <1>12, Zenon DEF OpenRpty, table, remote
  <2>4. PhaseOf(s)
    BY Zenon DEF Phases
  <2>5. PhaseOf(s)'
    BY <2>1, <2>2, <2>3, <2>4, SMT DEF PhaseOf, Moves, Same, Closed, TermTo, ReaderTo, Killed
  <2>6. /\ sess[s].pc # "none"
        /\ \A t \in S \ {s} : sess'[t] = sess[t] /\ reader'[t] = reader[t] /\ term'[t] = term[t]
    BY <2>1, <2>2, <2>3, <2>4, Zenon DEF PhaseOf, Moves, Same, Closed, TermTo, ReaderTo
  <2> QED
    BY <2>1, <2>2, <2>3, <2>4, <2>5, <2>6, PhasesOne, Zenon
<1>13. ASSUME NEW s \in S, SessionCancelled(s) PROVE Phases'
  <2>1. sess[s].pc = "loop" /\ Closed(s, "wait")
    BY <1>13, CloseMoves, Zenon DEF SessionCancelled
  <2>2. ReaderTo(s, reader[s])
    BY <1>13, ReaderPut, Zenon DEF SessionCancelled
  <2>3. (s2c' = s2c \/ kind = "rpty") /\ (TermTo(s, term[s]) \/ (kind # "rpty" /\ TermTo(s, Killed(term[s]))))
    BY <1>13, CloseTerm, Zenon DEF SessionCancelled
  <2>4. UNCHANGED <<kind, opened>>
    BY <1>13, Zenon DEF SessionCancelled, table, remote
  <2>5. PhaseOf(s)
    BY Zenon DEF Phases
  <2>6. PhaseOf(s)'
    BY <2>1, <2>2, <2>3, <2>4, <2>5, SMT DEF PhaseOf, Moves, Same, Closed, TermTo, ReaderTo, Killed
  <2>7. /\ sess[s].pc # "none"
        /\ \A t \in S \ {s} : sess'[t] = sess[t] /\ reader'[t] = reader[t] /\ term'[t] = term[t]
    BY <2>1, <2>2, <2>3, <2>4, <2>5, Zenon DEF PhaseOf, Moves, Same, Closed, TermTo, ReaderTo
  <2> QED
    BY <2>1, <2>2, <2>3, <2>4, <2>5, <2>6, <2>7, PhasesOne, Zenon
<1>14. ASSUME NEW s \in S, ReadDone(s) PROVE Phases'
  <2>1. sess[s].pc = "loop" /\ Closed(s, "wait")
    BY <1>14, CloseMoves, Zenon DEF ReadDone
  <2>2. ReaderTo(s, reader[s])
    BY <1>14, ReaderPut, Zenon DEF ReadDone
  <2>3. (s2c' = s2c \/ kind = "rpty") /\ (TermTo(s, term[s]) \/ (kind # "rpty" /\ TermTo(s, Killed(term[s]))))
    BY <1>14, CloseTerm, Zenon DEF ReadDone
  <2>4. UNCHANGED <<kind, opened>>
    BY <1>14, Zenon DEF ReadDone, table, remote
  <2>5. PhaseOf(s)
    BY Zenon DEF Phases
  <2>6. PhaseOf(s)'
    BY <2>1, <2>2, <2>3, <2>4, <2>5, SMT DEF PhaseOf, Moves, Same, Closed, TermTo, ReaderTo, Killed
  <2>7. /\ sess[s].pc # "none"
        /\ \A t \in S \ {s} : sess'[t] = sess[t] /\ reader'[t] = reader[t] /\ term'[t] = term[t]
    BY <2>1, <2>2, <2>3, <2>4, <2>5, Zenon DEF PhaseOf, Moves, Same, Closed, TermTo, ReaderTo
  <2> QED
    BY <2>1, <2>2, <2>3, <2>4, <2>5, <2>6, <2>7, PhasesOne, Zenon
<1>15. ASSUME NEW s \in S, CloseOnCancel(s) PROVE Phases'
  <2>1. sess[s].pc = "loop" /\ Closed(s, sess[s].pc)
    BY <1>15, CloseMoves, Zenon DEF CloseOnCancel
  <2>2. ReaderTo(s, reader[s])
    BY <1>15, ReaderPut, Zenon DEF CloseOnCancel
  <2>3. (s2c' = s2c \/ kind = "rpty") /\ (TermTo(s, term[s]) \/ (kind # "rpty" /\ TermTo(s, Killed(term[s]))))
    BY <1>15, CloseTerm, Zenon DEF CloseOnCancel
  <2>4. UNCHANGED <<kind, opened>>
    BY <1>15, Zenon DEF CloseOnCancel, table, remote
  <2>5. PhaseOf(s)
    BY Zenon DEF Phases
  <2>6. PhaseOf(s)'
    BY <2>1, <2>2, <2>3, <2>4, <2>5, SMT DEF PhaseOf, Moves, Same, Closed, TermTo, ReaderTo, Killed
  <2>7. /\ sess[s].pc # "none"
        /\ \A t \in S \ {s} : sess'[t] = sess[t] /\ reader'[t] = reader[t] /\ term'[t] = term[t]
    BY <2>1, <2>2, <2>3, <2>4, <2>5, Zenon DEF PhaseOf, Moves, Same, Closed, TermTo, ReaderTo
  <2> QED
    BY <2>1, <2>2, <2>3, <2>4, <2>5, <2>6, <2>7, PhasesOne, Zenon
<1>16. ASSUME NEW s \in S, Wait(s) PROVE Phases'
  <2>1. sess[s].pc = "wait" /\ reader[s] \in {"eof", "error"} /\ (kind # "rpty" => term[s] = "ended") /\ Same(s, "delete")
    BY <1>16, EndMoves, Zenon DEF Wait
  <2>2. ReaderTo(s, reader[s])
    BY <1>16, ReaderPut, Zenon DEF Wait
  <2>3. TermTo(s, term[s])
    BY <1>16, TermPut, Zenon DEF Wait
  <2>4. UNCHANGED <<kind, opened>> /\ s2c' = s2c
    BY <1>16, Zenon DEF Wait, table, remote
  <2>5. PhaseOf(s)
    BY Zenon DEF Phases
  <2>6. PhaseOf(s)'
    BY <2>1, <2>2, <2>3, <2>4, <2>5, SMT DEF PhaseOf, Moves, Same, Closed, TermTo, ReaderTo, Killed
  <2>7. /\ sess[s].pc # "none"
        /\ \A t \in S \ {s} : sess'[t] = sess[t] /\ reader'[t] = reader[t] /\ term'[t] = term[t]
    BY <2>1, <2>2, <2>3, <2>4, <2>5, Zenon DEF PhaseOf, Moves, Same, Closed, TermTo, ReaderTo
  <2> QED
    BY <2>1, <2>2, <2>3, <2>4, <2>5, <2>6, <2>7, PhasesOne, Zenon
<1>17. ASSUME NEW s \in S, DeleteSession(s) PROVE Phases'
  <2>1. sess[s].pc = "delete" /\ Same(s, "ended")
    BY <1>17, EndMoves, Zenon DEF DeleteSession
  <2>2. ReaderTo(s, reader[s])
    BY <1>17, ReaderPut, Zenon DEF DeleteSession
  <2>3. TermTo(s, term[s])
    BY <1>17, TermPut, Zenon DEF DeleteSession
  <2>4. UNCHANGED <<kind, opened>> /\ s2c' = s2c
    BY <1>17, Zenon DEF DeleteSession, table, remote
  <2>5. PhaseOf(s)
    BY Zenon DEF Phases
  <2>6. PhaseOf(s)'
    BY <2>1, <2>2, <2>3, <2>4, <2>5, SMT DEF PhaseOf, Moves, Same, Closed, TermTo, ReaderTo, Killed
  <2>7. /\ sess[s].pc # "none"
        /\ \A t \in S \ {s} : sess'[t] = sess[t] /\ reader'[t] = reader[t] /\ term'[t] = term[t]
    BY <2>1, <2>2, <2>3, <2>4, <2>5, Zenon DEF PhaseOf, Moves, Same, Closed, TermTo, ReaderTo
  <2> QED
    BY <2>1, <2>2, <2>3, <2>4, <2>5, <2>6, <2>7, PhasesOne, Zenon
<1>18. ASSUME NEW s \in S, ReadTerminal(s) \/ ReadEnd(s) PROVE Phases'
  <2>1. reader[s] = "read" /\ UNCHANGED <<kind, opened, sess, term, s2c>>
    BY <1>18, Zenon DEF ReadTerminal, ReadEnd, table
  <2>2. reader' = reader \/ ReaderTo(s, "eof") \/ ReaderTo(s, "error")
    BY <1>18, ReaderPut, Zenon DEF ReadTerminal, ReadEnd, ReaderEnds
  <2>3. CASE reader' = reader
    BY <2>1, <2>3, PhasesFrame, Zenon
  <2>4. CASE ReaderTo(s, "eof") \/ ReaderTo(s, "error")
    <3>1. PhaseOf(s)
      BY Zenon DEF Phases
    <3>2. PhaseOf(s)' /\ sess[s].pc # "none"
      BY <2>1, <2>4, <3>1, SMT DEF PhaseOf, ReaderTo
    <3>3. \A t \in S \ {s} : reader'[t] = reader[t]
      BY <2>4, Zenon DEF ReaderTo
    <3> QED
      BY <2>1, <3>2, <3>3, PhasesOne, Zenon
  <2> QED
    BY <2>2, <2>3, <2>4
<1>19. ASSUME NEW s \in S, ShellExits(s) \/ TerminalEnds(s) \/ RptyEnds(s) PROVE Phases'
  <2>1. UNCHANGED <<kind, opened, sess, reader, s2c>>
    BY <1>19, Zenon DEF ShellExits, TerminalEnds, RptyEnds, table, remote
  <2>2. TermTo(s, "ended")
    BY <1>19, TermPut, Zenon DEF ShellExits, TerminalEnds, RptyEnds
  <2>3. \A t \in S : PhaseOf(t)'
    <3> SUFFICES ASSUME NEW t \in S PROVE PhaseOf(t)'
      OBVIOUS
    <3>1. PhaseOf(t)
      BY Zenon DEF Phases
    <3> QED
      BY <2>1, <2>2, <3>1, SMT DEF PhaseOf, TermTo
  <2> QED
    BY <2>1, <2>3, Zenon DEF Phases
<1>20. ASSUME NEW s \in S, ReadChunk(s) \/ RptyOutput(s) PROVE Phases'
  BY <1>20, PhasesFrame, Zenon DEF ReadChunk, RptyOutput, table
<1>21. CASE ClientReceives
  <2>1. kind = "rpty"
    BY <1>21, Zenon DEF ClientReceives, Phases
  <2> QED
    BY <1>21, <2>1, PhasesFrame, Zenon DEF ClientReceives, table
<1>22. CASE ServerReceives \/ ReceiverEnds \/ BreakLink
  BY <1>22, PhasesFrame, Zenon DEF ServerReceives, ReceiverEnds, BreakLink, table
<1> QED
  BY <1>1, <1>2, <1>3, <1>4, <1>5, <1>6, <1>7, <1>8, <1>9, <1>10, <1>11, <1>12, <1>13, <1>14, <1>15, <1>16, <1>17, <1>18, <1>19, <1>20, <1>21, <1>22, StepCases, ZenonT(60) DEF SessionStep, TerminalStep

-----------------------------------------------------------------------------
(* Leases.                                                                 *)

LEMMA HoldsUses ==
  \A s, c : Holds(s, c) <=> sess[s].client = c /\ Uses(s)
BY Zenon DEF Holds, Uses

LEMMA HoldersFinite ==
  \A c : IsFiniteSet(Holders(c)) /\ Cardinality(Holders(c)) \in Nat
<1>1. IsFiniteSet(S)
  BY LimitsAssumption, FS_Interval, SMT DEF S
<1>2. \A c : Holders(c) \subseteq S
  BY Zenon DEF Holders
<1>3. \A c : IsFiniteSet(Holders(c))
  BY <1>1, <1>2, FS_Subset, Zenon
<1> QED
  BY <1>3, FS_CardinalityType, Zenon

\* A step after which the same sessions use the same connections.
LEMMA LeasesKept ==
  ASSUME Leases, UNCHANGED <<client, leases>>,
         \A s \in S : /\ Uses(s)' <=> Uses(s)
                      /\ Uses(s) => sess'[s].client = sess[s].client
                      /\ sess'[s].pc = "dial" => sess[s].pc = "dial"
  PROVE  Leases'
<1>1. \A s, c : Holds(s, c)' <=> sess'[s].client = c /\ Uses(s)'
  BY Zenon DEF Holds, Uses
<1>2. \A c : {s \in S : Holds(s, c)'} = {s \in S : Holds(s, c)}
  BY <1>1, HoldsUses, Zenon
<1>3. LeasesHeld'
  BY <1>2, Zenon DEF Leases, LeasesHeld
<1> QED
  BY <1>3, Zenon DEF Leases

\* A step of one session that keeps what it uses.
LEMMA LeasesKeptBy ==
  ASSUME Leases, UNCHANGED <<client, leases>>, NEW s \in S,
         \A t \in S \ {s} : sess'[t] = sess[t],
         Uses(s)' <=> Uses(s), Uses(s) => sess'[s].client = sess[s].client,
         sess'[s].pc = "dial" => sess[s].pc = "dial"
  PROVE  Leases'
<1>1. \A t \in S \ {s} : Uses(t)' <=> Uses(t)
  BY Zenon DEF Uses
<1> QED
  BY <1>1, LeasesKept, Zenon

\* get_client gives a lease.
LEMMA LeasesTaken ==
  ASSUME Types, Leases, NEW s \in S, NEW c \in S,
         \A t \in S \ {s} : sess'[t] = sess[t],
         ~Uses(s), Uses(s)', sess'[s].client = c,
         \A t \in S : sess'[t].pc # "dial",
         client = 0 \/ client = c, client' = c,
         leases' = [leases EXCEPT ![c] = leases[c] + 1]
  PROVE  Leases'
<1>1. \A t, d : Holds(t, d)' <=> sess'[t].client = d /\ Uses(t)'
  BY Zenon DEF Holds, Uses
<1>2. \A t \in S \ {s} : Uses(t)' <=> Uses(t)
  BY Zenon DEF Uses
<1>3. \A d \in S \ {c} : {t \in S : Holds(t, d)'} = Holders(d)
  BY <1>1, <1>2, HoldsUses, Zenon DEF Holders
<1>4. {t \in S : Holds(t, c)'} = Holders(c) \cup {s}
  BY <1>1, <1>2, HoldsUses, Zenon DEF Holders
<1>5. s \notin Holders(c)
  BY HoldsUses, Zenon DEF Holders
<1>6. Cardinality({t \in S : Holds(t, c)'}) = Cardinality(Holders(c)) + 1
  BY <1>4, <1>5, HoldersFinite, FS_AddElement, Zenon
<1>7. \A d \in S : leases[d] = Cardinality(Holders(d)) /\ (leases[d] > 0 <=> client = d)
  BY Zenon DEF Leases, LeasesHeld, Holders
<1>8. leases \in [S -> Int]
  BY Zenon DEF Types
<1>9. leases'[c] = leases[c] + 1 /\ \A d \in S \ {c} : leases'[d] = leases[d]
  BY <1>8, Zenon
<1>10. ASSUME NEW d \in S
       PROVE  leases'[d] = Cardinality({t \in S : Holds(t, d)'}) /\ (leases'[d] > 0 <=> client' = d)
  <2>1. CASE d = c
    <3>1. leases'[d] = Cardinality({t \in S : Holds(t, d)'})
      BY <1>6, <1>7, <1>9, <2>1, Zenon
    <3>2. leases[c] \in Nat
      BY <1>7, HoldersFinite, Zenon
    <3>3. leases'[d] > 0
      BY <1>9, <2>1, <3>2, SMT
    <3> QED
      BY <2>1, <3>1, <3>3, Zenon
  <2>2. CASE d # c
    <3>1. leases'[d] = leases[d] /\ {t \in S : Holds(t, d)'} = Holders(d)
      BY <1>3, <1>9, <2>2, Zenon
    <3>2. client # d
      BY <2>2, SMT DEF S
    <3> QED
      BY <1>7, <2>2, <3>1, <3>2, Zenon
  <2> QED
    BY <2>1, <2>2
<1>11. LeasesHeld'
  BY <1>10, Zenon DEF LeasesHeld
<1>12. \A t \in S : Uses(t)' => sess'[t].client \in S
  BY <1>2, Zenon DEF Leases
<1> QED
  BY <1>11, <1>12, Zenon DEF Leases

\* release.
LEMMA LeasesReleased ==
  ASSUME Types, Leases, NEW s \in S, NEW c \in S, sess[s].client = c,
         \A t \in S \ {s} : sess'[t] = sess[t],
         Uses(s), ~Uses(s)', sess'[s].pc # "dial", Release(c)
  PROVE  Leases'
<1>1. \A t, d : Holds(t, d)' <=> sess'[t].client = d /\ Uses(t)'
  BY Zenon DEF Holds, Uses
<1>2. \A t \in S \ {s} : Uses(t)' <=> Uses(t)
  BY Zenon DEF Uses
<1>3. \A d \in S \ {c} : {t \in S : Holds(t, d)'} = Holders(d)
  BY <1>1, <1>2, HoldsUses, Zenon DEF Holders
<1>4. {t \in S : Holds(t, c)'} = Holders(c) \ {s}
  BY <1>1, <1>2, HoldsUses, Zenon DEF Holders
<1>5. s \in Holders(c)
  BY HoldsUses, Zenon DEF Holders
<1>6. Cardinality({t \in S : Holds(t, c)'}) = Cardinality(Holders(c)) - 1
  BY <1>4, <1>5, HoldersFinite, FS_RemoveElement, Zenon
<1>7. \A d \in S : leases[d] = Cardinality(Holders(d)) /\ (leases[d] > 0 <=> client = d)
  BY Zenon DEF Leases, LeasesHeld, Holders
<1>8. leases \in [S -> Int]
  BY Zenon DEF Types
<1>9. leases'[c] = leases[c] - 1 /\ \A d \in S \ {c} : leases'[d] = leases[d]
  BY <1>8, Zenon DEF Release
<1>10. leases[c] \in Nat /\ leases[c] # 0
  <2>1. leases[c] \in Nat
    BY <1>7, HoldersFinite, Zenon
  <2>2. Holders(c) # {} /\ IsFiniteSet(Holders(c)) /\ leases[c] = Cardinality(Holders(c))
    BY <1>5, <1>7, HoldersFinite, Zenon
  <2> QED
    BY <2>1, <2>2, FS_EmptySet, Zenon
<1>11. client = c
  BY <1>7, <1>10, SMT
<1>12. 0 \notin S
  BY SMT DEF S
<1>13. \/ leases[c] = 1 /\ client' = 0
       \/ leases[c] # 1 /\ client' = c
  BY <1>11, Zenon DEF Release
<1>14. ASSUME NEW d \in S
       PROVE  leases'[d] = Cardinality({t \in S : Holds(t, d)'}) /\ (leases'[d] > 0 <=> client' = d)
  <2>1. CASE d = c
    <3>1. leases'[d] = Cardinality({t \in S : Holds(t, d)'})
      BY <1>6, <1>7, <1>9, <2>1, Zenon
    <3>2. leases'[d] > 0 <=> client' = d
      BY <1>9, <1>10, <1>12, <1>13, <2>1, SMT
    <3> QED
      BY <3>1, <3>2
  <2>2. CASE d # c
    <3>1. leases'[d] = leases[d] /\ {t \in S : Holds(t, d)'} = Holders(d)
      BY <1>3, <1>9, <2>2, Zenon
    <3>2. client # d /\ client' # d
      BY <1>11, <1>12, <1>13, <2>2, Zenon
    <3> QED
      BY <1>7, <2>2, <3>1, <3>2, Zenon
  <2> QED
    BY <2>1, <2>2
<1>15. LeasesHeld'
  BY <1>14, Zenon DEF LeasesHeld
<1>16. \A t \in S : Uses(t)' => sess'[t].client \in S
  BY <1>2, Zenon DEF Leases
<1>17. \A t \in S : sess'[t].pc # "dial"
  BY <1>11, <1>12, Zenon DEF Leases
<1> QED
  BY <1>15, <1>16, <1>17, Zenon DEF Leases

LEMMA LeasesStep ==
  ASSUME Types, Phases, Leases, [Next]_vars
  PROVE  Leases'
<1>1. CASE UNCHANGED core
  <2>1. UNCHANGED <<sess, client, leases>>
    BY <1>1, Zenon DEF core
  <2> QED
    BY <2>1, LeasesKept, Zenon DEF Uses
<1>2. ASSUME NEW i \in Ids, Open(i) PROVE Leases'
  <2>1. UNCHANGED <<client, leases>>
    BY <1>2, Zenon DEF Open, pool
  <2>2. CASE UNCHANGED sess
    BY <2>1, <2>2, LeasesKept, Zenon DEF Uses
  <2>3. CASE \E s \in S : s = opened + 1 /\ Moves(s, "opening", "none", "none", 0)
    <3>1. PICK s \in S : s = opened + 1 /\ Moves(s, "opening", "none", "none", 0)
      BY <2>3
    <3>2. s > opened
      BY <3>1, LimitsAssumption, SMT DEF Types, S
    <3>3. sess[s].pc = "none" /\ sess[s].setup = "none"
      BY <3>2, Zenon DEF Phases, PhaseOf
    <3>4. ~Uses(s) /\ ~Uses(s)' /\ sess'[s].pc # "dial"
      BY <3>1, <3>3, SMT DEF Uses, Moves
    <3>5. \A t \in S \ {s} : sess'[t] = sess[t]
      BY <3>1, Zenon DEF Moves
    <3> QED
      BY <2>1, <3>4, <3>5, LeasesKeptBy, Zenon
  <2> QED
    BY <1>2, <2>2, <2>3, OpenMoves, Zenon
<1>3. ASSUME NEW i \in Ids, Close(i) \/ Input(i) PROVE Leases'
  <2>1. UNCHANGED <<client, leases>>
    BY <1>3, Zenon DEF Close, Input, pool
  <2>2. CASE UNCHANGED sess
    BY <2>1, <2>2, LeasesKept, Zenon DEF Uses
  <2>3. CASE sessions[i] # 0 /\ sess' = [sess EXCEPT ![sessions[i]].cancelled = TRUE]
    <3>1. PICK s \in S : Same(s, sess[s].pc)
      BY <2>3, CancelMoves, Zenon
    <3>2. Uses(s)' <=> Uses(s)
      BY <3>1, Zenon DEF Uses, Same, Moves
    <3>3. /\ \A t \in S \ {s} : sess'[t] = sess[t]
          /\ sess'[s].client = sess[s].client /\ sess'[s].pc = sess[s].pc
      BY <3>1, Zenon DEF Same, Moves
    <3> QED
      BY <2>1, <3>2, <3>3, LeasesKeptBy, Zenon
  <2> QED
    BY <1>3, <2>2, <2>3, Zenon DEF Close, Input
<1>4. ASSUME NEW s \in S, GetClient(s) PROVE Leases'
  <2>1. kind = "ssh" /\ sess[s].pc = "opening" /\ ~Dialing /\ client' = client
    BY <1>4, Zenon DEF GetClient
  <2>2. sess[s].setup = "none"
    BY <2>1, Zenon DEF Phases, PhaseOf
  <2>3. ~Uses(s)
    BY <2>1, <2>2, SMT DEF Uses
  <2>4. CASE Same(s, "delete") /\ UNCHANGED leases
    <3>1. ~Uses(s)' /\ sess'[s].pc # "dial"
      BY <2>2, <2>4, SMT DEF Uses, Same, Moves
    <3>2. \A t \in S \ {s} : sess'[t] = sess[t]
      BY <2>4, Zenon DEF Same, Moves
    <3> QED
      BY <2>1, <2>3, <2>4, <3>1, <3>2, LeasesKeptBy, Zenon
  <2>5. CASE client = 0 /\ Same(s, "dial") /\ UNCHANGED leases
    <3>1. ~Uses(s)'
      BY <2>2, <2>5, SMT DEF Uses, Same, Moves
    <3>2. \A t \in S \ {s} : sess'[t] = sess[t] /\ (Uses(t)' <=> Uses(t))
      BY <2>5, Zenon DEF Same, Moves, Uses
    <3>3. \A t, c : Holds(t, c)' <=> sess'[t].client = c /\ Uses(t)'
      BY Zenon DEF Holds, Uses
    <3>4. \A c : {t \in S : Holds(t, c)'} = {t \in S : Holds(t, c)}
      BY <2>3, <3>1, <3>2, <3>3, HoldsUses, Zenon
    <3>5. LeasesHeld'
      BY <2>1, <2>5, <3>4, Zenon DEF Leases, LeasesHeld
    <3>6. \A t \in S \ {s} : sess'[t].pc # "dial"
      BY <2>1, <3>2, Zenon DEF Dialing
    <3>7. \A t \in S : Uses(t)' => sess'[t].client \in S
      BY <3>1, <3>2, Zenon DEF Leases
    <3> QED
      BY <2>1, <2>5, <3>5, <3>6, <3>7, Zenon DEF Leases
  <2>6. CASE /\ client # 0 /\ leases' = [leases EXCEPT ![client] = @ + 1]
             /\ Moves(s, "leased", sess[s].setup, sess[s].backend, client)
    <3>1. client \in S
      BY <2>6, LimitsAssumption, SMT DEF Types, S
    <3>2. leases' = [leases EXCEPT ![client] = leases[client] + 1]
      BY <2>6, Zenon
    <3>3. Uses(s)' /\ sess'[s].client = client /\ \A t \in S \ {s} : sess'[t] = sess[t]
      BY <2>6, Zenon DEF Moves, Uses
    <3>4. \A t \in S : sess'[t].pc # "dial"
      BY <2>1, <2>6, <3>3, SMT DEF Dialing, Moves
    <3> QED
      BY <2>1, <2>3, <3>1, <3>2, <3>3, <3>4, LeasesTaken, Zenon
  <2> QED
    BY <1>4, <2>4, <2>5, <2>6, GetClientMoves, Zenon
<1>5. ASSUME NEW s \in S, Dial(s) PROVE Leases'
  <2>1. sess[s].pc = "dial"
    BY <1>5, Zenon DEF Dial
  <2>2. sess[s].setup = "none"
    BY <2>1, Zenon DEF Phases, PhaseOf
  <2>3. ~Uses(s)
    BY <2>1, <2>2, SMT DEF Uses
  <2>4. CASE Same(s, "delete") /\ UNCHANGED <<client, leases>>
    <3>1. ~Uses(s)' /\ sess'[s].pc # "dial"
      BY <2>2, <2>4, SMT DEF Uses, Same, Moves
    <3>2. \A t \in S \ {s} : sess'[t] = sess[t]
      BY <2>4, Zenon DEF Same, Moves
    <3> QED
      BY <2>3, <2>4, <3>1, <3>2, LeasesKeptBy, Zenon
  <2>5. CASE /\ client' = s /\ leases' = [leases EXCEPT ![s] = 1]
             /\ Moves(s, "leased", sess[s].setup, sess[s].backend, s)
    <3>1. client = 0
      BY <2>1, Zenon DEF Leases
    <3>2. ~(leases[s] > 0) /\ leases[s] = Cardinality(Holders(s))
      <4>1. client # s
        BY <3>1, SMT DEF S
      <4> QED
        BY <4>1, Zenon DEF Leases, LeasesHeld, Holders
    <3>3. leases[s] + 1 = 1
      <4>1. leases[s] \in Nat
        BY <3>2, HoldersFinite, Zenon
      <4> QED
        BY <3>2, <4>1, SMT
    <3>4. leases' = [leases EXCEPT ![s] = leases[s] + 1]
      BY <2>5, <3>3, Zenon
    <3>5. Uses(s)' /\ sess'[s].client = s /\ \A t \in S \ {s} : sess'[t] = sess[t]
      BY <2>5, Zenon DEF Moves, Uses
    <3>6. \A t \in S \ {s} : sess[t].pc # "dial"
      BY <2>1, Zenon DEF Leases
    <3>7. \A t \in S : sess'[t].pc # "dial"
      BY <2>5, <3>5, <3>6, SMT DEF Moves
    <3> QED
      BY <2>3, <2>5, <3>1, <3>4, <3>5, <3>7, LeasesTaken, Zenon
  <2> QED
    BY <1>5, <2>4, <2>5, DialMoves, Zenon
<1>6. ASSUME NEW s \in S, StartSetup(s) PROVE Leases'
  <2>1. sess[s].pc = "leased" /\ Moves(s, "result", "session", sess[s].backend, sess[s].client)
    BY <1>6, StartSetupMoves, Zenon DEF StartSetup
  <2>2. UNCHANGED <<client, leases>>
    BY <1>6, Zenon DEF StartSetup, pool
  <2>3. PhaseOf(s)
    BY Zenon DEF Phases
  <2>4. /\ Uses(s)' <=> Uses(s)
        /\ sess'[s].client = sess[s].client /\ sess'[s].pc # "dial"
    BY <2>1, <2>3, SMT DEF PhaseOf, Uses, Moves, Same, Closed
  <2>5. \A t \in S \ {s} : sess'[t] = sess[t]
    BY <2>1, Zenon DEF Moves, Same, Closed
  <2> QED
    BY <2>2, <2>4, <2>5, LeasesKeptBy, Zenon
<1>7. ASSUME NEW s \in S, OpenResult(s) PROVE Leases'
  <2>1. sess[s].pc = "result" /\ (Same(s, "delete") \/ (sess[s].setup = "offer" /\ Moves(s, "loop", "taken", "open", sess[s].client)))
    BY <1>7, OpenResultMoves, Zenon DEF OpenResult
  <2>2. UNCHANGED <<client, leases>>
    BY <1>7, Zenon DEF OpenResult, pool
  <2>3. PhaseOf(s)
    BY Zenon DEF Phases
  <2>4. /\ Uses(s)' <=> Uses(s)
        /\ sess'[s].client = sess[s].client /\ sess'[s].pc # "dial"
    BY <2>1, <2>3, SMT DEF PhaseOf, Uses, Moves, Same, Closed
  <2>5. \A t \in S \ {s} : sess'[t] = sess[t]
    BY <2>1, Zenon DEF Moves, Same, Closed
  <2> QED
    BY <2>2, <2>4, <2>5, LeasesKeptBy, Zenon
<1>8. ASSUME NEW s \in S, SetupGivesUp(s) PROVE Leases'
  <2>1. sess[s].setup = "offer" /\ Moves(s, sess[s].pc, "drop", sess[s].backend, sess[s].client)
    BY <1>8, SetupMoves, Zenon DEF SetupGivesUp, Setups
  <2>2. UNCHANGED <<client, leases>>
    BY <1>8, Zenon DEF SetupGivesUp, pool
  <2>3. PhaseOf(s)
    BY Zenon DEF Phases
  <2>4. /\ Uses(s)' <=> Uses(s)
        /\ sess'[s].client = sess[s].client /\ sess'[s].pc # "dial"
    BY <2>1, <2>3, SMT DEF PhaseOf, Uses, Moves, Same, Closed
  <2>5. \A t \in S \ {s} : sess'[t] = sess[t]
    BY <2>1, Zenon DEF Moves, Same, Closed
  <2> QED
    BY <2>2, <2>4, <2>5, LeasesKeptBy, Zenon
<1>9. ASSUME NEW s \in S, OpenPty(s) PROVE Leases'
  <2>1. kind = "pty" /\ sess[s].pc = "opening" /\ (Same(s, "delete") \/ Moves(s, "loop", sess[s].setup, "open", sess[s].client))
    BY <1>9, OpenedMoves, Zenon DEF OpenPty
  <2>2. UNCHANGED <<client, leases>>
    BY <1>9, Zenon DEF OpenPty, pool
  <2>3. PhaseOf(s)
    BY Zenon DEF Phases
  <2>4. /\ Uses(s)' <=> Uses(s)
        /\ sess'[s].client = sess[s].client /\ sess'[s].pc # "dial"
    BY <2>1, <2>3, SMT DEF PhaseOf, Uses, Moves, Same, Closed
  <2>5. \A t \in S \ {s} : sess'[t] = sess[t]
    BY <2>1, Zenon DEF Moves, Same, Closed
  <2> QED
    BY <2>2, <2>4, <2>5, LeasesKeptBy, Zenon
<1>10. ASSUME NEW s \in S, OpenRpty(s) PROVE Leases'
  <2>1. kind = "rpty" /\ sess[s].pc = "opening" /\ (Same(s, "delete") \/ Moves(s, "loop", sess[s].setup, "open", sess[s].client))
    BY <1>10, OpenedMoves, Zenon DEF OpenRpty
  <2>2. UNCHANGED <<client, leases>>
    BY <1>10, Zenon DEF OpenRpty, pool
  <2>3. PhaseOf(s)
    BY Zenon DEF Phases
  <2>4. /\ Uses(s)' <=> Uses(s)
        /\ sess'[s].client = sess[s].client /\ sess'[s].pc # "dial"
    BY <2>1, <2>3, SMT DEF PhaseOf, Uses, Moves, Same, Closed
  <2>5. \A t \in S \ {s} : sess'[t] = sess[t]
    BY <2>1, Zenon DEF Moves, Same, Closed
  <2> QED
    BY <2>2, <2>4, <2>5, LeasesKeptBy, Zenon
<1>11. ASSUME NEW s \in S, SessionCancelled(s) PROVE Leases'
  <2>1. sess[s].pc = "loop" /\ Closed(s, "wait")
    BY <1>11, CloseMoves, Zenon DEF SessionCancelled
  <2>2. UNCHANGED <<client, leases>>
    BY <1>11, Zenon DEF SessionCancelled, pool
  <2>3. PhaseOf(s)
    BY Zenon DEF Phases
  <2>4. /\ Uses(s)' <=> Uses(s)
        /\ sess'[s].client = sess[s].client /\ sess'[s].pc # "dial"
    BY <2>1, <2>3, SMT DEF PhaseOf, Uses, Moves, Same, Closed
  <2>5. \A t \in S \ {s} : sess'[t] = sess[t]
    BY <2>1, Zenon DEF Moves, Same, Closed
  <2> QED
    BY <2>2, <2>4, <2>5, LeasesKeptBy, Zenon
<1>12. ASSUME NEW s \in S, ReadDone(s) PROVE Leases'
  <2>1. sess[s].pc = "loop" /\ Closed(s, "wait")
    BY <1>12, CloseMoves, Zenon DEF ReadDone
  <2>2. UNCHANGED <<client, leases>>
    BY <1>12, Zenon DEF ReadDone, pool
  <2>3. PhaseOf(s)
    BY Zenon DEF Phases
  <2>4. /\ Uses(s)' <=> Uses(s)
        /\ sess'[s].client = sess[s].client /\ sess'[s].pc # "dial"
    BY <2>1, <2>3, SMT DEF PhaseOf, Uses, Moves, Same, Closed
  <2>5. \A t \in S \ {s} : sess'[t] = sess[t]
    BY <2>1, Zenon DEF Moves, Same, Closed
  <2> QED
    BY <2>2, <2>4, <2>5, LeasesKeptBy, Zenon
<1>13. ASSUME NEW s \in S, CloseOnCancel(s) PROVE Leases'
  <2>1. sess[s].pc = "loop" /\ Closed(s, sess[s].pc)
    BY <1>13, CloseMoves, Zenon DEF CloseOnCancel
  <2>2. UNCHANGED <<client, leases>>
    BY <1>13, Zenon DEF CloseOnCancel, pool
  <2>3. PhaseOf(s)
    BY Zenon DEF Phases
  <2>4. /\ Uses(s)' <=> Uses(s)
        /\ sess'[s].client = sess[s].client /\ sess'[s].pc # "dial"
    BY <2>1, <2>3, SMT DEF PhaseOf, Uses, Moves, Same, Closed
  <2>5. \A t \in S \ {s} : sess'[t] = sess[t]
    BY <2>1, Zenon DEF Moves, Same, Closed
  <2> QED
    BY <2>2, <2>4, <2>5, LeasesKeptBy, Zenon
<1>14. ASSUME NEW s \in S, DeleteSession(s) PROVE Leases'
  <2>1. sess[s].pc = "delete" /\ Same(s, "ended")
    BY <1>14, EndMoves, Zenon DEF DeleteSession
  <2>2. UNCHANGED <<client, leases>>
    BY <1>14, Zenon DEF DeleteSession, pool
  <2>3. PhaseOf(s)
    BY Zenon DEF Phases
  <2>4. /\ Uses(s)' <=> Uses(s)
        /\ sess'[s].client = sess[s].client /\ sess'[s].pc # "dial"
    BY <2>1, <2>3, SMT DEF PhaseOf, Uses, Moves, Same, Closed
  <2>5. \A t \in S \ {s} : sess'[t] = sess[t]
    BY <2>1, Zenon DEF Moves, Same, Closed
  <2> QED
    BY <2>2, <2>4, <2>5, LeasesKeptBy, Zenon
<1>15. ASSUME NEW s \in S, SetupSession(s) PROVE Leases'
  <2>1. sess[s].setup = "session" /\ PhaseOf(s)
    BY <1>15, Zenon DEF SetupSession, Phases
  <2>2. CASE sess' = [sess EXCEPT ![s].setup = "offer"] /\ UNCHANGED pool
    <3>1. Moves(s, sess[s].pc, "offer", sess[s].backend, sess[s].client)
      BY <2>2, SetupMoves, Zenon DEF Setups
    <3>2. /\ Uses(s)' /\ Uses(s)
          /\ sess'[s].client = sess[s].client /\ sess'[s].pc = sess[s].pc
      BY <2>1, <3>1, Zenon DEF Uses, Moves
    <3>3. \A t \in S \ {s} : sess'[t] = sess[t]
      BY <3>1, Zenon DEF Moves
    <3> QED
      BY <2>2, <3>2, <3>3, LeasesKeptBy, Zenon DEF pool
  <2>3. CASE sess' = [sess EXCEPT ![s].setup = "failed"] /\ Release(sess[s].client)
    <3>1. Moves(s, sess[s].pc, "failed", sess[s].backend, sess[s].client)
      BY <2>3, SetupMoves, Zenon DEF Setups
    <3>2. Uses(s) /\ ~Uses(s)' /\ sess'[s].pc # "dial"
      BY <2>1, <3>1, SMT DEF Uses, Moves, PhaseOf
    <3>3. sess[s].client \in S
      BY <3>2, Zenon DEF Leases
    <3>4. \A t \in S \ {s} : sess'[t] = sess[t]
      BY <3>1, Zenon DEF Moves
    <3> QED
      BY <2>3, <3>2, <3>3, <3>4, LeasesReleased, Zenon
  <2> QED
    BY <1>15, <2>2, <2>3, Zenon DEF SetupSession
<1>16. ASSUME NEW s \in S, SetupDrops(s) PROVE Leases'
  <2>1. sess[s].setup = "drop" /\ PhaseOf(s) /\ Release(sess[s].client)
    BY <1>16, Zenon DEF SetupDrops, Phases
  <2>2. Moves(s, sess[s].pc, "failed", sess[s].backend, sess[s].client)
    BY <1>16, SetupMoves, Zenon DEF SetupDrops, Setups
  <2>3. Uses(s) /\ ~Uses(s)' /\ sess'[s].pc # "dial"
    BY <2>1, <2>2, SMT DEF Uses, Moves, PhaseOf
  <2>4. sess[s].client \in S
    BY <2>3, Zenon DEF Leases
  <2>5. \A t \in S \ {s} : sess'[t] = sess[t]
    BY <2>2, Zenon DEF Moves
  <2> QED
    BY <2>1, <2>3, <2>4, <2>5, LeasesReleased, Zenon
<1>17. ASSUME NEW s \in S, Wait(s) PROVE Leases'
  <2>1. sess[s].pc = "wait" /\ PhaseOf(s)
    BY <1>17, Zenon DEF Wait, Phases
  <2>2. Same(s, "delete")
    BY <1>17, EndMoves, Zenon
  <2>3. \A t \in S \ {s} : sess'[t] = sess[t]
    BY <2>2, Zenon DEF Same, Moves
  <2>4. CASE kind = "ssh" /\ Release(sess[s].client)
    <3>1. Uses(s) /\ ~Uses(s)' /\ sess'[s].pc # "dial"
      BY <2>1, <2>2, <2>4, SMT DEF Uses, Same, Moves, PhaseOf
    <3>2. sess[s].client \in S
      BY <3>1, Zenon DEF Leases
    <3> QED
      BY <2>3, <2>4, <3>1, <3>2, LeasesReleased, Zenon
  <2>5. CASE kind # "ssh" /\ UNCHANGED pool
    <3>1. ~Uses(s) /\ ~Uses(s)' /\ sess'[s].pc # "dial"
      BY <2>1, <2>2, <2>5, SMT DEF Uses, Same, Moves, PhaseOf
    <3> QED
      BY <2>3, <2>5, <3>1, LeasesKeptBy, Zenon DEF pool
  <2> QED
    BY <1>17, <2>4, <2>5, Zenon DEF Wait
<1>18. ASSUME NEW s \in S, TerminalStep(s) PROVE Leases'
  <2>1. UNCHANGED <<sess, client, leases>>
    BY <1>18, Zenon DEF TerminalStep, ReadTerminal, ReadChunk, ReadEnd, ShellExits, TerminalEnds,
                       RptyOutput, RptyEnds, pool
  <2> QED
    BY <2>1, LeasesKept, Zenon DEF Uses
<1>19. CASE ClientReceives \/ ServerReceives \/ ReceiverEnds \/ BreakLink
  <2>1. UNCHANGED <<sess, client, leases>>
    BY <1>19, Zenon DEF ClientReceives, ServerReceives, ReceiverEnds, BreakLink, pool
  <2> QED
    BY <2>1, LeasesKept, Zenon DEF Uses
<1> QED
  BY <1>1, <1>2, <1>3, <1>4, <1>5, <1>6, <1>7, <1>8, <1>9, <1>10, <1>11, <1>12, <1>13, <1>14, <1>15, <1>16, <1>17, <1>18, <1>19, StepCases, ZenonT(60) DEF SessionStep

-----------------------------------------------------------------------------
(* Streams.                                                                *)

\* A session that a step does not touch.
Aside(t) ==
  /\ sess'[t] = sess[t] /\ chunks'[t] = chunks[t] /\ term'[t] = term[t] /\ reader'[t] = reader[t]
  /\ t \in rpty_map' => t \in rpty_map
  /\ Under(s2c', "START", t) => Under(s2c, "START", t)
  /\ Under(c2s', "STOP", t) => Under(c2s, "STOP", t)
  /\ Under(c2s', "DATA", t) => Under(c2s, "DATA", t)

LEMMA StreamFrame ==
  ASSUME NEW t \in S, StreamOf(t), UNCHANGED <<kind, link>>, Aside(t)
  PROVE  StreamOf(t)'
BY Zenon DEF StreamOf, Told, Aside

LEMMA StreamsOne ==
  ASSUME Streams, NEW s \in S, UNCHANGED <<kind, link>>, \A t \in S \ {s} : Aside(t),
         StreamOf(s)', StartedOnce(s2c'), DataBeforeStop(c2s')
  PROVE  Streams'
<1>1. \A t \in S : StreamOf(t)'
  <2> SUFFICES ASSUME NEW t \in S, t # s PROVE StreamOf(t)'
    BY Zenon
  <2>1. StreamOf(t) /\ Aside(t)
    BY Zenon DEF Streams
  <2> QED
    BY <2>1, StreamFrame, Zenon
<1> QED
  BY <1>1, Zenon DEF Streams

\* A step that sends and receives nothing.
LEMMA StreamsQuiet ==
  ASSUME Streams, NEW s \in S, UNCHANGED <<kind, link, s2c, c2s, rpty_map, chunks>>,
         \A t \in S \ {s} : sess'[t] = sess[t] /\ term'[t] = term[t] /\ reader'[t] = reader[t],
         StreamOf(s)'
  PROVE  Streams'
<1>1. \A t \in S \ {s} : Aside(t)
  BY Zenon DEF Aside
<1>2. StartedOnce(s2c') /\ DataBeforeStop(c2s')
  BY Zenon DEF Streams
<1> QED
  BY <1>1, <1>2, StreamsOne, Zenon

\* A step beside the remote terminals.
LEMMA StreamsLocal ==
  ASSUME Phases, Streams, kind # "rpty", UNCHANGED <<kind, link, s2c, c2s, rpty_map, chunks>>,
         \A t \in S : sess'[t].backend = "none" => sess[t].backend = "none"
  PROVE  Streams'
<1>1. s2c' = <<>>
  BY Zenon DEF Phases
<1>2. \A t \in S : ~Under(s2c', "START", t)
  BY <1>1, SMT DEF Under
<1>3. \A t \in S : StreamOf(t)'
  <2> SUFFICES ASSUME NEW t \in S PROVE StreamOf(t)'
    OBVIOUS
  <2>1. StreamOf(t)
    BY Zenon DEF Streams
  <2> QED
    BY <1>2, <2>1, Zenon DEF StreamOf
<1> QED
  BY <1>3, Zenon DEF Streams

\* backend.close of a remote terminal: the server takes no more of it.
LEMMA StreamsClose ==
  ASSUME Types, Phases, Streams, NEW s \in S, NEW p, Closed(s, p), p # "none", p # "opening",
         CloseBackend(s), sess[s].pc = "loop", UNCHANGED <<kind, link, reader, c2s>>
  PROVE  Streams'
<1>1. /\ \A t \in S \ {s} : sess'[t] = sess[t]
      /\ sess'[s].backend = "closed" /\ sess'[s].pc = p
  BY Zenon DEF Closed, Moves
<1>2. StreamOf(s)
  BY Zenon DEF Streams
<1>3. CASE sess[s].backend # "open" /\ UNCHANGED <<term, rpty_map, chunks, s2c>>
  <2>1. StreamOf(s)'
    BY <1>1, <1>2, <1>3, SMT DEF StreamOf, Told
  <2> QED
    BY <1>1, <1>3, <2>1, StreamsQuiet, Zenon
<1>4. CASE /\ kind = "rpty" /\ chunks' = [chunks EXCEPT ![s].done = TRUE]
           /\ rpty_map' = rpty_map \ {s} /\ UNCHANGED term
           /\ s2c' = s2c \/ s2c' = Append(s2c, [kind |-> "STOP", s |-> s])
  <2>1. /\ chunks'[s].overflow = chunks[s].overflow /\ chunks'[s].lost = chunks[s].lost
        /\ \A t \in S \ {s} : chunks'[t] = chunks[t]
    BY <1>4, ChunksDone, Zenon
  <2>2. s2c \in Seq(ToClientRec) /\ [kind |-> "STOP", s |-> s] \in ToClientRec
    BY Zenon DEF Types, ToClientRec
  <2>3. \A t \in S : Under(s2c', "START", t) <=> Under(s2c, "START", t)
    <3>1. CASE s2c' = s2c
      BY <3>1, Zenon
    <3>2. CASE s2c' = Append(s2c, [kind |-> "STOP", s |-> s])
      <4>1. \A t \in S : Under(s2c', "START", t) <=>
                           Under(s2c, "START", t) \/ ("START" = "STOP" /\ t = s)
        BY <2>2, <3>2, AppendUnder, Zenon
      <4> QED
        BY <4>1, SMT
    <3> QED
      BY <1>4, <3>1, <3>2
  <2>4. StartedOnce(s2c')
    <3>1. StartedOnce(s2c) /\ [kind |-> "STOP", s |-> s].kind # "START"
      BY SMT DEF Streams
    <3>2. StartedOnce(Append(s2c, [kind |-> "STOP", s |-> s]))
      BY <2>2, <3>1, OneStart, Zenon
    <3> QED
      BY <1>4, <3>1, <3>2, Zenon
  <2>5. DataBeforeStop(c2s')
    BY Zenon DEF Streams
  <2>6. StreamOf(s)'
    BY <1>1, <1>2, <1>4, <2>1, <2>3, SMT DEF StreamOf, Told
  <2>7. \A t \in S \ {s} : Aside(t)
    BY <1>1, <1>4, <2>1, <2>3, Zenon DEF Aside
  <2> QED
    BY <2>4, <2>5, <2>6, <2>7, StreamsOne, Zenon
<1>5. CASE kind # "rpty" /\ UNCHANGED <<rpty_map, chunks, s2c>>
  <2>1. \A t \in S : sess'[t].backend = "none" => sess[t].backend = "none"
    BY <1>1, SMT
  <2> QED
    BY <1>5, <2>1, StreamsLocal, Zenon
<1> QED
  BY <1>3, <1>4, <1>5, CloseBackendEffect, Zenon

\* HandleRptyEvent.
LEMMA StreamsServer ==
  ASSUME Types, Phases, Streams, ServerReceives
  PROVE  Streams'
<1> DEFINE m == Head(c2s)
<1>1. c2s # <<>> /\ c2s' = Tail(c2s) /\ c2s \in Seq(ToServerRec)
  BY Zenon DEF ServerReceives, Types
<1>2. /\ m \in ToServerRec /\ Under(c2s, m.kind, m.s)
      /\ \A k, t : Under(c2s', k, t) => Under(c2s, k, t)
  BY <1>1, TailMessage, Zenon
<1>3. DataBeforeStop(c2s') /\ (m.kind = "STOP" => ~Under(c2s', "DATA", m.s))
  BY <1>1, StopLast, Zenon DEF Streams
<1>4. PICK s \in S : s = m.s
  BY <1>2, Zenon DEF ToServerRec
<1>5. UNCHANGED <<kind, link, sess, reader, term, rpty_map, s2c>>
  BY Zenon DEF ServerReceives
<1>6. StreamOf(s) /\ StartedOnce(s2c')
  BY <1>5, Zenon DEF Streams
<1>7. kind = "rpty" \/ ~Under(s2c, "START", s)
  <2>1. s2c = <<>> => ~Under(s2c, "START", s)
    BY SMT DEF Under
  <2> QED
    BY <2>1, Zenon DEF Phases
<1>8. CASE UNCHANGED chunks
  <2>1. \A t \in S : Aside(t)
    BY <1>2, <1>5, <1>8, Zenon DEF Aside
  <2>2. StreamOf(s)'
    BY <1>5, <1>6, <2>1, StreamFrame, Zenon
  <2> QED
    BY <1>3, <1>5, <1>6, <2>1, <2>2, StreamsOne, Zenon
<1>9. CASE s \in rpty_map /\ m.kind = "STOP" /\ chunks' = [chunks EXCEPT ![s].done = TRUE]
  <2>1. /\ chunks'[s].n = chunks[s].n /\ chunks'[s].done = TRUE
        /\ chunks'[s].overflow = chunks[s].overflow /\ chunks'[s].lost = chunks[s].lost
        /\ \A t \in S \ {s} : chunks'[t] = chunks[t]
    BY <1>9, ChunksDone, Zenon
  <2>2. /\ Under(c2s, "STOP", s) /\ ~Under(c2s', "DATA", s)
        /\ Under(c2s', "STOP", s) => Under(c2s, "STOP", s)
    BY <1>2, <1>3, <1>4, <1>9, Zenon
  <2>3. StreamOf(s)'
    BY <1>5, <1>6, <1>7, <1>9, <2>1, <2>2, SMT DEF StreamOf, Told
  <2>4. \A t \in S \ {s} : Aside(t)
    BY <1>2, <1>5, <2>1, Zenon DEF Aside
  <2> QED
    BY <1>3, <1>5, <1>6, <2>3, <2>4, StreamsOne, Zenon
<1>10. CASE s \in rpty_map /\ Push(s)
  <2>1. \A t \in S \ {s} : chunks'[t] = chunks[t]
    BY <1>10, PushChunks, Zenon
  <2>2. \A t \in S \ {s} : Aside(t)
    BY <1>2, <1>5, <2>1, Zenon DEF Aside
  <2>3. \A k : Under(c2s', k, s) => Under(c2s, k, s)
    BY <1>2, Zenon
  <2>4. \/ chunks'[s] = chunks[s]
        \/ /\ ~chunks[s].done /\ chunks'[s].done = chunks[s].done
           /\ chunks'[s].overflow = chunks[s].overflow /\ chunks'[s].lost = chunks[s].lost
        \/ chunks'[s].done = TRUE /\ chunks'[s].overflow = TRUE /\ ~chunks[s].done
    BY <1>10, PushChunks, Zenon
  <2>5. StreamOf(s)'
    BY <1>5, <1>6, <1>10, <2>3, <2>4, Zenon DEF StreamOf, Told
  <2> QED
    BY <1>3, <1>5, <1>6, <2>2, <2>5, StreamsOne, Zenon
<1> QED
  BY <1>4, <1>8, <1>9, <1>10, Zenon DEF ServerReceives

\* A packet of the client: output, or the end.
LEMMA StreamsSend ==
  ASSUME Types, Streams, NEW s \in S, NEW k \in {"DATA", "STOP"}, ToServer(k, s),
         k = "DATA" => ~Under(c2s, "STOP", s)
  PROVE  /\ DataBeforeStop(c2s')
         /\ \A j, t : Under(c2s', j, t) => Under(c2s, j, t) \/ (j = k /\ t = s)
<1>1. c2s \in Seq(ToServerRec) /\ [kind |-> k, s |-> s] \in ToServerRec
  BY Zenon DEF Types, ToServerRec
<1>2. c2s' = c2s \/ c2s' = Append(c2s, [kind |-> k, s |-> s])
  BY Zenon DEF ToServer
<1>3. [kind |-> k, s |-> s].kind = k /\ [kind |-> k, s |-> s].s = s
  BY Zenon
<1>4. \A j, t : Under(c2s', j, t) => Under(c2s, j, t) \/ (j = k /\ t = s)
  <2>1. CASE c2s' = c2s
    BY <2>1, Zenon
  <2>2. CASE c2s' = Append(c2s, [kind |-> k, s |-> s])
    BY <1>1, <2>2, AppendUnder, ZenonT(60)
  <2> QED
    BY <1>2, <2>1, <2>2
<1>5. DataBeforeStop(c2s)
  BY Zenon DEF Streams
<1>6. DataBeforeStop(c2s')
  BY <1>1, <1>2, <1>3, <1>5, StopLast, Zenon
<1> QED
  BY <1>4, <1>6

\* The client's StartRpty and StopRpty.
LEMMA StreamsClient ==
  ASSUME Types, Phases, Streams, ClientReceives
  PROVE  Streams'
<1> DEFINE m == Head(s2c)
<1>1. s2c # <<>> /\ s2c' = Tail(s2c) /\ s2c \in Seq(ToClientRec) /\ c2s \in Seq(ToServerRec)
  BY Zenon DEF ClientReceives, Types
<1>2. /\ m \in ToClientRec /\ Under(s2c, m.kind, m.s)
      /\ \A k, t : Under(s2c', k, t) => Under(s2c, k, t)
  BY <1>1, TailMessage, Zenon
<1>3. StartedOnce(s2c') /\ (m.kind = "START" => ~Under(s2c', "START", m.s))
  BY <1>1, OneStart, Zenon DEF Streams
<1>4. PICK s \in S : s = m.s
  BY <1>2, Zenon DEF ToClientRec
<1>5. UNCHANGED <<kind, link, sess, reader, chunks, rpty_map>>
  BY Zenon DEF ClientReceives
<1>6. StreamOf(s) /\ DataBeforeStop(c2s)
  BY Zenon DEF Streams
<1>7. kind = "rpty"
  BY <1>1, Zenon DEF Phases
<1>8. CASE m.kind = "START" /\ term' = [term EXCEPT ![s] = "running"] /\ UNCHANGED c2s
  <2>1. TermTo(s, "running")
    BY <1>8, TermPut, Zenon
  <2>2. Under(s2c, "START", s) /\ ~Under(s2c', "START", s)
    BY <1>2, <1>3, <1>4, <1>8, Zenon
  <2>3. StreamOf(s)'
    BY <1>5, <1>6, <1>7, <1>8, <2>1, <2>2, SMT DEF StreamOf, Told, TermTo
  <2>4. \A t \in S \ {s} : Aside(t)
    BY <1>2, <1>5, <1>8, <2>1, Zenon DEF Aside, TermTo
  <2> QED
    BY <1>3, <1>5, <1>6, <1>8, <2>3, <2>4, StreamsOne, Zenon
<1>9. CASE m.kind = "START" /\ ToServer("STOP", s) /\ UNCHANGED term
  <2>1. Under(s2c, "START", s) /\ ~Under(s2c', "START", s)
    BY <1>2, <1>3, <1>4, <1>9, Zenon
  <2>2. /\ DataBeforeStop(c2s')
        /\ \A j, t : Under(c2s', j, t) => Under(c2s, j, t) \/ (j = "STOP" /\ t = s)
    BY <1>9, StreamsSend, SMT
  <2>3. Under(c2s', "DATA", s) => Under(c2s, "DATA", s)
    BY <2>2, SMT
  <2>4. \A t \in S \ {s} : /\ Under(c2s', "DATA", t) => Under(c2s, "DATA", t)
                           /\ Under(c2s', "STOP", t) => Under(c2s, "STOP", t)
    BY <2>2, SMT
  <2>5. StreamOf(s)'
    BY <1>5, <1>6, <1>7, <1>9, <2>1, <2>3, SMT DEF StreamOf, Told
  <2>6. \A t \in S \ {s} : Aside(t)
    BY <1>2, <1>5, <1>9, <2>4, Zenon DEF Aside
  <2> QED
    BY <1>3, <1>5, <2>2, <2>5, <2>6, StreamsOne, Zenon
<1>10. CASE /\ term' = [term EXCEPT ![s] = IF @ = "running" THEN "killed" ELSE @]
            /\ UNCHANGED c2s
  <2>1. TermTo(s, Killed(term[s]))
    BY <1>10, TermPut, Zenon
  <2>2. Under(s2c', "START", s) => Under(s2c, "START", s)
    BY <1>2, Zenon
  <2>3. StreamOf(s)'
    BY <1>5, <1>6, <1>7, <1>10, <2>1, <2>2, SMT DEF StreamOf, Told, TermTo, Killed
  <2>4. \A t \in S \ {s} : Aside(t)
    BY <1>2, <1>5, <1>10, <2>1, Zenon DEF Aside, TermTo
  <2> QED
    BY <1>3, <1>5, <1>6, <1>10, <2>3, <2>4, StreamsOne, Zenon
<1> QED
  BY <1>4, <1>8, <1>9, <1>10, Zenon DEF ClientReceives, ConnectPty

LEMMA StreamsStep ==
  ASSUME Types, Phases, Streams, [Next]_vars
  PROVE  Streams'
<1>0. ASSUME UNCHANGED <<kind, link, s2c, c2s, rpty_map, chunks, sess, term, reader>> PROVE Streams'
  BY <1>0, Zenon DEF Streams, StreamOf, Told
<1>1. CASE UNCHANGED core
  BY <1>0, <1>1, Zenon DEF core
<1>2. ASSUME NEW i \in Ids, Open(i) PROVE Streams'
  <2>1. UNCHANGED <<kind, link, s2c, c2s, rpty_map, chunks, term, reader>>
    BY <1>2, Zenon DEF Open, remote
  <2>2. CASE UNCHANGED sess
    BY <1>0, <2>1, <2>2, Zenon
  <2>3. CASE \E s \in S : s = opened + 1 /\ Moves(s, "opening", "none", "none", 0)
    <3>1. PICK s \in S : s = opened + 1 /\ Moves(s, "opening", "none", "none", 0)
      BY <2>3
    <3>2. s > opened
      BY <3>1, LimitsAssumption, SMT DEF Types, S
    <3>3. sess[s].pc = "none" /\ sess[s].backend = "none" /\ StreamOf(s)
      BY <3>2, Zenon DEF Phases, PhaseOf, Streams
    <3>4. StreamOf(s)'
      BY <2>1, <3>1, <3>3, SMT DEF StreamOf, Told, Moves
    <3>5. \A t \in S \ {s} : sess'[t] = sess[t]
      BY <3>1, Zenon DEF Moves
    <3> QED
      BY <2>1, <3>4, <3>5, StreamsQuiet, Zenon
  <2> QED
    BY <1>2, <2>2, <2>3, OpenMoves, Zenon
<1>3. ASSUME NEW i \in Ids, Close(i) \/ Input(i) PROVE Streams'
  <2>1. UNCHANGED <<kind, link, s2c, c2s, rpty_map, chunks, term, reader>>
    BY <1>3, Zenon DEF Close, Input, remote
  <2>2. CASE UNCHANGED sess
    BY <1>0, <2>1, <2>2, Zenon
  <2>3. CASE sessions[i] # 0 /\ sess' = [sess EXCEPT ![sessions[i]].cancelled = TRUE]
    <3>1. PICK s \in S : Same(s, sess[s].pc)
      BY <2>3, CancelMoves, Zenon
    <3>2. StreamOf(s)
      BY Zenon DEF Streams
    <3>3. StreamOf(s)'
      BY <2>1, <3>1, <3>2, Zenon DEF StreamOf, Told, Same, Moves
    <3>4. \A t \in S \ {s} : sess'[t] = sess[t]
      BY <3>1, Zenon DEF Same, Moves
    <3> QED
      BY <2>1, <3>3, <3>4, StreamsQuiet, Zenon
  <2> QED
    BY <1>3, <2>2, <2>3, Zenon DEF Close, Input
<1>4. ASSUME NEW s \in S, GetClient(s) PROVE Streams'
  <2>1. kind = "ssh"
    BY <1>4, Zenon DEF GetClient
  <2>2. UNCHANGED <<kind, link, s2c, c2s, rpty_map, chunks>>
    BY <1>4, Zenon DEF GetClient, remote
  <2>3. Same(s, "delete") \/ Same(s, "dial") \/ Moves(s, "leased", sess[s].setup, sess[s].backend, client)
    BY <1>4, GetClientMoves, Zenon
  <2>4. \A t \in S : sess'[t].backend = "none" => sess[t].backend = "none"
    BY <2>3, Zenon DEF Moves, Same
  <2>5. kind # "rpty"
    BY <2>1, SMT
  <2> QED
    BY <2>2, <2>4, <2>5, StreamsLocal, Zenon
<1>5. ASSUME NEW s \in S, Dial(s) PROVE Streams'
  <2>1. kind = "ssh"
    BY <1>5, Zenon DEF Dial, Phases, PhaseOf
  <2>2. UNCHANGED <<kind, link, s2c, c2s, rpty_map, chunks>>
    BY <1>5, Zenon DEF Dial, remote
  <2>3. Same(s, "delete") \/ Moves(s, "leased", sess[s].setup, sess[s].backend, s)
    BY <1>5, DialMoves, Zenon
  <2>4. \A t \in S : sess'[t].backend = "none" => sess[t].backend = "none"
    BY <2>3, Zenon DEF Moves, Same
  <2>5. kind # "rpty"
    BY <2>1, SMT
  <2> QED
    BY <2>2, <2>4, <2>5, StreamsLocal, Zenon
<1>6. ASSUME NEW s \in S, StartSetup(s) PROVE Streams'
  <2>1. kind = "ssh"
    BY <1>6, Zenon DEF StartSetup, Phases, PhaseOf
  <2>2. UNCHANGED <<kind, link, s2c, c2s, rpty_map, chunks>>
    BY <1>6, Zenon DEF StartSetup, remote
  <2>3. Moves(s, "result", "session", sess[s].backend, sess[s].client)
    BY <1>6, StartSetupMoves, Zenon
  <2>4. \A t \in S : sess'[t].backend = "none" => sess[t].backend = "none"
    BY <2>3, Zenon DEF Moves, Same
  <2>5. kind # "rpty"
    BY <2>1, SMT
  <2> QED
    BY <2>2, <2>4, <2>5, StreamsLocal, Zenon
<1>7. ASSUME NEW s \in S, OpenResult(s) PROVE Streams'
  <2>1. kind = "ssh"
    BY <1>7, Zenon DEF OpenResult, Phases, PhaseOf
  <2>2. UNCHANGED <<kind, link, s2c, c2s, rpty_map, chunks>>
    BY <1>7, Zenon DEF OpenResult, remote
  <2>3. Same(s, "delete") \/ Moves(s, "loop", "taken", "open", sess[s].client)
    BY <1>7, OpenResultMoves, Zenon
  <2>4. \A t \in S : sess'[t].backend = "none" => sess[t].backend = "none"
    BY <2>3, ZenonT(60) DEF Moves, Same
  <2>5. kind # "rpty"
    BY <2>1, SMT
  <2> QED
    BY <2>2, <2>4, <2>5, StreamsLocal, Zenon
<1>8. ASSUME NEW s \in S, SetupSession(s) PROVE Streams'
  <2>1. kind = "ssh"
    <3>1. sess[s].setup = "session" /\ PhaseOf(s)
      BY <1>8, Zenon DEF SetupSession, Phases
    <3> QED
      BY <3>1, SMT DEF PhaseOf
  <2>2. UNCHANGED <<kind, link, s2c, c2s, rpty_map, chunks>>
    BY <1>8, Zenon DEF SetupSession, remote
  <2>3. Moves(s, sess[s].pc, "offer", sess[s].backend, sess[s].client) \/ Moves(s, sess[s].pc, "failed", sess[s].backend, sess[s].client)
    BY <1>8, SetupMoves, Zenon DEF SetupSession, Setups
  <2>4. \A t \in S : sess'[t].backend = "none" => sess[t].backend = "none"
    BY <2>3, ZenonT(60) DEF Moves, Same
  <2>5. kind # "rpty"
    BY <2>1, SMT
  <2> QED
    BY <2>2, <2>4, <2>5, StreamsLocal, Zenon
<1>9. ASSUME NEW s \in S, SetupGivesUp(s) PROVE Streams'
  <2>1. kind = "ssh"
    <3>1. sess[s].setup = "offer" /\ PhaseOf(s)
      BY <1>9, Zenon DEF SetupGivesUp, Phases
    <3> QED
      BY <3>1, SMT DEF PhaseOf
  <2>2. UNCHANGED <<kind, link, s2c, c2s, rpty_map, chunks>>
    BY <1>9, Zenon DEF SetupGivesUp, remote
  <2>3. Moves(s, sess[s].pc, "drop", sess[s].backend, sess[s].client)
    BY <1>9, SetupMoves, Zenon DEF SetupGivesUp, Setups
  <2>4. \A t \in S : sess'[t].backend = "none" => sess[t].backend = "none"
    BY <2>3, ZenonT(60) DEF Moves, Same
  <2>5. kind # "rpty"
    BY <2>1, SMT
  <2> QED
    BY <2>2, <2>4, <2>5, StreamsLocal, Zenon
<1>10. ASSUME NEW s \in S, SetupDrops(s) PROVE Streams'
  <2>1. kind = "ssh"
    <3>1. sess[s].setup = "drop" /\ PhaseOf(s)
      BY <1>10, Zenon DEF SetupDrops, Phases
    <3> QED
      BY <3>1, SMT DEF PhaseOf
  <2>2. UNCHANGED <<kind, link, s2c, c2s, rpty_map, chunks>>
    BY <1>10, Zenon DEF SetupDrops, remote
  <2>3. Moves(s, sess[s].pc, "failed", sess[s].backend, sess[s].client)
    BY <1>10, SetupMoves, Zenon DEF SetupDrops, Setups
  <2>4. \A t \in S : sess'[t].backend = "none" => sess[t].backend = "none"
    BY <2>3, Zenon DEF Moves, Same
  <2>5. kind # "rpty"
    BY <2>1, SMT
  <2> QED
    BY <2>2, <2>4, <2>5, StreamsLocal, Zenon
<1>11. ASSUME NEW s \in S, OpenPty(s) PROVE Streams'
  <2>1. kind = "pty"
    BY <1>11, Zenon DEF OpenPty
  <2>2. UNCHANGED <<kind, link, s2c, c2s, rpty_map, chunks>>
    BY <1>11, Zenon DEF OpenPty, OpenFails, remote
  <2>3. Same(s, "delete") \/ Moves(s, "loop", sess[s].setup, "open", sess[s].client)
    BY <1>11, OpenedMoves, Zenon DEF OpenPty
  <2>4. \A t \in S : sess'[t].backend = "none" => sess[t].backend = "none"
    BY <2>3, Zenon DEF Moves, Same
  <2>5. kind # "rpty"
    BY <2>1, SMT
  <2> QED
    BY <2>2, <2>4, <2>5, StreamsLocal, Zenon
<1>12. ASSUME NEW s \in S, OpenRpty(s) PROVE Streams'
  <2>1. /\ kind = "rpty" /\ sess[s].pc = "opening" /\ UNCHANGED <<kind, link, chunks, c2s>>
        /\ OpenFails(s) \/ (Opened(s) /\ ServerStartRpty(s) /\ UNCHANGED term)
    BY <1>12, Zenon DEF OpenRpty
  <2>2. PhaseOf(s) /\ StreamOf(s)
    BY Zenon DEF Phases, Streams
  <2>3. CASE OpenFails(s)
    <3>1. Same(s, "delete") /\ UNCHANGED <<reader, term, rpty_map, s2c>>
      BY <2>3, OpenedMoves, Zenon
    <3>2. StreamOf(s)'
      BY <2>1, <2>2, <3>1, SMT DEF StreamOf, Told, Same, Moves
    <3>3. \A t \in S \ {s} : sess'[t] = sess[t]
      BY <3>1, Zenon DEF Same, Moves
    <3> QED
      BY <2>1, <3>1, <3>2, <3>3, StreamsQuiet, Zenon
  <2>4. CASE Opened(s) /\ ServerStartRpty(s) /\ UNCHANGED term
    <3>1. Moves(s, "loop", sess[s].setup, "open", sess[s].client) /\ ReaderTo(s, "read")
      BY <2>4, OpenedMoves, ReaderPut, Zenon
    <3>2. s2c \in Seq(ToClientRec) /\ [kind |-> "START", s |-> s] \in ToClientRec
      BY Zenon DEF Types, ToClientRec
    <3>3. s2c' = Append(s2c, [kind |-> "START", s |-> s]) /\ rpty_map' = rpty_map \cup {s}
      BY <2>4, Zenon DEF ServerStartRpty
    <3>4. \A j, t : Under(s2c', j, t) <=> Under(s2c, j, t) \/ (j = "START" /\ t = s)
      BY <3>2, <3>3, AppendUnder, ZenonT(60)
    <3>5. /\ ~Under(s2c, "START", s) /\ term[s] = "none" /\ ~Under(c2s, "STOP", s)
          /\ ~chunks[s].done
      BY <2>1, <2>2, SMT DEF PhaseOf, StreamOf
    <3>6. StartedOnce(s2c')
      <4>1. StartedOnce(s2c) /\ [kind |-> "START", s |-> s].s = s
        BY ZenonT(60) DEF Streams
      <4> QED
        BY <3>2, <3>3, <3>5, <4>1, OneStart, Zenon
    <3>7. StreamOf(s)'
      BY <2>1, <2>2, <2>4, <3>1, <3>5, SMT DEF StreamOf, Told, Moves, ReaderTo
    <3>8. \A t \in S \ {s} : Aside(t)
      <4>1. \A t \in S \ {s} : /\ Under(s2c', "START", t) => Under(s2c, "START", t)
                               /\ t \in rpty_map' => t \in rpty_map
        BY <3>3, <3>4, Zenon
      <4> QED
        BY <2>1, <2>4, <3>1, <4>1, Zenon DEF Aside, Moves, ReaderTo
    <3>9. DataBeforeStop(c2s')
      BY <2>1, Zenon DEF Streams
    <3> QED
      BY <2>1, <3>6, <3>7, <3>8, <3>9, StreamsOne, Zenon
  <2> QED
    BY <2>1, <2>3, <2>4
<1>13. ASSUME NEW s \in S, SessionCancelled(s) PROVE Streams'
  <2>1. sess[s].pc = "loop" /\ CloseBackend(s) /\ UNCHANGED <<kind, link, reader, c2s>>
    BY <1>13, Zenon DEF SessionCancelled
  <2>2. Closed(s, "wait")
    BY <1>13, <2>1, CloseMoves, Zenon
  <2> QED
    BY <2>1, <2>2, StreamsClose, Zenon
<1>14. ASSUME NEW s \in S, ReadDone(s) PROVE Streams'
  <2>1. sess[s].pc = "loop" /\ CloseBackend(s) /\ UNCHANGED <<kind, link, reader, c2s>>
    BY <1>14, Zenon DEF ReadDone
  <2>2. Closed(s, "wait")
    BY <1>14, <2>1, CloseMoves, Zenon
  <2> QED
    BY <2>1, <2>2, StreamsClose, Zenon
<1>15. ASSUME NEW s \in S, CloseOnCancel(s) PROVE Streams'
  <2>1. sess[s].pc = "loop" /\ CloseBackend(s) /\ UNCHANGED <<kind, link, reader, c2s>>
    BY <1>15, Zenon DEF CloseOnCancel
  <2>2. Closed(s, "loop")
    BY <1>15, <2>1, CloseMoves, Zenon
  <2> QED
    BY <2>1, <2>2, StreamsClose, Zenon
<1>16. ASSUME NEW s \in S, Wait(s) PROVE Streams'
  <2>1. UNCHANGED <<kind, link, s2c, c2s, rpty_map, chunks, term, reader>>
    BY <1>16, Zenon DEF Wait, remote
  <2>2. Same(s, "delete") /\ StreamOf(s)
    BY <1>16, EndMoves, ZenonT(60) DEF Streams
  <2>3. StreamOf(s)'
    BY <2>1, <2>2, SMT DEF StreamOf, Told, Same, Moves
  <2>4. \A t \in S \ {s} : sess'[t] = sess[t]
    BY <2>2, Zenon DEF Same, Moves
  <2> QED
    BY <2>1, <2>3, <2>4, StreamsQuiet, Zenon
<1>17. ASSUME NEW s \in S, DeleteSession(s) PROVE Streams'
  <2>1. UNCHANGED <<kind, link, s2c, c2s, rpty_map, chunks, term, reader>>
    BY <1>17, Zenon DEF DeleteSession, remote
  <2>2. Same(s, "ended") /\ StreamOf(s)
    BY <1>17, EndMoves, Zenon DEF Streams
  <2>3. StreamOf(s)'
    BY <2>1, <2>2, SMT DEF StreamOf, Told, Same, Moves
  <2>4. \A t \in S \ {s} : sess'[t] = sess[t]
    BY <2>2, Zenon DEF Same, Moves
  <2> QED
    BY <2>1, <2>3, <2>4, StreamsQuiet, Zenon
<1>18. ASSUME NEW s \in S, ReadTerminal(s) \/ ShellExits(s) \/ TerminalEnds(s) PROVE Streams'
  <2>1. kind # "rpty" /\ UNCHANGED <<kind, link, s2c, c2s, rpty_map, chunks, sess>>
    BY <1>18, Zenon DEF ReadTerminal, ReaderEnds, ShellExits, TerminalEnds, remote
  <2> QED
    BY <2>1, StreamsLocal, Zenon
<1>19. ASSUME NEW s \in S, ReadChunk(s) PROVE Streams'
  <2>1. UNCHANGED <<kind, link, s2c, c2s, rpty_map, sess, term, reader>> /\ reader[s] = "read"
    BY <1>19, Zenon DEF ReadChunk
  <2>2. chunks[s].n - 1 \in Nat /\ chunks' = [chunks EXCEPT ![s].n = chunks[s].n - 1]
    BY <1>19, SMT DEF ReadChunk, Types, ChunksRec
  <2>3. /\ chunks'[s].done = chunks[s].done
        /\ chunks'[s].overflow = chunks[s].overflow /\ chunks'[s].lost = chunks[s].lost
        /\ \A t \in S \ {s} : chunks'[t] = chunks[t]
    BY <2>2, ChunksCount, Zenon
  <2>4. StreamOf(s) /\ StartedOnce(s2c) /\ DataBeforeStop(c2s)
    BY Zenon DEF Streams
  <2>5. StreamOf(s)'
    BY <2>1, <2>3, <2>4, SMT DEF StreamOf, Told
  <2>6. \A t \in S \ {s} : Aside(t)
    BY <2>1, <2>3, Zenon DEF Aside
  <2> QED
    BY <2>1, <2>4, <2>5, <2>6, StreamsOne, Zenon
<1>20. ASSUME NEW s \in S, ReadEnd(s) PROVE Streams'
  <2>1. UNCHANGED <<kind, link, s2c, c2s, rpty_map, chunks, sess, term>>
    BY <1>20, Zenon DEF ReadEnd, ReaderEnds
  <2>2. \/ ReaderTo(s, "error")
        \/ ReaderTo(s, "eof") /\ chunks[s].n = 0 /\ chunks[s].done /\ ~chunks[s].overflow
    BY <1>20, ReaderPut, Zenon DEF ReadEnd, ReaderEnds
  <2>3. StreamOf(s)
    BY Zenon DEF Streams
  <2>4. StreamOf(s)'
    BY <2>1, <2>2, <2>3, SMT DEF StreamOf, Told, ReaderTo
  <2>5. \A t \in S \ {s} : reader'[t] = reader[t]
    BY <2>2, Zenon DEF ReaderTo
  <2> QED
    BY <2>1, <2>4, <2>5, StreamsQuiet, Zenon
<1>21. ASSUME NEW s \in S, RptyOutput(s) PROVE Streams'
  <2>1. /\ UNCHANGED <<kind, link, s2c, rpty_map, chunks, sess, term, reader>>
        /\ kind = "rpty" /\ term[s] = "running" /\ ToServer("DATA", s)
    BY <1>21, Zenon DEF RptyOutput
  <2>2. StreamOf(s) /\ StartedOnce(s2c)
    BY Zenon DEF Streams
  <2>3. ~Under(c2s, "STOP", s) /\ ~Told(s)
    BY <2>1, <2>2, Zenon DEF StreamOf
  <2>4. /\ DataBeforeStop(c2s')
        /\ \A j, t : Under(c2s', j, t) => Under(c2s, j, t) \/ (j = "DATA" /\ t = s)
    BY <2>1, <2>3, StreamsSend, SMT
  <2>5. Under(c2s', "STOP", s) => Under(c2s, "STOP", s)
    BY <2>4, SMT
  <2>6. \A t \in S \ {s} : /\ Under(c2s', "DATA", t) => Under(c2s, "DATA", t)
                           /\ Under(c2s', "STOP", t) => Under(c2s, "STOP", t)
    BY <2>4, SMT
  <2>7. StreamOf(s)'
    BY <2>1, <2>2, <2>3, <2>5, Zenon DEF StreamOf, Told
  <2>8. \A t \in S \ {s} : Aside(t)
    BY <2>1, <2>6, Zenon DEF Aside
  <2> QED
    BY <2>1, <2>2, <2>4, <2>7, <2>8, StreamsOne, Zenon
<1>22. ASSUME NEW s \in S, RptyEnds(s) PROVE Streams'
  <2>1. /\ UNCHANGED <<kind, link, s2c, rpty_map, chunks, sess, reader>>
        /\ kind = "rpty" /\ term[s] \in {"running", "killed"} /\ ToServer("STOP", s)
    BY <1>22, Zenon DEF RptyEnds
  <2>2. TermTo(s, "ended")
    BY <1>22, TermPut, Zenon DEF RptyEnds
  <2>3. StreamOf(s) /\ StartedOnce(s2c)
    BY Zenon DEF Streams
  <2>4. /\ DataBeforeStop(c2s')
        /\ \A j, t : Under(c2s', j, t) => Under(c2s, j, t) \/ (j = "STOP" /\ t = s)
    BY <2>1, StreamsSend, SMT
  <2>5. Under(c2s', "DATA", s) => Under(c2s, "DATA", s)
    BY <2>4, SMT
  <2>6. \A t \in S \ {s} : /\ Under(c2s', "DATA", t) => Under(c2s, "DATA", t)
                           /\ Under(c2s', "STOP", t) => Under(c2s, "STOP", t)
    BY <2>4, SMT
  <2>7. StreamOf(s)'
    BY <2>1, <2>2, <2>3, <2>5, SMT DEF StreamOf, Told, TermTo
  <2>8. \A t \in S \ {s} : Aside(t)
    BY <2>1, <2>2, <2>6, Zenon DEF Aside, TermTo
  <2> QED
    BY <2>1, <2>3, <2>4, <2>7, <2>8, StreamsOne, Zenon
<1>23. CASE ReceiverEnds
  <2>1. UNCHANGED <<kind, link, s2c, c2s, rpty_map, sess, term, reader>> /\ link = "down"
    BY <1>23, Zenon DEF ReceiverEnds
  <2>2. \A t \in S : /\ chunks'[t].overflow = chunks[t].overflow /\ chunks'[t].lost = chunks[t].lost
                     /\ t \notin rpty_map => chunks'[t] = chunks[t]
    <3>1. \A t \in S : chunks[t] \in ChunksRec
      BY Zenon DEF Types
    <3>2. \A r \in ChunksRec : /\ [r EXCEPT !.done = TRUE].overflow = r.overflow
                               /\ [r EXCEPT !.done = TRUE].lost = r.lost
      BY Zenon DEF ChunksRec
    <3> QED
      BY <1>23, <3>1, <3>2, Zenon DEF ReceiverEnds
  <2>3. ASSUME NEW t \in S PROVE StreamOf(t)'
    <3>1. StreamOf(t)
      BY Zenon DEF Streams
    <3> QED
      BY <2>1, <2>2, <3>1, SMT DEF StreamOf, Told
  <2> QED
    BY <2>1, <2>3, Zenon DEF Streams
<1>24. CASE BreakLink
  <2>1. /\ UNCHANGED <<kind, rpty_map, chunks, sess, reader>> /\ link' = "down"
        /\ s2c' = <<>> /\ c2s' = <<>>
    BY <1>24, Zenon DEF BreakLink
  <2>2. \A t \in S : term'[t] = Killed(term[t])
    BY <1>24, Zenon DEF BreakLink, Killed
  <2>3. \A k_, t : ~Under(<<>>, k_, t)
    BY SMT DEF Under
  <2>4. StartedOnce(<<>>) /\ DataBeforeStop(<<>>)
    BY SMT DEF StartedOnce, DataBeforeStop
  <2>5. ASSUME NEW t \in S PROVE StreamOf(t)'
    <3>1. StreamOf(t) /\ ~Under(s2c', "START", t) /\ ~Under(c2s', "STOP", t)
      BY <2>1, <2>3, Zenon DEF Streams
    <3> QED
      BY <2>1, <2>2, <3>1, SMT DEF StreamOf, Told, Killed
  <2> QED
    BY <2>1, <2>4, <2>5, Zenon DEF Streams
<1> QED
  BY <1>1, <1>2, <1>3, <1>4, <1>5, <1>6, <1>7, <1>8, <1>9, <1>10, <1>11, <1>12, <1>13, <1>14, <1>15, <1>16, <1>17, <1>18, <1>19, <1>20, <1>21, <1>22, <1>23, <1>24, StreamsServer, StreamsClient, StepCases,
     ZenonT(60) DEF SessionStep, TerminalStep

-----------------------------------------------------------------------------
(* The theorems.                                                           *)

Inv == Types /\ Phases /\ Leases /\ Streams

LEMMA InitTypes ==
  Init => Types
<1> SUFFICES ASSUME Init PROVE Types
  OBVIOUS
<1>1. 0 \in 0 .. Opens /\ 0 \in Nat /\ 0 \in Int
  BY LimitsAssumption, SMT
<1>2. NewSession \in SessionRec
  BY <1>1, Zenon DEF NewSession, SessionRec, Pcs, Backends, Setups
<1>3. [n |-> 0, done |-> FALSE, overflow |-> FALSE, lost |-> FALSE] \in ChunksRec
  BY <1>1, Zenon DEF ChunksRec
<1>4. <<>> \in Seq(ToClientRec) /\ <<>> \in Seq(ToServerRec)
  BY SMT
<1>5. "none" \in Readers /\ "none" \in Terms
  BY Zenon DEF Readers, Terms
<1>6. sess \in [S -> SessionRec] /\ chunks \in [S -> ChunksRec]
  BY <1>2, <1>3, Zenon DEF Init
<1>7. reader \in [S -> Readers] /\ term \in [S -> Terms]
  BY <1>5, Zenon DEF Init
<1>8. sessions \in [Ids -> 0 .. Opens] /\ leases \in [S -> Int]
  BY <1>1, Zenon DEF Init
<1>9. opened \in 0 .. Opens /\ client \in 0 .. Opens /\ rpty_map \subseteq S
  BY <1>1, Zenon DEF Init
<1> QED
  BY <1>4, <1>6, <1>7, <1>8, <1>9, Zenon DEF Init, Types

LEMMA InitInv ==
  Init => Inv
<1> SUFFICES ASSUME Init PROVE Inv
  OBVIOUS
<1>1. /\ \A s \in S : /\ sess[s] = NewSession /\ reader[s] = "none" /\ term[s] = "none"
                      /\ leases[s] = 0
      /\ s2c = <<>> /\ c2s = <<>> /\ client = 0 /\ rpty_map = {}
  BY Zenon DEF Init
<1>2. \A s \in S : ~chunks[s].done /\ ~chunks[s].lost
  BY Zenon DEF Init
<1>3. /\ NewSession.pc = "none" /\ NewSession.setup = "none" /\ NewSession.backend = "none"
      /\ NewSession.client = 0
  BY Zenon DEF NewSession
<1>4. ASSUME NEW s \in S PROVE PhaseOf(s)
  <2>1. /\ sess[s].pc = "none" /\ sess[s].setup = "none" /\ sess[s].backend = "none"
        /\ reader[s] = "none" /\ term[s] = "none"
    BY <1>1, <1>3, Zenon
  <2> QED
    BY <2>1, SMT DEF PhaseOf
<1>5. Phases
  BY <1>1, <1>3, <1>4, Zenon DEF Phases
<1>6. \A s \in S : ~Uses(s)
  <2> SUFFICES ASSUME NEW s \in S PROVE ~Uses(s)
    OBVIOUS
  <2>1. sess[s].pc = "none" /\ sess[s].setup = "none"
    BY <1>1, <1>3, Zenon
  <2> QED
    BY <2>1, SMT DEF Uses
<1>7. LeasesHeld
  <2>1. \A c : {s \in S : Holds(s, c)} = {}
    BY <1>6, HoldsUses, Zenon
  <2>2. Cardinality({}) = 0
    BY FS_EmptySet, Zenon
  <2>3. \A c \in S : leases[c] = 0 /\ client # c /\ ~(leases[c] > 0)
    BY <1>1, SMT DEF S
  <2> QED
    BY <2>1, <2>2, <2>3, Zenon DEF LeasesHeld
<1>8. Leases
  <2>1. \A s \in S : sess[s].pc # "dial"
    <3>1. \A s \in S : sess[s].pc = "none"
      BY <1>1, <1>3, Zenon
    <3> QED
      BY <3>1, SMT
  <2> QED
    BY <1>6, <1>7, <2>1, Zenon DEF Leases
<1>9. \A k_, t : ~Under(<<>>, k_, t)
  BY SMT DEF Under
<1>10. StartedOnce(<<>>) /\ DataBeforeStop(<<>>)
  BY SMT DEF StartedOnce, DataBeforeStop
<1>11. ASSUME NEW s \in S PROVE StreamOf(s)
  <2>1. /\ reader[s] = "none" /\ term[s] = "none" /\ s \notin rpty_map
        /\ ~Under(s2c, "START", s) /\ ~Under(c2s, "STOP", s)
        /\ ~chunks[s].done /\ ~chunks[s].lost
    BY <1>1, <1>2, <1>9, Zenon
  <2> QED
    BY <2>1, SMT DEF StreamOf, Told
<1>12. Streams
  BY <1>1, <1>10, <1>11, Zenon DEF Streams
<1> QED
  BY <1>5, <1>8, <1>12, InitTypes, Zenon DEF Inv

\* The invariant holds in every reachable state of the terminals' code.
LEMMA Invariant ==
  Spec => []Inv
<1>1. Inv /\ [Next]_vars => Inv'
  BY TypesStep, PhasesStep, LeasesStep, StreamsStep, Zenon DEF Inv
<1> QED
  BY <1>1, InitInv, PTL DEF Spec

\* run_session sends "closed" only when the goroutine that reads the terminal has
\* ended, and for a local terminal when its process has.
THEOREM ClosedComesLast ==
  Spec => []OutputBeforeClosed
<1>1. Inv => OutputBeforeClosed
  <2> SUFFICES ASSUME Inv, NEW s \in S, sess[s].pc = "ended"
               PROVE  reader[s] # "read" /\ (kind = "pty" => term[s] \in Gone)
    BY Zenon DEF OutputBeforeClosed
  <2>1. PhaseOf(s) /\ term[s] \in Terms
    BY Zenon DEF Inv, Phases, Types
  <2> QED
    BY <2>1, SMT DEF PhaseOf, Terms, Gone
<1> QED
  BY <1>1, Invariant, PTL

\* A connection of xterm_ssh_pool is leased to exactly the sessions that use it and
\* is in the pool as long as one does: get_client and release count right, whoever
\* of the session and its setup goroutine releases.
THEOREM LeasesCounted ==
  Spec => []LeasesHeld
<1>1. Inv => LeasesHeld
  BY Zenon DEF Inv, Leases
<1> QED
  BY <1>1, Invariant, PTL

\* The output of a remote terminal is neither overtaken by its end nor dropped
\* without an error, through the client's RptyLoop, the stream and
\* xterm_rpty_output.
THEOREM OutputNotLost ==
  Spec => []NoSilentLoss
<1>1. Inv => NoSilentLoss
  <2> SUFFICES ASSUME Inv, NEW s \in S, kind = "rpty", reader[s] = "eof",
                      sess[s].backend = "open", link = "up"
               PROVE  /\ chunks[s].n = 0 /\ ~chunks[s].lost
                      /\ \A i \in 1 .. Len(c2s) : c2s[i].s = s => c2s[i].kind # "DATA"
    BY Zenon DEF NoSilentLoss
  <2>1. StreamOf(s)
    BY Zenon DEF Inv, Streams
  <2>2. Told(s) /\ chunks[s].n = 0 /\ ~Under(c2s, "DATA", s) /\ ~chunks[s].lost
    BY <2>1, Zenon DEF StreamOf, Told
  <2> QED
    BY <2>2, Zenon DEF Under
<1> QED
  BY <1>1, Invariant, PTL

=============================================================================
