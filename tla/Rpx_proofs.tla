----------------------------- MODULE Rpx_proofs -----------------------------
(***************************************************************************)
(* Proofs about Rpx, for every set of requests and every length of bodies  *)
(* and responses.                                                          *)
(***************************************************************************)
EXTENDS Rpx, FiniteSetTheorems, TLAPS

-----------------------------------------------------------------------------
(* The packets in a queue.                                                 *)

Places(msgs, q) == {i \in DOMAIN msgs : msgs[i].q = q /\ msgs[i].kind = "DATA"}

LEMMA PlacesFinite ==
  ASSUME NEW T, NEW s \in Seq(T), NEW q
  PROVE  IsFiniteSet(Places(s, q)) /\ Packets(s, q) = Cardinality(Places(s, q)) /\ Packets(s, q) \in Nat
<1>1. IsFiniteSet(1..Len(s))
  BY FS_Interval, SMT
<1>2. Places(s, q) \subseteq 1..Len(s)
  BY SMT DEF Places
<1>3. IsFiniteSet(Places(s, q))
  BY <1>1, <1>2, FS_Subset, Zenon
<1>4. Packets(s, q) = Cardinality(Places(s, q))
  BY Zenon DEF Packets, Places
<1>. QED  BY <1>3, <1>4, FS_CardinalityType, Zenon

\* A message put at the end of a queue.
LEMMA PacketsAppend ==
  ASSUME NEW T, NEW s \in Seq(T), NEW m \in T, NEW q
  PROVE  Packets(Append(s, m), q) = Packets(s, q) + Count(m.q = q /\ m.kind = "DATA")
<1>. DEFINE n == Len(s) + 1
<1>1. n \notin Places(s, q)
  BY SMT DEF Places
<1>2. CASE m.q = q /\ m.kind = "DATA"
  <2>1. Places(Append(s, m), q) = Places(s, q) \cup {n}
    BY <1>2, SMT DEF Places
  <2>2. Cardinality(Places(Append(s, m), q)) = Cardinality(Places(s, q)) + 1
    BY <1>1, <2>1, PlacesFinite, FS_AddElement, Zenon
  <2>. QED  BY <1>2, <2>2, Zenon DEF Packets, Places, Count
<1>3. CASE ~(m.q = q /\ m.kind = "DATA")
  <2>1. Places(Append(s, m), q) = Places(s, q)
    BY <1>3, SMT DEF Places
  <2>2. Packets(Append(s, m), q) = Packets(s, q)
    BY <2>1, Zenon DEF Packets, Places
  <2>. QED  BY <1>3, <2>2, PlacesFinite, SMT DEF Count
<1>. QED  BY <1>2, <1>3, Zenon

\* The first message taken from a queue.
LEMMA PacketsTail ==
  ASSUME NEW T, NEW s \in Seq(T), s # <<>>, NEW q
  PROVE  Packets(s, q) = Packets(Tail(s), q) + Count(Head(s).q = q /\ Head(s).kind = "DATA")
<1>. DEFINE S == Places(Tail(s), q)
            U == Places(s, q) \ {1}
            f == [i \in S |-> i + 1]
<1>1. Tail(s) \in Seq(T) /\ Len(Tail(s)) = Len(s) - 1 /\ \A i \in 1..Len(Tail(s)) : Tail(s)[i] = s[i + 1]
  BY SMT
<1>2. f \in Bijection(S, U)
  <2>1. f \in [S -> U]
    BY <1>1, SMT DEF Places
  <2>2. \A a, b \in S : f[a] = f[b] => a = b
    BY <1>1, SMT DEF Places
  <2>3. \A u \in U : \E a \in S : f[a] = u
    <3>1. TAKE u \in U
    <3>2. u - 1 \in S
      BY <1>1, SMT DEF Places
    <3>3. f[u - 1] = u
      BY <1>1, <3>2, SMT DEF Places
    <3>. QED  BY <3>2, <3>3
  <2>. QED  BY <2>1, <2>2, <2>3, Zenon DEF Bijection, Injection, Surjection, IsInjective
<1>3. ExistsBijection(S, U)
  BY <1>2, Zenon DEF ExistsBijection
<1>4. Cardinality(U) = Packets(Tail(s), q)
  <2>1. IsFiniteSet(S) /\ Packets(Tail(s), q) = Cardinality(S)
    BY <1>1, PlacesFinite, Zenon
  <2>. HIDE DEF S, U
  <2>. QED  BY <1>3, <2>1, FS_Bijection, Zenon
<1>5. IsFiniteSet(U) /\ Cardinality(U) \in Nat
  BY PlacesFinite, FS_Subset, FS_CardinalityType, Zenon
<1>6. CASE Head(s).q = q /\ Head(s).kind = "DATA"
  <2>1. 1 \in Places(s, q)
    BY <1>6, SMT DEF Places
  <2>2. Places(s, q) = U \cup {1} /\ 1 \notin U
    BY <2>1, Zenon
  <2>3. Cardinality(Places(s, q)) = Cardinality(U) + 1
    BY <1>5, <2>2, FS_AddElement, Zenon
  <2>. QED  BY <1>4, <1>6, <2>3, PlacesFinite, Zenon DEF Count
<1>7. CASE ~(Head(s).q = q /\ Head(s).kind = "DATA")
  <2>1. 1 \notin Places(s, q)
    BY <1>7, SMT DEF Places
  <2>2. Places(s, q) = U
    BY <2>1, Zenon
  <2>3. Packets(s, q) = Packets(Tail(s), q) /\ Packets(s, q) \in Nat
    BY <1>4, <2>2, PlacesFinite, Zenon
  <2>. QED  BY <1>7, <2>3, SMT DEF Count
<1>. QED  BY <1>6, <1>7, Zenon

\* A queue without data for a request.
LEMMA NoPackets ==
  ASSUME NEW T, NEW s \in Seq(T), NEW q, \A i \in DOMAIN s : ~(s[i].q = q /\ s[i].kind = "DATA")
  PROVE  Packets(s, q) = 0
<1>1. Places(s, q) = {}
  BY SMT DEF Places
<1>. QED  BY <1>1, PlacesFinite, FS_EmptySet, Zenon

-----------------------------------------------------------------------------
(* Types.                                                                  *)

ToClient ==
  [kind : {"START"}, q : Reqs, upgrade : BOOLEAN] \cup [kind : {"DATA", "EOF", "STOP"}, q : Reqs]

Statuses == {"200", "101", "403"}

ToServer ==
  [kind : {"START"}, q : Reqs, status : Statuses] \cup [kind : {"DATA", "EOF", "STOP"}, q : Reqs]

ServerRpxType ==
  [upgrade : BOOLEAN, start : Statuses \cup {"none"}, done : Nat, br : {"none", "switched", "refused"},
   pw : {"open", "closed"}, body : {"open", "closed"}, error : BOOLEAN]

ServerRpxs == [Reqs -> ServerRpxType]

ClientRpxType == [pr : {"open", "closed"}, pw : {"open", "closed"}, copy : {"none", "run", "ended"}]

ClientRpxs == [Reqs -> ClientRpxType]

Browsers == [Reqs -> [sent : Nat, got : Nat, gone : BOOLEAN, result : {"none", "ok", "error"}]]

Targets == [Reqs -> [sent : Nat, got : Nat, failed : BOOLEAN]]

TypeOK ==
  /\ sh \in [Reqs -> {"none", "upgrade", "body", "join", "final", "returned"}]
  /\ rh \in [Reqs -> {"none", "header", "copy", "write", "done"}]
  /\ srpx \in ServerRpxs /\ rpx_map \subseteq Reqs
  /\ recv \in Reqs \cup {"recv", "ended"} /\ conn_stop \in BOOLEAN
  /\ cl \in [Reqs -> {"none", "http", "ws", "http_body", "ws_body", "join", "ended"}]
  /\ crpx \in ClientRpxs /\ client_map \subseteq Reqs /\ crecv \in Reqs \cup {"recv"}
  /\ browser \in Browsers /\ target \in Targets
  /\ s2c \in Seq(ToClient) /\ c2s \in Seq(ToServer)
  /\ link \in {"up", "down"} /\ disturbed \in BOOLEAN

-----------------------------------------------------------------------------
(* What the updates of records change.                                     *)

\* The fields that the invariant reads.
SameStop(f, g, x) == g[x].done = f[x].done /\ g[x].pw = f[x].pw /\ g[x].error = f[x].error

\* A message may have been taken from done_chan.
LessDone(f, g, x) == g[x].done <= f[x].done /\ g[x].pw = f[x].pw /\ g[x].error = f[x].error

\* The response of a request has failed.
ErrorAt(f, g, q, e, x) ==
  g[x].done = f[x].done /\ g[x].pw = f[x].pw /\ g[x].error = IF x = q THEN e ELSE f[x].error

LEMMA UpgradeSet ==
  ASSUME NEW f \in ServerRpxs, NEW q \in Reqs, NEW u \in BOOLEAN, NEW g, g = [f EXCEPT ![q].upgrade = u]
  PROVE  g \in ServerRpxs /\ \A x \in Reqs : SameStop(f, g, x)
BY SMT DEF ServerRpxs, ServerRpxType, SameStop

LEMMA DoneTaken ==
  ASSUME NEW f \in ServerRpxs, NEW q \in Reqs, f[q].done > 0, NEW g, g = [f EXCEPT ![q].done = @ - 1]
  PROVE  g \in ServerRpxs /\ \A x \in Reqs : LessDone(f, g, x)
BY SMT DEF ServerRpxs, ServerRpxType, LessDone

LEMMA StatusSet ==
  ASSUME NEW f \in ServerRpxs, NEW q \in Reqs, NEW b \in Statuses \cup {"none"}, NEW g,
         g = [f EXCEPT ![q].start = b]
  PROVE  g \in ServerRpxs /\ \A x \in Reqs : SameStop(f, g, x)
BY SMT DEF ServerRpxs, ServerRpxType, SameStop

LEMMA SwitchSet ==
  ASSUME NEW f \in ServerRpxs, NEW q \in Reqs, NEW b \in {"switched", "refused"}, NEW g,
         g = [f EXCEPT ![q].br = b]
  PROVE  g \in ServerRpxs /\ \A x \in Reqs : SameStop(f, g, x)
BY SMT DEF ServerRpxs, ServerRpxType, SameStop

LEMMA DoneLess ==
  ASSUME NEW f \in ServerRpxs, NEW q \in Reqs, NEW g,
         g = [f EXCEPT ![q].done = IF @ > 0 THEN @ - 1 ELSE @]
  PROVE  g \in ServerRpxs /\ \A x \in Reqs : LessDone(f, g, x)
BY SMT DEF ServerRpxs, ServerRpxType, LessDone

LEMMA HeaderSet ==
  ASSUME NEW f \in ServerRpxs, NEW q \in Reqs, NEW b \in {"switched", "refused"}, NEW g,
         g = [f EXCEPT ![q].br = b, ![q].start = "none"]
  PROVE  g \in ServerRpxs /\ \A x \in Reqs : SameStop(f, g, x)
<1>. DEFINE h == [f EXCEPT ![q].br = b]
<1>1. h = [f EXCEPT ![q].br = b]
  OBVIOUS
<1>2. g = [h EXCEPT ![q].start = "none"]
  BY SMT DEF ServerRpxs, ServerRpxType
<1>. HIDE DEF h
<1>3. h \in ServerRpxs /\ \A x \in Reqs : SameStop(f, h, x)
  BY <1>1, SwitchSet, Zenon
<1>4. g \in ServerRpxs /\ \A x \in Reqs : SameStop(h, g, x)
  BY <1>2, <1>3, StatusSet, Zenon
<1>. QED  BY <1>3, <1>4, Zenon DEF SameStop

LEMMA ErrorSet ==
  ASSUME NEW f \in ServerRpxs, NEW q \in Reqs, NEW e \in BOOLEAN, NEW g, g = [f EXCEPT ![q].error = e]
  PROVE  g \in ServerRpxs /\ \A x \in Reqs : ErrorAt(f, g, q, e, x)
BY SMT DEF ServerRpxs, ServerRpxType, ErrorAt

RefusedAt(f, g, q, e, x) ==
  g[x].done <= f[x].done /\ g[x].pw = f[x].pw /\ g[x].error = IF x = q THEN e ELSE f[x].error

LEMMA RefusedSet ==
  ASSUME NEW f \in ServerRpxs, NEW q \in Reqs, NEW e \in BOOLEAN, NEW g,
         g = [f EXCEPT ![q].error = e, ![q].br = "refused", ![q].done = IF @ > 0 THEN @ - 1 ELSE @]
  PROVE  g \in ServerRpxs /\ \A x \in Reqs : RefusedAt(f, g, q, e, x)
<1>. DEFINE h == [f EXCEPT ![q].error = e]
            k == [h EXCEPT ![q].br = "refused"]
<1>1. h = [f EXCEPT ![q].error = e] /\ k = [h EXCEPT ![q].br = "refused"]
  OBVIOUS
<1>2. g = [k EXCEPT ![q].done = IF @ > 0 THEN @ - 1 ELSE @]
  BY SMT DEF ServerRpxs, ServerRpxType
<1>. HIDE DEF h, k
<1>3. h \in ServerRpxs /\ \A x \in Reqs : ErrorAt(f, h, q, e, x)
  BY <1>1, ErrorSet, Zenon
<1>4. k \in ServerRpxs /\ \A x \in Reqs : SameStop(h, k, x)
  BY <1>1, <1>3, SwitchSet, Zenon
<1>5. g \in ServerRpxs /\ \A x \in Reqs : LessDone(k, g, x)
  BY <1>2, <1>4, DoneLess, Zenon
<1>. QED  BY <1>3, <1>4, <1>5, Zenon DEF SameStop, LessDone, ErrorAt, RefusedAt

LEMMA StoppedOne ==
  ASSUME NEW r \in ServerRpxType, NEW b \in BOOLEAN
  PROVE  /\ Stopped(r, b) \in ServerRpxType /\ Stopped(r, b).done = r.done + 1
         /\ Stopped(r, b).pw = "closed" /\ Stopped(r, b).error = r.error
<1>. DEFINE d == IF b THEN "closed" ELSE r.body
            n == r.done + 1
            h == [r EXCEPT !.done = n]
            k == [h EXCEPT !.pw = "closed"]
<1>1. Stopped(r, b) = [k EXCEPT !.body = d]
  BY SMT DEF ServerRpxType, Stopped
<1>2. d \in {"open", "closed"} /\ n \in Nat
  BY SMT DEF ServerRpxType
<1>. HIDE DEF d, n
<1>3. h \in ServerRpxType /\ h.done = n /\ h.error = r.error
  BY <1>2, SMT DEF ServerRpxType
<1>. HIDE DEF h
<1>4. k \in ServerRpxType /\ k.done = n /\ k.error = r.error /\ k.pw = "closed"
  BY <1>3, SMT DEF ServerRpxType
<1>. HIDE DEF k
<1>5. /\ Stopped(r, b) \in ServerRpxType /\ Stopped(r, b).done = n
      /\ Stopped(r, b).pw = "closed" /\ Stopped(r, b).error = r.error
  BY <1>1, <1>2, <1>4, SMT DEF ServerRpxType
<1>. QED  BY <1>5, Zenon DEF n

StoppedAt(f, g, S, x) ==
  /\ g[x].error = f[x].error
  /\ x \in S => g[x].done = f[x].done + 1 /\ g[x].pw = "closed"
  /\ x \notin S => SameStop(f, g, x)

LEMMA AllStopped ==
  ASSUME NEW f \in ServerRpxs, NEW S, NEW b \in BOOLEAN, NEW g,
         g = [x \in Reqs |-> IF x \in S THEN Stopped(f[x], b) ELSE f[x]]
  PROVE  g \in ServerRpxs /\ \A x \in Reqs : StoppedAt(f, g, S, x)
<1>1. \A x \in Reqs : f[x] \in ServerRpxType
  BY Zenon DEF ServerRpxs
<1>2. \A x \in Reqs : g[x] = IF x \in S THEN Stopped(f[x], b) ELSE f[x]
  BY Zenon
<1>3. g \in ServerRpxs
  BY <1>1, StoppedOne, Zenon DEF ServerRpxs
<1>. QED  BY <1>1, <1>2, <1>3, StoppedOne, Zenon DEF SameStop, StoppedAt

LEMMA StoppedSet ==
  ASSUME NEW f \in ServerRpxs, NEW q \in Reqs, NEW b \in BOOLEAN, NEW g,
         g = [f EXCEPT ![q] = Stopped(@, b)]
  PROVE  g \in ServerRpxs /\ \A x \in Reqs : StoppedAt(f, g, {q}, x)
<1>1. g = [x \in Reqs |-> IF x \in {q} THEN Stopped(f[x], b) ELSE f[x]]
  BY Zenon DEF ServerRpxs
<1>. QED  BY <1>1, AllStopped, Zenon

SameBrowser(f, g, x) == g[x].sent = f[x].sent /\ g[x].got = f[x].got /\ g[x].result = f[x].result

ResultAt(f, g, q, r, x) ==
  g[x].sent = f[x].sent /\ g[x].got = f[x].got /\ g[x].result = IF x = q THEN r ELSE f[x].result

SentAt(f, g, q, x) ==
  g[x].sent = f[x].sent + Count(x = q) /\ g[x].got = f[x].got /\ g[x].result = f[x].result

GotAt(f, g, q, x) ==
  g[x].sent = f[x].sent /\ g[x].got = f[x].got + Count(x = q) /\ g[x].result = f[x].result

LEMMA ResultSet ==
  ASSUME NEW f \in Browsers, NEW q \in Reqs, NEW r \in {"ok", "error"}, NEW g,
         g = [f EXCEPT ![q].result = r]
  PROVE  g \in Browsers /\ \A x \in Reqs : ResultAt(f, g, q, r, x)
BY SMT DEF Browsers, ResultAt

LEMMA BodySent ==
  ASSUME NEW f \in Browsers, NEW q \in Reqs, NEW g, g = [f EXCEPT ![q].sent = @ + 1]
  PROVE  g \in Browsers /\ \A x \in Reqs : SentAt(f, g, q, x)
BY SMT DEF Browsers, SentAt, Count

LEMMA ResponseGot ==
  ASSUME NEW f \in Browsers, NEW q \in Reqs, NEW g, g = [f EXCEPT ![q].got = @ + 1]
  PROVE  g \in Browsers /\ \A x \in Reqs : GotAt(f, g, q, x)
BY SMT DEF Browsers, GotAt, Count

LEMMA GoneSet ==
  ASSUME NEW f \in Browsers, NEW q \in Reqs, NEW e \in BOOLEAN, NEW g, g = [f EXCEPT ![q].gone = e]
  PROVE  g \in Browsers /\ \A x \in Reqs : SameBrowser(f, g, x)
BY SMT DEF Browsers, SameBrowser

ReadAt(f, g, q, x) ==
  g[x].got = f[x].got + Count(x = q) /\ g[x].sent = f[x].sent /\ g[x].failed = f[x].failed

SameAnswer(f, g, x) == g[x].sent = f[x].sent /\ g[x].failed = f[x].failed

AnsweredAt(f, g, q, x) ==
  g[x].got = f[x].got /\ g[x].sent = f[x].sent + Count(x = q) /\ g[x].failed = f[x].failed

FailedAt(f, g, q, e, x) ==
  g[x].got = f[x].got /\ g[x].sent = f[x].sent /\ g[x].failed = IF x = q THEN e ELSE f[x].failed

LEMMA BodyRead ==
  ASSUME NEW f \in Targets, NEW q \in Reqs, NEW g, g = [f EXCEPT ![q].got = @ + 1]
  PROVE  g \in Targets /\ \A x \in Reqs : ReadAt(f, g, q, x)
BY SMT DEF Targets, ReadAt, Count

LEMMA ResponseSent ==
  ASSUME NEW f \in Targets, NEW q \in Reqs, NEW g, g = [f EXCEPT ![q].sent = @ + 1]
  PROVE  g \in Targets /\ \A x \in Reqs : AnsweredAt(f, g, q, x)
BY SMT DEF Targets, AnsweredAt, Count

LEMMA FailedSet ==
  ASSUME NEW f \in Targets, NEW q \in Reqs, NEW e \in BOOLEAN, NEW g, g = [f EXCEPT ![q].failed = e]
  PROVE  g \in Targets /\ \A x \in Reqs : FailedAt(f, g, q, e, x)
BY SMT DEF Targets, FailedAt

LEMMA ClientStoppedOne ==
  ASSUME NEW r \in ClientRpxType
  PROVE  ClientStopped(r) \in ClientRpxType /\ ClientStopped(r).pr = "closed"
<1>. DEFINE h == [r EXCEPT !.pr = "closed"]
<1>1. ClientStopped(r) = [h EXCEPT !.pw = "closed"]
  BY SMT DEF ClientRpxType, ClientStopped
<1>2. h \in ClientRpxType /\ h.pr = "closed"
  BY SMT DEF ClientRpxType
<1>. HIDE DEF h
<1>. QED  BY <1>1, <1>2, SMT DEF ClientRpxType

SameReader(f, g, x) == g[x].pr = f[x].pr

ReaderClosed(f, g, S, x) == IF x \in S THEN g[x].pr = "closed" ELSE g[x].pr = f[x].pr

LEMMA ClientStoppedSet ==
  ASSUME NEW f \in ClientRpxs, NEW q \in Reqs, NEW g, g = [f EXCEPT ![q] = ClientStopped(@)]
  PROVE  g \in ClientRpxs /\ \A x \in Reqs : ReaderClosed(f, g, {q}, x)
<1>1. f[q] \in ClientRpxType
  BY Zenon DEF ClientRpxs
<1>2. g \in ClientRpxs /\ g[q] = ClientStopped(f[q]) /\ \A x \in Reqs : x # q => g[x] = f[x]
  BY <1>1, ClientStoppedOne, SMT DEF ClientRpxs
<1>. QED  BY <1>1, <1>2, ClientStoppedOne, Zenon DEF ReaderClosed

LEMMA ClientAllStopped ==
  ASSUME NEW f \in ClientRpxs, NEW S, NEW g,
         g = [q \in Reqs |-> IF q \in S THEN ClientStopped(f[q]) ELSE f[q]]
  PROVE  g \in ClientRpxs /\ \A x \in Reqs : ReaderClosed(f, g, S, x)
<1>1. \A x \in Reqs : f[x] \in ClientRpxType
  BY Zenon DEF ClientRpxs
<1>2. g \in ClientRpxs
  BY <1>1, ClientStoppedOne, Zenon DEF ClientRpxs
<1>. QED  BY <1>1, <1>2, ClientStoppedOne, Zenon DEF ReaderClosed

LEMMA WriterClosed ==
  ASSUME NEW f \in ClientRpxs, NEW q \in Reqs, NEW g, g = [f EXCEPT ![q].pw = "closed"]
  PROVE  g \in ClientRpxs /\ \A x \in Reqs : SameReader(f, g, x)
BY SMT DEF ClientRpxs, ClientRpxType, SameReader

LEMMA CopySet ==
  ASSUME NEW f \in ClientRpxs, NEW q \in Reqs, NEW c \in {"run", "ended"}, NEW g,
         g = [f EXCEPT ![q].copy = c]
  PROVE  g \in ClientRpxs /\ \A x \in Reqs : SameReader(f, g, x)
BY SMT DEF ClientRpxs, ClientRpxType, SameReader

-----------------------------------------------------------------------------
(* Where messages of a request are in a queue.                             *)

InQueue(s, q, k) == \E i \in DOMAIN s : s[i].q = q /\ s[i].kind = k

Any(s, q) == \E i \in DOMAIN s : s[i].q = q

\* START is the first message of the request, and the only START.
StartsWith(s, q) ==
  \A i \in DOMAIN s : s[i].q = q => (s[i].kind = "START" <=> \A j \in 1..(i - 1) : s[j].q # q)

\* Nothing but STOP comes after EOF, and nothing after STOP.
EndsWith(s, q) ==
  \A i, j \in DOMAIN s :
    i < j /\ s[i].q = q /\ s[j].q = q /\ s[i].kind \in {"EOF", "STOP"} =>
      s[i].kind = "EOF" /\ s[j].kind = "STOP"

LEMMA InEmpty ==
  ASSUME NEW q, NEW k
  PROVE  ~InQueue(<<>>, q, k) /\ ~Any(<<>>, q) /\ StartsWith(<<>>, q) /\ EndsWith(<<>>, q)
BY SMT DEF InQueue, Any, StartsWith, EndsWith

LEMMA InAppend ==
  ASSUME NEW T, NEW s \in Seq(T), NEW m \in T, NEW q
  PROVE  /\ \A k : InQueue(Append(s, m), q, k) <=> InQueue(s, q, k) \/ (m.q = q /\ m.kind = k)
         /\ Any(Append(s, m), q) <=> Any(s, q) \/ m.q = q
<1>1. /\ DOMAIN Append(s, m) = DOMAIN s \cup {Len(s) + 1}
      /\ Append(s, m)[Len(s) + 1] = m
      /\ \A i \in DOMAIN s : Append(s, m)[i] = s[i]
  BY SMT
<1>2. ASSUME NEW k
      PROVE  InQueue(Append(s, m), q, k) <=> InQueue(s, q, k) \/ (m.q = q /\ m.kind = k)
  BY <1>1, Zenon DEF InQueue
<1>3. Any(Append(s, m), q) <=> Any(s, q) \/ m.q = q
  BY <1>1, Zenon DEF Any
<1>. QED  BY <1>2, <1>3, Zenon

LEMMA InTail ==
  ASSUME NEW T, NEW s \in Seq(T), s # <<>>, NEW q
  PROVE  /\ \A k : InQueue(s, q, k) <=> InQueue(Tail(s), q, k) \/ (Head(s).q = q /\ Head(s).kind = k)
         /\ Any(s, q) <=> Any(Tail(s), q) \/ Head(s).q = q
<1>1. /\ \A i \in DOMAIN Tail(s) : i + 1 \in DOMAIN s /\ Tail(s)[i] = s[i + 1]
      /\ \A i \in DOMAIN s : i # 1 => i - 1 \in DOMAIN Tail(s) /\ s[i] = Tail(s)[i - 1]
      /\ 1 \in DOMAIN s /\ s[1] = Head(s)
  BY SMT
<1>2. ASSUME NEW k
      PROVE  InQueue(s, q, k) <=> InQueue(Tail(s), q, k) \/ (Head(s).q = q /\ Head(s).kind = k)
  BY <1>1, Zenon DEF InQueue
<1>3. Any(s, q) <=> Any(Tail(s), q) \/ Head(s).q = q
  BY <1>1, Zenon DEF Any
<1>. QED  BY <1>2, <1>3, Zenon

LEMMA StartsAppend ==
  ASSUME NEW T, NEW s \in Seq(T), NEW m \in T, NEW q, StartsWith(s, q),
         m.q = q => (m.kind = "START" <=> ~Any(s, q))
  PROVE  StartsWith(Append(s, m), q)
<1>1. /\ DOMAIN Append(s, m) = DOMAIN s \cup {Len(s) + 1} /\ DOMAIN s = 1..Len(s)
      /\ Append(s, m)[Len(s) + 1] = m
      /\ \A i \in DOMAIN s : Append(s, m)[i] = s[i]
  BY SMT
<1>2. ASSUME NEW i \in DOMAIN s, s[i].q = q
      PROVE  s[i].kind = "START" <=> \A j \in 1..(i - 1) : Append(s, m)[j].q # q
  <2>1. \A j \in 1..(i - 1) : j \in DOMAIN s
    BY <1>1, SMT
  <2>. QED  BY <1>1, <1>2, <2>1, Zenon DEF StartsWith
<1>3. ASSUME m.q = q
      PROVE  m.kind = "START" <=> \A j \in 1..((Len(s) + 1) - 1) : Append(s, m)[j].q # q
  <2>1. 1..((Len(s) + 1) - 1) = DOMAIN s
    BY <1>1, SMT
  <2>. QED  BY <1>1, <1>3, <2>1, Zenon DEF Any
<1>. QED  BY <1>1, <1>2, <1>3, Zenon DEF StartsWith

LEMMA StartsTail ==
  ASSUME NEW T, NEW s \in Seq(T), s # <<>>, NEW q, StartsWith(s, q)
  PROVE  /\ Head(s).q # q => StartsWith(Tail(s), q)
         /\ Head(s).q = q => Head(s).kind = "START" /\ ~InQueue(Tail(s), q, "START")
<1>1. /\ DOMAIN s = 1..Len(s) /\ DOMAIN Tail(s) = 1..(Len(s) - 1) /\ Len(s) \in Nat \ {0}
      /\ \A i \in DOMAIN Tail(s) : i + 1 \in DOMAIN s /\ Tail(s)[i] = s[i + 1]
      /\ 1 \in DOMAIN s /\ s[1] = Head(s)
  BY SMT
<1>2. ASSUME Head(s).q # q, NEW i \in DOMAIN Tail(s), Tail(s)[i].q = q
      PROVE  Tail(s)[i].kind = "START" <=> \A j \in 1..(i - 1) : Tail(s)[j].q # q
  <2>1. s[i + 1].kind = "START" <=> \A j \in 1..((i + 1) - 1) : s[j].q # q
    BY <1>1, <1>2, Zenon DEF StartsWith
  <2>2. ASSUME NEW j \in 1..(i - 1)
        PROVE  j \in DOMAIN Tail(s) /\ j + 1 \in 1..((i + 1) - 1)
    BY <1>1, SMT
  <2>3. ASSUME NEW j \in 1..((i + 1) - 1), j # 1
        PROVE  j - 1 \in 1..(i - 1) /\ j - 1 \in DOMAIN Tail(s) /\ Tail(s)[j - 1] = s[j]
    BY <1>1, <2>3, SMT
  <2>. QED  BY <1>1, <1>2, <2>1, <2>2, <2>3, Zenon
<1>3. ASSUME Head(s).q = q
      PROVE  Head(s).kind = "START"
  <2>1. \A j \in 1..(1 - 1) : s[j].q # q
    BY SMT
  <2>. QED  BY <1>1, <1>3, <2>1, Zenon DEF StartsWith
<1>4. ASSUME Head(s).q = q, NEW i \in DOMAIN Tail(s), Tail(s)[i].q = q
      PROVE  Tail(s)[i].kind # "START"
  <2>1. 1 \in 1..((i + 1) - 1)
    BY <1>1, SMT
  <2>. QED  BY <1>1, <1>4, <2>1, Zenon DEF StartsWith
<1>. QED  BY <1>2, <1>3, <1>4, Zenon DEF StartsWith, InQueue

LEMMA EndsAppend ==
  ASSUME NEW T, NEW s \in Seq(T), NEW m \in T, NEW q, EndsWith(s, q),
         m.q = q => ~InQueue(s, q, "STOP") /\ (InQueue(s, q, "EOF") => m.kind = "STOP")
  PROVE  EndsWith(Append(s, m), q)
<1>1. /\ DOMAIN Append(s, m) = DOMAIN s \cup {Len(s) + 1}
      /\ Append(s, m)[Len(s) + 1] = m
      /\ \A i \in DOMAIN s : Append(s, m)[i] = s[i] /\ ~(Len(s) + 1 < i)
      /\ ~(Len(s) + 1 < Len(s) + 1)
  BY SMT
<1>. SUFFICES ASSUME NEW i \in DOMAIN Append(s, m), NEW j \in DOMAIN Append(s, m), i < j,
                     Append(s, m)[i].q = q, Append(s, m)[j].q = q,
                     Append(s, m)[i].kind \in {"EOF", "STOP"}
              PROVE  Append(s, m)[i].kind = "EOF" /\ Append(s, m)[j].kind = "STOP"
  BY Zenon DEF EndsWith
<1>2. i \in DOMAIN s
  BY <1>1, Zenon
<1>3. CASE j \in DOMAIN s
  BY <1>1, <1>2, <1>3, Zenon DEF EndsWith
<1>4. CASE j = Len(s) + 1
  BY <1>1, <1>2, <1>4, Zenon DEF InQueue
<1>. QED  BY <1>1, <1>3, <1>4, Zenon

LEMMA EndsTail ==
  ASSUME NEW T, NEW s \in Seq(T), s # <<>>, NEW q, EndsWith(s, q)
  PROVE  /\ EndsWith(Tail(s), q)
         /\ Head(s).q = q /\ Head(s).kind \in {"EOF", "STOP"} =>
              \A k : InQueue(Tail(s), q, k) => Head(s).kind = "EOF" /\ k = "STOP"
<1>1. /\ \A i \in DOMAIN Tail(s) : i + 1 \in DOMAIN s /\ Tail(s)[i] = s[i + 1] /\ 1 < i + 1
      /\ \A i, j \in DOMAIN Tail(s) : i < j => i + 1 < j + 1
      /\ 1 \in DOMAIN s /\ s[1] = Head(s)
  BY SMT
<1>a. ASSUME NEW i \in DOMAIN s, NEW j \in DOMAIN s, i < j, s[i].q = q, s[j].q = q,
             s[i].kind \in {"EOF", "STOP"}
      PROVE  s[i].kind = "EOF" /\ s[j].kind = "STOP"
  BY <1>a, Zenon DEF EndsWith
<1>2. EndsWith(Tail(s), q)
  <2>. SUFFICES ASSUME NEW i \in DOMAIN Tail(s), NEW j \in DOMAIN Tail(s), i < j,
                       Tail(s)[i].q = q, Tail(s)[j].q = q, Tail(s)[i].kind \in {"EOF", "STOP"}
                PROVE  Tail(s)[i].kind = "EOF" /\ Tail(s)[j].kind = "STOP"
    BY Zenon DEF EndsWith
  <2>1. /\ i + 1 \in DOMAIN s /\ j + 1 \in DOMAIN s /\ i + 1 < j + 1
        /\ Tail(s)[i] = s[i + 1] /\ Tail(s)[j] = s[j + 1]
    BY <1>1, Zenon
  <2>2. s[i + 1].kind = "EOF" /\ s[j + 1].kind = "STOP"
    BY <1>a, <2>1, Zenon
  <2>. QED  BY <2>1, <2>2, Zenon
<1>3. ASSUME Head(s).q = q, Head(s).kind \in {"EOF", "STOP"}, NEW k, InQueue(Tail(s), q, k)
      PROVE  Head(s).kind = "EOF" /\ k = "STOP"
  <2>1. PICK j \in DOMAIN Tail(s) : Tail(s)[j].q = q /\ Tail(s)[j].kind = k
    BY <1>3, Zenon DEF InQueue
  <2>2. j + 1 \in DOMAIN s /\ 1 < j + 1 /\ s[j + 1].q = q /\ s[j + 1].kind = k
    BY <1>1, <2>1, Zenon
  <2>3. s[1].q = q /\ s[1].kind \in {"EOF", "STOP"}
    BY <1>1, <1>3, Zenon
  <2>4. s[1].kind = "EOF" /\ s[j + 1].kind = "STOP"
    BY <1>1, <1>a, <2>2, <2>3, Zenon
  <2>. QED  BY <1>1, <2>2, <2>4, Zenon
<1>. QED  BY <1>2, <1>3, Zenon

-----------------------------------------------------------------------------
(* The inductive invariant.                                                *)

Ended(q) == cl[q] \in {"join", "ended"}

\* The tables hold the requests that are being served.
Tables ==
  /\ rpx_map = {q \in Reqs : sh[q] \notin {"none", "returned"}}
  /\ client_map = {q \in Reqs : cl[q] \notin {"none", "ended"}}

\* What a failed stream leaves, and what happens only after it.
Streams ==
  /\ link = "down" => c2s = <<>> /\ s2c = <<>> /\ disturbed
  /\ link = "up" => recv # "ended" /\ ~conn_stop

\* Before ServeHTTP.
Fresh(q) ==
  sh[q] = "none" => /\ rh[q] = "none" /\ cl[q] = "none" /\ ~Any(s2c, q)
                    /\ browser[q].sent = 0 /\ browser[q].got = 0

\* Before the client has received START.
Unasked(q) ==
  cl[q] = "none" => /\ target[q].got = 0 /\ target[q].sent = 0 /\ crpx[q].pr = "open"
                    /\ crecv # q /\ recv # q /\ ~Any(c2s, q)

\* A success is reported after handle_response has copied the whole response.
Served(q) ==
  /\ sh[q] = "final" => rh[q] = "done" /\ ~srpx[q].error
  /\ browser[q].result = "ok" => sh[q] = "returned" /\ rh[q] = "done"
  /\ q \in rpx_map => rh[q] # "none"
  /\ browser[q].result = "ok" /\ ~target[q].failed /\ ~disturbed => browser[q].got = MaxResp

StartFirst(q) ==
  /\ cl[q] = "none" => StartsWith(s2c, q)
  /\ cl[q] # "none" => ~InQueue(s2c, q, "START")
  /\ link = "up" /\ sh[q] # "none" /\ cl[q] = "none" => Any(s2c, q)

CloseLast(q) ==
  /\ EndsWith(c2s, q)
  /\ InQueue(c2s, q, "EOF") => Ended(q)
  /\ InQueue(c2s, q, "STOP") => cl[q] = "ended"

\* Once the server has closed the pipe, or the client has said all it had to say,
\* no data of the request is under way.
Piped(q) ==
  link = "up" =>
    /\ srpx[q].pw = "closed" => Ended(q)
    /\ \/ srpx[q].pw = "closed"
       \/ Ended(q) /\ ~InQueue(c2s, q, "EOF") /\ ~InQueue(c2s, q, "STOP")
       => recv # q /\ ~InQueue(c2s, q, "DATA")
    /\ Ended(q) /\ ~target[q].failed => target[q].sent = MaxResp

\* The messages that can still be put into done_chan of a request.
EofDue(q) == ~Ended(q) \/ InQueue(c2s, q, "EOF")
StopDue(q) == cl[q] # "ended" \/ InQueue(c2s, q, "STOP")

Due(q) == IF link = "up" THEN Count(EofDue(q)) + Count(StopDue(q)) ELSE Count(recv = q)

Budget(q) == srpx[q].done + Count(recv # "ended") + Count(~conn_stop) + Due(q) <= 4

\* Where the packets of a request's body are.
Sent(q) ==
  link = "up" /\ (cl[q] = "none" \/ (q \in client_map /\ crpx[q].pr = "open")) =>
    target[q].got + Count(crecv = q) + Packets(s2c, q) = browser[q].sent

\* Where the packets of a response are.
Got(q) ==
  q \in rpx_map /\ ~disturbed =>
    /\ rh[q] \in {"header", "copy", "write"} =>
         target[q].sent =
           browser[q].got + Count(rh[q] = "write") + Count(recv = q) + Packets(c2s, q)
    /\ rh[q] = "done" /\ ~srpx[q].error /\ ~target[q].failed => browser[q].got = MaxResp

IInv ==
  /\ TypeOK /\ Tables /\ Streams
  /\ \A q \in Reqs : /\ Fresh(q) /\ Unasked(q) /\ Served(q) /\ StartFirst(q) /\ CloseLast(q)
                      /\ Piped(q) /\ Budget(q) /\ Sent(q) /\ Got(q)

-----------------------------------------------------------------------------
(* ServeHTTP.                                                              *)

LEMMA MessagesType ==
  ASSUME NEW q \in Reqs
  PROVE  /\ \A k \in {"DATA", "EOF", "STOP"} :
              Msg(k, q) \in ToClient /\ Msg(k, q) \in ToServer /\ Msg(k, q).q = q /\ Msg(k, q).kind = k
         /\ \A u \in BOOLEAN : [kind |-> "START", q |-> q, upgrade |-> u] \in ToClient
         /\ \A c \in Statuses : /\ StartOf(q, c) \in ToServer /\ StartOf(q, c).q = q
                                /\ StartOf(q, c).kind = "START"
BY SMT DEF Msg, ToClient, ToServer, StartOf

\* What the handler leaves alone.
HandlerKeeps ==
  /\ UNCHANGED <<recv, conn_stop, cl, crpx, client_map, crecv, target, c2s, link, disturbed>>
  /\ srpx' \in ServerRpxs /\ \A x \in Reqs : LessDone(srpx, srpx', x)

LEMMA HandlerFrame ==
  ASSUME IInv, HandlerKeeps, NEW x \in Reqs
  PROVE  Unasked(x)' /\ CloseLast(x)' /\ Piped(x)' /\ Budget(x)'
<1>1. Unasked(x)' /\ CloseLast(x)'
  BY Zenon DEF IInv, HandlerKeeps, Unasked, CloseLast, Ended
<1>2. Piped(x)'
  BY Zenon DEF IInv, HandlerKeeps, Piped, Ended, LessDone
<1>3. Due(x)' = Due(x) /\ recv' = recv /\ conn_stop' = conn_stop
  BY Zenon DEF HandlerKeeps, Due, EofDue, StopDue, Ended
<1>4. srpx'[x].done <= srpx[x].done /\ srpx'[x].done \in Nat /\ srpx[x].done \in Nat
  BY SMT DEF IInv, TypeOK, HandlerKeeps, LessDone, ServerRpxs, ServerRpxType
<1>5. Budget(x)'
  <2>1. Count(recv # "ended") \in Nat /\ Count(~conn_stop) \in Nat /\ Due(x) \in Nat
    BY SMT DEF Count, Due
  <2>2. srpx[x].done + Count(recv # "ended") + Count(~conn_stop) + Due(x) <= 4
    BY Zenon DEF IInv, Budget
  <2>3. srpx'[x].done + Count(recv # "ended") + Count(~conn_stop) + Due(x) <= 4
    BY <1>4, <2>1, <2>2, SMT
  <2>. QED  BY <1>3, <2>3, Zenon DEF Budget
<1>. QED  BY <1>1, <1>2, <1>5

\* Sending a message changes nothing for other requests.
LEMMA SentToClient ==
  ASSUME TypeOK, NEW m \in ToClient, SendToClient(m), NEW x \in Reqs
  PROVE  /\ s2c' \in Seq(ToClient)
         /\ m.q # x => /\ \A k : InQueue(s2c', x, k) <=> InQueue(s2c, x, k)
                       /\ Any(s2c', x) <=> Any(s2c, x)
                       /\ StartsWith(s2c, x) => StartsWith(s2c', x)
                       /\ Packets(s2c', x) = Packets(s2c, x)
<1>1. s2c \in Seq(ToClient)
  BY Zenon DEF TypeOK
<1>2. CASE link = "up"
  <2>1. s2c' = Append(s2c, m)
    BY <1>2, Zenon DEF SendToClient
  <2>2. s2c' \in Seq(ToClient)
    BY <1>1, <2>1, SMT
  <2>3. ASSUME m.q # x
        PROVE  Packets(s2c', x) = Packets(s2c, x)
    <3>1. Packets(s2c', x) = Packets(s2c, x) + Count(m.q = x /\ m.kind = "DATA")
      BY <1>1, <2>1, PacketsAppend, Zenon
    <3>2. Packets(s2c, x) \in Nat
      BY <1>1, PlacesFinite, Zenon
    <3>3. Count(m.q = x /\ m.kind = "DATA") = 0
      BY <2>3, Zenon DEF Count
    <3>. QED  BY <3>1, <3>2, <3>3, SMT
  <2>4. ASSUME m.q # x
        PROVE  /\ \A k : InQueue(s2c', x, k) <=> InQueue(s2c, x, k)
               /\ Any(s2c', x) <=> Any(s2c, x)
    BY <1>1, <2>1, <2>4, InAppend, Zenon
  <2>5. ASSUME m.q # x, StartsWith(s2c, x)
        PROVE  StartsWith(s2c', x)
    BY <1>1, <2>1, <2>5, StartsAppend, Zenon
  <2>. QED  BY <2>2, <2>3, <2>4, <2>5, Zenon
<1>3. CASE link # "up"
  BY <1>1, <1>3, Zenon DEF SendToClient
<1>. QED  BY <1>2, <1>3

\* What is said about a request that the handler does not serve.
LEMMA HandlerOthers ==
  ASSUME IInv, HandlerKeeps, NEW q \in Reqs, NEW x \in Reqs, x # q,
         NEW m \in ToClient, m.q = q, s2c' = s2c \/ SendToClient(m),
         sh'[x] = sh[x], rh'[x] = rh[x], x \in rpx_map' <=> x \in rpx_map,
         browser'[x].sent = browser[x].sent, browser'[x].got = browser[x].got,
         browser'[x].result = browser[x].result
  PROVE  Fresh(x)' /\ Served(x)' /\ StartFirst(x)' /\ Sent(x)' /\ Got(x)'
<1>0. srpx'[x].error = srpx[x].error
  BY Zenon DEF HandlerKeeps, LessDone
<1>1. /\ \A k : InQueue(s2c', x, k) <=> InQueue(s2c, x, k)
      /\ Any(s2c', x) <=> Any(s2c, x)
      /\ StartsWith(s2c, x) => StartsWith(s2c', x)
      /\ Packets(s2c', x) = Packets(s2c, x)
  BY SentToClient, Zenon DEF IInv
<1>2. Fresh(x)'
  BY <1>1, Zenon DEF IInv, Fresh, HandlerKeeps
<1>3. Served(x)'
  BY <1>0, Zenon DEF IInv, Served, HandlerKeeps
<1>4. StartFirst(x)'
  BY <1>1, Zenon DEF IInv, StartFirst, HandlerKeeps
<1>5. Sent(x)'
  BY <1>1, Zenon DEF IInv, Sent, HandlerKeeps
<1>6. Got(x)'
  <2>1. Got(x)
    BY Zenon DEF IInv
  <2>. QED  BY <1>0, <2>1, ZenonT(60) DEF Got, HandlerKeeps
<1>. QED  BY <1>2, <1>3, <1>4, <1>5, <1>6

HandlerServes(q, m) ==
  /\ HandlerKeeps
  /\ m \in ToClient /\ m.q = q /\ (s2c' = s2c \/ SendToClient(m))
  /\ \A x \in Reqs \ {q} : /\ sh'[x] = sh[x] /\ rh'[x] = rh[x] /\ (x \in rpx_map' <=> x \in rpx_map)
                           /\ SameBrowser(browser, browser', x)
  /\ sh' \in [Reqs -> {"none", "upgrade", "body", "join", "final", "returned"}]
  /\ rh' \in [Reqs -> {"none", "header", "copy", "write", "done"}]
  /\ rpx_map' \subseteq Reqs /\ browser' \in Browsers
  /\ q \in rpx_map' <=> sh'[q] \notin {"none", "returned"}

LEMMA HandlerWhole ==
  ASSUME IInv, NEW q \in Reqs, NEW m, HandlerServes(q, m),
         Fresh(q)', Served(q)', StartFirst(q)', Sent(q)', Got(q)'
  PROVE  IInv'
<1>1. s2c' \in Seq(ToClient)
  BY SentToClient, Zenon DEF HandlerServes, IInv, TypeOK
<1>2. TypeOK'
  BY <1>1, Zenon DEF IInv, TypeOK, HandlerServes, HandlerKeeps
<1>3. Tables'
  <2>1. \A x \in Reqs : x \in rpx_map' <=> sh'[x] \notin {"none", "returned"}
    BY Zenon DEF HandlerServes, IInv, Tables
  <2>2. rpx_map' = {x \in Reqs : sh'[x] \notin {"none", "returned"}}
    BY <2>1, Zenon DEF HandlerServes
  <2>. QED  BY <2>2, Zenon DEF HandlerServes, HandlerKeeps, IInv, Tables
<1>4. Streams'
  BY Zenon DEF IInv, Streams, HandlerServes, HandlerKeeps, SendToClient
<1>5. ASSUME NEW x \in Reqs, x # q
      PROVE  Fresh(x)' /\ Served(x)' /\ StartFirst(x)' /\ Sent(x)' /\ Got(x)'
  <2>1. /\ sh'[x] = sh[x] /\ rh'[x] = rh[x] /\ (x \in rpx_map' <=> x \in rpx_map)
        /\ SameBrowser(browser, browser', x)
    BY <1>5, Zenon DEF HandlerServes
  <2>. QED  BY <1>5, <2>1, HandlerOthers, Zenon DEF HandlerServes, SameBrowser
<1>6. \A x \in Reqs : Unasked(x)' /\ CloseLast(x)' /\ Piped(x)' /\ Budget(x)'
  BY HandlerFrame, Zenon DEF HandlerServes
<1>. QED  BY <1>2, <1>3, <1>4, <1>5, <1>6, Zenon DEF IInv

\* A message of a request that has been started.
LEMMA OwnMessage ==
  ASSUME IInv, NEW q \in Reqs, sh[q] # "none", NEW m \in ToClient, m.q = q, m.kind # "START",
         SendToClient(m), link = "up"
  PROVE  /\ InQueue(s2c', q, "START") <=> InQueue(s2c, q, "START")
         /\ Any(s2c', q)
         /\ cl[q] = "none" => StartsWith(s2c', q)
         /\ Packets(s2c', q) = Packets(s2c, q) + Count(m.kind = "DATA")
         /\ Packets(s2c, q) \in Nat
<1>1. s2c \in Seq(ToClient) /\ s2c' = Append(s2c, m)
  BY Zenon DEF SendToClient, IInv, TypeOK
<1>2. (InQueue(s2c', q, "START") <=> InQueue(s2c, q, "START")) /\ Any(s2c', q)
  BY <1>1, InAppend, Zenon
<1>3. ASSUME cl[q] = "none"
      PROVE  StartsWith(s2c', q)
  BY <1>1, <1>3, StartsAppend, Zenon DEF IInv, StartFirst
<1>4. Packets(s2c', q) = Packets(s2c, q) + Count(m.kind = "DATA")
  <2>1. Packets(s2c', q) = Packets(s2c, q) + Count(m.q = q /\ m.kind = "DATA")
    BY <1>1, PacketsAppend, Zenon
  <2>2. Count(m.q = q /\ m.kind = "DATA") = Count(m.kind = "DATA")
    BY Zenon DEF Count
  <2>. QED  BY <2>1, <2>2, Zenon
<1>5. Packets(s2c, q) \in Nat
  BY <1>1, PlacesFinite, Zenon
<1>. QED  BY <1>2, <1>3, <1>4, <1>5, Zenon

\* The handler returns, with a success only from its last step.
LEMMA ReturnStep ==
  ASSUME IInv, NEW q \in Reqs, sh[q] \notin {"none", "returned"}, NEW r \in {"ok", "error"},
         Return(q, r), r = "ok" => sh[q] = "final", HandlerKeeps, UNCHANGED rh
  PROVE  IInv'
<1>. DEFINE m == Msg("STOP", q)
<1>0. m \in ToClient /\ m.q = q /\ m.kind = "STOP" /\ SendToClient(m)
  BY MessagesType, Zenon DEF Return
<1>. HIDE DEF m
<1>1. browser' \in Browsers /\ \A x \in Reqs : ResultAt(browser, browser', q, r, x)
  BY ResultSet, Zenon DEF Return, IInv, TypeOK
<1>2. sh'[q] = "returned" /\ q \notin rpx_map' /\ rh' = rh
  BY Zenon DEF Return, IInv, TypeOK
<1>3. HandlerServes(q, m)
  <2>1. ASSUME NEW x \in Reqs, x # q
        PROVE  sh'[x] = sh[x] /\ (x \in rpx_map' <=> x \in rpx_map)
    BY <2>1, Zenon DEF Return, IInv, TypeOK
  <2>2. sh' \in [Reqs -> {"none", "upgrade", "body", "join", "final", "returned"}]
    BY Zenon DEF Return, IInv, TypeOK
  <2>3. \A x \in Reqs \ {q} : SameBrowser(browser, browser', x)
    BY <1>1, Zenon DEF SameBrowser, ResultAt
  <2>4. rpx_map' \subseteq Reqs
    BY Zenon DEF Return, IInv, TypeOK
  <2>. QED  BY <1>0, <1>1, <1>2, <2>1, <2>2, <2>3, <2>4, Zenon DEF HandlerServes, IInv, TypeOK
<1>4. browser'[q].sent = browser[q].sent /\ browser'[q].got = browser[q].got /\ browser'[q].result = r
  BY <1>1, Zenon DEF ResultAt
<1>5. Fresh(q)' /\ Got(q)'
  BY <1>2, Zenon DEF Fresh, Got
<1>6. Served(q)'
  <2>1. ASSUME r = "ok"
        PROVE  rh[q] = "done" /\ ~srpx[q].error /\ q \in rpx_map
    BY <2>1, Zenon DEF IInv, Served, Tables
  <2>2. ASSUME r = "ok", ~target'[q].failed, ~disturbed'
        PROVE  browser'[q].got = MaxResp
    BY <1>4, <2>1, <2>2, Zenon DEF IInv, Got, HandlerKeeps
  <2>. QED  BY <1>2, <1>4, <2>1, <2>2, Zenon DEF Served
<1>7. ASSUME link = "up"
      PROVE  /\ InQueue(s2c', q, "START") <=> InQueue(s2c, q, "START")
             /\ Any(s2c', q)
             /\ cl[q] = "none" => StartsWith(s2c', q)
             /\ Packets(s2c', q) = Packets(s2c, q)
  <2>1. /\ InQueue(s2c', q, "START") <=> InQueue(s2c, q, "START")
        /\ Any(s2c', q)
        /\ cl[q] = "none" => StartsWith(s2c', q)
        /\ Packets(s2c', q) = Packets(s2c, q) + Count(m.kind = "DATA")
        /\ Packets(s2c, q) \in Nat
    BY <1>0, <1>7, OwnMessage, Zenon
  <2>2. Packets(s2c', q) = Packets(s2c, q)
    BY <1>0, <2>1, SMT DEF Count
  <2>. QED  BY <2>1, <2>2, Zenon
<1>8. link # "up" => s2c' = s2c
  BY <1>0, Zenon DEF SendToClient
<1>9. StartFirst(q)'
  BY <1>7, <1>8, Zenon DEF StartFirst, IInv, HandlerKeeps
<1>10. Sent(q)'
  BY <1>4, <1>7, Zenon DEF Sent, IInv, HandlerKeeps
<1>. QED  BY <1>3, <1>5, <1>6, <1>9, <1>10, HandlerWhole, Zenon

\* The handler goes on to another step, after the end of the body with a message.
LEMMA StepOn ==
  ASSUME IInv, NEW q \in Reqs, sh[q] \notin {"none", "returned"},
         NEW p \in {"body", "join", "final"}, sh' = [sh EXCEPT ![q] = p],
         p = "final" => rh[q] = "done" /\ ~srpx[q].error,
         s2c' = s2c \/ SendToClient(Msg("EOF", q)),
         HandlerKeeps, UNCHANGED <<rh, rpx_map, browser>>
  PROVE  IInv'
<1>. DEFINE m == Msg("EOF", q)
<1>0. m \in ToClient /\ m.q = q /\ m.kind = "EOF" /\ (s2c' = s2c \/ SendToClient(m))
  BY MessagesType, Zenon
<1>. HIDE DEF m
<1>1. sh'[q] = p /\ (\A x \in Reqs \ {q} : sh'[x] = sh[x]) /\ q \in rpx_map
  BY Zenon DEF IInv, TypeOK, Tables
<1>2. HandlerServes(q, m)
  <2>1. sh' \in [Reqs -> {"none", "upgrade", "body", "join", "final", "returned"}]
    BY Zenon DEF IInv, TypeOK
  <2>. QED  BY <1>0, <1>1, <2>1, Zenon DEF HandlerServes, IInv, TypeOK, SameBrowser
<1>3. Fresh(q)'
  BY <1>1, Zenon DEF Fresh
<1>4. srpx'[q].error = srpx[q].error
  BY Zenon DEF HandlerKeeps, LessDone
<1>5. Served(q)'
  BY <1>1, <1>4, Zenon DEF Served, IInv, HandlerKeeps
<1>6. Got(q)'
  BY <1>4, Zenon DEF Got, IInv, HandlerKeeps
<1>7. ASSUME link = "up", SendToClient(m)
      PROVE  /\ InQueue(s2c', q, "START") <=> InQueue(s2c, q, "START")
             /\ Any(s2c', q)
             /\ cl[q] = "none" => StartsWith(s2c', q)
             /\ Packets(s2c', q) = Packets(s2c, q)
  <2>1. /\ InQueue(s2c', q, "START") <=> InQueue(s2c, q, "START")
        /\ Any(s2c', q)
        /\ cl[q] = "none" => StartsWith(s2c', q)
        /\ Packets(s2c', q) = Packets(s2c, q) + Count(m.kind = "DATA")
        /\ Packets(s2c, q) \in Nat
    BY <1>0, <1>7, OwnMessage, Zenon
  <2>2. Packets(s2c', q) = Packets(s2c, q)
    BY <1>0, <2>1, SMT DEF Count
  <2>. QED  BY <2>1, <2>2, Zenon
<1>8. s2c' = s2c \/ (link = "up" /\ SendToClient(m))
  BY <1>0, Zenon DEF SendToClient
<1>9. StartFirst(q)'
  BY <1>1, <1>7, <1>8, Zenon DEF StartFirst, IInv, HandlerKeeps
<1>10. Sent(q)'
  BY <1>7, <1>8, Zenon DEF Sent, IInv, HandlerKeeps
<1>. QED  BY <1>2, <1>3, <1>5, <1>6, <1>9, <1>10, HandlerWhole, Zenon

\* A packet of the body.
LEMMA BodyDataStep ==
  ASSUME IInv, NEW q \in Reqs, sh[q] = "body", link = "up",
         browser' = [browser EXCEPT ![q].sent = @ + 1], SendToClient(Msg("DATA", q)),
         HandlerKeeps, UNCHANGED <<sh, rh, rpx_map>>
  PROVE  IInv'
<1>. DEFINE m == Msg("DATA", q)
<1>0. m \in ToClient /\ m.q = q /\ m.kind = "DATA" /\ SendToClient(m)
  BY MessagesType, Zenon
<1>. HIDE DEF m
<1>1. browser' \in Browsers /\ \A x \in Reqs : SentAt(browser, browser', q, x)
  BY BodySent, Zenon DEF IInv, TypeOK
<1>2. q \in rpx_map
  BY Zenon DEF IInv, Tables
<1>3. HandlerServes(q, m)
  <2>1. ASSUME NEW x \in Reqs, x # q
        PROVE  SameBrowser(browser, browser', x)
    <3>1. browser[x].sent \in Nat
      BY SMT DEF IInv, TypeOK, Browsers
    <3>2. browser'[x].sent = browser[x].sent + Count(x = q)
      BY <1>1, Zenon DEF SentAt
    <3>3. browser'[x].sent = browser[x].sent
      BY <2>1, <3>1, <3>2, SMT DEF Count
    <3>. QED  BY <1>1, <3>3, Zenon DEF SameBrowser, SentAt
  <2>. QED  BY <1>0, <1>1, <1>2, <2>1, Zenon DEF HandlerServes, IInv, TypeOK
<1>4. /\ browser'[q].sent = browser[q].sent + 1 /\ browser'[q].got = browser[q].got
      /\ browser'[q].result = browser[q].result
  BY <1>1, Zenon DEF SentAt, Count
<1>5. srpx'[q].error = srpx[q].error
  BY Zenon DEF HandlerKeeps, LessDone
<1>6. Fresh(q)'
  BY Zenon DEF Fresh
<1>7. Served(q)'
  BY <1>4, <1>5, Zenon DEF Served, IInv, HandlerKeeps
<1>8. Got(q)'
  BY <1>4, <1>5, Zenon DEF Got, IInv, HandlerKeeps
<1>9. /\ InQueue(s2c', q, "START") <=> InQueue(s2c, q, "START")
      /\ Any(s2c', q)
      /\ cl[q] = "none" => StartsWith(s2c', q)
      /\ Packets(s2c', q) = Packets(s2c, q) + Count(m.kind = "DATA")
      /\ Packets(s2c, q) \in Nat
  BY <1>0, OwnMessage, Zenon
<1>10. StartFirst(q)'
  BY <1>9, Zenon DEF StartFirst, IInv, HandlerKeeps
<1>11. Sent(q)'
  <2>. SUFFICES ASSUME cl[q] = "none" \/ (q \in client_map /\ crpx[q].pr = "open")
                PROVE  target[q].got + Count(crecv = q) + Packets(s2c', q) = browser'[q].sent
    BY Zenon DEF Sent, HandlerKeeps
  <2>1. target[q].got + Count(crecv = q) + Packets(s2c, q) = browser[q].sent
    BY Zenon DEF IInv, Sent
  <2>2. target[q].got \in Nat /\ Count(crecv = q) \in Nat
    BY SMT DEF IInv, TypeOK, Targets, Count
  <2>3. Packets(s2c', q) = Packets(s2c, q) + 1
    BY <1>0, <1>9, Zenon DEF Count
  <2>. QED  BY <1>4, <1>9, <2>1, <2>2, <2>3, SMT
<1>. QED  BY <1>3, <1>6, <1>7, <1>8, <1>10, <1>11, HandlerWhole, Zenon

\* A request arrives.
LEMMA ServeStep ==
  ASSUME IInv, NEW q \in Reqs, NEW upgrade \in BOOLEAN, ServeHTTP(q, upgrade)
  PROVE  IInv'
<1>. DEFINE m == [kind |-> "START", q |-> q, upgrade |-> upgrade]
<1>0. m \in ToClient /\ m.q = q /\ m.kind = "START"
  BY MessagesType, Zenon
<1>1. link = "up" => SendToClient(m)
  BY Zenon DEF ServeHTTP
<1>2. link # "up" => s2c' = s2c
  BY Zenon DEF ServeHTTP
<1>. HIDE DEF m
<1>3. HandlerKeeps
  <2>1. srpx' \in ServerRpxs /\ \A x \in Reqs : SameStop(srpx, srpx', x)
    BY UpgradeSet, Zenon DEF ServeHTTP, IInv, TypeOK
  <2>2. ASSUME NEW x \in Reqs
        PROVE  LessDone(srpx, srpx', x)
    <3>1. srpx[x].done \in Nat
      BY SMT DEF IInv, TypeOK, ServerRpxs, ServerRpxType
    <3>2. srpx[x].done <= srpx[x].done
      BY <3>1, SMT
    <3>. QED  BY <2>1, <3>2, Zenon DEF SameStop, LessDone
  <2>. QED  BY <2>1, <2>2, Zenon DEF ServeHTTP, HandlerKeeps, client
<1>4. /\ rh[q] = "none" /\ cl[q] = "none" /\ ~Any(s2c, q) /\ browser[q].sent = 0 /\ browser[q].got = 0
      /\ browser[q].result # "ok"
  BY Zenon DEF ServeHTTP, IInv, Fresh, Served
<1>5. CASE link = "up"
  <2>1. /\ sh'[q] \in {"upgrade", "body"} /\ rh'[q] = "header" /\ q \in rpx_map' /\ browser' = browser
        /\ rh' \in [Reqs -> {"none", "header", "copy", "write", "done"}] /\ rpx_map' \subseteq Reqs
        /\ sh' \in [Reqs -> {"none", "upgrade", "body", "join", "final", "returned"}]
    BY <1>5, Zenon DEF ServeHTTP, IInv, TypeOK
  <2>2. \A x \in Reqs \ {q} : sh'[x] = sh[x] /\ rh'[x] = rh[x] /\ (x \in rpx_map' <=> x \in rpx_map)
    BY <1>5, Zenon DEF ServeHTTP, IInv, TypeOK
  <2>3. HandlerServes(q, m)
    BY <1>0, <1>1, <1>3, <1>5, <2>1, <2>2, Zenon DEF HandlerServes, IInv, TypeOK, SameBrowser
  <2>4. s2c \in Seq(ToClient) /\ s2c' = Append(s2c, m)
    BY <1>1, <1>5, Zenon DEF SendToClient, IInv, TypeOK
  <2>5. Any(s2c', q)
    BY <1>0, <2>4, InAppend, Zenon
  <2>6. StartsWith(s2c', q)
    BY <1>0, <1>4, <2>4, StartsAppend, Zenon DEF IInv, StartFirst
  <2>7. StartFirst(q)' /\ Fresh(q)' /\ Served(q)'
    BY <1>3, <1>4, <2>1, <2>5, <2>6, Zenon DEF StartFirst, Fresh, Served, HandlerKeeps
  <2>8. Sent(q)'
    <3>1. Packets(s2c', q) = Packets(s2c, q) + Count(m.q = q /\ m.kind = "DATA")
      BY <1>0, <2>4, PacketsAppend, Zenon
    <3>2. Packets(s2c, q) \in Nat
      BY <2>4, PlacesFinite, Zenon
    <3>3. Packets(s2c', q) = Packets(s2c, q)
      BY <1>0, <3>1, <3>2, SMT DEF Count
    <3>. QED  BY <1>3, <2>1, <3>3, Zenon DEF Sent, IInv, HandlerKeeps
  <2>9. Got(q)'
    <3>1. target[q].sent = 0 /\ recv # q /\ ~Any(c2s, q)
      BY <1>4, Zenon DEF IInv, Unasked
    <3>2. Packets(c2s, q) = 0
      BY <3>1, NoPackets, Zenon DEF Any, IInv, TypeOK
    <3>3. 0 = 0 + 0 + 0 + 0
      OBVIOUS
    <3>. QED  BY <1>3, <1>4, <2>1, <3>1, <3>2, <3>3, Zenon DEF Got, Count, HandlerKeeps
  <2>. QED  BY <2>3, <2>7, <2>8, <2>9, HandlerWhole, Zenon
<1>6. CASE link # "up"
  <2>1. /\ sh'[q] = "returned" /\ rh' = rh /\ rpx_map' = rpx_map /\ s2c' = s2c
        /\ sh' \in [Reqs -> {"none", "upgrade", "body", "join", "final", "returned"}]
        /\ \A x \in Reqs \ {q} : sh'[x] = sh[x]
    BY <1>6, Zenon DEF ServeHTTP, IInv, TypeOK
  <2>2. browser' \in Browsers /\ \A x \in Reqs : ResultAt(browser, browser', q, "error", x)
    BY <1>6, ResultSet, Zenon DEF ServeHTTP, IInv, TypeOK
  <2>3. \A x \in Reqs \ {q} : SameBrowser(browser, browser', x)
    BY <2>2, Zenon DEF SameBrowser, ResultAt
  <2>4. sh[q] = "none" /\ q \notin rpx_map
    BY Zenon DEF ServeHTTP, IInv, Tables
  <2>5. HandlerServes(q, m)
    BY <1>0, <1>3, <2>1, <2>2, <2>3, <2>4, Zenon DEF HandlerServes, IInv, TypeOK
  <2>6. browser'[q].result = "error"
    BY <2>2, Zenon DEF ResultAt
  <2>7. StartFirst(q)' /\ Fresh(q)' /\ Served(q)' /\ Sent(q)' /\ Got(q)'
    BY <1>3, <1>4, <1>6, <2>1, <2>4, <2>6, Zenon
       DEF StartFirst, Fresh, Served, Sent, Got, HandlerKeeps, IInv
  <2>. QED  BY <2>5, <2>7, HandlerWhole, Zenon
<1>. QED  BY <1>5, <1>6

\* A step of the handler that leaves its record alone, or takes from done_chan.
LEMMA KeptRecord ==
  ASSUME IInv, UNCHANGED <<srpx, recv, conn_stop, client, target, c2s, link, disturbed>>
  PROVE  HandlerKeeps
<1>1. ASSUME NEW x \in Reqs
      PROVE  LessDone(srpx, srpx', x)
  <2>1. srpx[x].done \in Nat
    BY SMT DEF IInv, TypeOK, ServerRpxs, ServerRpxType
  <2>2. srpx[x].done <= srpx[x].done
    BY <2>1, SMT
  <2>. QED  BY <2>2, Zenon DEF LessDone
<1>. QED  BY <1>1, Zenon DEF HandlerKeeps, client, IInv, TypeOK

LEMMA HandlerStep ==
  ASSUME IInv, NEW q \in Reqs, Handler(q)
  PROVE  IInv'
<1>1. CASE UpgradeKnown(q)
  <2>1. HandlerKeeps
    BY <1>1, KeptRecord, Zenon DEF UpgradeKnown, net
  <2>. QED  BY <1>1, <2>1, StepOn, Zenon DEF UpgradeKnown, net
<1>2. CASE BodyData(q)
  <2>1. HandlerKeeps /\ rh' = rh /\ sh[q] = "body"
    BY <1>2, KeptRecord, Zenon DEF BodyData
  <2>2. CASE link = "up"
    BY <1>2, <2>1, <2>2, BodyDataStep, Zenon DEF BodyData
  <2>3. CASE link # "up"
    BY <1>2, <2>1, <2>3, ReturnStep, Zenon DEF BodyData
  <2>. QED  BY <2>2, <2>3
<1>3. CASE BodyEof(q)
  <2>1. HandlerKeeps /\ rh' = rh /\ sh[q] = "body"
    BY <1>3, KeptRecord, Zenon DEF BodyEof
  <2>2. CASE link = "up"
    BY <1>3, <2>1, <2>2, StepOn, Zenon DEF BodyEof
  <2>3. CASE link # "up"
    BY <1>3, <2>1, <2>3, ReturnStep, Zenon DEF BodyEof
  <2>. QED  BY <2>2, <2>3
<1>4. CASE BodyError(q)
  <2>1. HandlerKeeps /\ rh' = rh /\ sh[q] = "body"
    BY <1>4, KeptRecord, Zenon DEF BodyError
  <2>. QED  BY <1>4, <2>1, ReturnStep, Zenon DEF BodyError
<1>5. CASE Join(q)
  <2>1. HandlerKeeps /\ rh' = rh /\ sh[q] = "join" /\ rh[q] = "done"
    BY <1>5, KeptRecord, Zenon DEF Join
  <2>2. CASE srpx[q].error
    BY <1>5, <2>1, <2>2, ReturnStep, Zenon DEF Join
  <2>3. CASE ~srpx[q].error
    BY <1>5, <2>1, <2>3, StepOn, Zenon DEF Join
  <2>. QED  BY <2>2, <2>3
<1>6. CASE Final(q)
  <2>1. sh[q] = "final" /\ rh' = rh /\ Return(q, "ok")
    BY <1>6, Zenon DEF Final
  <2>2. HandlerKeeps
    <3>1. CASE UNCHANGED srpx
      BY <1>6, <3>1, KeptRecord, Zenon DEF Final
    <3>2. CASE srpx[q].done > 0 /\ srpx' = [srpx EXCEPT ![q].done = @ - 1]
      <4>1. srpx' \in ServerRpxs /\ \A x \in Reqs : LessDone(srpx, srpx', x)
        BY <3>2, DoneTaken, Zenon DEF IInv, TypeOK
      <4>. QED  BY <1>6, <4>1, Zenon DEF Final, HandlerKeeps, client
    <3>. QED  BY <1>6, <3>1, <3>2, Zenon DEF Final
  <2>. QED  BY <2>1, <2>2, ReturnStep, Zenon
<1>. QED  BY <1>1, <1>2, <1>3, <1>4, <1>5, <1>6, Zenon DEF Handler

-----------------------------------------------------------------------------
(* handle_response.                                                        *)

\* What handle_response leaves alone.
ResponseKeeps(q) ==
  /\ UNCHANGED <<sh, rpx_map, conn_stop, client, target, net, disturbed>>
  /\ \A x \in Reqs \ {q} : /\ rh'[x] = rh[x] /\ srpx'[x].error = srpx[x].error
                           /\ browser'[x].got = browser[x].got
  /\ \A x \in Reqs : /\ srpx'[x].done <= srpx[x].done /\ srpx'[x].pw = srpx[x].pw
                     /\ browser'[x].sent = browser[x].sent /\ browser'[x].result = browser[x].result
  /\ srpx' \in ServerRpxs /\ browser' \in Browsers
  /\ rh' \in [Reqs -> {"none", "header", "copy", "write", "done"}]
  /\ recv' = recv \/ (recv = q /\ recv' = "recv")
  /\ rh[q] \in {"header", "copy", "write"} /\ rh'[q] # "none"

LEMMA ResponseWhole ==
  ASSUME IInv, NEW q \in Reqs, ResponseKeeps(q), Got(q)'
  PROVE  IInv'
<1>0. /\ sh[q] # "none" /\ sh[q] # "final" /\ browser[q].result # "ok"
      /\ \A x \in Reqs : recv' = x => recv = x
      /\ recv = q => recv' \in {q, "recv"}
      /\ recv # "ended" => recv' # "ended"
  BY ReqsAssumption, Zenon DEF IInv, Fresh, Served, ResponseKeeps
<1>1. TypeOK' /\ Tables' /\ Streams'
  <2>1. recv' \in Reqs \cup {"recv", "ended"}
    BY Zenon DEF IInv, TypeOK, ResponseKeeps
  <2>. QED  BY <1>0, <2>1, Zenon DEF IInv, TypeOK, Tables, Streams, ResponseKeeps, client, net
<1>2. ASSUME NEW x \in Reqs
      PROVE  Fresh(x)' /\ Unasked(x)' /\ StartFirst(x)' /\ CloseLast(x)' /\ Sent(x)'
  <2>1. Fresh(x)'
    BY <1>0, Zenon DEF IInv, Fresh, ResponseKeeps, client, net
  <2>2. Unasked(x)' /\ StartFirst(x)' /\ CloseLast(x)'
    BY <1>0, Zenon DEF IInv, Unasked, StartFirst, CloseLast, Ended, ResponseKeeps, client, net
  <2>3. Sent(x)'
    BY Zenon DEF IInv, Sent, ResponseKeeps, client, net
  <2>. QED  BY <2>1, <2>2, <2>3
<1>3. ASSUME NEW x \in Reqs
      PROVE  Served(x)' /\ Piped(x)'
  <2>1. Served(x)'
    <3>1. Served(x)
      BY Zenon DEF IInv
    <3>. QED  BY <1>0, <3>1, ZenonT(60) DEF Served, ResponseKeeps
  <2>2. Piped(x)'
    BY <1>0, Zenon DEF IInv, Piped, Ended, ResponseKeeps, client, net
  <2>. QED  BY <2>1, <2>2
<1>4. ASSUME NEW x \in Reqs
      PROVE  Budget(x)'
  <2>1. Due(x)' <= Due(x) /\ Due(x) \in Nat /\ Due(x)' \in Nat
    <3>1. link' = link /\ (EofDue(x)' <=> EofDue(x)) /\ (StopDue(x)' <=> StopDue(x))
      BY Zenon DEF EofDue, StopDue, Ended, ResponseKeeps, client, net
    <3>2. recv' = x => recv = x
      BY <1>0, Zenon
    <3>. QED  BY <3>1, <3>2, SMT DEF Due, Count
  <2>2. Count(recv' # "ended") = Count(recv # "ended") /\ conn_stop' = conn_stop
    <3>1. recv' = "ended" <=> recv = "ended"
      BY ReqsAssumption, Zenon DEF ResponseKeeps
    <3>. QED  BY <3>1, Zenon DEF Count, ResponseKeeps
  <2>3. srpx'[x].done <= srpx[x].done /\ srpx'[x].done \in Nat /\ srpx[x].done \in Nat
    BY SMT DEF IInv, TypeOK, ResponseKeeps, ServerRpxs, ServerRpxType
  <2>4. Count(recv # "ended") \in Nat /\ Count(~conn_stop) \in Nat
    BY SMT DEF Count
  <2>5. srpx[x].done + Count(recv # "ended") + Count(~conn_stop) + Due(x) <= 4
    BY Zenon DEF IInv, Budget
  <2>6. srpx'[x].done + Count(recv # "ended") + Count(~conn_stop) + Due(x)' <= 4
    BY <2>1, <2>3, <2>4, <2>5, SMT
  <2>. QED  BY <2>2, <2>6, Zenon DEF Budget
<1>5. ASSUME NEW x \in Reqs, x # q
      PROVE  Got(x)'
  <2>1. recv' = x <=> recv = x
    BY <1>5, ReqsAssumption, Zenon DEF ResponseKeeps
  <2>2. Count(recv' = x) = Count(recv = x)
    BY <2>1, Zenon DEF Count
  <2>3. /\ rh'[x] = rh[x] /\ srpx'[x].error = srpx[x].error /\ browser'[x].got = browser[x].got
        /\ rpx_map' = rpx_map /\ disturbed' = disturbed /\ target' = target /\ c2s' = c2s
    BY <1>5, Zenon DEF ResponseKeeps, net
  <2>4. Got(x)
    BY Zenon DEF IInv
  <2>. QED  BY <2>2, <2>3, <2>4, Zenon DEF Got
<1>. QED  BY <1>1, <1>2, <1>3, <1>4, <1>5, Zenon DEF IInv

LEMMA ResponseStep ==
  ASSUME IInv, NEW q \in Reqs, Response(q)
  PROVE  IInv'
<1>0. /\ \A x \in Reqs : srpx[x].done \in Nat /\ srpx[x].done <= srpx[x].done
      /\ browser[q].got \in Nat
  BY SMT DEF IInv, TypeOK, ServerRpxs, ServerRpxType, Browsers
<1>1. CASE HeaderArrives(q)
  <2>1. rh[q] = "header" /\ rh'[q] = "copy" /\ recv' = recv /\ browser' = browser /\ c2s' = c2s
    BY <1>1, Zenon DEF HeaderArrives, IInv, TypeOK, net
  <2>2. PICK b \in {"switched", "refused"} : srpx' = [srpx EXCEPT ![q].br = b, ![q].start = "none"]
    BY <1>1, Zenon DEF HeaderArrives
  <2>3. srpx' \in ServerRpxs /\ \A x \in Reqs : SameStop(srpx, srpx', x)
    BY <2>2, HeaderSet, Zenon DEF IInv, TypeOK
  <2>4. ResponseKeeps(q)
    BY <1>0, <1>1, <2>1, <2>3, Zenon DEF HeaderArrives, ResponseKeeps, SameStop, IInv, TypeOK
  <2>5. Got(q)'
    BY <2>1, <2>3, <2>4, Zenon DEF IInv, Got, ResponseKeeps, SameStop, Count
  <2>. QED  BY <2>4, <2>5, ResponseWhole, Zenon
<1>2. CASE DoneBeforeHeader(q)
  <2>1. rh[q] = "header" /\ rh'[q] = "done" /\ recv' = recv /\ browser' = browser /\ c2s' = c2s
    BY <1>2, Zenon DEF DoneBeforeHeader, IInv, TypeOK, net
  <2>2. PICK e \in BOOLEAN : e /\ srpx' = [srpx EXCEPT ![q].error = e, ![q].br = "refused",
                                                       ![q].done = IF @ > 0 THEN @ - 1 ELSE @]
    BY <1>2, Zenon DEF DoneBeforeHeader
  <2>3. srpx' \in ServerRpxs /\ \A x \in Reqs : RefusedAt(srpx, srpx', q, e, x)
    BY <2>2, RefusedSet, Zenon DEF IInv, TypeOK
  <2>4. ResponseKeeps(q)
    BY <1>2, <2>1, <2>3, Zenon DEF DoneBeforeHeader, ResponseKeeps, RefusedAt, IInv, TypeOK
  <2>5. Got(q)'
    BY <2>1, <2>2, <2>3, Zenon DEF Got, RefusedAt
  <2>. QED  BY <2>4, <2>5, ResponseWhole, Zenon
<1>3. CASE ReadPipe(q)
  <2>1. /\ rh[q] = "copy" /\ rh'[q] = "write" /\ recv = q /\ recv' = "recv" /\ recv' # q
        /\ browser' = browser /\ srpx' = srpx /\ c2s' = c2s
    BY <1>3, ReqsAssumption, Zenon DEF ReadPipe, IInv, TypeOK, net
  <2>2. ResponseKeeps(q)
    BY <1>0, <1>3, <2>1, Zenon DEF ReadPipe, ResponseKeeps, IInv, TypeOK
  <2>3. Got(q)'
    <3>1. Count(rh[q] = "write") = 0 /\ Count(rh'[q] = "write") = 1
      BY <2>1, Zenon DEF Count
    <3>2. Count(recv = q) = 1 /\ Count(recv' = q) = 0
      BY <2>1, Zenon DEF Count
    <3>3. browser[q].got + 0 + 1 + Packets(c2s, q) = browser[q].got + 1 + 0 + Packets(c2s, q)
      BY <1>0, SMT
    <3>. QED  BY <2>1, <2>2, <3>1, <3>2, <3>3, Zenon DEF IInv, Got, ResponseKeeps
  <2>. QED  BY <2>2, <2>3, ResponseWhole, Zenon
<1>4. CASE PipeEof(q)
  <2>1. /\ rh[q] = "copy" /\ rh'[q] = "done" /\ srpx[q].pw = "closed" /\ recv' = recv
        /\ browser' = browser /\ srpx' = srpx /\ c2s' = c2s
    BY <1>4, Zenon DEF PipeEof, IInv, TypeOK, net
  <2>2. ResponseKeeps(q)
    BY <1>0, <1>4, <2>1, Zenon DEF PipeEof, ResponseKeeps, IInv, TypeOK
  <2>3. Got(q)'
    <3>. SUFFICES ASSUME q \in rpx_map, ~disturbed, ~target[q].failed
                  PROVE  browser[q].got = MaxResp
      BY <2>1, <2>2, Zenon DEF Got, ResponseKeeps
    <3>1. link = "up"
      BY Zenon DEF IInv, TypeOK, Streams
    <3>2. recv # q /\ ~InQueue(c2s, q, "DATA") /\ target[q].sent = MaxResp
      BY <2>1, <3>1, Zenon DEF IInv, Piped
    <3>3. Packets(c2s, q) = 0
      BY <3>2, NoPackets, Zenon DEF InQueue, IInv, TypeOK
    <3>4. Count(rh[q] = "write") = 0 /\ Count(recv = q) = 0
      BY <2>1, <3>2, Zenon DEF Count
    <3>5. target[q].sent = browser[q].got + 0 + 0 + 0
      BY <2>1, <3>3, <3>4, Zenon DEF IInv, Got
    <3>6. browser[q].got + 0 + 0 + 0 = browser[q].got
      BY <1>0, SMT
    <3>. QED  BY <3>2, <3>5, <3>6, Zenon
  <2>. QED  BY <2>2, <2>3, ResponseWhole, Zenon
<1>5. CASE WriteToBrowser(q)
  <2>1. rh[q] = "write" /\ recv' = recv /\ c2s' = c2s
    BY <1>5, Zenon DEF WriteToBrowser, net
  <2>2. CASE browser[q].gone
    <3>1. rh'[q] = "done" /\ browser' = browser
      BY <1>5, <2>2, Zenon DEF WriteToBrowser, IInv, TypeOK
    <3>2. PICK e \in BOOLEAN : e /\ srpx' = [srpx EXCEPT ![q].error = e]
      BY <1>5, <2>2, Zenon DEF WriteToBrowser
    <3>3. srpx' \in ServerRpxs /\ \A x \in Reqs : ErrorAt(srpx, srpx', q, e, x)
      BY <3>2, ErrorSet, Zenon DEF IInv, TypeOK
    <3>a. rh' \in [Reqs -> {"none", "header", "copy", "write", "done"}] /\ \A x \in Reqs \ {q} : rh'[x] = rh[x]
      BY <1>5, <2>2, Zenon DEF WriteToBrowser, IInv, TypeOK
    <3>b. \A x \in Reqs : /\ srpx'[x].done <= srpx[x].done /\ srpx'[x].pw = srpx[x].pw
                          /\ x # q => srpx'[x].error = srpx[x].error
      BY <1>0, <3>3, Zenon DEF ErrorAt
    <3>4. ResponseKeeps(q)
      BY <1>5, <2>1, <3>1, <3>3, <3>a, <3>b, Zenon DEF WriteToBrowser, ResponseKeeps, IInv, TypeOK
    <3>5. Got(q)'
      BY <3>1, <3>2, <3>3, Zenon DEF Got, ErrorAt
    <3>. QED  BY <3>4, <3>5, ResponseWhole, Zenon
  <2>3. CASE ~browser[q].gone
    <3>1. rh'[q] = "copy" /\ srpx' = srpx
      BY <1>5, <2>3, Zenon DEF WriteToBrowser, IInv, TypeOK
    <3>2. browser' \in Browsers /\ \A x \in Reqs : GotAt(browser, browser', q, x)
      BY <1>5, <2>3, ResponseGot, Zenon DEF WriteToBrowser, IInv, TypeOK
    <3>3. ASSUME NEW x \in Reqs \ {q}
          PROVE  browser'[x].got = browser[x].got
      <4>1. browser[x].got \in Nat
        BY SMT DEF IInv, TypeOK, Browsers
      <4>2. browser'[x].got = browser[x].got + 0
        BY <3>2, Zenon DEF GotAt, Count
      <4>. QED  BY <4>1, <4>2, SMT
    <3>a. rh' \in [Reqs -> {"none", "header", "copy", "write", "done"}] /\ \A x \in Reqs \ {q} : rh'[x] = rh[x]
      BY <1>5, <2>3, Zenon DEF WriteToBrowser, IInv, TypeOK
    <3>b. \A x \in Reqs : browser'[x].sent = browser[x].sent /\ browser'[x].result = browser[x].result
      BY <3>2, Zenon DEF GotAt
    <3>4. ResponseKeeps(q)
      BY <1>0, <1>5, <2>1, <3>1, <3>2, <3>3, <3>a, <3>b, Zenon DEF WriteToBrowser, ResponseKeeps, IInv, TypeOK
    <3>5. Got(q)'
      <4>1. browser'[q].got = browser[q].got + 1
        BY <3>2, Zenon DEF GotAt, Count
      <4>2. Count(rh[q] = "write") = 1 /\ Count(rh'[q] = "write") = 0
        BY <2>1, <3>1, Zenon DEF Count
      <4>. DEFINE b == browser[q].got
                  n == Count(recv = q)
                  p == Packets(c2s, q)
      <4>3. b + 1 + n + p = (b + 1) + 0 + n + p
        <5>1. b \in Nat /\ n \in Nat
          BY <1>0, SMT DEF Count
        <5>. HIDE DEF b, n, p
        <5>. QED  BY <5>1, SMT
      <4>4. q \in rpx_map /\ ~disturbed => target[q].sent = b + 1 + n + p
        BY <2>1, <4>2, Zenon DEF IInv, Got
      <4>5. q \in rpx_map /\ ~disturbed => target[q].sent = (b + 1) + 0 + n + p
        BY <4>3, <4>4, Zenon
      <4>6. /\ rpx_map' = rpx_map /\ disturbed' = disturbed /\ target' = target /\ rh'[q] # "done"
        BY <3>1, <3>4, Zenon DEF ResponseKeeps
      <4>. QED  BY <2>1, <4>1, <4>2, <4>5, <4>6, Zenon DEF Got
    <3>. QED  BY <3>4, <3>5, ResponseWhole, Zenon
  <2>. QED  BY <2>2, <2>3
<1>. QED  BY <1>1, <1>2, <1>3, <1>4, <1>5, Zenon DEF Response

-----------------------------------------------------------------------------
(* The server's receiver, and the end of the connection.                   *)

\* What the receiver leaves alone.
ReceiverKeeps ==
  /\ UNCHANGED <<sh, rh, rpx_map, browser, client, target, s2c, link, disturbed>>
  /\ srpx' \in ServerRpxs /\ \A x \in Reqs : srpx'[x].error = srpx[x].error
  /\ recv' \in Reqs \cup {"recv", "ended"} /\ conn_stop' \in BOOLEAN /\ c2s' \in Seq(ToServer)

LEMMA ReceiverWhole ==
  ASSUME IInv, ReceiverKeeps, Streams',
         \A x \in Reqs : Unasked(x)' /\ CloseLast(x)' /\ Piped(x)' /\ Budget(x)' /\ Got(x)'
  PROVE  IInv'
<1>1. TypeOK' /\ Tables'
  BY Zenon DEF IInv, TypeOK, Tables, ReceiverKeeps, client
<1>2. ASSUME NEW x \in Reqs
      PROVE  Fresh(x)' /\ Served(x)' /\ StartFirst(x)' /\ Sent(x)'
  <2>1. Fresh(x)' /\ StartFirst(x)' /\ Sent(x)'
    BY Zenon DEF IInv, Fresh, StartFirst, Sent, ReceiverKeeps, client
  <2>2. Served(x)'
    BY Zenon DEF IInv, Served, ReceiverKeeps
  <2>. QED  BY <2>1, <2>2
<1>. QED  BY <1>1, <1>2, Zenon DEF IInv

LEMMA DueType ==
  ASSUME NEW x \in Reqs
  PROVE  Due(x) \in Nat /\ Count(recv # "ended") \in Nat /\ Count(~conn_stop) \in Nat
BY SMT DEF Due, Count

\* Once the stream has failed, a stop is paid for by what can no longer happen.
LEMMA StopAfterFailure ==
  ASSUME IInv, ReceiverKeeps, link = "down", c2s' = c2s, recv' \in {recv, "recv", "ended"},
         \A x \in Reqs : Budget(x)'
  PROVE  IInv'
<1>1. recv' \in {recv, "recv", "ended"} /\ \A x \in Reqs : recv' = x => recv = x
  BY ReqsAssumption, Zenon
<1>2. Streams'
  BY Zenon DEF IInv, Streams, ReceiverKeeps
<1>3. ASSUME NEW x \in Reqs
      PROVE  Unasked(x)' /\ CloseLast(x)' /\ Piped(x)' /\ Got(x)'
  <2>1. Unasked(x)' /\ CloseLast(x)'
    BY <1>1, Zenon DEF IInv, Unasked, CloseLast, Ended, ReceiverKeeps, client
  <2>2. Piped(x)'
    BY Zenon DEF Piped, ReceiverKeeps
  <2>3. Got(x)'
    BY Zenon DEF IInv, Streams, Got, ReceiverKeeps
  <2>. QED  BY <2>1, <2>2, <2>3
<1>. QED  BY <1>2, <1>3, ReceiverWhole, Zenon

LEMMA WriteFailsStep ==
  ASSUME IInv, NEW q \in Reqs, WriteFails(q)
  PROVE  IInv'
<1>1. recv = q /\ recv' = "recv" /\ link = "down" /\ c2s' = c2s /\ conn_stop' = conn_stop /\ link' = link
  BY Zenon DEF WriteFails, IInv, TypeOK, Piped, net
<1>2. PICK b \in BOOLEAN : srpx' = [srpx EXCEPT ![q] = Stopped(@, b)]
  BY Zenon DEF WriteFails, ReqStop
<1>3. srpx' \in ServerRpxs /\ \A x \in Reqs : StoppedAt(srpx, srpx', {q}, x)
  BY <1>2, StoppedSet, Zenon DEF IInv, TypeOK
<1>4. ReceiverKeeps
  BY <1>1, <1>3, Zenon DEF WriteFails, ReceiverKeeps, StoppedAt, IInv, TypeOK, net
<1>5. "recv" \notin Reqs /\ "ended" \notin Reqs /\ "recv" # "ended"
  BY ReqsAssumption
<1>6. ASSUME NEW x \in Reqs
      PROVE  Budget(x)'
  <2>1. srpx[x].done + Count(recv # "ended") + Count(~conn_stop) + Due(x) <= 4
    BY Zenon DEF IInv, Budget
  <2>2. srpx[x].done \in Nat /\ Count(~conn_stop) \in Nat
    BY SMT DEF IInv, TypeOK, ServerRpxs, ServerRpxType, Count
  <2>3. Count(recv # "ended") = 1 /\ Count(recv' # "ended") = 1
    BY <1>1, <1>5, Zenon DEF Count
  <2>4. Due(x) = Count(x = q) /\ Due(x)' = 0
    BY <1>1, <1>5, Zenon DEF Due, Count
  <2>5. srpx'[x].done = srpx[x].done + Count(x = q)
    <3>1. CASE x = q
      BY <1>3, <3>1, Zenon DEF StoppedAt, Count
    <3>2. CASE x # q
      <4>1. srpx'[x].done = srpx[x].done /\ Count(x = q) = 0
        BY <1>3, <3>2, Zenon DEF StoppedAt, SameStop, Count
      <4>. QED  BY <2>2, <4>1, SMT
    <3>. QED  BY <3>1, <3>2
  <2>6. Count(x = q) \in Nat
    BY SMT DEF Count
  <2>7. srpx'[x].done + 1 + Count(~conn_stop) + 0 <= 4
    BY <2>1, <2>2, <2>3, <2>4, <2>5, <2>6, SMT
  <2>. QED  BY <1>1, <2>3, <2>4, <2>7, Zenon DEF Budget
<1>. QED  BY <1>1, <1>4, <1>6, StopAfterFailure, Zenon

\* Every request of the connection is stopped.
LEMMA StopAllStep ==
  ASSUME IInv, NEW b \in BOOLEAN, StopAll(b)
  PROVE  /\ srpx' \in ServerRpxs /\ \A x \in Reqs : srpx'[x].error = srpx[x].error
         /\ \A x \in Reqs : srpx[x].done \in Nat /\ srpx'[x].done \in Nat /\ srpx'[x].done <= srpx[x].done + 1
<1>1. srpx \in ServerRpxs
  BY Zenon DEF IInv, TypeOK
<1>2. srpx' = [q \in Reqs |-> IF q \in rpx_map THEN Stopped(srpx[q], b) ELSE srpx[q]]
  BY Zenon DEF StopAll
<1>3. srpx' \in ServerRpxs /\ \A x \in Reqs : StoppedAt(srpx, srpx', rpx_map, x)
  BY <1>1, <1>2, AllStopped, Zenon
<1>4. \A x \in Reqs : srpx[x].done \in Nat /\ srpx'[x].done \in Nat
  BY <1>1, <1>3, SMT DEF ServerRpxs, ServerRpxType
<1>5. \A n \in Nat : n <= n + 1 /\ n + 1 <= n + 1
  OBVIOUS
<1>. QED  BY <1>3, <1>4, <1>5, Zenon DEF StoppedAt, SameStop

LEMMA EndStep ==
  ASSUME IInv, ReceiverEnds \/ ConnReqStop
  PROVE  IInv'
<1>0. "recv" \notin Reqs /\ "ended" \notin Reqs /\ "recv" # "ended"
  BY ReqsAssumption
<1>1. PICK b \in BOOLEAN : StopAll(b)
  BY Zenon DEF ReceiverEnds, ConnReqStop
<1>2. /\ srpx' \in ServerRpxs /\ \A x \in Reqs : srpx'[x].error = srpx[x].error
      /\ \A x \in Reqs : srpx[x].done \in Nat /\ srpx'[x].done \in Nat /\ srpx'[x].done <= srpx[x].done + 1
  BY <1>1, StopAllStep, Zenon
<1>3. link = "down" /\ c2s' = c2s /\ link' = link /\ recv' \in {recv, "ended"}
  BY Zenon DEF ReceiverEnds, ConnReqStop, net
<1>4. ReceiverKeeps
  BY <1>2, <1>3, Zenon DEF ReceiverEnds, ConnReqStop, ReceiverKeeps, IInv, TypeOK, net
<1>5. ASSUME NEW x \in Reqs
      PROVE  Budget(x)'
  <2>1. srpx[x].done + Count(recv # "ended") + Count(~conn_stop) + Due(x) <= 4
    BY Zenon DEF IInv, Budget
  <2>2. CASE ReceiverEnds
    <3>1. Count(recv # "ended") = 1 /\ Count(recv' # "ended") = 0 /\ conn_stop' = conn_stop
      BY <1>0, <2>2, Zenon DEF ReceiverEnds, Count
    <3>2. Due(x) = 0 /\ Due(x)' = 0
      BY <1>0, <1>3, <2>2, Zenon DEF ReceiverEnds, Due, Count
    <3>3. srpx'[x].done + 0 + Count(~conn_stop) + 0 <= 4
      BY <1>2, <2>1, <3>1, <3>2, DueType, SMT
    <3>. QED  BY <3>1, <3>2, <3>3, Zenon DEF Budget
  <2>3. CASE ConnReqStop
    <3>1. Count(~conn_stop) = 1 /\ Count(~conn_stop') = 0 /\ recv' = recv
      BY <2>3, Zenon DEF ConnReqStop, Count
    <3>2. Due(x)' = Due(x)
      BY <1>3, <3>1, Zenon DEF Due
    <3>3. srpx'[x].done + Count(recv # "ended") + 0 + Due(x) <= 4
      BY <1>2, <2>1, <3>1, DueType, SMT
    <3>. QED  BY <3>1, <3>2, <3>3, Zenon DEF Budget
  <2>. QED  BY <2>2, <2>3
<1>. QED  BY <1>3, <1>4, <1>5, StopAfterFailure, Zenon

\* After the message that closes the pipe, and behind it, there is at most the other one.
Closing(msgs, m, x) ==
  m.q = x /\ m.kind \in {"EOF", "STOP"} =>
    \A k : InQueue(msgs, x, k) => m.kind = "EOF" /\ k = "STOP"

\* What is left in the queue when its first message has been taken.
LEMMA TakenFromClient ==
  ASSUME TypeOK, c2s # <<>>, c2s' = Tail(c2s), NEW x \in Reqs, EndsWith(c2s, x),
         NEW m, m = Head(c2s)
  PROVE  /\ \A k : InQueue(c2s, x, k) <=> InQueue(c2s', x, k) \/ (m.q = x /\ m.kind = k)
         /\ Any(c2s, x) <=> Any(c2s', x) \/ m.q = x
         /\ EndsWith(c2s', x)
         /\ Closing(c2s', m, x)
         /\ Packets(c2s, x) = Packets(c2s', x) + Count(m.q = x /\ m.kind = "DATA")
         /\ Packets(c2s', x) \in Nat
<1>1. c2s \in Seq(ToServer) /\ c2s' \in Seq(ToServer)
  BY SMT DEF TypeOK
<1>2. /\ \A k : InQueue(c2s, x, k) <=> InQueue(c2s', x, k) \/ (m.q = x /\ m.kind = k)
      /\ Any(c2s, x) <=> Any(c2s', x) \/ m.q = x
  BY <1>1, InTail, Zenon
<1>3. EndsWith(c2s', x) /\ Closing(c2s', m, x)
  <2>1. EndsWith(Tail(c2s), x) /\ Closing(Tail(c2s), Head(c2s), x)
    BY <1>1, EndsTail, Zenon DEF Closing
  <2>. QED  BY <2>1, Zenon
<1>4. Packets(c2s, x) = Packets(c2s', x) + Count(m.q = x /\ m.kind = "DATA")
  BY <1>1, PacketsTail, Zenon
<1>5. Packets(c2s', x) \in Nat
  BY <1>1, PlacesFinite, Zenon
<1>. QED  BY <1>2, <1>3, <1>4, <1>5, Zenon

\* A message of the client, as HandleRpxEvent takes it.
Handled(m, x) ==
  LET closing == m.q = x /\ x \in rpx_map /\ m.kind \in {"EOF", "STOP"}
  IN  /\ srpx'[x].error = srpx[x].error
      /\ closing => srpx'[x].done = srpx[x].done + 1 /\ srpx'[x].pw = "closed" /\ recv' # x
      /\ ~closing => SameStop(srpx, srpx', x)
      /\ recv' = x <=> m.q = x /\ x \in rpx_map /\ m.kind = "DATA"

LEMMA ReceiveEffect ==
  ASSUME IInv, recv = "recv", NEW m \in ToServer, Receive(m)
  PROVE  /\ srpx' \in ServerRpxs /\ recv' \in Reqs \cup {"recv"}
         /\ \A x \in Reqs : Handled(m, x)
<1>0. "recv" \notin Reqs /\ srpx \in ServerRpxs /\ m.q \in Reqs /\ m.kind \in {"START", "DATA", "EOF", "STOP"}
  BY ReqsAssumption, SMT DEF IInv, TypeOK, ToServer
<1>1. CASE m.q \notin rpx_map /\ UNCHANGED <<srpx, recv>>
  BY <1>0, <1>1, Zenon DEF Handled, SameStop
<1>2. CASE m.q \in rpx_map /\ m.kind = "START" /\ srpx' = [srpx EXCEPT ![m.q].start = m.status] /\ recv' = recv
  <2>1. m.status \in Statuses \cup {"none"}
    BY <1>2, SMT DEF ToServer
  <2>2. srpx' \in ServerRpxs /\ \A x \in Reqs : SameStop(srpx, srpx', x)
    BY <1>0, <1>2, <2>1, StatusSet, Zenon
  <2>. QED  BY <1>0, <1>2, <2>2, Zenon DEF Handled, SameStop
<1>3. ASSUME NEW b \in BOOLEAN, m.q \in rpx_map, m.kind \in {"EOF", "STOP"}, ReqStop(m.q, b), recv' = recv
      PROVE  srpx' \in ServerRpxs /\ \A x \in Reqs : Handled(m, x)
  <2>1. srpx' \in ServerRpxs /\ \A x \in Reqs : StoppedAt(srpx, srpx', {m.q}, x)
    BY <1>0, <1>3, StoppedSet, Zenon DEF ReqStop
  <2>2. ASSUME NEW x \in Reqs
        PROVE  Handled(m, x)
    <3>1. StoppedAt(srpx, srpx', {m.q}, x) /\ recv' # x /\ m.kind # "DATA"
      BY <1>0, <1>3, <2>1, Zenon
    <3>. QED  BY <1>3, <3>1, Zenon DEF Handled, StoppedAt
  <2>. QED  BY <2>1, <2>2
<1>4. CASE m.q \in rpx_map /\ m.kind = "DATA" /\ recv' = m.q /\ UNCHANGED srpx
  BY <1>0, <1>4, Zenon DEF Handled, SameStop
<1>. QED  BY <1>0, <1>1, <1>2, <1>3, <1>4, Zenon DEF Receive

LEMMA ServerReceivesStep ==
  ASSUME IInv, ServerReceives
  PROVE  IInv'
<1>. DEFINE m == Head(c2s)
<1>0. /\ c2s # <<>> /\ c2s \in Seq(ToServer) /\ c2s' = Tail(c2s) /\ recv = "recv" /\ Receive(m)
      /\ m \in ToServer /\ c2s' \in Seq(ToServer) /\ "recv" \notin Reqs
  BY ReqsAssumption, SMT DEF ServerReceives, IInv, TypeOK
<1>1. m.q \in Reqs /\ m.kind \in {"START", "DATA", "EOF", "STOP"} /\ m = Head(c2s)
  BY <1>0, SMT DEF ToServer
<1>. HIDE DEF m
<1>2. link = "up" /\ link' = "up" /\ conn_stop' = conn_stop
  BY <1>0, Zenon DEF ServerReceives, IInv, TypeOK, Streams
<1>3. /\ srpx' \in ServerRpxs /\ recv' \in Reqs \cup {"recv"}
      /\ \A x \in Reqs : Handled(m, x)
  BY <1>0, ReceiveEffect, Zenon
<1>4. ReceiverKeeps
  BY <1>0, <1>3, Zenon DEF ServerReceives, ReceiverKeeps, Handled, IInv, TypeOK
<1>5. recv' # "ended" /\ recv # "ended"
  BY <1>0, <1>3, ReqsAssumption
<1>6. Streams'
  BY <1>2, <1>5, Zenon DEF IInv, Streams
<1>7. ASSUME NEW x \in Reqs
      PROVE  Unasked(x)' /\ CloseLast(x)' /\ Piped(x)' /\ Budget(x)' /\ Got(x)'
  <2>1. /\ \A k : InQueue(c2s, x, k) <=> InQueue(c2s', x, k) \/ (m.q = x /\ m.kind = k)
        /\ Any(c2s, x) <=> Any(c2s', x) \/ m.q = x
        /\ EndsWith(c2s', x)
        /\ Closing(c2s', m, x)
        /\ Packets(c2s, x) = Packets(c2s', x) + Count(m.q = x /\ m.kind = "DATA")
        /\ Packets(c2s', x) \in Nat
    BY <1>0, <1>1, TakenFromClient, Zenon DEF IInv, CloseLast
  <2>2. Handled(m, x) /\ cl' = cl /\ target' = target
    BY <1>3, <1>4, Zenon DEF ReceiverKeeps, client
  <2>3. Unasked(x)' /\ CloseLast(x)'
    <3>1. Unasked(x)'
      BY <2>1, <2>2, Zenon DEF IInv, Unasked, Handled, ReceiverKeeps, ServerReceives, client
    <3>2. CloseLast(x)'
      BY <2>1, <2>2, Zenon DEF IInv, CloseLast, Ended
    <3>. QED  BY <3>1, <3>2
  <2>4. Piped(x)'
    <3>1. Ended(x)' = Ended(x) /\ Piped(x) /\ CloseLast(x)
      BY <2>2, Zenon DEF Ended, IInv
    <3>2. srpx'[x].pw = "closed" => Ended(x)
      BY <1>2, <2>1, <2>2, <3>1, Zenon DEF Piped, CloseLast, Handled, SameStop, Ended
    <3>3. CASE m.q = x /\ m.kind \in {"EOF", "STOP"}
      <4>1. recv' # x
        BY <2>2, <3>3, Zenon DEF Handled
      <4>2. InQueue(c2s', x, "DATA") => m.kind = "EOF" /\ "DATA" = "STOP"
        BY <2>1, <3>3, Zenon DEF Closing
      <4>. QED  BY <1>2, <2>2, <3>1, <3>2, <4>1, <4>2, Zenon DEF Piped
    <3>4. CASE m.q = x /\ m.kind = "DATA"
      <4>1. InQueue(c2s, x, "DATA") /\ srpx'[x].pw = srpx[x].pw
        BY <2>1, <2>2, <3>4, Zenon DEF Handled, SameStop
      <4>2. InQueue(c2s, x, "EOF") <=> InQueue(c2s', x, "EOF") \/ (m.q = x /\ m.kind = "EOF")
        BY <2>1, Zenon
      <4>3. InQueue(c2s, x, "STOP") <=> InQueue(c2s', x, "STOP") \/ (m.q = x /\ m.kind = "STOP")
        BY <2>1, Zenon
      <4>. QED  BY <1>2, <2>2, <3>1, <3>4, <4>1, <4>2, <4>3, Zenon DEF Piped
    <3>5. CASE ~(m.q = x /\ m.kind \in {"EOF", "STOP", "DATA"})
      <4>1. /\ srpx'[x].pw = srpx[x].pw /\ recv' # x
            /\ InQueue(c2s', x, "EOF") <=> InQueue(c2s, x, "EOF")
            /\ InQueue(c2s', x, "STOP") <=> InQueue(c2s, x, "STOP")
            /\ InQueue(c2s', x, "DATA") <=> InQueue(c2s, x, "DATA")
        BY <2>1, <2>2, <3>5, Zenon DEF Handled, SameStop
      <4>. QED  BY <1>2, <2>2, <3>1, <4>1, Zenon DEF Piped
    <3>. QED  BY <3>3, <3>4, <3>5, Zenon
  <2>5. Budget(x)'
    <3>1. srpx[x].done + 1 + Count(~conn_stop) + Count(EofDue(x)) + Count(StopDue(x)) <= 4
      <4>1. Count(recv # "ended") = 1 /\ Due(x) = Count(EofDue(x)) + Count(StopDue(x))
        BY <1>2, <1>5, Zenon DEF Due, Count
      <4>2. srpx[x].done + 1 + Count(~conn_stop) + (Count(EofDue(x)) + Count(StopDue(x))) <= 4
        BY <4>1, Zenon DEF IInv, Budget
      <4>3. srpx[x].done \in Nat /\ Count(~conn_stop) \in Nat /\ Count(EofDue(x)) \in Nat /\ Count(StopDue(x)) \in Nat
        BY SMT DEF IInv, TypeOK, ServerRpxs, ServerRpxType, Count
      <4>. QED  BY <4>2, <4>3, SMT
    <3>2. Count(recv' # "ended") = 1 /\ Due(x)' = Count(EofDue(x)') + Count(StopDue(x)')
      BY <1>2, <1>5, Zenon DEF Due, Count
    <3>3. srpx[x].done \in Nat /\ srpx'[x].done \in Nat /\ Count(~conn_stop) \in Nat
      BY <1>3, SMT DEF IInv, TypeOK, ServerRpxs, ServerRpxType, Count
    <3>4. Ended(x)' = Ended(x) /\ CloseLast(x) /\ cl'[x] = cl[x]
      BY <2>2, Zenon DEF Ended, IInv
    <3>5. (EofDue(x)' => EofDue(x)) /\ (StopDue(x)' => StopDue(x))
      BY <2>1, <3>4, Zenon DEF EofDue, StopDue
    <3>6. CASE m.q = x /\ x \in rpx_map /\ m.kind \in {"EOF", "STOP"}
      <4>1. srpx'[x].done = srpx[x].done + 1
        BY <2>2, <3>6, Zenon DEF Handled
      <4>2. (EofDue(x) /\ ~EofDue(x)') \/ (StopDue(x) /\ ~StopDue(x)')
        <5>1. InQueue(c2s, x, m.kind) /\ ~InQueue(c2s', x, m.kind)
          BY <2>1, <3>6, Zenon DEF Closing
        <5>2. CASE m.kind = "EOF"
          BY <3>4, <5>1, <5>2, Zenon DEF EofDue, CloseLast
        <5>3. CASE m.kind = "STOP"
          BY <3>4, <5>1, <5>3, Zenon DEF StopDue, CloseLast
        <5>. QED  BY <3>6, <5>2, <5>3, Zenon
      <4>3. srpx'[x].done + 1 + Count(~conn_stop) + (Count(EofDue(x)') + Count(StopDue(x)')) <= 4
        BY <3>1, <3>3, <3>5, <4>1, <4>2, SMT DEF Count
      <4>. QED  BY <1>2, <3>2, <4>3, Zenon DEF Budget
    <3>7. CASE ~(m.q = x /\ x \in rpx_map /\ m.kind \in {"EOF", "STOP"})
      <4>1. srpx'[x].done = srpx[x].done
        BY <2>2, <3>7, Zenon DEF Handled, SameStop
      <4>2. srpx'[x].done + 1 + Count(~conn_stop) + (Count(EofDue(x)') + Count(StopDue(x)')) <= 4
        BY <3>1, <3>3, <3>5, <4>1, SMT DEF Count
      <4>. QED  BY <1>2, <3>2, <4>2, Zenon DEF Budget
    <3>. QED  BY <3>6, <3>7
  <2>6. Got(x)'
    <3>1. /\ rpx_map' = rpx_map /\ disturbed' = disturbed /\ rh' = rh /\ browser' = browser
          /\ srpx'[x].error = srpx[x].error
      BY <1>4, Zenon DEF ReceiverKeeps
    <3>2. ASSUME x \in rpx_map
          PROVE  Count(recv' = x) + Packets(c2s', x) = Count(recv = x) + Packets(c2s, x)
      <4>1. Count(recv = x) = 0
        BY <1>0, Zenon DEF Count
      <4>2. Count(recv' = x) = Count(m.q = x /\ m.kind = "DATA")
        BY <2>2, <3>2, Zenon DEF Handled, Count
      <4>3. Count(m.q = x /\ m.kind = "DATA") \in Nat
        BY SMT DEF Count
      <4>. QED  BY <2>1, <4>1, <4>2, <4>3, SMT
    <3>4. /\ browser[x].got \in Nat /\ Count(rh[x] = "write") \in Nat /\ Count(recv' = x) \in Nat
          /\ Count(recv = x) \in Nat
      BY SMT DEF IInv, TypeOK, Browsers, Count
    <3>5. Packets(c2s, x) \in Nat
      BY <1>0, PlacesFinite, Zenon
    <3>6. ASSUME x \in rpx_map
          PROVE  browser[x].got + Count(rh[x] = "write") + Count(recv' = x) + Packets(c2s', x)
                   = browser[x].got + Count(rh[x] = "write") + Count(recv = x) + Packets(c2s, x)
      <4>1. Count(recv' = x) + Packets(c2s', x) = Count(recv = x) + Packets(c2s, x)
        BY <3>2, <3>6
      <4>. QED  BY <2>1, <3>4, <3>5, <4>1, SMT
    <3>7. Got(x)
      BY Zenon DEF IInv
    <3>. QED  BY <2>2, <3>1, <3>6, <3>7, Zenon DEF Got
  <2>. QED  BY <2>3, <2>4, <2>5, <2>6
<1>. QED  BY <1>4, <1>6, <1>7, ReceiverWhole, Zenon

-----------------------------------------------------------------------------
(* The receiver of the client.                                             *)

\* The steps of RpxLoop that the receiver can cause.
SameEnd(f, g, x) == (g[x] \in {"join", "ended"} <=> f[x] \in {"join", "ended"}) /\ (g[x] = "ended" <=> f[x] = "ended")

\* What the receiver leaves alone.
ClientKeeps ==
  /\ UNCHANGED <<sh, rh, srpx, rpx_map, recv, conn_stop, browser, c2s, link, disturbed>>
  /\ s2c' = s2c \/ s2c' = Tail(s2c)
  /\ \A x \in Reqs : SameAnswer(target, target', x) /\ SameEnd(cl, cl', x)

LEMMA ClientWhole ==
  ASSUME IInv, ClientKeeps, TypeOK', Tables', Streams',
         \A x \in Reqs : Fresh(x)' /\ Unasked(x)' /\ StartFirst(x)' /\ Sent(x)'
  PROVE  IInv'
<1>1. ASSUME NEW x \in Reqs
      PROVE  Served(x)' /\ CloseLast(x)' /\ Piped(x)' /\ Budget(x)' /\ Got(x)'
  <2>1. SameAnswer(target, target', x) /\ SameEnd(cl, cl', x)
    BY Zenon DEF ClientKeeps
  <2>2. (Ended(x)' <=> Ended(x)) /\ (cl'[x] = "ended" <=> cl[x] = "ended")
    BY <2>1, Zenon DEF Ended, SameEnd
  <2>3. target'[x].sent = target[x].sent /\ target'[x].failed = target[x].failed
    BY <2>1, Zenon DEF SameAnswer
  <2>4. Served(x)' /\ Got(x)'
    BY <2>3, Zenon DEF IInv, Served, Got, ClientKeeps
  <2>5. CloseLast(x)' /\ Piped(x)'
    <3>1. CloseLast(x)'
      BY <2>2, Zenon DEF IInv, CloseLast, ClientKeeps
    <3>2. Piped(x)'
      BY <2>2, <2>3, Zenon DEF IInv, Piped, ClientKeeps
    <3>. QED  BY <3>1, <3>2
  <2>6. Due(x)' = Due(x)
    <3>1. (EofDue(x)' <=> EofDue(x)) /\ (StopDue(x)' <=> StopDue(x))
      BY <2>2, Zenon DEF EofDue, StopDue, ClientKeeps
    <3>. QED  BY <3>1, Zenon DEF Due, Count, ClientKeeps
  <2>7. Budget(x)'
    BY <2>6, Zenon DEF IInv, Budget, ClientKeeps
  <2>. QED  BY <2>4, <2>5, <2>7
<1>. QED  BY <1>1, Zenon DEF IInv

\* START first, as the client finds it.
StartTaken(msgs, m, x) ==
  IF m.q = x THEN m.kind = "START" /\ ~InQueue(msgs, x, "START") ELSE StartsWith(msgs, x)

LEMMA TakenFromServer ==
  ASSUME TypeOK, s2c # <<>>, s2c' = Tail(s2c), NEW x \in Reqs, NEW m, m = Head(s2c)
  PROVE  /\ InQueue(s2c, x, "START") <=> InQueue(s2c', x, "START") \/ (m.q = x /\ m.kind = "START")
         /\ Any(s2c, x) <=> Any(s2c', x) \/ m.q = x
         /\ StartsWith(s2c, x) => StartTaken(s2c', m, x)
         /\ Packets(s2c, x) = Packets(s2c', x) + Count(m.q = x /\ m.kind = "DATA")
         /\ Packets(s2c', x) \in Nat /\ Packets(s2c, x) \in Nat
<1>1. s2c \in Seq(ToClient) /\ s2c' \in Seq(ToClient)
  BY SMT DEF TypeOK
<1>2. /\ InQueue(s2c, x, "START") <=> InQueue(s2c', x, "START") \/ (m.q = x /\ m.kind = "START")
      /\ Any(s2c, x) <=> Any(s2c', x) \/ m.q = x
  BY <1>1, InTail, Zenon
<1>3. StartsWith(s2c, x) => StartTaken(s2c', m, x)
  <2>1. StartsWith(s2c, x) => StartTaken(Tail(s2c), Head(s2c), x)
    BY <1>1, StartsTail, Zenon DEF StartTaken
  <2>. QED  BY <2>1, Zenon
<1>4. Packets(s2c, x) = Packets(s2c', x) + Count(m.q = x /\ m.kind = "DATA")
  BY <1>1, PacketsTail, Zenon
<1>5. Packets(s2c', x) \in Nat /\ Packets(s2c, x) \in Nat
  BY <1>1, PlacesFinite, Zenon
<1>. QED  BY <1>2, <1>3, <1>4, <1>5, Zenon

\* A message of the server, as HandleRpxEvent of the client takes it.
ClientHandled(m, x) ==
  /\ crecv' = x <=> m.q = x /\ x \in client_map /\ m.kind = "DATA"
  /\ \/ crpx'[x].pr = crpx[x].pr
     \/ crpx'[x].pr = "closed" /\ m.q = x /\ x \in client_map /\ m.kind = "STOP"

\* The loop of a request starts with START.
Started(m, x) ==
  /\ m.q = x /\ m.kind = "START" => cl'[x] \in {"ws", "http"} /\ x \in client_map'
  /\ ~(m.q = x /\ m.kind = "START") => cl'[x] = cl[x] /\ (x \in client_map' <=> x \in client_map)

ClientTakes(m) == StartRpx(m) \/ StopRpx(m) \/ WriteRpx(m) \/ EofRpx(m)

LEMMA ClientEffect ==
  ASSUME IInv, crecv = "recv", NEW m \in ToClient, ClientTakes(m)
  PROVE  /\ crpx' \in ClientRpxs /\ crecv' \in Reqs \cup {"recv"} /\ client_map' \subseteq Reqs
         /\ cl' \in [Reqs -> {"none", "http", "ws", "http_body", "ws_body", "join", "ended"}]
         /\ \A x \in Reqs : ClientHandled(m, x) /\ Started(m, x)
<1>0. /\ "recv" \notin Reqs /\ crpx \in ClientRpxs /\ m.q \in Reqs
      /\ cl \in [Reqs -> {"none", "http", "ws", "http_body", "ws_body", "join", "ended"}]
      /\ client_map \subseteq Reqs
  BY ReqsAssumption, SMT DEF IInv, TypeOK, ToClient
<1>1. CASE StartRpx(m)
  <2>1. /\ cl' \in [Reqs -> {"none", "http", "ws", "http_body", "ws_body", "join", "ended"}]
        /\ cl'[m.q] \in {"ws", "http"} /\ \A x \in Reqs : x # m.q => cl'[x] = cl[x]
    BY <1>0, <1>1, SMT DEF StartRpx
  <2>2. client_map' \subseteq Reqs /\ m.q \in client_map' /\ \A x \in Reqs : x # m.q => (x \in client_map' <=> x \in client_map)
    BY <1>0, <1>1, Zenon DEF StartRpx
  <2>3. m.kind = "START" /\ crpx' = crpx /\ crecv' = crecv
    BY <1>1, Zenon DEF StartRpx
  <2>4. \A x \in Reqs : ClientHandled(m, x)
    BY <1>0, <2>3, Zenon DEF ClientHandled
  <2>5. \A x \in Reqs : Started(m, x)
    BY <2>1, <2>2, <2>3, Zenon DEF Started
  <2>. QED  BY <1>0, <2>1, <2>2, <2>3, <2>4, <2>5, Zenon
<1>2. CASE StopRpx(m)
  <2>1. m.kind = "STOP" /\ cl' = cl /\ client_map' = client_map /\ crecv' = crecv
    BY <1>2, Zenon DEF StopRpx
  <2>2. CASE m.q \in client_map
    <3>1. crpx' \in ClientRpxs /\ \A x \in Reqs : ReaderClosed(crpx, crpx', {m.q}, x)
      BY <1>0, <1>2, <2>2, ClientStoppedSet, Zenon DEF StopRpx
    <3>. QED  BY <1>0, <2>1, <2>2, <3>1, Zenon DEF ClientHandled, Started, ReaderClosed
  <2>3. CASE m.q \notin client_map
    <3>1. crpx' = crpx
      BY <1>2, <2>3, Zenon DEF StopRpx
    <3>. QED  BY <1>0, <2>1, <3>1, Zenon DEF ClientHandled, Started
  <2>. QED  BY <2>2, <2>3
<1>3. CASE WriteRpx(m)
  <2>1. m.kind = "DATA" /\ cl' = cl /\ client_map' = client_map /\ crpx' = crpx
    BY <1>3, Zenon DEF WriteRpx
  <2>2. crecv' = IF m.q \in client_map THEN m.q ELSE "recv"
    BY <1>3, Zenon DEF WriteRpx
  <2>. QED  BY <1>0, <2>1, <2>2, Zenon DEF ClientHandled, Started
<1>4. CASE EofRpx(m)
  <2>1. m.kind = "EOF" /\ cl' = cl /\ client_map' = client_map /\ crecv' = crecv
    BY <1>4, Zenon DEF EofRpx
  <2>2. crpx' \in ClientRpxs /\ \A x \in Reqs : SameReader(crpx, crpx', x)
    <3>1. CASE m.q \in client_map
      <4>1. crpx' = [crpx EXCEPT ![m.q].pw = "closed"]
        BY <1>4, <3>1, Zenon DEF EofRpx
      <4>. QED  BY <1>0, <4>1, WriterClosed, Zenon
    <3>2. CASE m.q \notin client_map
      <4>1. crpx' = crpx
        BY <1>4, <3>2, Zenon DEF EofRpx
      <4>. QED  BY <1>0, <4>1, Zenon DEF SameReader
    <3>. QED  BY <3>1, <3>2
  <2>. QED  BY <1>0, <2>1, <2>2, Zenon DEF ClientHandled, Started, SameReader
<1>. QED  BY <1>1, <1>2, <1>3, <1>4, Zenon DEF ClientTakes

LEMMA ClientReceivesStep ==
  ASSUME IInv, ClientReceives
  PROVE  IInv'
<1>. DEFINE m == Head(s2c)
<1>0. /\ s2c # <<>> /\ s2c \in Seq(ToClient) /\ s2c' = Tail(s2c) /\ crecv = "recv" /\ ClientTakes(m)
      /\ m \in ToClient /\ s2c' \in Seq(ToClient) /\ "recv" \notin Reqs
  BY ReqsAssumption, SMT DEF ClientReceives, ClientTakes, IInv, TypeOK
<1>1. m.q \in Reqs /\ m = Head(s2c)
  BY <1>0, SMT DEF ToClient
<1>. HIDE DEF m
<1>2. link = "up" /\ link' = "up"
  BY <1>0, Zenon DEF ClientReceives, IInv, TypeOK, Streams
<1>3. /\ crpx' \in ClientRpxs /\ crecv' \in Reqs \cup {"recv"} /\ client_map' \subseteq Reqs
      /\ cl' \in [Reqs -> {"none", "http", "ws", "http_body", "ws_body", "join", "ended"}]
      /\ \A x \in Reqs : ClientHandled(m, x) /\ Started(m, x)
  BY <1>0, ClientEffect, Zenon
<1>4. UNCHANGED <<sh, rh, srpx, rpx_map, recv, conn_stop, browser, c2s, link, disturbed, target>>
  BY Zenon DEF ClientReceives, server
<1>5. ASSUME NEW x \in Reqs
      PROVE  /\ InQueue(s2c, x, "START") <=> InQueue(s2c', x, "START") \/ (m.q = x /\ m.kind = "START")
             /\ Any(s2c, x) <=> Any(s2c', x) \/ m.q = x
             /\ StartsWith(s2c, x) => StartTaken(s2c', m, x)
             /\ Packets(s2c, x) = Packets(s2c', x) + Count(m.q = x /\ m.kind = "DATA")
             /\ Packets(s2c', x) \in Nat /\ Packets(s2c, x) \in Nat
  BY <1>0, <1>1, TakenFromServer, Zenon DEF IInv
<1>6. ASSUME NEW x \in Reqs, m.q = x
      PROVE  m.kind = "START" <=> cl[x] = "none"
  BY <1>5, <1>6, Zenon DEF IInv, StartFirst, StartTaken
<1>7. ASSUME NEW x \in Reqs
      PROVE  Fresh(x)' /\ Unasked(x)' /\ StartFirst(x)' /\ Sent(x)'
  <2>1. ClientHandled(m, x) /\ Started(m, x)
    BY <1>3, Zenon
  <2>2. /\ InQueue(s2c, x, "START") <=> InQueue(s2c', x, "START") \/ (m.q = x /\ m.kind = "START")
        /\ Any(s2c, x) <=> Any(s2c', x) \/ m.q = x
        /\ StartsWith(s2c, x) => StartTaken(s2c', m, x)
    BY <1>5, Zenon
  <2>3. m.q = x => (m.kind = "START" <=> cl[x] = "none")
    BY <1>6, Zenon
  <2>4. /\ m.q = x /\ m.kind = "START" => cl'[x] \in {"ws", "http"}
        /\ ~(m.q = x /\ m.kind = "START") => cl'[x] = cl[x]
    BY <2>1, Zenon DEF Started
  <2>5. Fresh(x)'
    BY <1>4, <2>2, <2>4, Zenon DEF IInv, Fresh
  <2>6. Unasked(x)'
    <3>1. cl'[x] = "none" => cl[x] = "none" /\ m.q # x
      BY <2>3, <2>4, Zenon
    <3>. QED  BY <1>4, <2>1, <3>1, Zenon DEF IInv, Unasked, ClientHandled
  <2>7. StartFirst(x)'
    <3>1. cl'[x] = "none" => cl[x] = "none" /\ m.q # x
      BY <2>3, <2>4, Zenon
    <3>2. cl'[x] # "none" => ~InQueue(s2c', x, "START")
      BY <2>2, <2>3, <2>4, Zenon DEF IInv, StartFirst, StartTaken
    <3>. QED  BY <1>4, <2>2, <3>1, <3>2, Zenon DEF IInv, StartFirst, StartTaken
  <2>8. Sent(x)'
    <3>1. ASSUME cl'[x] = "none" \/ (x \in client_map' /\ crpx'[x].pr = "open")
          PROVE  /\ cl[x] = "none" \/ (x \in client_map /\ crpx[x].pr = "open")
                 /\ m.q = x /\ m.kind = "DATA" => x \in client_map
      <4>1. CASE m.q = x /\ m.kind = "START"
        BY <2>3, <4>1, Zenon
      <4>2. CASE ~(m.q = x /\ m.kind = "START")
        <5>1. cl'[x] = cl[x] /\ (x \in client_map' <=> x \in client_map)
          BY <2>1, <4>2, Zenon DEF Started
        <5>2. crpx'[x].pr = "open" => crpx[x].pr = "open"
          BY <2>1, Zenon DEF ClientHandled
        <5>. QED  BY <2>3, <3>1, <4>2, <5>1, <5>2, Zenon
      <4>. QED  BY <4>1, <4>2, Zenon
    <3>2. ASSUME m.q = x /\ m.kind = "DATA" => x \in client_map
          PROVE  Count(crecv' = x) + Packets(s2c', x) = Count(crecv = x) + Packets(s2c, x)
      <4>1. Count(crecv = x) = 0
        BY <1>0, Zenon DEF Count
      <4>2. Count(crecv' = x) = Count(m.q = x /\ m.kind = "DATA")
        BY <2>1, <3>2, Zenon DEF ClientHandled, Count
      <4>3. Count(m.q = x /\ m.kind = "DATA") \in Nat
        BY SMT DEF Count
      <4>. QED  BY <1>5, <4>1, <4>2, <4>3, SMT
    <3>3. /\ Packets(s2c', x) \in Nat /\ Packets(s2c, x) \in Nat /\ target[x].got \in Nat
          /\ Count(crecv' = x) \in Nat /\ Count(crecv = x) \in Nat
      BY <1>5, SMT DEF IInv, TypeOK, Targets, Count
    <3>4. ASSUME m.q = x /\ m.kind = "DATA" => x \in client_map
          PROVE  target[x].got + Count(crecv' = x) + Packets(s2c', x)
                   = target[x].got + Count(crecv = x) + Packets(s2c, x)
      <4>1. Count(crecv' = x) + Packets(s2c', x) = Count(crecv = x) + Packets(s2c, x)
        BY <3>2, <3>4, Zenon
      <4>. QED  BY <3>3, <4>1, SMT
    <3>5. Sent(x)
      BY Zenon DEF IInv
    <3>. QED  BY <1>2, <1>4, <3>1, <3>4, <3>5, Zenon DEF Sent
  <2>. QED  BY <2>5, <2>6, <2>7, <2>8
<1>8. TypeOK'
  BY <1>0, <1>3, <1>4, Zenon DEF IInv, TypeOK
<1>9. Tables'
  <2>1. ASSUME NEW x \in Reqs
        PROVE  x \in client_map' <=> cl'[x] \notin {"none", "ended"}
    <3>1. Started(m, x) /\ (x \in client_map <=> cl[x] \notin {"none", "ended"})
      BY <1>3, Zenon DEF IInv, Tables
    <3>. QED  BY <3>1, Zenon DEF Started
  <2>2. client_map' = {x \in Reqs : cl'[x] \notin {"none", "ended"}}
    BY <1>3, <2>1, Zenon
  <2>. QED  BY <1>4, <2>2, Zenon DEF IInv, Tables
<1>10. Streams'
  BY <1>2, <1>4, Zenon DEF IInv, Streams
<1>11. ClientKeeps
  <2>1. ASSUME NEW x \in Reqs
        PROVE  SameAnswer(target, target', x) /\ SameEnd(cl, cl', x)
    <3>1. Started(m, x) /\ (m.q = x /\ m.kind = "START" => cl[x] = "none")
      BY <1>3, <1>6, Zenon
    <3>2. SameEnd(cl, cl', x)
      BY <3>1, Zenon DEF Started, SameEnd
    <3>3. SameAnswer(target, target', x)
      BY <1>4, Zenon DEF SameAnswer
    <3>. QED  BY <3>2, <3>3
  <2>. QED  BY <1>0, <1>4, <2>1, Zenon DEF ClientKeeps
<1>. QED  BY <1>7, <1>8, <1>9, <1>10, <1>11, ClientWhole, Zenon

\* The packet the receiver was writing has been read, or cannot be.
LEMMA WrittenStep ==
  ASSUME IInv, NEW q \in Reqs, TargetReads(q) \/ ClientWriteFails(q)
  PROVE  IInv'
<1>0. "recv" \notin Reqs /\ crecv = q /\ crecv' = "recv"
  BY ReqsAssumption, Zenon DEF TargetReads, ClientWriteFails
<1>1. UNCHANGED <<sh, rh, srpx, rpx_map, recv, conn_stop, browser, cl, crpx, client_map, s2c, c2s, link, disturbed>>
  BY Zenon DEF TargetReads, ClientWriteFails, server, net
<1>2. /\ target' \in Targets
      /\ \A x \in Reqs : \/ ReadAt(target, target', q, x)
                         \/ target' = target /\ crpx[q].pr = "closed"
  BY BodyRead, Zenon DEF TargetReads, ClientWriteFails, IInv, TypeOK
<1>3. ASSUME NEW x \in Reqs
      PROVE  /\ SameAnswer(target, target', x) /\ SameEnd(cl, cl', x)
             /\ x # q => target'[x].got = target[x].got
             /\ crpx[q].pr = "open" => target'[q].got = target[q].got + 1
  <2>1. x # q => target'[x].got = target[x].got
    <3>1. target[x].got \in Nat /\ (x # q => Count(x = q) = 0)
      BY SMT DEF IInv, TypeOK, Targets, Count
    <3>2. x # q => target[x].got + 0 = target[x].got
      BY <3>1, SMT
    <3>. QED  BY <1>2, <3>1, <3>2, Zenon DEF ReadAt
  <2>2. crpx[q].pr = "open" => target'[q].got = target[q].got + 1
    BY <1>2, Zenon DEF ReadAt, Count
  <2>3. SameAnswer(target, target', x) /\ SameEnd(cl, cl', x)
    BY <1>1, <1>2, Zenon DEF SameAnswer, SameEnd, ReadAt
  <2>. QED  BY <2>1, <2>2, <2>3
<1>4. ASSUME NEW x \in Reqs
      PROVE  Fresh(x)' /\ Unasked(x)' /\ StartFirst(x)' /\ Sent(x)'
  <2>1. Fresh(x)' /\ StartFirst(x)'
    BY <1>1, Zenon DEF IInv, Fresh, StartFirst
  <2>2. cl[x] = "none" => x # q
    BY <1>0, Zenon DEF IInv, Unasked
  <2>3. target'[x].sent = target[x].sent /\ (x # q => target'[x].got = target[x].got)
    BY <1>3, Zenon DEF SameAnswer
  <2>4. Unasked(x)'
    BY <1>0, <1>1, <2>2, <2>3, Zenon DEF IInv, Unasked
  <2>5. CASE x # q
    <3>1. Count(crecv' = x) = Count(crecv = x)
      BY <1>0, <2>5, Zenon DEF Count
    <3>2. Sent(x)'
      BY <1>1, <2>3, <2>5, <3>1, Zenon DEF IInv, Sent
    <3>. QED  BY <2>1, <2>4, <3>2
  <2>6. CASE x = q
    <3>1. Count(crecv' = x) = 0 /\ Count(crecv = x) = 1
      BY <1>0, <2>6, Zenon DEF Count
    <3>2. target[x].got \in Nat
      BY SMT DEF IInv, TypeOK, Targets
    <3>3. target[x].got + 1 + 0 = target[x].got + 1
      BY <3>2, SMT
    <3>4. crpx[x].pr = "open" => target'[x].got = target[x].got + 1
      BY <1>3, <2>6, Zenon
    <3>5. Sent(x)'
      <4>1. SUFFICES ASSUME link = "up", cl[x] = "none" \/ (x \in client_map /\ crpx[x].pr = "open")
                     PROVE  target'[x].got + Count(crecv' = x) + Packets(s2c, x) = browser[x].sent
        BY <1>1, Zenon DEF Sent
      <4>2. crpx[x].pr = "open"
        BY <2>2, <2>6, <4>1, Zenon
      <4>3. target[x].got + Count(crecv = x) + Packets(s2c, x) = browser[x].sent
        BY <4>1, Zenon DEF IInv, Sent
      <4>4. target'[x].got + Count(crecv' = x) = target[x].got + Count(crecv = x)
        BY <3>1, <3>3, <3>4, <4>2, Zenon
      <4>. QED  BY <4>3, <4>4, Zenon
    <3>. QED  BY <2>1, <2>4, <3>5
  <2>. QED  BY <2>5, <2>6
<1>5. TypeOK' /\ Tables' /\ Streams'
  BY <1>0, <1>1, <1>2, Zenon DEF IInv, TypeOK, Tables, Streams
<1>6. ClientKeeps
  BY <1>1, <1>3, Zenon DEF ClientKeeps
<1>. QED  BY <1>4, <1>5, <1>6, ClientWhole, Zenon

-----------------------------------------------------------------------------
(* RpxLoop.                                                                *)

\* The queue to the server, for a request whose loop has sent nothing.
SameQueue(s, t, x) ==
  /\ InQueue(t, x, "DATA") <=> InQueue(s, x, "DATA")
  /\ InQueue(t, x, "EOF") <=> InQueue(s, x, "EOF")
  /\ InQueue(t, x, "STOP") <=> InQueue(s, x, "STOP")
  /\ Any(t, x) <=> Any(s, x)
  /\ EndsWith(s, x) => EndsWith(t, x)
  /\ Packets(t, x) = Packets(s, x)

\* The queue, with a message of the request behind.
AddedTo(s, t, k, x) ==
  /\ InQueue(t, x, "DATA") <=> InQueue(s, x, "DATA") \/ k = "DATA"
  /\ InQueue(t, x, "EOF") <=> InQueue(s, x, "EOF") \/ k = "EOF"
  /\ InQueue(t, x, "STOP") <=> InQueue(s, x, "STOP") \/ k = "STOP"
  /\ EndsWith(s, x) /\ ~InQueue(s, x, "STOP") /\ (InQueue(s, x, "EOF") => k = "STOP") => EndsWith(t, x)
  /\ Packets(t, x) = Packets(s, x) + Count(k = "DATA")

LEMMA SentToServer ==
  ASSUME NEW s \in Seq(ToServer), NEW m \in ToServer, NEW t, t = Append(s, m), NEW x \in Reqs
  PROVE  /\ t \in Seq(ToServer)
         /\ m.q # x => SameQueue(s, t, x)
         /\ m.q = x => AddedTo(s, t, m.kind, x)
<1>1. /\ t \in Seq(ToServer) /\ Packets(s, x) \in Nat
      /\ Packets(t, x) = Packets(s, x) + Count(m.q = x /\ m.kind = "DATA")
  <2>1. t \in Seq(ToServer)
    BY SMT
  <2>2. /\ Packets(s, x) \in Nat
        /\ Packets(t, x) = Packets(s, x) + Count(m.q = x /\ m.kind = "DATA")
    BY PacketsAppend, PlacesFinite, Zenon
  <2>. QED  BY <2>1, <2>2
<1>2. /\ \A k : InQueue(t, x, k) <=> InQueue(s, x, k) \/ (m.q = x /\ m.kind = k)
      /\ Any(t, x) <=> Any(s, x) \/ m.q = x
  BY InAppend, Zenon
<1>3. /\ InQueue(t, x, "DATA") <=> InQueue(s, x, "DATA") \/ (m.q = x /\ m.kind = "DATA")
      /\ InQueue(t, x, "EOF") <=> InQueue(s, x, "EOF") \/ (m.q = x /\ m.kind = "EOF")
      /\ InQueue(t, x, "STOP") <=> InQueue(s, x, "STOP") \/ (m.q = x /\ m.kind = "STOP")
  BY <1>2, Zenon
<1>4. EndsWith(s, x) /\ (m.q = x => ~InQueue(s, x, "STOP") /\ (InQueue(s, x, "EOF") => m.kind = "STOP"))
        => EndsWith(t, x)
  BY EndsAppend, Zenon
<1>5. ASSUME m.q # x
      PROVE  SameQueue(s, t, x)
  <2>1. Count(m.q = x /\ m.kind = "DATA") = 0
    BY <1>5, Zenon DEF Count
  <2>2. Packets(t, x) = Packets(s, x)
    BY <1>1, <2>1, SMT
  <2>. QED  BY <1>2, <1>3, <1>4, <1>5, <2>2, Zenon DEF SameQueue
<1>6. ASSUME m.q = x
      PROVE  AddedTo(s, t, m.kind, x)
  <2>1. Count(m.q = x /\ m.kind = "DATA") = Count(m.kind = "DATA")
    BY <1>6, Zenon DEF Count
  <2>2. Packets(t, x) = Packets(s, x) + Count(m.kind = "DATA")
    BY <1>1, <2>1, Zenon
  <2>. QED  BY <1>3, <1>4, <1>6, <2>2, Zenon DEF AddedTo
<1>. QED  BY <1>1, <1>5, <1>6, Zenon

\* What the loop of one request leaves alone of another.
SameLoop(q, x) ==
  x # q => /\ cl'[x] = cl[x] /\ crpx'[x].pr = crpx[x].pr /\ (x \in client_map' <=> x \in client_map)
           /\ target'[x].sent = target[x].sent /\ target'[x].got = target[x].got
           /\ target'[x].failed = target[x].failed
           /\ SameQueue(c2s, c2s', x)

LoopOf(q) ==
  /\ UNCHANGED <<sh, rh, srpx, rpx_map, recv, conn_stop, browser, crecv, s2c, link, disturbed>>
  /\ cl' \in [Reqs -> {"none", "http", "ws", "http_body", "ws_body", "join", "ended"}]
  /\ crpx' \in ClientRpxs /\ client_map' \subseteq Reqs /\ target' \in Targets
  /\ c2s' \in Seq(ToServer)
  /\ link = "down" => c2s' = c2s
  /\ cl[q] \notin {"none", "ended"} /\ cl'[q] # "none"
  /\ q \in client_map' <=> cl'[q] # "ended"
  /\ crpx'[q].pr = "open" => crpx[q].pr = "open"
  /\ target'[q].got = target[q].got /\ (target[q].failed => target'[q].failed)
  /\ \A x \in Reqs : SameLoop(q, x)

\* Nothing is added to what can still be put into done_chan.
LEMMA DueLess ==
  ASSUME IInv, NEW x \in Reqs, UNCHANGED <<srpx, recv, conn_stop, link>>,
         link = "up" => (EofDue(x)' => EofDue(x)) /\ (StopDue(x)' => StopDue(x))
  PROVE  Budget(x)'
<1>1. Due(x)' <= Due(x) /\ Due(x)' \in Nat /\ Due(x) \in Nat
  <2>1. CASE link = "up"
    <3>1. Due(x) = Count(EofDue(x)) + Count(StopDue(x)) /\ Due(x)' = Count(EofDue(x)') + Count(StopDue(x)')
      BY <2>1, Zenon DEF Due
    <3>2. (EofDue(x)' => EofDue(x)) /\ (StopDue(x)' => StopDue(x))
      BY <2>1
    <3>. QED  BY <3>1, <3>2, SMT DEF Count
  <2>2. CASE link # "up"
    <3>1. Due(x) = Count(recv = x) /\ Due(x)' = Count(recv = x)
      BY <2>2, Zenon DEF Due
    <3>. QED  BY <3>1, SMT DEF Count
  <2>. QED  BY <2>1, <2>2
<1>2. srpx[x].done \in Nat /\ Count(recv # "ended") \in Nat /\ Count(~conn_stop) \in Nat
  BY SMT DEF IInv, TypeOK, ServerRpxs, ServerRpxType, Count
<1>3. srpx[x].done + Count(recv # "ended") + Count(~conn_stop) + Due(x) <= 4
  BY Zenon DEF IInv, Budget
<1>4. srpx[x].done + Count(recv # "ended") + Count(~conn_stop) + Due(x)' <= 4
  BY <1>1, <1>2, <1>3, SMT
<1>. QED  BY <1>4, Zenon DEF Budget

LEMMA LoopWhole ==
  ASSUME IInv, NEW q \in Reqs, LoopOf(q), CloseLast(q)', Piped(q)', Budget(q)', Got(q)'
  PROVE  IInv'
<1>0. UNCHANGED <<sh, rh, srpx, rpx_map, recv, conn_stop, browser, crecv, s2c, link, disturbed>>
  BY Zenon DEF LoopOf
<1>1. TypeOK'
  BY <1>0, Zenon DEF IInv, TypeOK, LoopOf
<1>2. Tables'
  <2>1. \A x \in Reqs : x \in client_map' <=> cl'[x] \notin {"none", "ended"}
    BY Zenon DEF LoopOf, SameLoop, IInv, Tables
  <2>2. client_map' = {x \in Reqs : cl'[x] \notin {"none", "ended"}}
    BY <2>1, Zenon DEF LoopOf
  <2>. QED  BY <1>0, <2>2, Zenon DEF IInv, Tables
<1>3. Streams'
  <2>1. link = "down" => c2s' = c2s
    BY Zenon DEF LoopOf
  <2>. QED  BY <1>0, <2>1, Zenon DEF IInv, Streams
<1>4. Fresh(q)' /\ Unasked(q)' /\ Served(q)' /\ StartFirst(q)' /\ Sent(q)'
  <2>1. /\ cl[q] \notin {"none", "ended"} /\ cl'[q] # "none" /\ (q \in client_map' => q \in client_map)
        /\ crpx'[q].pr = "open" => crpx[q].pr = "open"
        /\ target'[q].got = target[q].got /\ (target[q].failed => target'[q].failed)
    BY Zenon DEF LoopOf, IInv, Tables
  <2>2. Fresh(q)' /\ Unasked(q)'
    BY <1>0, <2>1, Zenon DEF IInv, Fresh, Unasked
  <2>3. Served(q)' /\ StartFirst(q)'
    BY <1>0, <2>1, Zenon DEF IInv, Served, StartFirst
  <2>4. Sent(q)'
    BY <1>0, <2>1, Zenon DEF IInv, Sent
  <2>. QED  BY <2>2, <2>3, <2>4
<1>5. ASSUME NEW x \in Reqs, x # q
      PROVE  /\ Fresh(x)' /\ Unasked(x)' /\ Served(x)' /\ StartFirst(x)' /\ CloseLast(x)'
             /\ Piped(x)' /\ Budget(x)' /\ Sent(x)' /\ Got(x)'
  <2>1. /\ cl'[x] = cl[x] /\ crpx'[x].pr = crpx[x].pr /\ (x \in client_map' <=> x \in client_map)
        /\ target'[x].sent = target[x].sent /\ target'[x].got = target[x].got
        /\ target'[x].failed = target[x].failed
        /\ SameQueue(c2s, c2s', x)
    BY <1>5, Zenon DEF LoopOf, SameLoop
  <2>2. Fresh(x)' /\ Unasked(x)'
    BY <1>0, <2>1, Zenon DEF IInv, Fresh, Unasked, SameQueue
  <2>3. Served(x)' /\ StartFirst(x)' /\ Sent(x)'
    <3>1. Served(x)' /\ StartFirst(x)'
      BY <1>0, <2>1, Zenon DEF IInv, Served, StartFirst
    <3>2. Sent(x)'
      BY <1>0, <2>1, Zenon DEF IInv, Sent
    <3>. QED  BY <3>1, <3>2
  <2>4. CloseLast(x)' /\ Piped(x)'
    <3>1. CloseLast(x)'
      BY <2>1, Zenon DEF IInv, CloseLast, Ended, SameQueue
    <3>2. Piped(x)'
      BY <1>0, <2>1, Zenon DEF IInv, Piped, Ended, SameQueue
    <3>. QED  BY <3>1, <3>2
  <2>5. Budget(x)'
    <3>1. (EofDue(x)' => EofDue(x)) /\ (StopDue(x)' => StopDue(x))
      BY <2>1, Zenon DEF EofDue, StopDue, Ended, SameQueue
    <3>. QED  BY <1>0, <3>1, DueLess, Zenon
  <2>6. Got(x)'
    <3>1. Got(x)
      BY Zenon DEF IInv
    <3>. QED  BY <1>0, <2>1, <3>1, ZenonT(60) DEF Got, SameQueue
  <2>. QED  BY <2>2, <2>3, <2>4, <2>5, <2>6
<1>. QED  BY <1>1, <1>2, <1>3, <1>4, <1>5, Zenon DEF IInv

\* What is said about the request itself, when its loop sends START, DATA or EOF.
LEMMA LoopSendStep ==
  ASSUME IInv, NEW q \in Reqs, cl[q] \in {"http", "ws", "http_body", "ws_body"},
         NEW m \in ToServer, m.q = q, m.kind \in {"START", "DATA", "EOF"}, SendToServer(m),
         UNCHANGED <<sh, rh, srpx, rpx_map, recv, conn_stop, browser, crecv, s2c, link, disturbed, client_map>>,
         NEW c \in {"http_body", "ws_body", "join"}, cl' = [cl EXCEPT ![q] = c],
         c = "join" <=> m.kind = "EOF",
         crpx' \in ClientRpxs, \A x \in Reqs : SameReader(crpx, crpx', x),
         target' \in Targets,
         IF m.kind = "DATA" THEN \A x \in Reqs : AnsweredAt(target, target', q, x) ELSE target' = target,
         m.kind = "EOF" => target[q].sent = MaxResp
  PROVE  IInv'
<1>1. /\ cl' \in [Reqs -> {"none", "http", "ws", "http_body", "ws_body", "join", "ended"}]
      /\ cl'[q] = c /\ \A x \in Reqs : x # q => cl'[x] = cl[x]
  BY Zenon DEF IInv, TypeOK
<1>2. c2s \in Seq(ToServer)
  BY ZenonT(60) DEF IInv, TypeOK
<1>3. /\ c2s' \in Seq(ToServer)
      /\ \A x \in Reqs : x # q => SameQueue(c2s, c2s', x)
      /\ link = "up" => AddedTo(c2s, c2s', m.kind, q)
      /\ link # "up" => c2s' = c2s
  <2>1. CASE link = "up"
    <3>1. c2s' = Append(c2s, m)
      BY <2>1, Zenon DEF SendToServer
    <3>. QED  BY <1>2, <2>1, <3>1, SentToServer, Zenon
  <2>2. CASE link # "up"
    <3>1. c2s' = c2s
      BY <2>2, Zenon DEF SendToServer
    <3>. QED  BY <1>2, <2>2, <3>1, Zenon DEF SameQueue
  <2>. QED  BY <2>1, <2>2
<1>4. \A x \in Reqs : /\ target'[x].got = target[x].got /\ target'[x].failed = target[x].failed
                      /\ x # q => target'[x].sent = target[x].sent
  <2>1. ASSUME NEW x \in Reqs, AnsweredAt(target, target', q, x), x # q
        PROVE  target'[x].sent = target[x].sent
    <3>1. target[x].sent \in Nat /\ Count(x = q) = 0
      BY <2>1, SMT DEF IInv, TypeOK, Targets, Count
    <3>2. target'[x].sent = target[x].sent + Count(x = q)
      BY <2>1, Zenon DEF AnsweredAt
    <3>. QED  BY <3>1, <3>2, SMT
  <2>. QED  BY <2>1, Zenon DEF AnsweredAt
<1>5. /\ cl[q] \notin {"none", "ended"} /\ ~Ended(q) /\ q \in client_map
      /\ ~InQueue(c2s, q, "EOF") /\ ~InQueue(c2s, q, "STOP") /\ EndsWith(c2s, q)
  BY Zenon DEF IInv, Ended, Tables, CloseLast
<1>6. LoopOf(q)
  <2>1. \A x \in Reqs : SameLoop(q, x)
    BY <1>1, <1>3, <1>4, Zenon DEF SameLoop, SameReader
  <2>2. crpx'[q].pr = crpx[q].pr
    BY Zenon DEF SameReader
  <2>3. client_map' \subseteq Reqs /\ (link = "down" => c2s' = c2s)
    BY <1>3, Zenon DEF IInv, TypeOK
  <2>4. target'[q].got = target[q].got /\ (target[q].failed => target'[q].failed)
    BY <1>4, Zenon
  <2>5. q \in client_map' <=> cl'[q] # "ended"
    BY <1>1, <1>5, Zenon
  <2>6. cl'[q] # "none"
    BY <1>1, Zenon
  <2>. QED  BY <1>1, <1>3, <1>5, <2>1, <2>2, <2>3, <2>4, <2>5, <2>6, Zenon DEF LoopOf
<1>7. Ended(q)' <=> m.kind = "EOF"
  BY <1>1, Zenon DEF Ended
<1>8. CASE link = "up"
  <2>1. AddedTo(c2s, c2s', m.kind, q)
    BY <1>3, <1>8, Zenon
  <2>2. /\ EndsWith(c2s', q)
        /\ InQueue(c2s', q, "EOF") <=> m.kind = "EOF"
        /\ ~InQueue(c2s', q, "STOP")
        /\ InQueue(c2s', q, "DATA") => InQueue(c2s, q, "DATA") \/ m.kind = "DATA"
        /\ Packets(c2s', q) = Packets(c2s, q) + Count(m.kind = "DATA")
    BY <1>5, <2>1, Zenon DEF AddedTo
  <2>3. CloseLast(q)'
    BY <1>7, <2>2, Zenon DEF CloseLast
  <2>4. srpx[q].pw # "closed"
    BY <1>5, <1>8, Zenon DEF IInv, Piped
  <2>5. m.kind = "EOF" => target'[q].sent = MaxResp
    BY Zenon
  <2>6. Piped(q)'
    BY <1>7, <2>2, <2>4, <2>5, Zenon DEF Piped
  <2>7. (EofDue(q)' => EofDue(q)) /\ (StopDue(q)' => StopDue(q))
    BY <1>5, <2>2, Zenon DEF EofDue, StopDue
  <2>8. Budget(q)'
    BY <2>7, DueLess, Zenon
  <2>9. target'[q].sent = target[q].sent + Count(m.kind = "DATA")
    <3>1. CASE m.kind = "DATA"
      <4>1. AnsweredAt(target, target', q, q)
        BY <3>1, Zenon
      <4>. QED  BY <3>1, <4>1, Zenon DEF AnsweredAt, Count
    <3>2. CASE m.kind # "DATA"
      <4>1. Count(m.kind = "DATA") = 0 /\ target' = target /\ target[q].sent \in Nat
        BY <3>2, SMT DEF Count, IInv, TypeOK, Targets
      <4>. QED  BY <4>1, SMT
    <3>. QED  BY <3>1, <3>2
  <2>10. Got(q)'
    <3>1. Got(q)
      BY Zenon DEF IInv
    <3>2. /\ browser[q].got \in Nat /\ Count(rh[q] = "write") \in Nat /\ Count(recv = q) \in Nat
          /\ Count(m.kind = "DATA") \in Nat /\ Packets(c2s, q) \in Nat
      <4>1. Packets(c2s, q) \in Nat
        BY <1>2, PlacesFinite, ZenonT(60)
      <4>. QED  BY <4>1, SMT DEF IInv, TypeOK, Browsers, Count
    <3>3. ASSUME target[q].sent = browser[q].got + Count(rh[q] = "write") + Count(recv = q) + Packets(c2s, q)
          PROVE  target'[q].sent = browser[q].got + Count(rh[q] = "write") + Count(recv = q) + Packets(c2s', q)
      BY <2>2, <2>9, <3>2, <3>3, SMT
    <3>4. target'[q].failed = target[q].failed
      BY <1>4, Zenon
    <3>. QED  BY <3>1, <3>3, <3>4, Zenon DEF Got
  <2>. QED  BY <1>6, <2>3, <2>6, <2>8, <2>10, LoopWhole, Zenon
<1>9. CASE link # "up"
  <2>1. c2s' = c2s /\ disturbed
    BY <1>3, <1>9, Zenon DEF IInv, Streams, TypeOK
  <2>2. CloseLast(q)'
    BY <1>5, <2>1, Zenon DEF CloseLast
  <2>3. Piped(q)' /\ Got(q)'
    BY <1>9, <2>1, Zenon DEF Piped, Got
  <2>4. Budget(q)'
    BY <1>9, DueLess, Zenon
  <2>. QED  BY <1>6, <2>2, <2>3, <2>4, LoopWhole, Zenon
<1>. QED  BY <1>8, <1>9

\* The queue when the loop has ended.
StoppedQueue(s, t, q) ==
  /\ InQueue(t, q, "DATA") <=> InQueue(s, q, "DATA")
  /\ InQueue(t, q, "EOF") <=> InQueue(s, q, "EOF")
  /\ InQueue(t, q, "STOP") /\ EndsWith(t, q)
  /\ Packets(t, q) = Packets(s, q)

LEMMA EndLoopQueue ==
  ASSUME NEW s \in Seq(ToServer), NEW q \in Reqs, EndsWith(s, q), ~InQueue(s, q, "STOP"), NEW t,
         \/ t = s \o Append(<<>>, Msg("STOP", q))
         \/ t = s \o Append(<<StartOf(q, "403")>>, Msg("STOP", q)) /\ ~InQueue(s, q, "EOF")
  PROVE  t \in Seq(ToServer) /\ StoppedQueue(s, t, q) /\ \A x \in Reqs : x # q => SameQueue(s, t, x)
<1>. DEFINE m == Msg("STOP", q)
            n == StartOf(q, "403")
            u == Append(s, n)
<1>1. /\ m \in ToServer /\ m.q = q /\ m.kind = "STOP"
      /\ n \in ToServer /\ n.q = q /\ n.kind = "START"
  BY MessagesType, Zenon DEF Statuses
<1>2. u = Append(s, n) /\ u \in Seq(ToServer)
  BY <1>1, SMT
<1>3. \/ t = Append(s, m)
      \/ t = Append(u, m) /\ ~InQueue(s, q, "EOF")
  <2>. HIDE DEF m, n
  <2>1. s \o Append(<<>>, m) = Append(s, m) /\ s \o Append(<<n>>, m) = Append(Append(s, n), m)
    BY <1>1, SMT
  <2>. QED  BY <2>1, Zenon DEF m, n, u
<1>. HIDE DEF m, n, u
<1>4. \A k : Count(k = "DATA") \in {0, 1} /\ (k # "DATA" => Count(k = "DATA") = 0)
  BY SMT DEF Count
<1>5. CASE t = Append(s, m)
  <2>1. /\ t \in Seq(ToServer) /\ AddedTo(s, t, m.kind, q)
        /\ \A x \in Reqs : x # q => SameQueue(s, t, x)
    BY <1>1, <1>5, SentToServer, Zenon
  <2>2. Packets(t, q) = Packets(s, q)
    <3>1. Packets(s, q) \in Nat /\ Packets(t, q) = Packets(s, q) + 0
      BY <1>1, <1>4, <2>1, PlacesFinite, Zenon DEF AddedTo
    <3>. QED  BY <3>1, SMT
  <2>. QED  BY <1>1, <2>1, <2>2, Zenon DEF AddedTo, StoppedQueue
<1>6. CASE t = Append(u, m) /\ ~InQueue(s, q, "EOF")
  <2>1. /\ AddedTo(s, u, n.kind, q) /\ \A x \in Reqs : x # q => SameQueue(s, u, x)
    BY <1>1, <1>2, SentToServer, Zenon
  <2>2. /\ t \in Seq(ToServer) /\ AddedTo(u, t, m.kind, q)
        /\ \A x \in Reqs : x # q => SameQueue(u, t, x)
    BY <1>1, <1>2, <1>6, SentToServer, Zenon
  <2>3. Packets(t, q) = Packets(s, q)
    <3>1. /\ Packets(s, q) \in Nat /\ Packets(u, q) = Packets(s, q) + 0
          /\ Packets(t, q) = Packets(u, q) + 0
      BY <1>1, <1>4, <2>1, <2>2, PlacesFinite, Zenon DEF AddedTo
    <3>. QED  BY <3>1, SMT
  <2>4. \A x \in Reqs : x # q => SameQueue(s, t, x)
    BY <2>1, <2>2, Zenon DEF SameQueue
  <2>. QED  BY <1>1, <1>6, <2>1, <2>2, <2>3, <2>4, Zenon DEF AddedTo, StoppedQueue
<1>. QED  BY <1>3, <1>5, <1>6

\* The loop ends, after the whole response or with a failure of the target.
LEMMA EndLoopStep ==
  ASSUME IInv, NEW q \in Reqs, cl[q] \notin {"none", "ended"}, NEW msgs, EndLoop(q, msgs),
         msgs = <<>> \/ (msgs = <<StartOf(q, "403")>> /\ cl[q] = "ws"),
         UNCHANGED <<sh, rh, srpx, rpx_map, recv, conn_stop, browser, crecv, s2c, link, disturbed>>,
         target' \in Targets, NEW e \in BOOLEAN, \A x \in Reqs : FailedAt(target, target', q, e, x),
         target[q].failed => e, link = "up" => e \/ target[q].sent = MaxResp
  PROVE  IInv'
<1>1. /\ cl' \in [Reqs -> {"none", "http", "ws", "http_body", "ws_body", "join", "ended"}]
      /\ cl'[q] = "ended" /\ \A x \in Reqs : x # q => cl'[x] = cl[x]
  BY Zenon DEF IInv, TypeOK, EndLoop
<1>2. c2s \in Seq(ToServer) /\ EndsWith(c2s, q) /\ ~InQueue(c2s, q, "STOP")
      /\ (InQueue(c2s, q, "EOF") => cl[q] = "join")
  BY Zenon DEF IInv, TypeOK, CloseLast, Ended
<1>3. /\ c2s' \in Seq(ToServer)
      /\ \A x \in Reqs : x # q => SameQueue(c2s, c2s', x)
      /\ link = "up" => StoppedQueue(c2s, c2s', q)
      /\ link # "up" => c2s' = c2s
  <2>1. CASE link = "up"
    <3>1. \/ c2s' = c2s \o Append(<<>>, Msg("STOP", q))
          \/ c2s' = c2s \o Append(<<StartOf(q, "403")>>, Msg("STOP", q)) /\ ~InQueue(c2s, q, "EOF")
      BY <1>2, <2>1, Zenon DEF EndLoop
    <3>. QED  BY <1>2, <2>1, <3>1, EndLoopQueue, Zenon
  <2>2. CASE link # "up"
    <3>1. c2s' = c2s
      BY <2>2, Zenon DEF EndLoop
    <3>. QED  BY <1>2, <2>2, <3>1, Zenon DEF SameQueue
  <2>. QED  BY <2>1, <2>2
<1>4. crpx' \in ClientRpxs /\ \A x \in Reqs : ReaderClosed(crpx, crpx', {q}, x)
  BY ClientStoppedSet, Zenon DEF EndLoop, IInv, TypeOK
<1>5. /\ client_map' \subseteq Reqs /\ q \notin client_map'
      /\ \A x \in Reqs : x # q => (x \in client_map' <=> x \in client_map)
  BY Zenon DEF EndLoop, IInv, TypeOK
<1>6. target'[q].got = target[q].got /\ target'[q].sent = target[q].sent /\ target'[q].failed = e
  BY Zenon DEF FailedAt
<1>7. LoopOf(q)
  <2>1. \A x \in Reqs : SameLoop(q, x)
    BY <1>1, <1>3, <1>4, <1>5, Zenon DEF SameLoop, ReaderClosed, FailedAt
  <2>2. crpx'[q].pr = "closed"
    BY <1>4, Zenon DEF ReaderClosed
  <2>. QED  BY <1>1, <1>3, <1>4, <1>5, <1>6, <2>1, <2>2, Zenon DEF LoopOf
<1>8. Ended(q)'
  BY <1>1, Zenon DEF Ended
<1>9. CASE link = "up"
  <2>1. StoppedQueue(c2s, c2s', q)
    BY <1>3, <1>9, Zenon
  <2>2. CloseLast(q)'
    BY <1>1, <1>8, <2>1, Zenon DEF CloseLast, StoppedQueue
  <2>3. Piped(q)'
    BY <1>6, <1>8, <1>9, <2>1, Zenon DEF Piped, StoppedQueue, IInv
  <2>4. EofDue(q)' => EofDue(q)
    BY <1>8, <2>1, Zenon DEF EofDue, StoppedQueue
  <2>5. Budget(q)'
    BY <2>4, DueLess, Zenon DEF StopDue
  <2>6. Got(q)'
    <3>1. Got(q)
      BY Zenon DEF IInv
    <3>. QED  BY <1>6, <2>1, <3>1, ZenonT(60) DEF Got, StoppedQueue
  <2>. QED  BY <1>7, <2>2, <2>3, <2>5, <2>6, LoopWhole, Zenon
<1>10. CASE link # "up"
  <2>1. c2s' = c2s /\ disturbed
    BY <1>3, <1>10, Zenon DEF IInv, Streams, TypeOK
  <2>2. CloseLast(q)'
    BY <1>1, <1>2, <1>8, <2>1, Zenon DEF CloseLast
  <2>3. Piped(q)' /\ Got(q)'
    BY <1>10, <2>1, Zenon DEF Piped, Got
  <2>4. Budget(q)'
    BY <1>10, DueLess, Zenon
  <2>. QED  BY <1>7, <2>2, <2>3, <2>4, LoopWhole, Zenon
<1>. QED  BY <1>9, <1>10

LEMMA LoopStep ==
  ASSUME IInv, NEW q \in Reqs, Loop(q)
  PROVE  IInv'
<1>0. /\ UNCHANGED <<sh, rh, srpx, rpx_map, recv, conn_stop, browser, crecv, s2c, link, disturbed>>
      /\ cl \in [Reqs -> {"none", "http", "ws", "http_body", "ws_body", "join", "ended"}]
      /\ crpx \in ClientRpxs /\ target \in Targets
  BY Zenon DEF Loop, TargetAnswers, TargetSwitches, TargetRefuses, TargetSends, TargetEnds, TargetFails,
               server, IInv, TypeOK
<1>1. /\ StartOf(q, "200") \in ToServer /\ StartOf(q, "200").q = q /\ StartOf(q, "200").kind = "START"
      /\ StartOf(q, "101") \in ToServer /\ StartOf(q, "101").q = q /\ StartOf(q, "101").kind = "START"
      /\ Msg("DATA", q) \in ToServer /\ Msg("DATA", q).q = q /\ Msg("DATA", q).kind = "DATA"
      /\ Msg("EOF", q) \in ToServer /\ Msg("EOF", q).q = q /\ Msg("EOF", q).kind = "EOF"
  BY MessagesType, Zenon DEF Statuses
<1>2. target[q].failed \in BOOLEAN /\ \A x \in Reqs : FailedAt(target, target, q, target[q].failed, x)
  BY <1>0, SMT DEF Targets, FailedAt
<1>3. \A x \in Reqs : SameReader(crpx, crpx, x)
  BY Zenon DEF SameReader
<1>4. ASSUME EndLoop(q, <<>>), target' = target, cl[q] \notin {"none", "ended"},
             link = "up" => target[q].sent = MaxResp
      PROVE  IInv'
  BY <1>0, <1>2, <1>4, EndLoopStep, Zenon
<1>5. CASE TargetAnswers(q)
  <2>1. CASE link = "up"
    <3>1. /\ cl[q] = "http" /\ SendToServer(StartOf(q, "200")) /\ cl' = [cl EXCEPT ![q] = "http_body"]
          /\ crpx' = crpx /\ client_map' = client_map /\ target' = target
      BY <1>5, <2>1, Zenon DEF TargetAnswers
    <3>. QED  BY <1>0, <1>1, <1>3, <3>1, LoopSendStep, Zenon
  <2>2. CASE link # "up"
    BY <1>4, <1>5, <2>2, Zenon DEF TargetAnswers
  <2>. QED  BY <2>1, <2>2
<1>6. CASE TargetSwitches(q)
  <2>1. CASE link = "up"
    <3>1. /\ cl[q] = "ws" /\ SendToServer(StartOf(q, "101")) /\ cl' = [cl EXCEPT ![q] = "ws_body"]
          /\ crpx' = [crpx EXCEPT ![q].copy = "run"] /\ client_map' = client_map /\ target' = target
      BY <1>6, <2>1, Zenon DEF TargetSwitches
    <3>2. crpx' \in ClientRpxs /\ \A x \in Reqs : SameReader(crpx, crpx', x)
      BY <1>0, <3>1, CopySet, Zenon
    <3>. QED  BY <1>0, <1>1, <3>1, <3>2, LoopSendStep, Zenon
  <2>2. CASE link # "up"
    BY <1>4, <1>6, <2>2, Zenon DEF TargetSwitches
  <2>. QED  BY <2>1, <2>2
<1>7. CASE TargetRefuses(q) \/ TargetFails(q)
  <2>1. PICK e \in BOOLEAN : e /\ target' = [target EXCEPT ![q].failed = e]
    BY <1>7, Zenon DEF TargetRefuses, TargetFails
  <2>2. target' \in Targets /\ \A x \in Reqs : FailedAt(target, target', q, e, x)
    BY <1>0, <2>1, FailedSet, Zenon
  <2>3. \/ EndLoop(q, <<>>) /\ cl[q] \in {"http", "ws", "http_body", "ws_body"}
        \/ EndLoop(q, <<StartOf(q, "403")>>) /\ cl[q] = "ws"
    BY <1>7, Zenon DEF TargetRefuses, TargetFails
  <2>4. CASE EndLoop(q, <<>>) /\ cl[q] \in {"http", "ws", "http_body", "ws_body"}
    BY <1>0, <2>1, <2>2, <2>4, EndLoopStep, Zenon
  <2>5. CASE EndLoop(q, <<StartOf(q, "403")>>) /\ cl[q] = "ws"
    BY <1>0, <2>1, <2>2, <2>5, EndLoopStep, Zenon
  <2>. QED  BY <2>3, <2>4, <2>5
<1>8. CASE TargetSends(q)
  <2>1. CASE link = "up"
    <3>1. /\ cl[q] \in {"http_body", "ws_body"} /\ SendToServer(Msg("DATA", q))
          /\ target' = [target EXCEPT ![q].sent = @ + 1]
          /\ cl' = cl /\ crpx' = crpx /\ client_map' = client_map
      BY <1>8, <2>1, Zenon DEF TargetSends
    <3>2. target' \in Targets /\ \A x \in Reqs : AnsweredAt(target, target', q, x)
      BY <1>0, <3>1, ResponseSent, Zenon
    <3>3. PICK c \in {"http_body", "ws_body", "join"} : c # "join" /\ cl' = [cl EXCEPT ![q] = c]
      <4>1. cl' = [cl EXCEPT ![q] = cl[q]]
        BY <1>0, <3>1, Zenon
      <4>. QED  BY <3>1, <4>1, Zenon
    <3>4. PICK m \in ToServer : m.q = q /\ m.kind = "DATA" /\ SendToServer(m)
      BY <1>1, <3>1, Zenon
    <3>5. cl[q] \in {"http", "ws", "http_body", "ws_body"} /\ crpx' \in ClientRpxs
      BY <1>0, <3>1, Zenon
    <3>6. \A x \in Reqs : SameReader(crpx, crpx', x)
      BY <1>3, <3>1, Zenon
    <3>. QED  BY <1>0, <3>1, <3>2, <3>3, <3>4, <3>5, <3>6, LoopSendStep, ZenonT(60)
  <2>2. CASE link # "up"
    BY <1>4, <1>8, <2>2, Zenon DEF TargetSends
  <2>. QED  BY <2>1, <2>2
<1>9. CASE TargetEnds(q)
  <2>1. CASE cl[q] \in {"http_body", "join"} /\ EndLoop(q, <<>>)
    BY <1>4, <1>9, <2>1, Zenon DEF TargetEnds
  <2>2. CASE /\ cl[q] = "ws_body" /\ SendToServer(Msg("EOF", q)) /\ cl' = [cl EXCEPT ![q] = "join"]
             /\ UNCHANGED <<crpx, client_map>>
    <3>1. target' = target /\ target[q].sent = MaxResp
      BY <1>9, Zenon DEF TargetEnds
    <3>. QED  BY <1>0, <1>1, <1>3, <2>2, <3>1, LoopSendStep, Zenon
  <2>. QED  BY <1>9, <2>1, <2>2, Zenon DEF TargetEnds
<1>. QED  BY <1>5, <1>6, <1>7, <1>8, <1>9, Zenon DEF Loop

-----------------------------------------------------------------------------
(* The steps that are left, and the invariant.                             *)

LEMMA PipeToTargetEndsStep ==
  ASSUME IInv, NEW q \in Reqs, PipeToTargetEnds(q)
  PROVE  IInv'
<1>1. /\ UNCHANGED <<sh, rh, srpx, rpx_map, recv, conn_stop, browser, cl, client_map, crecv, target,
                     s2c, c2s, link, disturbed>>
      /\ crpx' = [crpx EXCEPT ![q].copy = "ended"]
  BY Zenon DEF PipeToTargetEnds, server, net
<1>2. crpx' \in ClientRpxs /\ \A x \in Reqs : SameReader(crpx, crpx', x)
  BY <1>1, CopySet, Zenon DEF IInv, TypeOK
<1>3. TypeOK' /\ Tables' /\ Streams'
  BY <1>1, <1>2, Zenon DEF IInv, TypeOK, Tables, Streams
<1>4. ASSUME NEW x \in Reqs
      PROVE  Fresh(x)' /\ Unasked(x)' /\ StartFirst(x)' /\ Sent(x)'
  <2>1. crpx'[x].pr = crpx[x].pr
    BY <1>2, Zenon DEF SameReader
  <2>2. Fresh(x)' /\ Unasked(x)' /\ StartFirst(x)'
    BY <1>1, <2>1, Zenon DEF IInv, Fresh, Unasked, StartFirst
  <2>3. Sent(x)'
    BY <1>1, <2>1, Zenon DEF IInv, Sent
  <2>. QED  BY <2>2, <2>3
<1>5. ClientKeeps
  BY <1>1, Zenon DEF ClientKeeps, SameAnswer, SameEnd
<1>. QED  BY <1>3, <1>4, <1>5, ClientWhole, Zenon

LEMMA BrowserGoesStep ==
  ASSUME IInv, NEW q \in Reqs, BrowserGoes(q)
  PROVE  IInv'
<1>1. UNCHANGED <<sh, rh, srpx, rpx_map, recv, conn_stop, cl, crpx, client_map, crecv, target, s2c, c2s, link>>
  BY Zenon DEF BrowserGoes, server, client, net
<1>2. PICK e \in BOOLEAN : browser' = [browser EXCEPT ![q].gone = e]
  BY Zenon DEF BrowserGoes
<1>3. browser' \in Browsers /\ \A x \in Reqs : SameBrowser(browser, browser', x)
  BY <1>2, GoneSet, Zenon DEF IInv, TypeOK
<1>4. disturbed' \in BOOLEAN /\ (disturbed => disturbed')
  BY Zenon DEF BrowserGoes
<1>5. TypeOK' /\ Tables' /\ Streams'
  <2>1. TypeOK'
    BY <1>1, <1>3, <1>4, Zenon DEF IInv, TypeOK
  <2>. QED  BY <1>1, <1>4, <2>1, Zenon DEF IInv, Tables, Streams
<1>6. ASSUME NEW x \in Reqs
      PROVE  /\ Fresh(x)' /\ Unasked(x)' /\ Served(x)' /\ StartFirst(x)' /\ CloseLast(x)'
             /\ Piped(x)' /\ Budget(x)' /\ Sent(x)' /\ Got(x)'
  <2>1. browser'[x].sent = browser[x].sent /\ browser'[x].got = browser[x].got
        /\ browser'[x].result = browser[x].result
    BY <1>3, Zenon DEF SameBrowser
  <2>2. Fresh(x)' /\ Unasked(x)' /\ StartFirst(x)' /\ CloseLast(x)'
    BY <1>1, <2>1, Zenon DEF IInv, Fresh, Unasked, StartFirst, CloseLast, Ended
  <2>3. Served(x)' /\ Sent(x)'
    BY <1>1, <1>4, <2>1, Zenon DEF IInv, Served, Sent
  <2>4. Piped(x)'
    BY <1>1, Zenon DEF IInv, Piped, Ended
  <2>5. Budget(x)'
    BY <1>1, Zenon DEF IInv, Budget, Due, EofDue, StopDue, Ended
  <2>6. Got(x)'
    <3>1. Got(x)
      BY Zenon DEF IInv
    <3>. QED  BY <1>1, <1>4, <2>1, <3>1, ZenonT(60) DEF Got
  <2>. QED  BY <2>2, <2>3, <2>4, <2>5, <2>6
<1>. QED  BY <1>5, <1>6, Zenon DEF IInv

LEMMA BreakLinkStep ==
  ASSUME IInv, BreakLink
  PROVE  IInv'
<1>1. /\ UNCHANGED <<sh, rh, srpx, rpx_map, recv, conn_stop, browser, cl, client_map, crecv, target>>
      /\ link = "up" /\ link' = "down" /\ s2c' = <<>> /\ c2s' = <<>> /\ disturbed'
      /\ disturbed' \in BOOLEAN
  BY Zenon DEF BreakLink, server
<1>2. crpx' \in ClientRpxs /\ \A x \in Reqs : ReaderClosed(crpx, crpx', client_map, x)
  BY ClientAllStopped, Zenon DEF BreakLink, IInv, TypeOK
<1>3. TypeOK' /\ Tables' /\ Streams'
  <2>1. s2c' \in Seq(ToClient) /\ c2s' \in Seq(ToServer)
    BY <1>1, SMT
  <2>2. TypeOK'
    BY <1>1, <1>2, <2>1, Zenon DEF IInv, TypeOK
  <2>. QED  BY <1>1, <2>2, Zenon DEF IInv, Tables, Streams
<1>4. ASSUME NEW x \in Reqs
      PROVE  /\ Fresh(x)' /\ Unasked(x)' /\ Served(x)' /\ StartFirst(x)' /\ CloseLast(x)'
             /\ Piped(x)' /\ Budget(x)' /\ Sent(x)' /\ Got(x)'
  <2>1. /\ \A k : ~InQueue(s2c', x, k) /\ ~InQueue(c2s', x, k)
        /\ ~Any(s2c', x) /\ ~Any(c2s', x) /\ StartsWith(s2c', x) /\ EndsWith(c2s', x)
    BY <1>1, InEmpty, Zenon
  <2>2. cl[x] = "none" => crpx'[x].pr = crpx[x].pr
    BY <1>2, Zenon DEF IInv, Tables, ReaderClosed
  <2>3. Fresh(x)' /\ Unasked(x)'
    BY <1>1, <2>1, <2>2, Zenon DEF IInv, Fresh, Unasked
  <2>4. Served(x)' /\ StartFirst(x)' /\ CloseLast(x)'
    BY <1>1, <2>1, Zenon DEF IInv, Served, StartFirst, CloseLast
  <2>5. Piped(x)' /\ Sent(x)' /\ Got(x)'
    BY <1>1, Zenon DEF Piped, Sent, Got
  <2>6. Budget(x)'
    <3>1. /\ srpx[x].done \in Nat /\ Count(recv # "ended") \in Nat /\ Count(~conn_stop) \in Nat
          /\ Count(EofDue(x)) \in Nat /\ Count(StopDue(x)) \in Nat
      BY SMT DEF IInv, TypeOK, ServerRpxs, ServerRpxType, Count
    <3>2. Due(x) = Count(EofDue(x)) + Count(StopDue(x)) /\ Due(x)' = Count(recv = x)
      BY <1>1, Zenon DEF Due
    <3>3. recv = x => EofDue(x) \/ StopDue(x)
      BY <1>1, Zenon DEF IInv, Piped, EofDue, StopDue
    <3>4. Count(recv = x) \in Nat /\ Count(recv = x) <= Count(EofDue(x)) + Count(StopDue(x))
      BY <3>3, SMT DEF Count
    <3>5. srpx[x].done + Count(recv # "ended") + Count(~conn_stop) + Due(x) <= 4
      BY Zenon DEF IInv, Budget
    <3>6. srpx[x].done + Count(recv # "ended") + Count(~conn_stop) + Count(recv = x) <= 4
      BY <3>1, <3>2, <3>4, <3>5, SMT
    <3>. QED  BY <1>1, <3>2, <3>6, Zenon DEF Budget
  <2>. QED  BY <2>3, <2>4, <2>5, <2>6
<1>. QED  BY <1>3, <1>4, Zenon DEF IInv

LEMMA Initially ==
  ASSUME Init
  PROVE  IInv
<1>0. "recv" \notin Reqs /\ "recv" # "ended"
  BY ReqsAssumption
<1>1. TypeOK
  <2>1. srpx \in ServerRpxs
    BY SMT DEF Init, ServerRpxs, ServerRpxType
  <2>2. crpx \in ClientRpxs
    BY SMT DEF Init, ClientRpxs, ClientRpxType
  <2>3. browser \in Browsers
    BY SMT DEF Init, Browsers
  <2>4. target \in Targets
    BY SMT DEF Init, Targets
  <2>5. s2c \in Seq(ToClient) /\ c2s \in Seq(ToServer)
    BY SMT DEF Init
  <2>. QED  BY <2>1, <2>2, <2>3, <2>4, <2>5, Zenon DEF Init, TypeOK
<1>2. Tables /\ Streams
  BY <1>0, Zenon DEF Init, Tables, Streams
<1>3. ASSUME NEW q \in Reqs
      PROVE  /\ Fresh(q) /\ Unasked(q) /\ Served(q) /\ StartFirst(q) /\ CloseLast(q)
             /\ Piped(q) /\ Budget(q) /\ Sent(q) /\ Got(q)
  <2>1. /\ sh[q] = "none" /\ rh[q] = "none" /\ cl[q] = "none" /\ link = "up" /\ conn_stop = FALSE
        /\ recv = "recv" /\ crecv = "recv" /\ rpx_map = {}
    BY Zenon DEF Init
  <2>2. srpx[q].done = 0 /\ srpx[q].pw = "open"
    BY SMT DEF Init
  <2>3. browser[q].sent = 0 /\ browser[q].got = 0 /\ browser[q].result = "none"
    BY SMT DEF Init
  <2>4. target[q].sent = 0 /\ target[q].got = 0 /\ crpx[q].pr = "open"
    BY SMT DEF Init
  <2>5. /\ \A k : ~InQueue(s2c, q, k) /\ ~InQueue(c2s, q, k)
        /\ ~Any(s2c, q) /\ ~Any(c2s, q) /\ StartsWith(s2c, q) /\ EndsWith(c2s, q)
    BY InEmpty, Zenon DEF Init
  <2>6. Packets(s2c, q) = 0
    BY <2>5, NoPackets, <1>1, Zenon DEF InQueue, TypeOK
  <2>7. Fresh(q) /\ Unasked(q) /\ Served(q)
    BY <1>0, <2>1, <2>3, <2>4, <2>5, Zenon DEF Fresh, Unasked, Served
  <2>8. StartFirst(q) /\ CloseLast(q) /\ Got(q)
    BY <2>1, <2>5, Zenon DEF StartFirst, CloseLast, Got
  <2>9. Piped(q)
    BY <2>1, <2>2, Zenon DEF Piped, Ended
  <2>10. Budget(q)
    <3>1. EofDue(q) /\ StopDue(q)
      BY <2>1, Zenon DEF EofDue, StopDue, Ended
    <3>2. Due(q) = 1 + 1 /\ Count(recv # "ended") = 1 /\ Count(~conn_stop) = 1
      BY <1>0, <2>1, <3>1, Zenon DEF Due, Count
    <3>. QED  BY <2>2, <3>2, SMT DEF Budget
  <2>11. Sent(q)
    <3>1. Count(crecv = q) = 0
      BY <1>0, <2>1, Zenon DEF Count
    <3>. QED  BY <2>3, <2>4, <2>6, <3>1, SMT DEF Sent
  <2>. QED  BY <2>7, <2>8, <2>9, <2>10, <2>11
<1>. QED  BY <1>1, <1>2, <1>3, Zenon DEF IInv

LEMMA Unchanged ==
  ASSUME IInv, UNCHANGED vars
  PROVE  IInv'
<1>1. UNCHANGED <<sh, rh, srpx, rpx_map, recv, conn_stop, browser, cl, crpx, client_map, crecv, target,
                  s2c, c2s, link, disturbed>>
  BY Zenon DEF vars, server, client, net
<1>2. TypeOK' /\ Tables' /\ Streams'
  BY <1>1, Zenon DEF IInv, TypeOK, Tables, Streams
<1>3. ASSUME NEW x \in Reqs
      PROVE  Fresh(x)' /\ Unasked(x)' /\ StartFirst(x)' /\ Sent(x)'
  BY <1>1, Zenon DEF IInv, Fresh, Unasked, StartFirst, Sent
<1>4. ClientKeeps
  BY <1>1, Zenon DEF ClientKeeps, SameAnswer, SameEnd
<1>. QED  BY <1>2, <1>3, <1>4, ClientWhole, Zenon

\* Every step of the server, the client, the browser, the target and the stream
\* keeps the invariant.
LEMMA Step ==
  ASSUME IInv, [Next]_vars
  PROVE  IInv'
<1>1. ASSUME NEW q \in Reqs, NEW upgrade \in BOOLEAN, ServeHTTP(q, upgrade)
      PROVE  IInv'
  BY <1>1, ServeStep
<1>2. ASSUME NEW q \in Reqs, Handler(q) \/ Response(q) \/ Loop(q) \/ PipeToTargetEnds(q) \/ BrowserGoes(q)
      PROVE  IInv'
  BY <1>2, HandlerStep, ResponseStep, LoopStep, PipeToTargetEndsStep, BrowserGoesStep, Zenon
<1>3. CASE Receiver \/ ConnReqStop
  BY <1>3, ServerReceivesStep, EndStep, WriteFailsStep DEF Receiver
<1>4. CASE ClientReceiver
  BY <1>4, ClientReceivesStep, WrittenStep DEF ClientReceiver
<1>5. CASE BreakLink
  BY <1>5, BreakLinkStep
<1>6. CASE UNCHANGED vars
  BY <1>6, Unchanged
<1>. QED  BY <1>1, <1>2, <1>3, <1>4, <1>5, <1>6, Zenon DEF Next

\* The inductive invariant of the reverse proxy: what is in the two queues, what
\* the receivers hold and what ServeHTTP, handle_response and RpxLoop have done
\* agree about every request, for any number of requests and any body.
THEOREM Invariance == Spec => []IInv
<1>1. Init => IInv
  BY Initially
<1>2. IInv /\ [Next]_vars => IInv'
  BY Step
<1>. QED  BY <1>1, <1>2, PTL DEF Spec

\* A response that ServeHTTP reports as a success is the whole response, unless
\* the target, the browser or the stream failed: the writer of the pipe is closed
\* by EOF or STOP, which the client sends after its last packet, and
\* handle_response copies what is in the pipe before it ends.
THEOREM ResponsesComplete == Spec => []ResponseComplete
<1>1. IInv => ResponseComplete
  BY Zenon DEF IInv, Served, ResponseComplete
<1>. QED  BY <1>1, Invariance, PTL

\* Nothing of a request's body is skipped on the way to the target, as long as
\* the client serves the request.
THEOREM BodiesInOrder == Spec => []BodyInOrder
<1>1. ASSUME IInv, NEW q \in client_map, link = "up", crpx[q].pr = "open"
      PROVE  target[q].got + Count(crecv = q) + Packets(s2c, q) = browser[q].sent
  <2>1. q \in Reqs
    BY <1>1, Zenon DEF IInv, TypeOK
  <2>. QED  BY <1>1, <2>1, Zenon DEF IInv, Sent
<1>2. IInv => BodyInOrder
  BY <1>1, Zenon DEF BodyInOrder
<1>. QED  BY <1>2, Invariance, PTL

\* With the five places that done_chan has, ServerRpx.ReqStop never waits: a
\* request is stopped at most four times, by EOF and STOP of the client, or by a
\* write that fails in place of one of them, by the end of the receiver and by
\* ReqStop of the connection.
THEOREM StopsNeverWait ==
  ASSUME DoneMax >= 5
  PROVE  Spec => []StopNeverWaits
<1>1. ASSUME IInv, NEW q \in Reqs
      PROVE  CanStop(q)
  <2>1. srpx[q].done \in Nat
    BY <1>1, SMT DEF IInv, TypeOK, ServerRpxs, ServerRpxType
  <2>2. srpx[q].done + Count(recv # "ended") + Count(~conn_stop) + Due(q) <= 4
    BY <1>1, Zenon DEF IInv, Budget
  <2>3. srpx[q].done <= 4
    BY <2>1, <2>2, DueType, SMT
  <2>. QED  BY <2>1, <2>3, BoundsAssumption, SMT DEF CanStop
<1>2. IInv => StopNeverWaits
  BY <1>1, Zenon DEF StopNeverWaits
<1>. QED  BY <1>2, Invariance, PTL
=============================================================================
