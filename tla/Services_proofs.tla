-------------------------- MODULE Services_proofs ---------------------------
(* The event socket implements Feed, for any number of subscribers, any    *)
(* capacity of the ring and of the channels and any number of connections. *)
(* The invariant follows an event through the ring, the task of the        *)
(* bulletin, the channel of a subscription and its sending goroutine.      *)
EXTENDS Services, TLAPS

FlowType ==
  /\ fired \in Nat /\ msg \in Nat /\ r \in Seq(Nat)
  /\ C \in [Subscribers -> Seq(Nat)]
  /\ held \in [Subscribers -> Nat] /\ latest \in [Subscribers -> Nat] /\ count \in [Subscribers -> Nat]
  /\ sender \in [Subscribers -> {"none", "get", "send", "ended"}]

\* Events rise along a queue and have been fired.
Rising(q) ==
  /\ \A i \in 1 .. Len(q) : q[i] <= fired
  /\ \A i, j \in 1 .. Len(q) : i < j => q[i] < q[j]

\* What is not yet past a subscriber: latest, then held, then its channel,
\* then the event being forwarded, then the ring.
Past(w, e) ==
  /\ latest[w] < e
  /\ sender[w] = "send" => held[w] < e

HeldInv == \A w \in Subscribers : sender[w] = "send" => latest[w] < held[w] /\ held[w] <= fired
ChannelInv == \A w \in Subscribers : Rising(C[w]) /\ \A i \in 1 .. Len(C[w]) : Past(w, C[w][i])
Beyond(e) == \A w \in Subscribers : Past(w, e) /\ \A i \in 1 .. Len(C[w]) : C[w][i] < e
ForwardInv ==
  task = "forward" => msg <= fired /\ Beyond(msg) /\ \A j \in 1 .. Len(r) : msg < r[j]
RingInv == Rising(r) /\ \A j \in 1 .. Len(r) : Beyond(r[j])
LatestInv == \A w \in Subscribers : latest[w] <= fired

FlowInv == FlowType /\ HeldInv /\ ChannelInv /\ ForwardInv /\ RingInv /\ LatestInv

-----------------------------------------------------------------------------
(* What a step can do to the events under way.                             *)

\* It leaves them alone, though a goroutine may give one up.
Quiet ==
  /\ UNCHANGED <<fired, msg, r, C, held, latest, count>>
  /\ sender' \in [Subscribers -> {"none", "get", "send", "ended"}]
  /\ \A w \in Subscribers : sender'[w] = "send" => sender[w] = "send"
  /\ task' = "forward" => task = "forward"

flow == <<msg, C, held, latest, count, sender, task>>

\* It fires an event.
Fires ==
  /\ fired' = fired + 1
  /\ r' = r \/ r' = Append(IF Len(r) < Capacity THEN r ELSE Tail(r), fired + 1)
  /\ UNCHANGED flow

Moves == Dequeue \/ Forward \/ \E w \in Subscribers : GetEvent(w) \/ SendEvent(w) \/ SendEventFails(w)

LEMMA EnqueueFires ==
  ASSUME Enqueue
  PROVE  Fires
BY DEF Enqueue, Fires, flow, runner, socket

LEMMA SameFlow ==
  ASSUME FlowType, UNCHANGED bvars
  PROVE  Quiet
BY DEF FlowType, Quiet, bvars, ring, runner, socket

\* The steps of the bulletin and of the event socket.
LEMMA BulletinSteps ==
  ASSUME FlowType, BulletinNext
  PROVE  Quiet \/ Fires \/ Moves
<1> USE DEF ring, runner, socket
<1>1. CASE RunTask \/ SelectTimer
  <2>1. CASE Dequeue \/ Forward
    BY <2>1 DEF Moves
  <2>2. CASE SelectStop \/ SelectNotified \/ SelectTimer
    BY <2>2 DEF SelectStop, SelectNotified, SelectTimer, Quiet, FlowType
  <2> QED
    BY <1>1, <2>1, <2>2 DEF RunTask
<1>2. CASE FireEvent
  BY <1>2, EnqueueFires DEF FireEvent
<1>3. ASSUME NEW w \in Subscribers, EventSocket(w) \/ Events(w)
      PROVE  Quiet \/ Fires \/ Moves
  <2>1. CASE GetEvent(w) \/ SendEvent(w) \/ SendEventFails(w)
    BY <2>1 DEF Moves
  <2>2. CASE Subscribe(w)
    BY <2>2 DEF Subscribe, Quiet, FlowType
  <2>3. CASE Unsubscribe(w) \/ JoinSender(w) \/ RequestEvents(w) \/ Refuse(w) \/ BrowserLeaves(w)
    BY <2>3 DEF Unsubscribe, JoinSender, RequestEvents, Refuse, BrowserLeaves, Quiet, FlowType
  <2> QED
    BY <1>3, <2>1, <2>2, <2>3 DEF EventSocket, Events
<1> QED
  BY <1>1, <1>2, <1>3 DEF BulletinNext

\* The steps of the program.
LEMMA Steps ==
  ASSUME FlowType, [Next]_vars
  PROVE  Quiet \/ Fires \/ Moves
<1>1. CASE UNCHANGED bvars
  BY <1>1, SameFlow
<1>2. CASE UNCHANGED vars
  BY <1>2, <1>1 DEF vars
<1>3. CASE StartService
  BY <1>3 DEF StartService, StartBulletin, Quiet, FlowType, ring, socket
<1>4. CASE StartExtService \/ WaitForTermination \/ ServerRunTask \/ PurgerEnds \/ SignalHandler \/ SignalSent \/ ProgramStops
  BY <1>1, <1>4 DEF StartExtService, WaitForTermination, ServerRunTask, PurgerEnds, SignalHandler, SignalSent, ProgramStops
<1>5. CASE HttpServers
  BY <1>1, <1>5 DEF HttpServers, RunSingle, run_single_ctl_server, run_single_ect_server, run_single_rpx_server,
                    run_single_pxy_server, run_single_wpx_server, run_single_client_ctl_server
<1>6. ASSUME NEW k \in Callers, StopServices(k)
      PROVE  Quiet
  <2>1. CASE ReqStop(k) \/ Shutdown(k) \/ StopConns(k) \/ StopExt(k)
    BY <2>1, SameFlow DEF ReqStop, Shutdown, StopConns, StopExt
  <2>2. CASE BlockAndCancel(k) \/ StopBulletin(k)
    BY <2>2 DEF BlockAndCancel, StopBulletin, Block, BulletinReqStop, Quiet, FlowType, ring, runner, socket
  <2> QED
    BY <1>6, <2>1, <2>2 DEF StopServices
<1>7. ASSUME NEW c \in Conns, PacketStream(c) \/ ConnTask(c) \/ StartClientConn(c) \/ PeerLeaves(c)
      PROVE  Quiet \/ Fires
  <2>1. CASE PacketStream(c) \/ AddNewServerConn(c)
    BY <2>1, SameFlow DEF PacketStream, AddNewServerConn
  <2>2. CASE ConnStarts(c) \/ StartClientConn(c) \/ ConnEnds(c) \/ PeerLeaves(c)
    BY <2>2, EnqueueFires DEF ConnStarts, StartClientConn, ConnEnds, PeerLeaves
  <2> QED
    BY <1>7, <2>1, <2>2 DEF ConnTask
<1> QED
  BY <1>2, <1>3, <1>4, <1>5, <1>6, <1>7, BulletinSteps DEF Next, Main

-----------------------------------------------------------------------------
(* Each kind of step keeps FlowInv.                                        *)

LEMMA InitFlow ==
  ASSUME Init
  PROVE  FlowInv
BY DEF Init, BulletinInit, FlowInv, FlowType, HeldInv, ChannelInv, ForwardInv, RingInv, LatestInv, Rising, Past, Beyond

LEMMA QuietKeeps ==
  ASSUME FlowInv, Quiet
  PROVE  FlowInv'
<1> USE DEF FlowInv, Quiet, Past, Beyond, Rising
<1>1. FlowType' /\ HeldInv' /\ LatestInv'
  BY DEF FlowType, HeldInv, LatestInv
<1>2. ChannelInv'
  BY DEF ChannelInv
<1>3. ForwardInv' /\ RingInv'
  BY DEF ForwardInv, RingInv
<1> QED
  BY <1>1, <1>2, <1>3

LEMMA AppendTail ==
  ASSUME NEW q \in Seq(Nat), q # <<>>, NEW e \in Nat, NEW s, s = Append(Tail(q), e)
  PROVE  /\ s \in Seq(Nat) /\ Len(s) = Len(q)
         /\ \A j \in 1 .. Len(q) : s[j] = IF j < Len(q) THEN q[j + 1] ELSE e
<1>1. PICK t : t = Tail(q)
  BY Zenon
<1>2. t \in Seq(Nat) /\ Len(t) = Len(q) - 1 /\ Len(q) \in Nat /\ \A j \in 1 .. Len(q) - 1 : t[j] = q[j + 1]
  BY <1>1
<1>3. s = Append(t, e)
  BY <1>1
<1>4. s \in Seq(Nat) /\ Len(s) = Len(t) + 1 /\ \A j \in 1 .. Len(t) + 1 : s[j] = IF j <= Len(t) THEN t[j] ELSE e
  BY <1>2, <1>3
<1>5. \A j \in 1 .. Len(q) : s[j] = IF j < Len(q) THEN q[j + 1] ELSE e
  <2> TAKE j \in 1 .. Len(q)
  <2>1. j \in 1 .. Len(t) + 1 /\ (j < Len(q) <=> j <= Len(t)) /\ (j < Len(q) => j \in 1 .. Len(q) - 1)
    BY <1>2
  <2> QED
    BY <1>2, <1>4, <2>1
<1> QED
  BY <1>2, <1>4, <1>5

\* The ring after an event is put into it: what was in it, and the new event.
LEMMA RingAfter ==
  ASSUME FlowType, Fires
  PROVE  /\ r' \in Seq(Nat)
         /\ \E d \in 0 .. 1 : \A j \in 1 .. Len(r') :
              \/ j + d \in 1 .. Len(r) /\ r'[j] = r[j + d]
              \/ j = Len(r') /\ r'[j] = fired + 1
<1> USE DEF FlowType, Fires
<1>1. CASE r' = r
  <2>1. \A j \in 1 .. Len(r') : j + 0 \in 1 .. Len(r) /\ r'[j] = r[j + 0]
    BY <1>1
  <2> QED
    BY <1>1, <2>1
<1>2. CASE Len(r) < Capacity /\ r' = Append(r, fired + 1)
  <2>1. \A j \in 1 .. Len(r') :
          \/ j + 0 \in 1 .. Len(r) /\ r'[j] = r[j + 0]
          \/ j = Len(r') /\ r'[j] = fired + 1
    BY <1>2
  <2> QED
    BY <1>2, <2>1
<1>3. CASE ~(Len(r) < Capacity) /\ r' = Append(Tail(r), fired + 1)
  <2>1. r # <<>> /\ Len(r) \in Nat \ {0}
    BY <1>3, BulletinBounds
  <2>2. /\ r' \in Seq(Nat) /\ Len(r') = Len(r)
        /\ \A j \in 1 .. Len(r) : r'[j] = IF j < Len(r) THEN r[j + 1] ELSE fired + 1
    <3>1. fired + 1 \in Nat
      OBVIOUS
    <3> QED
      BY <1>3, <2>1, <3>1, AppendTail
  <2>3. \A j \in 1 .. Len(r') :
          \/ j + 1 \in 1 .. Len(r) /\ r'[j] = r[j + 1]
          \/ j = Len(r') /\ r'[j] = fired + 1
    BY <2>1, <2>2
  <2> QED
    BY <2>2, <2>3
<1> QED
  BY <1>1, <1>2, <1>3

LEMMA FiresKeeps ==
  ASSUME FlowInv, Fires
  PROVE  FlowInv'
<1> USE DEF FlowInv, flow
<1>1. r' \in Seq(Nat) /\ fired' = fired + 1 /\ fired \in Nat /\ UNCHANGED flow
  BY RingAfter DEF Fires, FlowType
<1>2. FlowType' /\ HeldInv' /\ LatestInv'
  BY <1>1 DEF FlowType, HeldInv, LatestInv
<1>3. ChannelInv'
  BY <1>1 DEF FlowType, ChannelInv, Past, Rising
<1>4. PICK d \in 0 .. 1 : \A j \in 1 .. Len(r') :
                             \/ j + d \in 1 .. Len(r) /\ r'[j] = r[j + d]
                             \/ j = Len(r') /\ r'[j] = fired + 1
  BY RingAfter
<1>5. Rising(r)'
  <2>1. \A j \in 1 .. Len(r') : r'[j] <= fired + 1
    <3>1. \A k \in 1 .. Len(r) : r[k] \in Nat /\ r[k] <= fired
      BY DEF RingInv, Rising, FlowType
    <3> QED
      BY <1>1, <1>4, <3>1
  <2>2. ASSUME NEW i \in 1 .. Len(r'), NEW j \in 1 .. Len(r'), i < j
        PROVE  r'[i] < r'[j]
    <3>1. i + d \in 1 .. Len(r) /\ r'[i] = r[i + d] /\ r'[i] <= fired /\ r'[i] \in Nat
      BY <1>1, <1>4, <2>2, SMTT(60) DEF RingInv, Rising, FlowType
    <3>2. CASE j + d \in 1 .. Len(r) /\ r'[j] = r[j + d]
      <4>1. i + d < j + d
        BY <1>1, <2>2
      <4> QED
        BY <3>1, <3>2, <4>1 DEF RingInv, Rising
    <3>3. CASE r'[j] = fired + 1
      BY <1>1, <3>1, <3>3
    <3> QED
      BY <1>4, <3>2, <3>3
  <2> QED
    BY <1>1, <2>1, <2>2 DEF Rising
<1>6. Beyond(fired + 1)
  BY <1>1 DEF Beyond, Past, FlowType, HeldInv, ChannelInv, LatestInv, Rising
<1>7. \A j \in 1 .. Len(r') : Beyond(r'[j])
  BY <1>1, <1>4, <1>6 DEF RingInv, FlowType
<1>8. (\A j \in 1 .. Len(r) : Beyond(r[j]))'
  BY <1>1, <1>7 DEF Beyond, Past
<1>9. ForwardInv'
  <2>1. \A j \in 1 .. Len(r') : task = "forward" => msg < r'[j]
    <3>1. task = "forward" => msg <= fired /\ msg \in Nat /\ \A k \in 1 .. Len(r) : msg < r[k]
      BY DEF ForwardInv, FlowType
    <3>2. ASSUME NEW j \in 1 .. Len(r'), task = "forward"
          PROVE  msg < r'[j]
      <4>1. CASE j + d \in 1 .. Len(r) /\ r'[j] = r[j + d]
        BY <3>1, <3>2, <4>1
      <4>2. CASE r'[j] = fired + 1
        BY <1>1, <3>1, <3>2, <4>2
      <4> QED
        BY <1>4, <4>1, <4>2
    <3> QED
      BY <3>2
  <2> QED
    BY <1>1, <2>1 DEF ForwardInv, FlowType, Beyond, Past
<1> QED
  BY <1>2, <1>3, <1>5, <1>8, <1>9 DEF RingInv

LEMMA TailFacts ==
  ASSUME NEW q \in Seq(Nat), q # <<>>, NEW t, t = Tail(q)
  PROVE  /\ t \in Seq(Nat) /\ Len(t) = Len(q) - 1 /\ Len(q) \in Nat \ {0} /\ Head(q) = q[1] /\ Head(q) \in Nat
         /\ \A j \in 1 .. Len(t) : j + 1 \in 1 .. Len(q) /\ t[j] = q[j + 1] /\ 1 < j + 1
<1>1. t \in Seq(Nat) /\ Len(t) = Len(q) - 1 /\ Len(q) \in Nat \ {0} /\ Head(q) = q[1]
  OBVIOUS
<1>2. \A j \in 1 .. Len(q) - 1 : t[j] = q[j + 1]
  OBVIOUS
<1>3. Head(q) \in Nat
  BY <1>1
<1> QED
  BY <1>1, <1>2, <1>3

LEMMA DequeueKeeps1 ==
  ASSUME FlowInv, Dequeue
  PROVE  FlowInv'
<1> USE DEF FlowInv, ring, runner, socket
<1>1. UNCHANGED <<fired, C, held, latest, count, sender>>
  BY DEF Dequeue
<1>2. HeldInv' /\ LatestInv' /\ ChannelInv'
  BY <1>1 DEF HeldInv, LatestInv, ChannelInv, Rising, Past
<1>3. CASE r = <<>>
  BY <1>1, <1>2, <1>3 DEF Dequeue, FlowType, ForwardInv, RingInv, Rising, Beyond, Past
<1>4. CASE r # <<>>
  <2>1. msg' = Head(r) /\ r' = Tail(r)
    BY <1>4 DEF Dequeue
  <2>2. /\ r' \in Seq(Nat) /\ 1 \in 1 .. Len(r) /\ msg' = r[1] /\ msg' \in Nat
        /\ \A j \in 1 .. Len(r') : j + 1 \in 1 .. Len(r) /\ r'[j] = r[j + 1] /\ 1 < j + 1
    BY <1>4, <2>1, TailFacts DEF FlowType
  <2>3. FlowType'
    BY <1>1, <2>2 DEF FlowType
  <2>4. Rising(r)'
    BY <1>1, <2>2 DEF RingInv, Rising
  <2>5. (\A j \in 1 .. Len(r) : Beyond(r[j]))' /\ Beyond(msg)'
    BY <1>1, <2>2, Zenon DEF RingInv, Beyond, Past
  <2>6. msg' <= fired' /\ \A j \in 1 .. Len(r') : msg' < r'[j]
    BY <1>1, <2>2 DEF RingInv, Rising
  <2> QED
    BY <1>2, <2>3, <2>4, <2>5, <2>6 DEF RingInv, ForwardInv
<1> QED
  BY <1>3, <1>4

LEMMA AppendFacts ==
  ASSUME NEW q \in Seq(Nat), NEW e \in Nat, NEW s, s = Append(q, e)
  PROVE  /\ s \in Seq(Nat) /\ Len(s) = Len(q) + 1 /\ Len(q) \in Nat
         /\ \A i \in 1 .. Len(q) + 1 : s[i] = IF i <= Len(q) THEN q[i] ELSE e
OBVIOUS

LEMMA ForwardKeeps ==
  ASSUME FlowInv, Forward
  PROVE  FlowInv'
<1> USE DEF FlowInv, ring, runner, socket
<1>1. UNCHANGED <<fired, r, held, latest, count, sender>> /\ msg' = 0 /\ task = "forward" /\ task' = "dequeue"
  BY DEF Forward
<1>2. /\ C' \in [Subscribers -> Seq(Nat)]
      /\ \A w \in Subscribers : C'[w] = C[w] \/ C'[w] = Append(C[w], msg)
  BY DEF Forward, FlowType
<1>3. FlowType' /\ HeldInv' /\ LatestInv' /\ ForwardInv'
  BY <1>1, <1>2 DEF FlowType, HeldInv, LatestInv, ForwardInv
<1>4. ASSUME NEW w \in Subscribers
      PROVE  \A i \in 1 .. Len(C'[w]) :
               \/ C'[w][i] = C[w][i] /\ i \in 1 .. Len(C[w])
               \/ C'[w][i] = msg /\ \A k \in i .. Len(C'[w]) : k = i
  <2>1. C[w] \in Seq(Nat) /\ msg \in Nat
    BY DEF FlowType
  <2>2. C'[w] = C[w] \/ C'[w] = Append(C[w], msg)
    BY <1>2
  <2>3. CASE C'[w] = C[w]
    BY <2>3
  <2>4. CASE C'[w] = Append(C[w], msg)
    <3>1. /\ Len(C'[w]) = Len(C[w]) + 1 /\ Len(C[w]) \in Nat
          /\ \A i \in 1 .. Len(C[w]) + 1 : C'[w][i] = IF i <= Len(C[w]) THEN C[w][i] ELSE msg
      BY <2>1, <2>4, AppendFacts
    <3> QED
      BY <3>1
  <2> QED
    BY <2>2, <2>3, <2>4
<1>5. ASSUME NEW w \in Subscribers, NEW i \in 1 .. Len(C'[w])
      PROVE  C'[w][i] <= fired /\ Past(w, C'[w][i])
  BY <1>1, <1>4 DEF ChannelInv, ForwardInv, Beyond, Rising
<1>6. ASSUME NEW w \in Subscribers, NEW i \in 1 .. Len(C'[w]), NEW j \in 1 .. Len(C'[w]), i < j
      PROVE  C'[w][i] < C'[w][j]
  <2>1. Len(C'[w]) \in Nat
    BY <1>2
  <2>2. j \in i .. Len(C'[w]) /\ j # i
    BY <1>6, <2>1
  <2>3. C'[w][i] = C[w][i] /\ i \in 1 .. Len(C[w])
    BY <1>4, <2>2
  <2>4. CASE C'[w][j] = C[w][j] /\ j \in 1 .. Len(C[w])
    BY <1>6, <2>3, <2>4 DEF ChannelInv, Rising
  <2>5. CASE C'[w][j] = msg
    BY <1>1, <2>3, <2>5 DEF ForwardInv, Beyond
  <2> QED
    BY <1>4, <2>4, <2>5
<1>7. ChannelInv'
  BY <1>1, <1>5, <1>6 DEF ChannelInv, Rising, Past
<1>8. ASSUME NEW j \in 1 .. Len(r), NEW w \in Subscribers, NEW i \in 1 .. Len(C'[w])
      PROVE  C'[w][i] < r[j]
  BY <1>1, <1>4 DEF RingInv, ForwardInv, Beyond
<1>9. RingInv'
  BY <1>1, <1>8 DEF RingInv, Beyond, Past, Rising
<1> QED
  BY <1>3, <1>7, <1>9

LEMMA GetKeeps ==
  ASSUME FlowInv, NEW w \in Subscribers, GetEvent(w)
  PROVE  FlowInv'
<1> USE DEF FlowInv, ring, runner, socket
<1>1. UNCHANGED <<fired, r, latest, count, msg, task>>
  BY DEF GetEvent
<1>2. CASE C[w] = <<>>
  <2>1. Quiet
    BY <1>2, ZenonT(60) DEF GetEvent, Quiet, FlowType
  <2> QED
    BY <2>1, QuietKeeps
<1>3. CASE C[w] # <<>>
  <2>1. /\ held' = [held EXCEPT ![w] = Head(C[w])] /\ C' = [C EXCEPT ![w] = Tail(@)]
        /\ sender' = [sender EXCEPT ![w] = "send"]
    BY <1>3 DEF GetEvent
  <2>2. C'[w] = Tail(C[w]) /\ held'[w] = Head(C[w])
    BY <2>1 DEF FlowType
  <2>3. /\ C'[w] \in Seq(Nat) /\ 1 \in 1 .. Len(C[w]) /\ held'[w] = C[w][1] /\ held'[w] \in Nat
        /\ \A j \in 1 .. Len(C'[w]) : j + 1 \in 1 .. Len(C[w]) /\ C'[w][j] = C[w][j + 1] /\ 1 < j + 1
    BY <1>3, <2>2, TailFacts DEF FlowType
  <2>4. \A v \in Subscribers : v # w => C'[v] = C[v] /\ held'[v] = held[v] /\ sender'[v] = sender[v]
    BY <2>1 DEF FlowType
  <2>5. FlowType'
    BY <1>1, <2>1, <2>3 DEF FlowType
  <2>6. HeldInv' /\ LatestInv'
    BY <1>1, <2>3, <2>4 DEF HeldInv, LatestInv, ChannelInv, Rising, Past
  <2>7. ChannelInv'
    <3>1. Rising(C[w])' /\ \A i \in 1 .. Len(C'[w]) : Past(w, C'[w][i]) /\ held'[w] < C'[w][i]
      <4>1. \A i \in 1 .. Len(C'[w]) : C'[w][i] <= fired /\ Past(w, C'[w][i]) /\ held'[w] < C'[w][i]
        BY <2>3, Zenon DEF ChannelInv, Rising
      <4>2. ASSUME NEW i \in 1 .. Len(C'[w]), NEW j \in 1 .. Len(C'[w]), i < j
            PROVE  C'[w][i] < C'[w][j]
        <5>1. i + 1 < j + 1
          BY <4>2
        <5> QED
          BY <2>3, <5>1 DEF ChannelInv, Rising
      <4> QED
        BY <1>1, <4>1, <4>2 DEF Rising
    <3>2. \A v \in Subscribers : v # w => Rising(C[v])' /\ \A i \in 1 .. Len(C'[v]) : Past(v, C'[v][i])
      BY <1>1, <2>4 DEF ChannelInv, Rising, Past
    <3> QED
      BY <1>1, <2>4, <3>1, <3>2, SMTT(60) DEF ChannelInv, Past
  <2>8. ASSUME NEW e \in Nat, Beyond(e), NEW v \in Subscribers
        PROVE  latest'[v] < e /\ (sender'[v] = "send" => held'[v] < e) /\ \A i \in 1 .. Len(C'[v]) : C'[v][i] < e
    <3>1. CASE v = w
      BY <1>1, <2>3, <2>8, <3>1, Zenon DEF Beyond, Past
    <3>2. CASE v # w
      BY <1>1, <2>4, <2>8, <3>2 DEF Beyond, Past
    <3> QED
      BY <3>1, <3>2
  <2>9. ForwardInv'
    BY <1>1, <2>8, Zenon DEF FlowType, ForwardInv, Beyond, Past
  <2>10. RingInv'
    <3>1. \A j \in 1 .. Len(r) : r[j] \in Nat /\ Beyond(r[j])
      BY DEF FlowType, RingInv
    <3> QED
      BY <1>1, <2>8, <3>1, SMTT(60) DEF RingInv, Beyond, Past, Rising
  <2> QED
    BY <2>5, <2>6, <2>7, <2>9, <2>10
<1> QED
  BY <1>2, <1>3

LEMMA SendKeeps ==
  ASSUME FlowInv, NEW w \in Subscribers, SendEvent(w)
  PROVE  FlowInv'
<1> USE DEF FlowInv, ring, runner, socket
<1>1. UNCHANGED <<fired, r, C, msg, task>> /\ sender[w] = "send"
  BY DEF SendEvent
<1>2. FlowType' /\ latest'[w] = held[w] /\ sender'[w] = "get"
  BY DEF SendEvent, FlowType
<1>3. \A v \in Subscribers : v # w => latest'[v] = latest[v] /\ held'[v] = held[v] /\ sender'[v] = sender[v]
  BY DEF SendEvent, FlowType
<1>4. HeldInv' /\ LatestInv'
  BY <1>1, <1>2, <1>3 DEF HeldInv, LatestInv
<1>5. ASSUME NEW e \in Nat, NEW v \in Subscribers, Past(v, e)
      PROVE  latest'[v] < e /\ (sender'[v] = "send" => held'[v] < e)
  BY <1>1, <1>2, <1>3, <1>5 DEF Past
<1>6. ChannelInv'
  <2>1. \A v \in Subscribers : \A i \in 1 .. Len(C[v]) : C[v][i] \in Nat
    BY DEF FlowType
  <2> QED
    BY <1>1, <1>5, <2>1 DEF ChannelInv, Rising, Past
<1>7. ForwardInv'
  BY <1>1, <1>5, Zenon DEF ForwardInv, Beyond, FlowType, Past
<1>8. RingInv'
  <2>1. \A j \in 1 .. Len(r) : r[j] \in Nat /\ Beyond(r[j])
    BY DEF FlowType, RingInv
  <2> QED
    BY <1>1, <1>5, <2>1 DEF RingInv, Beyond, Rising, Past
<1> QED
  BY <1>2, <1>4, <1>6, <1>7, <1>8

LEMMA FailKeeps ==
  ASSUME FlowInv, NEW w \in Subscribers, SendEventFails(w)
  PROVE  FlowInv'
<1> USE DEF FlowInv, ring, runner, socket
<1>1. UNCHANGED <<fired, r, C, msg, task, latest>>
  BY DEF SendEventFails
<1>2. FlowType' /\ \A v \in Subscribers : sender'[v] = "send" => sender[v] = "send" /\ held'[v] = held[v]
  BY DEF SendEventFails, FlowType
<1>3. HeldInv' /\ LatestInv' /\ ChannelInv'
  BY <1>1, <1>2 DEF HeldInv, LatestInv, ChannelInv, Rising, Past
<1>4. ForwardInv' /\ RingInv'
  BY <1>1, <1>2 DEF ForwardInv, RingInv, Rising, Beyond, Past
<1> QED
  BY <1>2, <1>3, <1>4

LEMMA StepKeeps ==
  ASSUME FlowInv, [Next]_vars
  PROVE  FlowInv'
BY Steps, QuietKeeps, FiresKeeps, DequeueKeeps1, ForwardKeeps, GetKeeps, SendKeeps, FailKeeps DEF FlowInv, Moves

-----------------------------------------------------------------------------
\* However slow a browser is and whatever a full ring or a full channel
\* drops, the order of the events under way is kept, from Enqueue through
\* RunTask to the goroutine of ServeWebsocket.
THEOREM EventsFlow == Spec => []FlowInv
<1>1. Init => FlowInv
  BY InitFlow
<1>2. FlowInv /\ [Next]_vars => FlowInv'
  BY StepKeeps
<1> QED
  BY <1>1, <1>2, PTL DEF Spec

\* Every step is one of the promised ones or none, seen from the browsers.
LEMMA StepPromised ==
  ASSUME FlowInv, [Next]_vars
  PROVE  [Promise!Next]_<<fired, latest, count>>
<1> USE DEF ring, runner, socket
<1>1. CASE Quiet
  BY <1>1 DEF Quiet
<1>2. CASE Fires
  BY <1>2 DEF Fires, flow, Promise!Next, Promise!Fire
<1>3. CASE Dequeue \/ Forward
  BY <1>3 DEF Dequeue, Forward
<1>4. ASSUME NEW w \in Subscribers, GetEvent(w) \/ SendEventFails(w)
      PROVE  UNCHANGED <<fired, latest, count>>
  BY <1>4, SMTT(60) DEF GetEvent, SendEventFails
<1>5. ASSUME NEW w \in Subscribers, SendEvent(w)
      PROVE  Promise!Receive(w)
  <2>1. held[w] \in latest[w] + 1 .. fired
    BY <1>5 DEF SendEvent, FlowInv, FlowType, HeldInv
  <2> QED
    BY <1>5, <2>1, Zenon DEF SendEvent, Promise!Receive
<1> QED
  BY <1>1, <1>2, <1>3, <1>4, <1>5, Steps DEF FlowInv, Moves, Promise!Next

\* The event socket implements Feed: a browser gets events that were fired,
\* in the order they were fired and each once, for every number of browsers
\* and connections and every capacity (bulletin.go, ServeWebsocket).
THEOREM EventsInOrder == Spec => InOrder
<1>1. Init => Promise!Init
  BY DEF Init, BulletinInit, Promise!Init
<1>2. FlowInv /\ [Next]_vars => [Promise!Next]_<<fired, latest, count>>
  BY StepPromised
<1> QED
  BY <1>1, <1>2, EventsFlow, PTL DEF Spec, InOrder, Promise!Spec

-----------------------------------------------------------------------------
(* Why EventForwarded can hold although the timer is seldom armed.         *)

Notified == task = "select" /\ r # <<>> => r_chan

\* The steps that touch the ring, its notification or the place of RunTask.
LEMMA NotifySteps ==
  ASSUME [Next]_vars
  PROVE  UNCHANGED <<task, r, r_chan>> \/ Enqueue \/ Dequeue \/ task' # "select"
<1> USE DEF ring, runner, socket
<1>1. CASE UNCHANGED bvars
  BY <1>1 DEF bvars
<1>2. CASE UNCHANGED vars
  BY <1>1, <1>2 DEF vars
<1>3. CASE Main
  BY <1>1, <1>3 DEF Main, StartService, StartBulletin, StartExtService, WaitForTermination
<1>4. CASE ServerRunTask \/ PurgerEnds \/ SignalHandler \/ SignalSent \/ ProgramStops
  BY <1>1, <1>4 DEF ServerRunTask, PurgerEnds, SignalHandler, SignalSent, ProgramStops
<1>5. CASE HttpServers
  BY <1>1, <1>5, SMTT(60) DEF HttpServers, RunSingle, run_single_ctl_server, run_single_ect_server, run_single_rpx_server,
                    run_single_pxy_server, run_single_wpx_server, run_single_client_ctl_server
<1>6. ASSUME NEW k \in Callers, StopServices(k)
      PROVE  UNCHANGED <<task, r, r_chan>>
  BY <1>6 DEF StopServices, ReqStop, Shutdown, StopConns, StopExt, BlockAndCancel, StopBulletin, Block,
              BulletinReqStop, bvars
<1>7. ASSUME NEW c \in Conns, PacketStream(c) \/ ConnTask(c) \/ StartClientConn(c) \/ PeerLeaves(c)
      PROVE  UNCHANGED <<task, r, r_chan>> \/ Enqueue
  BY <1>7 DEF PacketStream, ConnTask, AddNewServerConn, ConnStarts, StartClientConn, ConnEnds, PeerLeaves, bvars
<1>8. CASE BulletinNext
  <2>1. CASE RunTask \/ SelectTimer
    BY <2>1 DEF RunTask, SelectStop, SelectNotified, SelectTimer, Forward
  <2>2. CASE FireEvent
    BY <2>2, SMTT(60) DEF FireEvent
  <2>3. ASSUME NEW w \in Subscribers, EventSocket(w) \/ Events(w)
        PROVE  UNCHANGED <<task, r, r_chan>>
    BY <2>3 DEF EventSocket, Events, Unsubscribe, JoinSender, GetEvent, SendEventFails, RequestEvents, Refuse,
                Subscribe, SendEvent, BrowserLeaves
  <2> QED
    BY <1>8, <2>1, <2>2, <2>3 DEF BulletinNext
<1> QED
  BY <1>2, <1>3, <1>4, <1>5, <1>6, <1>7, <1>8 DEF Next

\* RunTask never waits for a notification that will not come while the ring
\* holds an event: Enqueue's lossy send on r_chan loses no wakeup.
THEOREM NoLostWakeup == Spec => []Notified
<1>1. Init => Notified
  BY DEF Init, BulletinInit, Notified
<1>2. Notified /\ [Next]_vars => Notified'
  BY NotifySteps, Zenon DEF Notified, Enqueue, Dequeue, ring, runner, socket
<1> QED
  BY <1>1, <1>2, PTL DEF Spec
=============================================================================
