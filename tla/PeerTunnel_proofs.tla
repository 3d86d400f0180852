-------------------------- MODULE PeerTunnel_proofs --------------------------
(***************************************************************************)
(* Proofs about PeerTunnel: its types, that the tables match the running   *)
(* tasks, and that no end reads before the client has confirmed, with the  *)
(* invariant this needs. Then that a tunnel relays data in order and       *)
(* without loss: how Flow and Complete of one direction fare under the     *)
(* changes a step makes to a queue, the steps of each direction, which     *)
(* have the same shape, and their ends. The counters and the limits on     *)
(* open peers come last.                                                   *)
(***************************************************************************)
EXTENDS PeerTunnel, FiniteSetTheorems, TLAPS
-----------------------------------------------------------------------------
(* Numbers and queues.                                                     *)

LEMMA Order == \A a, b, c \in Nat : /\ a <= b /\ b <= c => a <= c
                                    /\ a <= b /\ b < c => a < c
                                    /\ 0 <= a /\ a <= a /\ a + 1 \in Nat
OBVIOUS

\* A counter of chunks grows, and by one for the peer that is served.
LEMMA Counts ==
  \A f \in [Peers -> Nat], p, x \in Peers :
    /\ f[x] <= f[x]
    /\ f[x] <= [f EXCEPT ![p] = @ + 1][x]
    /\ [f EXCEPT ![p] = @ + 1][p] = f[p] + 1
    /\ x # p => [f EXCEPT ![p] = @ + 1][x] = f[x]
OBVIOUS

\* No more is read than was sent.
LEMMA ReadSent ==
  ASSUME NEW rd \in [Peers -> Nat], NEW sent \in [Peers -> Nat], NEW p \in Peers, rd[p] < sent[p],
         \A x \in Peers : rd[x] <= sent[x]
  PROVE  \A x \in Peers : [rd EXCEPT ![p] = @ + 1][x] <= sent[x]
OBVIOUS

LEMMA Nothing ==
  /\ Len(<<>>) = 0 /\ 1..0 = {} /\ (0 + 1)..0 = {} /\ 0 <= 0
  /\ \A a, n \in Nat : a = 0 => (n + 1)..a = {}
  /\ \A s \in Seq(Nat) : Len(s) \in Nat /\ (Len(s) + 1)..0 = {}
OBVIOUS

\* Queue q holds at most one packet of kind k for each peer.
Once(q, k) ==
  \A i, j \in 1..Len(q) : q[i].kind = k /\ q[j].kind = k /\ q[i].peer = q[j].peer => i = j

\* Queue r is queue q after a step that puts no packet of kind k into it.
NoNew(q, r, k) ==
  \/ r = q
  \/ r = <<>>
  \/ q # <<>> /\ r = Tail(q)
  \/ \E m \in Packet : m.kind # k /\ r = Append(q, m)

\* A queue with no new packet of a kind holds none that it did not hold.
LEMMA NoNewInFlight ==
  ASSUME NEW q \in Seq(Packet), NEW r, NEW k, NEW p, NoNew(q, r, k), InFlight(r, k, p)
  PROVE  InFlight(q, k, p)
BY SMTT(60) DEF NoNew, InFlight

\* The four ways in which a queue gets no new packet of a kind.
LEMMA NoNewCases ==
  ASSUME NEW q, NEW k
  PROVE  /\ NoNew(q, q, k)
         /\ NoNew(q, <<>>, k)
         /\ q # <<>> => NoNew(q, Tail(q), k)
         /\ \A m \in Packet : m.kind # k => NoNew(q, Append(q, m), k)
BY DEF NoNew

\* Packets of a kind stay the only ones of their peers while none is added.
LEMMA OnceNoNew ==
  ASSUME NEW q \in Seq(Packet), NEW r, NEW k, NoNew(q, r, k), Once(q, k)
  PROVE  Once(r, k)
<1>1. CASE r = q
  BY <1>1, Zenon
<1>2. CASE r = <<>>
  BY <1>2, Nothing, Zenon DEF Once
<1>3. CASE q # <<>> /\ r = Tail(q)
  <2> SUFFICES ASSUME NEW i \in 1..Len(r), NEW j \in 1..Len(r),
                      r[i].kind = k, r[j].kind = k, r[i].peer = r[j].peer
               PROVE  i = j
    BY Zenon DEF Once
  <2>1. /\ i + 1 \in 1..Len(q) /\ r[i] = q[i + 1]
        /\ j + 1 \in 1..Len(q) /\ r[j] = q[j + 1]
    BY <1>3
  <2>2. i + 1 = j + 1
    BY <2>1, Zenon DEF Once
  <2> QED BY <2>2
<1>4. ASSUME NEW m \in Packet, m.kind # k, r = Append(q, m)
      PROVE  Once(r, k)
  <2>1. \A i \in 1..Len(r) : r[i].kind = k => i \in 1..Len(q) /\ r[i] = q[i]
    BY <1>4
  <2> QED BY <2>1, Zenon DEF Once
<1> QED BY <1>1, <1>2, <1>3, <1>4, Zenon DEF NoNew

-----------------------------------------------------------------------------
(* One direction: queue q, what was received rcv, how much was read rd.    *)

\* Flow survives every change that puts no chunk into the queue.
LEMMA FlowNoNew ==
  ASSUME NEW q \in Seq(Packet), NEW rcv, NEW rd, NEW r, Flow(q, rcv, rd), NoNew(q, r, "PEER_DATA")
  PROVE  Flow(r, rcv, rd)
<1>1. CASE r = q \/ r = <<>>
  BY <1>1 DEF Flow
<1>2. CASE q # <<>> /\ r = Tail(q)
  <2>1. /\ Len(r) = Len(q) - 1
        /\ \A i \in 1..Len(r) : i + 1 \in 1..Len(q) /\ r[i] = q[i + 1]
    BY <1>2
  <2>2. ASSUME NEW i \in 1..Len(r), NEW j \in 1..Len(r), i < j,
               r[i].kind = "PEER_DATA", r[j].kind = "PEER_DATA", r[i].peer = r[j].peer
        PROVE  r[i].n < r[j].n
    <3>1. i + 1 \in 1..Len(q) /\ j + 1 \in 1..Len(q) /\ i + 1 < j + 1
      BY <2>1, <2>2
    <3> QED BY <2>1, <2>2, <3>1, Zenon DEF Flow
  <2>3. \A i \in 1..Len(r) : r[i].kind = "PEER_DATA" =>
          Len(rcv[r[i].peer]) < r[i].n /\ r[i].n <= rd[r[i].peer]
    BY <2>1 DEF Flow
  <2> QED BY <2>2, <2>3 DEF Flow
<1>3. ASSUME NEW m \in Packet, m.kind # "PEER_DATA", r = Append(q, m)
      PROVE  Flow(r, rcv, rd)
  <2>1. /\ Len(r) = Len(q) + 1
        /\ \A i \in 1..Len(r) : r[i] = IF i \in 1..Len(q) THEN q[i] ELSE m
    BY <1>3
  <2>2. \A i \in 1..Len(r) : r[i].kind = "PEER_DATA" => i \in 1..Len(q) /\ r[i] = q[i]
    BY <1>3, <2>1
  <2> QED BY <2>2, Zenon DEF Flow
<1> QED BY <1>1, <1>2, <1>3 DEF NoNew

\* Flow survives reading the next chunk, sent or lost.
LEMMA FlowRead ==
  ASSUME NEW q \in Seq(Packet), NEW rcv \in [Peers -> Seq(Nat)], NEW rd \in [Peers -> Nat],
         NEW p \in Peers, NEW m, NEW r, Flow(q, rcv, rd),
         m.kind = "PEER_DATA", m.peer = p, m.n = rd[p] + 1, m \in Packet,
         r = q \/ r = Append(q, m)
  PROVE  Flow(r, rcv, [rd EXCEPT ![p] = @ + 1])
<1> DEFINE rd2 == [rd EXCEPT ![p] = @ + 1]
<1>1. /\ \A x \in Peers : rd2[x] \in Nat /\ rd[x] \in Nat /\ Len(rcv[x]) \in Nat /\ rd[x] <= rd2[x]
      /\ rd2[p] = rd[p] + 1
  OBVIOUS
<1>2. \A i \in 1..Len(q) : q[i].kind = "PEER_DATA" => q[i].peer \in Peers /\ q[i].n \in Nat
  <2>1. \A x \in Packet : x.kind = "PEER_DATA" => x.peer \in Peers /\ x.n \in Nat
    BY DEF Packet, RouteKinds
  <2> QED BY <2>1
<1> HIDE DEF rd2
<1>3. \A x \in Peers : InOrder(rcv[x]) /\ Len(rcv[x]) <= rd2[x]
  BY <1>1 DEF Flow
<1>4. \A i \in 1..Len(q) : q[i].kind = "PEER_DATA" =>
        Len(rcv[q[i].peer]) < q[i].n /\ q[i].n <= rd2[q[i].peer]
  <2> SUFFICES ASSUME NEW i \in 1..Len(q), q[i].kind = "PEER_DATA"
               PROVE  Len(rcv[q[i].peer]) < q[i].n /\ q[i].n <= rd2[q[i].peer]
    BY Zenon
  <2>1. Len(rcv[q[i].peer]) < q[i].n /\ q[i].n <= rd[q[i].peer]
    BY Zenon DEF Flow
  <2>2. q[i].n \in Nat /\ rd[q[i].peer] \in Nat /\ rd2[q[i].peer] \in Nat /\ rd[q[i].peer] <= rd2[q[i].peer]
    BY <1>1, <1>2, Zenon
  <2> QED BY <2>1, <2>2
<1>5. CASE r = q
  BY <1>3, <1>4, <1>5, Zenon DEF Flow, rd2
<1>6. CASE r = Append(q, m)
  <2>1. /\ Len(r) = Len(q) + 1 /\ Len(q) \in Nat
        /\ \A i \in 1..Len(r) : \/ i \in 1..Len(q) /\ r[i] = q[i]
                                \/ i = Len(q) + 1 /\ r[i] = m
    BY <1>6
  <2>2. Len(rcv[p]) < m.n /\ m.n <= rd2[p]
    BY <1>1 DEF Flow
  <2>3. \A i \in 1..Len(r) : r[i].kind = "PEER_DATA" =>
          Len(rcv[r[i].peer]) < r[i].n /\ r[i].n <= rd2[r[i].peer]
    BY <1>4, <2>1, <2>2, Zenon
  <2>4. \A i \in 1..Len(q) : q[i].kind = "PEER_DATA" /\ q[i].peer = p => q[i].n < m.n
    BY <1>1, <1>2 DEF Flow
  <2>5. ASSUME NEW i \in 1..Len(r), NEW j \in 1..Len(r), i < j,
               r[i].kind = "PEER_DATA", r[j].kind = "PEER_DATA", r[i].peer = r[j].peer
        PROVE  r[i].n < r[j].n
    <3>1. i \in 1..Len(q) /\ r[i] = q[i]
      BY <2>1, <2>5
    <3>2. CASE j \in 1..Len(q) /\ r[j] = q[j]
      BY <2>5, <3>1, <3>2 DEF Flow
    <3>3. CASE r[j] = m
      BY <2>4, <2>5, <3>1, <3>3, Zenon
    <3> QED BY <2>1, <3>2, <3>3
  <2> QED BY <1>3, <2>3, <2>5 DEF Flow, rd2
<1> QED BY <1>5, <1>6

\* Flow survives the receipt of the next chunk.
LEMMA FlowDeliver ==
  ASSUME NEW q \in Seq(Packet), NEW rcv \in [Peers -> Seq(Nat)], NEW rd \in [Peers -> Nat],
         NEW p \in Peers, Flow(q, rcv, rd), q # <<>>,
         Head(q).kind = "PEER_DATA", Head(q).peer = p, Head(q).n = Len(rcv[p]) + 1
  PROVE  Flow(Tail(q), [rcv EXCEPT ![p] = Append(@, Head(q).n)], rd)
<1> DEFINE r == Tail(q)
           rcv2 == [rcv EXCEPT ![p] = Append(@, Head(q).n)]
<1>1. /\ Len(r) = Len(q) - 1 /\ Len(q) \in Nat
      /\ \A i \in 1..Len(r) : i + 1 \in 1..Len(q) /\ r[i] = q[i + 1]
      /\ 1 \in 1..Len(q) /\ Head(q) = q[1]
  OBVIOUS
<1>2. \A x \in Peers : x # p => rcv2[x] = rcv[x]
  OBVIOUS
<1>3. /\ Len(rcv[p]) \in Nat /\ Len(rcv2[p]) = Len(rcv[p]) + 1
      /\ \A i \in 1..Len(rcv2[p]) : rcv2[p][i] = IF i = Len(rcv[p]) + 1 THEN Head(q).n ELSE rcv[p][i]
  <2>1. Head(q).n \in Nat /\ rcv[p] \in Seq(Nat) /\ rcv2[p] = Append(rcv[p], Head(q).n)
    OBVIOUS
  <2> QED BY <2>1
<1>4. \A i \in 1..Len(q) : q[i].kind = "PEER_DATA" => q[i].peer \in Peers /\ q[i].n \in Nat
  <2>1. \A x \in Packet : x.kind = "PEER_DATA" => x.peer \in Peers /\ x.n \in Nat
    BY DEF Packet, RouteKinds
  <2> QED BY <2>1
<1> HIDE DEF r, rcv2
<1>5. Len(rcv[p]) + 1 <= rd[p]
  BY <1>1 DEF Flow
<1>6. \A x \in Peers : InOrder(rcv2[x]) /\ Len(rcv2[x]) <= rd[x]
  <2>1. InOrder(rcv2[p]) /\ Len(rcv2[p]) <= rd[p]
    <3>1. \A i \in 1..Len(rcv[p]) : rcv[p][i] = i
      BY DEF Flow, InOrder
    <3>2. \A i \in 1..Len(rcv2[p]) : i = Len(rcv[p]) + 1 \/ i \in 1..Len(rcv[p])
      BY <1>3
    <3> QED BY <1>3, <1>5, <3>1, <3>2, Zenon DEF InOrder
  <2> QED BY <1>2, <2>1, Zenon DEF Flow
<1>7. \A i \in 1..Len(r) : r[i].kind = "PEER_DATA" => r[i].n <= rd[r[i].peer]
  BY <1>1, Zenon DEF Flow
<1>8. \A i \in 1..Len(r) : r[i].kind = "PEER_DATA" => Len(rcv2[r[i].peer]) < r[i].n
  <2> SUFFICES ASSUME NEW i \in 1..Len(r), r[i].kind = "PEER_DATA"
               PROVE  Len(rcv2[r[i].peer]) < r[i].n
    OBVIOUS
  <2>1. i + 1 \in 1..Len(q) /\ r[i] = q[i + 1] /\ 1 < i + 1
    BY <1>1
  <2>2. CASE r[i].peer = p
    <3>1. q[1].n < q[i + 1].n
      BY <1>1, <2>1, <2>2 DEF Flow
    <3> QED BY <1>1, <1>3, <1>4, <2>1, <2>2, <3>1
  <2>3. CASE r[i].peer # p
    BY <1>2, <1>4, <2>1, <2>3, Zenon DEF Flow
  <2> QED BY <2>2, <2>3
<1>9. ASSUME NEW i \in 1..Len(r), NEW j \in 1..Len(r), i < j,
             r[i].kind = "PEER_DATA", r[j].kind = "PEER_DATA", r[i].peer = r[j].peer
      PROVE  r[i].n < r[j].n
  <2>1. i + 1 \in 1..Len(q) /\ j + 1 \in 1..Len(q) /\ i + 1 < j + 1
    BY <1>1, <1>9
  <2> QED BY <1>1, <1>9, <2>1, Zenon DEF Flow
<1> QED BY <1>6, <1>7, <1>8, <1>9 DEF Flow, r, rcv2

\* When nothing is lost, the chunk at the head is the next one.
LEMMA CompleteNext ==
  ASSUME NEW q \in Seq(Packet), NEW rcv \in [Peers -> Seq(Nat)], NEW rd \in [Peers -> Nat],
         NEW p \in Peers, Flow(q, rcv, rd), Complete(q, rcv, rd, p), q # <<>>,
         Head(q).kind = "PEER_DATA", Head(q).peer = p
  PROVE  Head(q).n = Len(rcv[p]) + 1
<1>1. 1 \in 1..Len(q) /\ Head(q) = q[1] /\ Len(q) \in Nat /\ Len(rcv[p]) \in Nat /\ rd[p] \in Nat
  OBVIOUS
<1>2. q[1].n \in Nat
  BY <1>1 DEF Packet, RouteKinds
<1>3. Len(rcv[p]) < q[1].n /\ q[1].n <= rd[p]
  BY <1>1 DEF Flow
<1>4. PICK i \in 1..Len(q) : q[i].kind = "PEER_DATA" /\ q[i].peer = p /\ q[i].n = Len(rcv[p]) + 1
  <2>1. Len(rcv[p]) + 1 \in (Len(rcv[p]) + 1)..rd[p]
    BY <1>1, <1>2, <1>3
  <2> QED BY <2>1, SMTT(60) DEF Complete
<1>5. CASE i = 1
  BY <1>1, <1>4, <1>5
<1>6. CASE 1 < i
  <2>1. q[1].n < q[i].n
    BY <1>1, <1>4, <1>6, Zenon DEF Flow
  <2> QED BY <1>1, <1>2, <1>3, <1>4, <2>1, SMTT(60)
<1> QED BY <1>1, <1>5, <1>6

\* Nothing is lost by sending a packet ...
LEMMA CompleteAppend ==
  ASSUME NEW q \in Seq(Packet), NEW rcv, NEW rd, NEW p, NEW m \in Packet, Complete(q, rcv, rd, p)
  PROVE  Complete(Append(q, m), rcv, rd, p)
<1>1. \A i \in 1..Len(q) : i \in 1..Len(Append(q, m)) /\ Append(q, m)[i] = q[i]
  OBVIOUS
<1> QED BY <1>1 DEF Complete

\* ... by reading and sending a chunk ...
LEMMA CompleteRead ==
  ASSUME NEW q \in Seq(Packet), NEW rcv \in [Peers -> Seq(Nat)], NEW rd \in [Peers -> Nat],
         NEW p \in Peers, NEW x \in Peers, NEW m \in Packet, Complete(q, rcv, rd, x),
         m.kind = "PEER_DATA", m.peer = p, m.n = rd[p] + 1
  PROVE  Complete(Append(q, m), rcv, [rd EXCEPT ![p] = @ + 1], x)
<1> DEFINE r == Append(q, m)
           rd2 == [rd EXCEPT ![p] = @ + 1]
<1>1. /\ Len(q) \in Nat /\ Len(r) = Len(q) + 1
      /\ \A i \in 1..Len(q) : i \in 1..Len(r) /\ r[i] = q[i]
      /\ Len(q) + 1 \in 1..Len(r) /\ r[Len(q) + 1] = m
  OBVIOUS
<1>2. /\ rd[x] \in Nat /\ rd2[x] \in Nat /\ Len(rcv[x]) \in Nat
      /\ rd2[x] = IF x = p THEN rd[x] + 1 ELSE rd[x]
  OBVIOUS
<1> HIDE DEF r, rd2
<1> SUFFICES ASSUME NEW k \in (Len(rcv[x]) + 1)..rd2[x]
             PROVE  \E i \in 1..Len(r) : r[i].kind = "PEER_DATA" /\ r[i].peer = x /\ r[i].n = k
  BY Zenon DEF Complete, r, rd2
<1>3. CASE k \in (Len(rcv[x]) + 1)..rd[x]
  <2>1. PICK i \in 1..Len(q) : q[i].kind = "PEER_DATA" /\ q[i].peer = x /\ q[i].n = k
    BY <1>3, Zenon DEF Complete
  <2> QED BY <1>1, <2>1
<1>4. CASE x = p /\ k = rd[p] + 1
  BY <1>1, <1>4
<1> QED BY <1>2, <1>3, <1>4

\* ... by taking a packet that is no chunk of this peer ...
LEMMA CompleteSkip ==
  ASSUME NEW q \in Seq(Packet), NEW rcv, NEW rd, NEW x, Complete(q, rcv, rd, x), q # <<>>,
         Head(q).kind # "PEER_DATA" \/ Head(q).peer # x
  PROVE  Complete(Tail(q), rcv, rd, x)
<1> DEFINE r == Tail(q)
<1>1. /\ Len(q) \in Nat /\ Len(r) = Len(q) - 1 /\ Head(q) = q[1]
      /\ \A i \in 1..Len(r) : r[i] = q[i + 1]
  OBVIOUS
<1> HIDE DEF r
<1> SUFFICES ASSUME NEW k \in (Len(rcv[x]) + 1)..rd[x]
             PROVE  \E i \in 1..Len(r) : r[i].kind = "PEER_DATA" /\ r[i].peer = x /\ r[i].n = k
  BY DEF Complete, r
<1>2. PICK i \in 1..Len(q) : q[i].kind = "PEER_DATA" /\ q[i].peer = x /\ q[i].n = k
  BY DEF Complete
<1>3. PICK j \in 1..Len(r) : i = j + 1
  <2>1. i # 1
    BY <1>1, <1>2
  <2>2. i - 1 \in 1..Len(r) /\ i = (i - 1) + 1
    BY <1>1, <2>1
  <2> QED BY <2>2
<1>4. r[j] = q[i]
  BY <1>1, <1>3
<1> QED BY <1>2, <1>4

\* ... or by receiving the next chunk.
LEMMA CompleteDeliver ==
  ASSUME NEW q \in Seq(Packet), NEW rcv \in [Peers -> Seq(Nat)], NEW rd \in [Peers -> Nat],
         NEW p \in Peers, NEW x \in Peers, Complete(q, rcv, rd, x), q # <<>>,
         Head(q).kind = "PEER_DATA", Head(q).peer = p, Head(q).n = Len(rcv[p]) + 1
  PROVE  Complete(Tail(q), [rcv EXCEPT ![p] = Append(@, Head(q).n)], rd, x)
<1> DEFINE r == Tail(q)
           rcv2 == [rcv EXCEPT ![p] = Append(@, Head(q).n)]
<1>1. /\ Len(q) \in Nat /\ Len(r) = Len(q) - 1 /\ Head(q) = q[1]
      /\ \A i \in 1..Len(r) : r[i] = q[i + 1]
  OBVIOUS
<1>2. /\ Len(rcv[x]) \in Nat /\ rd[x] \in Nat
      /\ x # p => rcv2[x] = rcv[x]
      /\ x = p => Len(rcv2[x]) = Len(rcv[x]) + 1
  OBVIOUS
<1>3. CASE x # p
  <2>1. Complete(r, rcv, rd, x)
    BY <1>3, CompleteSkip
  <2> QED BY <1>2, <1>3, <2>1 DEF Complete
<1>4. CASE x = p
  <2> HIDE DEF r, rcv2
  <2> SUFFICES ASSUME NEW k \in (Len(rcv2[x]) + 1)..rd[x]
               PROVE  \E i \in 1..Len(r) : r[i].kind = "PEER_DATA" /\ r[i].peer = x /\ r[i].n = k
    BY DEF Complete, r, rcv2
  <2>1. k \in (Len(rcv[x]) + 1)..rd[x] /\ k # Len(rcv[x]) + 1
    BY <1>2, <1>4
  <2>2. PICK i \in 1..Len(q) : q[i].kind = "PEER_DATA" /\ q[i].peer = x /\ q[i].n = k
    BY <2>1 DEF Complete
  <2>3. PICK j \in 1..Len(r) : i = j + 1
    <3>1. i # 1
      BY <1>1, <1>4, <2>1, <2>2, SMTT(60)
    <3>2. i - 1 \in 1..Len(r) /\ i = (i - 1) + 1
      BY <1>1, <3>1
    <3> QED BY <3>2
  <2>4. r[j] = q[i]
    BY <1>1, <2>3
  <2> QED BY <2>2, <2>4, SMTT(60)
<1> QED BY <1>3, <1>4

\* No chunk joins the queue behind the end of its peer.
LEMMA FinalKept ==
  ASSUME NEW q \in Seq(Packet), NEW r, NEW k, k # "PEER_DATA", NoNew(q, r, "PEER_DATA"), Final(q, k)
  PROVE  Final(r, k)
<1>1. CASE r = q
  BY <1>1, Zenon
<1>2. CASE r = <<>>
  BY <1>2 DEF Final
<1>3. CASE q # <<>> /\ r = Tail(q)
  <2>1. Len(r) = Len(q) - 1 /\ \A i \in 1..Len(r) : r[i] = q[i + 1] /\ i + 1 \in 1..Len(q)
    BY <1>3
  <2>2. \A i, j \in 1..Len(r) : i < j => i + 1 < j + 1
    BY <2>1
  <2> SUFFICES ASSUME NEW i \in 1..Len(r), NEW j \in 1..Len(r), i < j, r[i].kind = k, r[j].kind = "PEER_DATA"
               PROVE  r[i].peer # r[j].peer
    BY Zenon DEF Final
  <2>3. /\ r[i] = q[i + 1] /\ i + 1 \in 1..Len(q)
        /\ r[j] = q[j + 1] /\ j + 1 \in 1..Len(q) /\ i + 1 < j + 1
    BY <2>1, <2>2, Zenon
  <2> QED BY <2>3, Zenon DEF Final
<1>4. ASSUME NEW m \in Packet, m.kind # "PEER_DATA", r = Append(q, m) PROVE Final(r, k)
  <2>1. /\ Len(r) = Len(q) + 1 /\ r[Len(q) + 1] = m
        /\ \A i \in 1..Len(q) : r[i] = q[i]
    BY <1>4
  <2> QED BY <1>4, <2>1 DEF Final
<1> QED BY <1>1, <1>2, <1>3, <1>4, Zenon DEF NoNew

\* A chunk of a peer without an end may join.
LEMMA FinalRead ==
  ASSUME NEW q \in Seq(Packet), NEW m \in Packet, NEW k, k # "PEER_DATA", m.kind = "PEER_DATA",
         ~InFlight(q, k, m.peer), Final(q, k)
  PROVE  Final(Append(q, m), k)
<1>1. /\ Len(Append(q, m)) = Len(q) + 1 /\ Append(q, m)[Len(q) + 1] = m
      /\ \A i \in 1..Len(q) : Append(q, m)[i] = q[i]
  OBVIOUS
<1> QED BY <1>1 DEF Final, InFlight

\* What a queue holds after one more packet.
LEMMA AppendInFlight ==
  ASSUME NEW q \in Seq(Packet), NEW m \in Packet, NEW k, NEW p, InFlight(Append(q, m), k, p)
  PROVE  InFlight(q, k, p) \/ (m.kind = k /\ m.peer = p)
<1>1. /\ Len(Append(q, m)) = Len(q) + 1 /\ Append(q, m)[Len(q) + 1] = m
      /\ \A i \in 1..Len(q) : Append(q, m)[i] = q[i]
  OBVIOUS
<1> QED BY <1>1 DEF InFlight

\* The packet at the head of a queue is in it.
LEMMA HeadInFlight ==
  ASSUME NEW q \in Seq(Packet), q # <<>>
  PROVE  InFlight(q, Head(q).kind, Head(q).peer)
<1>1. 1 \in 1..Len(q) /\ q[1] = Head(q)
  OBVIOUS
<1> QED BY <1>1, Zenon DEF InFlight

\* Behind the end of a peer at the head of a queue there is no chunk of it.
LEMMA NothingBehind ==
  ASSUME NEW q \in Seq(Packet), q # <<>>, NEW k, k # "PEER_DATA", Head(q).kind = k, Final(q, k)
  PROVE  ~InFlight(q, "PEER_DATA", Head(q).peer)
<1>1. 1 \in 1..Len(q) /\ q[1] = Head(q)
  OBVIOUS
<1>2. \A j \in 1..Len(q) : j = 1 \/ 1 < j
  OBVIOUS
<1> QED BY <1>1, <1>2 DEF Final, InFlight

\* Everything read was received once nothing is in the queue.
LEMMA NothingMissing ==
  ASSUME NEW q \in Seq(Packet), NEW rcv \in [Peers -> Seq(Nat)], NEW rd \in [Peers -> Nat],
         NEW p \in Peers, Flow(q, rcv, rd), Complete(q, rcv, rd, p), ~InFlight(q, "PEER_DATA", p)
  PROVE  Len(rcv[p]) = rd[p]
<1>1. Len(rcv[p]) \in Nat /\ rd[p] \in Nat /\ Len(rcv[p]) <= rd[p]
  BY DEF Flow
<1>2. \A k \in (Len(rcv[p]) + 1)..rd[p] : FALSE
  BY DEF Complete, InFlight
<1> QED BY <1>1, <1>2

-----------------------------------------------------------------------------
(* Types.                                                                  *)

Types == ServerTypes /\ ClientTypes /\ EndTypes /\ StreamTypes

\* Packets about a peer, and chunks, have their type.
LEMMA PktType ==
  ASSUME NEW k \in PeerKinds, NEW p \in Peers, NEW i \in Nat
  PROVE  Pkt(k, p) \in Packet /\ DataPkt(p, i) \in Packet
BY DEF Pkt, DataPkt, Packet, PeerKinds

\* Packets about the route have their type.
LEMMA RoutePktType ==
  ASSUME NEW k \in RouteKinds PROVE Pkt(k, 0) \in Packet
BY DEF Pkt, Packet

\* Taking a packet from a queue keeps the type of the queue.
LEMMA HeadType ==
  ASSUME NEW q \in Seq(Packet), q # <<>>
  PROVE  /\ Head(q) \in Packet /\ Tail(q) \in Seq(Packet)
         /\ Head(q).kind \in PeerKinds => Head(q).peer \in Peers /\ Head(q).n \in Nat
<1>1. Head(q) \in Packet /\ Tail(q) \in Seq(Packet)
  OBVIOUS
<1>2. \A x \in Packet : x.kind \in PeerKinds => x.peer \in Peers /\ x.n \in Nat
  BY DEF Packet, PeerKinds, RouteKinds
<1> QED BY <1>1, <1>2

\* So does sending one.
LEMMA SendType ==
  ASSUME StreamTypes, NEW m \in Packet, ServerSends(m) \/ ClientSends(m)
  PROVE  StreamTypes'
<1>1. CASE ServerSends(m) BY <1>1 DEF StreamTypes, ServerSends
<1>2. CASE ClientSends(m) BY <1>2 DEF StreamTypes, ClientSends
<1> QED BY <1>1, <1>2

\* ReqStop of server peers keeps the types of what it changes.
LEMMA StopServerPeersType ==
  ASSUME ServerTypes, NEW ps \in SUBSET Peers, StopServerPeers(ps)
  PROVE  /\ s_stop_req' \subseteq Peers /\ s_stop_chan' \subseteq Peers /\ s_started' \subseteq Peers
         /\ s_status' \in [Peers -> Seq({"started", "stopped"})] /\ s_conn' \in [Peers -> {"open", "closed"}]
BY DEF ServerTypes, StopServerPeers

\* ReqStop of client peers does too.
LEMMA StopClientPeersType ==
  ASSUME ClientTypes, NEW ps \in SUBSET Peers, StopClientPeers(ps)
  PROVE  c_stop_req' \subseteq Peers /\ c_conn' \in [Peers -> {"none", "open", "closed"}]
BY DEF ClientTypes, StopClientPeers

\* The initial state is typed: NewServerRoute, NewClientRoute and peers to come.
THEOREM TypesInit == Init => Types
BY DEF Init, Types, ServerPeersInit, ClientPeersInit, ServerTypes, ClientTypes, EndTypes,
       StreamTypes, SPcs, CPcs

\* A step that leaves one part of the state alone keeps its types.
LEMMA ServerFrame == ASSUME ServerTypes, UNCHANGED server PROVE ServerTypes'
BY DEF ServerTypes, server, s_task, s_ctl, s_table

\* The same of the client's part.
LEMMA ClientFrame == ASSUME ClientTypes, UNCHANGED client PROVE ClientTypes'
BY DEF ClientTypes, client, c_task, c_ctl, c_table

\* The same of users and targets.
LEMMA EndFrame == ASSUME EndTypes, UNCHANGED <<user, target>> PROVE EndTypes'
BY DEF EndTypes, user, target

\* The same of the packet stream.
LEMMA StreamFrame == ASSUME StreamTypes, UNCHANGED stream PROVE StreamTypes'
BY DEF StreamTypes, stream

\* ServerPeerConn.RunTask keeps the types.
LEMMA ServerPeerTaskTypes ==
  ASSUME Types, NEW p \in Peers, ServerPeerTask(p) PROVE Types'
<1>a. ServerTypes /\ ClientTypes /\ EndTypes /\ StreamTypes
  BY DEF Types
<1> SUFFICES ServerTypes' /\ StreamTypes'
  <2>1. UNCHANGED client /\ UNCHANGED <<user, target>>
    BY DEF ServerPeerTask, SendPeerStarted, StatusReceived, WaitTimesOut, StopReceived, ReadUser,
           ReadUserEof, ReadUserFails, StoppedReceived, SendPeerStopped, ServerPeerEnds
  <2> QED BY <1>a, <2>1, ClientFrame, EndFrame, Zenon DEF Types
<1> USE <1>a DEF ServerPeerAt
<1>1. CASE SendPeerStarted(p)
  <2>1. ServerTypes'
    BY <1>1, Zenon DEF SendPeerStarted, ServerTypes, SPcs, s_ctl, s_table
  <2>2. StreamTypes'
    BY <1>1, SendType, PktType, StreamFrame, Zenon DEF SendPeerStarted, SendFails, PeerKinds
  <2> QED BY <2>1, <2>2
<1>2. CASE StatusReceived(p)
  <2>1. s_status' \in [Peers -> Seq({"started", "stopped"})]
    BY <1>2 DEF StatusReceived, ServerTypes
  <2>2. s_pc' \in [Peers -> SPcs]
    BY <1>2 DEF StatusReceived, ServerTypes, SPcs
  <2> QED BY <1>2, <2>1, <2>2, StreamFrame DEF StatusReceived, ServerTypes, s_table
<1>3. CASE WaitTimesOut(p)
  BY <1>3, StreamFrame DEF WaitTimesOut, ServerTypes, SPcs, s_ctl, s_table
<1>4. CASE StopReceived(p)
  BY <1>4, StreamFrame, Zenon DEF StopReceived, ServerTypes, SPcs, s_table
<1>5. CASE ReadUser(p)
  <2>1. s_rd' \in [Peers -> Nat]
    BY <1>5 DEF ReadUser, ServerTypes
  <2>2. s_pc' \in [Peers -> SPcs]
    BY <1>5, Zenon DEF ReadUser, ServerTypes, SPcs
  <2>3. DataPkt(p, s_rd[p] + 1) \in Packet
    BY PktType DEF ServerTypes, PeerKinds
  <2>4. StreamTypes'
    BY <1>5, <2>3, SendType, StreamFrame, Zenon DEF ReadUser, SendFails
  <2> QED BY <1>5, <2>1, <2>2, <2>4 DEF ReadUser, ServerTypes, s_ctl, s_table
<1>6. CASE ReadUserEof(p)
  <2>1. ServerTypes'
    BY <1>6, Zenon DEF ReadUserEof, ServerTypes, SPcs, s_ctl, s_table
  <2>2. StreamTypes'
    BY <1>6, SendType, PktType, StreamFrame, Zenon DEF ReadUserEof, SendFails, PeerKinds
  <2> QED BY <2>1, <2>2
<1>7. CASE ReadUserFails(p)
  BY <1>7, StreamFrame DEF ReadUserFails, ServerTypes, SPcs, s_ctl, s_table
<1>8. CASE StoppedReceived(p)
  <2>1. s_status' \in [Peers -> Seq({"started", "stopped"})]
    BY <1>8 DEF StoppedReceived, ServerTypes
  <2> QED BY <1>8, <2>1, StreamFrame, Zenon DEF StoppedReceived, ServerTypes, SPcs, s_table
<1>9. CASE SendPeerStopped(p)
  <2>1. ServerTypes'
    BY <1>9, Zenon DEF SendPeerStopped, ServerTypes, SPcs, s_ctl, s_table
  <2> QED BY <1>9, <2>1, SendType, PktType, Zenon DEF SendPeerStopped, PeerKinds
<1>10. CASE ServerPeerEnds(p)
  <2>1. s_pc' \in [Peers -> SPcs]
    BY <1>10 DEF ServerPeerEnds, ServerTypes, SPcs
  <2> QED BY <1>10, <2>1, StopServerPeersType, StreamFrame, Zenon
          DEF ServerPeerEnds, ServerTypes, RemoveServerPeerConn
<1> QED BY <1>1, <1>2, <1>3, <1>4, <1>5, <1>6, <1>7, <1>8, <1>9, <1>10, Zenon DEF ServerPeerTask

\* ServerRoute.RunTask keeps the types.
LEMMA ServerRouteTypes ==
  ASSUME Types, ServerRouteTask \/ ServerStopsRoute \/ \E p \in Peers : ServerStopsPeer(p)
  PROVE  Types'
<1>a. ServerTypes /\ ClientTypes /\ EndTypes /\ StreamTypes
  BY DEF Types
<1> SUFFICES ServerTypes'
  <2>1. UNCHANGED client /\ UNCHANGED <<user, target>> /\ UNCHANGED stream
    BY Zenon DEF ServerRouteTask, ServerStopsRoute, ServerStopsPeer, AcceptTCP, AddNewServerPeerConn,
           AcceptFails, ServerRouteEnds
  <2> QED BY <1>a, <2>1, ClientFrame, EndFrame, StreamFrame DEF Types
<1> USE <1>a
<1>1. ASSUME NEW p \in Peers, NEW b \in BOOLEAN, AcceptTCP(p, b) PROVE ServerTypes'
  BY <1>1, Zenon DEF AcceptTCP, ServerTypes, SPcs
<1>2. ASSUME NEW p \in Peers, AddNewServerPeerConn(p) PROVE ServerTypes'
  <2>1. s_pc' \in [Peers -> SPcs]
    BY <1>2, Zenon DEF AddNewServerPeerConn, ServerTypes, SPcs
  <2>2. s_conn' \in [Peers -> {"open", "closed"}]
    BY <1>2, Zenon DEF AddNewServerPeerConn, ServerTypes
  <2>3. pts_map' \subseteq Peers
    BY <1>2 DEF AddNewServerPeerConn, ServerTypes
  <2> QED BY <1>2, <2>1, <2>2, <2>3, Zenon DEF AddNewServerPeerConn, ServerTypes
<1>3. CASE AcceptFails
  BY <1>3, StopServerPeersType, Zenon DEF AcceptFails, ServerRouteReqStop, ServerTypes, s_task, s_table
<1>4. CASE ServerRouteEnds
  BY <1>4, Zenon DEF ServerRouteEnds, ServerTypes, s_task, s_ctl, s_table
<1>5. CASE ServerStopsRoute
  BY <1>5, StopServerPeersType, Zenon DEF ServerStopsRoute, ServerRouteReqStop, ServerTypes, s_task, s_table
<1>6. ASSUME NEW p \in Peers, ServerStopsPeer(p) PROVE ServerTypes'
  BY <1>6, StopServerPeersType DEF ServerStopsPeer, ServerTypes, s_task, s_table
<1> QED BY <1>1, <1>2, <1>3, <1>4, <1>5, <1>6 DEF ServerRouteTask

\* Receiving a chunk keeps the type of what was received.
LEMMA AppendType ==
  ASSUME NEW S, NEW f \in [Peers -> Seq(S)], NEW x \in S, NEW p \in Peers
  PROVE  [f EXCEPT ![p] = Append(@, x)] \in [Peers -> Seq(S)]
OBVIOUS

\* receive_from_stream keeps the types.
LEMMA ServerReceiverTypes ==
  ASSUME Types, ServerReceiver PROVE Types'
<1>a. ServerTypes /\ ClientTypes /\ EndTypes /\ StreamTypes
  BY DEF Types
<1>b. c2s # <<>> /\ c2s' = Tail(c2s) /\ link' = link
  BY Zenon DEF ServerReceiver, ReportPeerStarted, ReportPeerStopped, ReportPeerData,
         RouteStopRequested, ServerTakes
<1>c. c2s \in Seq(Packet) /\ s2c \in Seq(Packet) /\ link \in {"up", "down"}
  BY <1>a DEF StreamTypes
<1>d. UNCHANGED client
  BY Zenon DEF ServerReceiver, ReportPeerStarted, ReportPeerStopped, ReportPeerData, RouteStopRequested
<1>e. StreamTypes'
  <2>1. s2c' = s2c \/ s2c' = Append(s2c, Pkt("ROUTE_STOPPED", 0))
    BY Zenon DEF ServerReceiver, ReportPeerStarted, ReportPeerStopped, ReportPeerData, RouteStopRequested
  <2>2. Pkt("ROUTE_STOPPED", 0) \in Packet
    BY RoutePktType DEF RouteKinds
  <2>3. s2c' \in Seq(Packet)
    BY <1>c, <2>1, <2>2
  <2> QED BY <1>b, <1>c, <2>3 DEF StreamTypes
<1> SUFFICES ServerTypes' /\ EndTypes'
  BY <1>a, <1>d, <1>e, ClientFrame DEF Types
<1>1. ASSUME NEW p \in Peers, ReportPeerStarted(p) PROVE ServerTypes' /\ EndTypes'
  <2>1. s_started' \subseteq Peers
    BY <1>a, <1>1 DEF ReportPeerStarted, ServerTypes
  <2>2. s_status' \in [Peers -> Seq({"started", "stopped"})]
    <3>1. \/ s_status' = s_status
          \/ s_status' = [s_status EXCEPT ![p] = Append(@, "started")]
      BY <1>1 DEF ReportPeerStarted
    <3>2. s_status \in [Peers -> Seq({"started", "stopped"})]
      BY <1>a, Zenon DEF ServerTypes
    <3> QED BY <3>1, <3>2, AppendType, SMTT(60)
  <2> QED BY <1>a, <1>1, <2>1, <2>2, EndFrame, Zenon DEF ReportPeerStarted, ServerTypes, s_task, s_table
<1>2. ASSUME NEW p \in Peers, ReportPeerStopped(p) PROVE ServerTypes' /\ EndTypes'
  BY <1>a, <1>2, StopServerPeersType, EndFrame DEF ReportPeerStopped, ServerTypes, s_task, s_table
<1>3. ASSUME NEW p \in Peers, ReportPeerData(p) PROVE ServerTypes' /\ EndTypes'
  <2>1. PICK n \in Nat : Head(c2s).n = n
    BY <1>b, <1>c, <1>3, HeadType, Zenon DEF ReportPeerData, ServerTakes, PeerKinds
  <2>2. u_rcv' \in [Peers -> Seq(Nat)]
    <3>1. \/ u_rcv' = u_rcv \/ u_rcv' = [u_rcv EXCEPT ![p] = Append(@, n)]
      BY <1>3, <2>1 DEF ReportPeerData
    <3>2. u_rcv \in [Peers -> Seq(Nat)]
      BY <1>a DEF EndTypes
    <3>3. [u_rcv EXCEPT ![p] = Append(@, n)] \in [Peers -> Seq(Nat)]
      BY <3>2
    <3> QED BY <3>1, <3>2, <3>3, Zenon
  <2>3. ServerTypes'
    BY <1>a, <1>3, StopServerPeersType, Zenon DEF ReportPeerData, ServerTypes, s_task, s_ctl, s_table
  <2> QED BY <1>a, <1>3, <2>2, <2>3, Zenon DEF ReportPeerData, EndTypes, target
<1>4. CASE RouteStopRequested
  <2>1. CASE sroute.in_map
    <3>1. sroute' \in [pc : {"accept", "add", "wait", "gone"}, stop_req : BOOLEAN,
                       listening : BOOLEAN, in_map : BOOLEAN]
      BY <1>a, <1>4, <2>1, Zenon DEF RouteStopRequested, ServerTypes
    <3> QED BY <1>a, <1>4, <2>1, <3>1, StopServerPeersType, EndFrame, Zenon
            DEF RouteStopRequested, ServerRouteReqStop, ServerTypes, s_task, s_table
  <2>2. CASE ~sroute.in_map
    BY <1>a, <1>4, <2>2, EndFrame, Zenon DEF RouteStopRequested, ServerTypes, s_task, s_ctl, s_table
  <2> QED BY <2>1, <2>2
<1> QED BY <1>1, <1>2, <1>3, <1>4 DEF ServerReceiver

\* ConnectToPeer and ClientPeerConn.RunTask keep the types.
LEMMA ClientPeerTaskTypes ==
  ASSUME Types, NEW p \in Peers, ClientPeerTask(p) PROVE Types'
<1>a. ServerTypes /\ ClientTypes /\ EndTypes /\ StreamTypes
  BY DEF Types
<1> SUFFICES ClientTypes' /\ StreamTypes'
  <2>1. UNCHANGED server /\ UNCHANGED <<user, target>>
    BY DEF ClientPeerTask, DialSucceeds, DialFails, ConfirmPeerStarted, AbortPeer, ReadTarget,
           ReadTargetEnds, ReportStopped, ClientPeerEnds
  <2> QED BY <1>a, <2>1, ServerFrame, EndFrame, Zenon DEF Types
<1> USE <1>a DEF ClientPeerAt
<1>1. CASE DialSucceeds(p)
  BY <1>1, StreamFrame, Zenon DEF DialSucceeds, ClientTypes, CPcs
<1>2. CASE DialFails(p)
  BY <1>2, StreamFrame DEF DialFails, ClientTypes, CPcs, c_ctl, c_table
<1>3. CASE ConfirmPeerStarted(p)
  <2>1. ClientTypes'
    BY <1>3, Zenon DEF ConfirmPeerStarted, ClientTypes, CPcs, c_ctl, c_table
  <2>2. StreamTypes'
    BY <1>3, SendType, PktType, StreamFrame, Zenon DEF ConfirmPeerStarted, SendFails, PeerKinds
  <2> QED BY <2>1, <2>2, Zenon
<1>4. CASE AbortPeer(p)
  <2>1. ClientTypes'
    BY <1>4, Zenon DEF AbortPeer, ClientTypes, CPcs, c_table
  <2> QED BY <1>4, <2>1, SendType, PktType DEF AbortPeer, PeerKinds
<1>5. CASE ReadTarget(p)
  <2>1. c_rd' \in [Peers -> Nat]
    BY <1>5 DEF ReadTarget, ClientTypes
  <2>2. c_pc' \in [Peers -> CPcs]
    BY <1>5 DEF ReadTarget, ClientTypes, CPcs
  <2>3. DataPkt(p, c_rd[p] + 1) \in Packet
    BY PktType DEF ClientTypes, PeerKinds
  <2>4. StreamTypes'
    BY <1>5, <2>3, SendType, StreamFrame, Zenon DEF ReadTarget, SendFails
  <2> QED BY <1>5, <2>1, <2>2, <2>4 DEF ReadTarget, ClientTypes, c_ctl, c_table
<1>6. CASE ReadTargetEnds(p)
  BY <1>6, StreamFrame, Zenon DEF ReadTargetEnds, ClientTypes, CPcs, c_ctl, c_table
<1>7. CASE ReportStopped(p)
  <2>1. ClientTypes'
    BY <1>7, Zenon DEF ReportStopped, ClientTypes, CPcs, c_ctl, c_table
  <2> QED BY <1>7, <2>1, SendType, PktType, Zenon DEF ReportStopped, PeerKinds
<1>8. CASE ClientPeerEnds(p)
  <2>1. c_pc' \in [Peers -> CPcs]
    BY <1>8, Zenon DEF ClientPeerEnds, ClientTypes, CPcs
  <2> QED BY <1>8, <2>1, StopClientPeersType, StreamFrame
          DEF ClientPeerEnds, ClientTypes, RemoveClientPeerConn
<1> QED BY <1>1, <1>2, <1>3, <1>4, <1>5, <1>6, <1>7, <1>8 DEF ClientPeerTask

\* ClientRoute.RunTask keeps the types.
LEMMA ClientRouteTypes ==
  ASSUME Types, ClientRouteTask \/ ClientStopsRoute \/ \E p \in Peers : ClientStopsPeer(p)
  PROVE  Types'
<1>a. ServerTypes /\ ClientTypes /\ EndTypes /\ StreamTypes
  BY DEF Types
<1> SUFFICES ClientTypes' /\ StreamTypes'
  <2>1. UNCHANGED server /\ UNCHANGED <<user, target>>
    BY Zenon DEF ClientRouteTask, ClientRouteWakes, ClientRouteJoins, ClientRouteEnds,
           ClientStopsRoute, ClientStopsPeer
  <2> QED BY <1>a, <2>1, ServerFrame, EndFrame DEF Types
<1> USE <1>a
<1>1. CASE ClientRouteWakes
  BY <1>1, StreamFrame DEF ClientRouteWakes, ClientTypes, c_task, c_ctl, c_table
<1>2. CASE ClientRouteJoins
  <2>1. ClientTypes'
    BY <1>2 DEF ClientRouteJoins, ClientTypes, c_task, c_ctl, c_table
  <2> QED BY <1>2, <2>1, SendType, RoutePktType DEF ClientRouteJoins, RouteKinds
<1>3. CASE ClientRouteEnds
  BY <1>3, StreamFrame, Zenon DEF ClientRouteEnds, ClientTypes, c_task, c_ctl, c_table
<1>4. CASE ClientStopsRoute
  BY <1>4, StopClientPeersType, StreamFrame, Zenon
     DEF ClientStopsRoute, ClientRouteReqStop, ClientTypes, c_task, c_table
<1>5. ASSUME NEW p \in Peers, ClientStopsPeer(p) PROVE ClientTypes' /\ StreamTypes'
  BY <1>5, StopClientPeersType, StreamFrame DEF ClientStopsPeer, ClientTypes, c_task, c_table
<1> QED BY <1>1, <1>2, <1>3, <1>4, <1>5 DEF ClientRouteTask

\* dispatch_packet keeps the types.
LEMMA ClientReceiverTypes ==
  ASSUME Types, ClientReceiver PROVE Types'
<1>a. ServerTypes /\ ClientTypes /\ EndTypes /\ StreamTypes
  BY DEF Types
<1>b. s2c # <<>> /\ s2c' = Tail(s2c) /\ link' = link /\ UNCHANGED server
  BY Zenon DEF ClientReceiver, ConnectRequested, DisconnectRequested, CloseWriteRequested,
         WriteTarget, RouteStoppedReceived, ClientTakes
<1>c. c2s \in Seq(Packet) /\ s2c \in Seq(Packet) /\ link \in {"up", "down"}
  BY <1>a DEF StreamTypes
<1>1. ASSUME NEW p \in Peers, ConnectRequested(p) PROVE Types'
  <2>1. c2s' \in Seq(Packet)
    <3>1. c2s' = c2s \/ c2s' = Append(c2s, Pkt("PEER_ABORTED", p))
      BY <1>1 DEF ConnectRequested
    <3>2. Pkt("PEER_ABORTED", p) \in Packet
      BY PktType DEF PeerKinds
    <3> QED BY <1>c, <3>1, <3>2
  <2>2. ClientTypes'
    BY <1>a, <1>1, Zenon DEF ConnectRequested, ClientTypes, CPcs, c_ctl, c_table
  <2> QED BY <1>a, <1>b, <1>c, <1>1, <2>1, <2>2, ServerFrame, EndFrame
          DEF ConnectRequested, Types, StreamTypes
<1> SUFFICES ASSUME c2s' = c2s PROVE ClientTypes' /\ EndTypes'
  <2>1. c2s' = c2s \/ \E p \in Peers : ConnectRequested(p)
    BY Zenon DEF ClientReceiver, DisconnectRequested, CloseWriteRequested, WriteTarget,
           RouteStoppedReceived
  <2>2. c2s' = c2s => StreamTypes'
    BY <1>b, <1>c DEF StreamTypes
  <2> QED BY <1>a, <1>b, <1>1, <2>1, <2>2, ServerFrame DEF Types
<1>2. ASSUME NEW p \in Peers, DisconnectRequested(p) PROVE ClientTypes' /\ EndTypes'
  BY <1>a, <1>2, StopClientPeersType, EndFrame, Zenon DEF DisconnectRequested, ClientTypes, c_task, c_table
<1>3. ASSUME NEW p \in Peers, CloseWriteRequested(p) PROVE ClientTypes' /\ EndTypes'
  BY <1>a, <1>3, EndFrame DEF CloseWriteRequested, ClientTypes, c_task, c_ctl, c_table
<1>4. ASSUME NEW p \in Peers, WriteTarget(p) PROVE ClientTypes' /\ EndTypes'
  <2>1. PICK n \in Nat : Head(s2c).n = n
    BY <1>b, <1>c, <1>4, HeadType DEF WriteTarget, ClientTakes, PeerKinds
  <2>2. t_rcv' \in [Peers -> Seq(Nat)]
    <3>1. \/ t_rcv' = t_rcv \/ t_rcv' = [t_rcv EXCEPT ![p] = Append(@, n)]
      BY <1>4, <2>1 DEF WriteTarget
    <3>2. t_rcv \in [Peers -> Seq(Nat)]
      BY <1>a, Zenon DEF EndTypes
    <3>3. [t_rcv EXCEPT ![p] = Append(@, n)] \in [Peers -> Seq(Nat)]
      BY <3>2
    <3> QED BY <3>1, <3>2, <3>3, Zenon
  <2>3. ClientTypes'
    BY <1>a, <1>4, StopClientPeersType DEF WriteTarget, ClientTypes, c_task, c_ctl, c_table
  <2> QED BY <1>a, <1>4, <2>2, <2>3, Zenon DEF WriteTarget, EndTypes, user
<1>5. ASSUME RouteStoppedReceived PROVE ClientTypes' /\ EndTypes'
  <2>1. CASE croute.in_map
    BY <1>a, <1>5, <2>1, StopClientPeersType, EndFrame, Zenon
       DEF RouteStoppedReceived, ClientRouteReqStop, ClientTypes, c_task, c_table
  <2>2. CASE ~croute.in_map
    BY <1>a, <1>5, <2>2, EndFrame
       DEF RouteStoppedReceived, ClientTypes, c_task, c_ctl, c_table
  <2> QED BY <2>1, <2>2
<1>6. ASSUME NEW p \in Peers, ConnectRequested(p) PROVE ClientTypes' /\ EndTypes'
  BY <1>1, <1>6 DEF Types
<1> QED BY <1>2, <1>3, <1>4, <1>5, <1>6, Zenon DEF ClientReceiver

\* Users, targets and operators keep the types.
LEMMA EnvironmentTypes ==
  ASSUME Types, BreakLink \/ \E p \in Peers : \/ UserWrites(p) \/ UserCloses(p)
                                              \/ TargetWrites(p) \/ TargetCloses(p)
  PROVE  Types'
<1>a. ServerTypes /\ ClientTypes /\ EndTypes /\ StreamTypes
  BY Zenon DEF Types
<1>1. UNCHANGED server /\ UNCHANGED client
  BY DEF BreakLink, UserWrites, UserCloses, TargetWrites, TargetCloses
<1>2. CASE BreakLink
  BY <1>a, <1>1, <1>2, ServerFrame, ClientFrame, EndFrame DEF BreakLink, Types, StreamTypes
<1>3. ASSUME NEW p \in Peers, UserWrites(p) \/ UserCloses(p) PROVE Types'
  <2>1. EndTypes'
    <3>1. CASE UserWrites(p) BY <1>a, <3>1 DEF UserWrites, EndTypes, target
    <3>2. CASE UserCloses(p) BY <1>a, <3>2, Zenon DEF UserCloses, EndTypes, target
    <3> QED BY <1>3, <3>1, <3>2, Zenon
  <2>2. StreamTypes'
    BY <1>a, <1>3, StreamFrame, Zenon DEF UserWrites, UserCloses
  <2> QED BY <1>a, <1>1, <2>1, <2>2, ServerFrame, ClientFrame DEF Types
<1>4. ASSUME NEW p \in Peers, TargetWrites(p) \/ TargetCloses(p) PROVE Types'
  <2>1. EndTypes'
    <3>1. CASE TargetWrites(p) BY <1>a, <3>1 DEF TargetWrites, EndTypes, user
    <3>2. CASE TargetCloses(p) BY <1>a, <3>2 DEF TargetCloses, EndTypes, user
    <3> QED BY <1>4, <3>1, <3>2, Zenon
  <2>2. StreamTypes'
    BY <1>a, <1>4, StreamFrame, Zenon DEF TargetWrites, TargetCloses
  <2> QED BY <1>a, <1>1, <2>1, <2>2, ServerFrame, ClientFrame DEF Types
<1> QED BY <1>2, <1>3, <1>4

\* Every step keeps the types of the variables.
THEOREM TypesStep == Types /\ [Next]_vars => Types'
<1> SUFFICES ASSUME Types, [Next]_vars PROVE Types'
  BY Zenon
<1>1. CASE UNCHANGED vars
  BY <1>1, ServerFrame, ClientFrame, EndFrame, StreamFrame, Zenon DEF Types, vars
<1>2. CASE Next
  BY <1>1, <1>2, ServerPeerTaskTypes, ServerRouteTypes, ServerReceiverTypes, ClientPeerTaskTypes,
     ClientRouteTypes, ClientReceiverTypes, EnvironmentTypes, Zenon DEF Next, Environment, Idle
<1> QED BY <1>1, <1>2

-----------------------------------------------------------------------------
(* Tables.                                                                 *)

\* The tables are empty and match the tasks at first.
LEMMA TablesInit == Init => ServerTable /\ ClientTable
BY DEF Init, ServerPeersInit, ClientPeersInit, ServerTable, ClientTable

\* ReqStop of peers in the table keeps the table right.
LEMMA StopServerPeersTable ==
  ASSUME ServerTypes, ServerTable, NEW ps \in SUBSET pts_map, StopServerPeers(ps),
         UNCHANGED <<s_pc, pts_map>>
  PROVE  ServerTable'
BY Zenon DEF ServerTypes, ServerTable, StopServerPeers

\* The same on the client.
LEMMA StopClientPeersTable ==
  ASSUME ClientTypes, ClientTable, NEW ps \in SUBSET ptc_map, StopClientPeers(ps),
         UNCHANGED <<c_pc, ptc_map>>
  PROVE  ClientTable'
BY Zenon DEF ClientTypes, ClientTable, StopClientPeers

\* What the client and the environment do leaves the server's table as it is,
\* and the other way round.
LEMMA ServerTableFrame ==
  ASSUME ServerTable, UNCHANGED <<s_pc, s_conn, s_stop_req, pts_map>> PROVE ServerTable'
BY Zenon DEF ServerTable

\* The same of the client's table.
LEMMA ClientTableFrame ==
  ASSUME ClientTable, UNCHANGED <<c_pc, c_conn, c_stop_req, ptc_map>> PROVE ClientTable'
BY DEF ClientTable

\* Only the server's tasks and the stops of its operator change the server.
LEMMA OtherStepsKeepServer ==
  ASSUME [Next]_vars, ~ServerRouteTask, ~ServerReceiver, ~ServerStopsRoute,
         \A p \in Peers : ~ServerPeerTask(p) /\ ~ServerStopsPeer(p)
  PROVE  UNCHANGED server
<1>1. CASE UNCHANGED vars
  BY <1>1, Zenon DEF vars
<1>2. ASSUME NEW p \in Peers, ClientPeerTask(p) PROVE UNCHANGED server
  BY <1>2 DEF ClientPeerTask, DialSucceeds, DialFails, ConfirmPeerStarted, AbortPeer, ReadTarget,
              ReadTargetEnds, ReportStopped, ClientPeerEnds
<1>3. CASE ClientRouteTask \/ ClientReceiver
  BY <1>3, Zenon DEF ClientRouteTask, ClientRouteWakes, ClientRouteJoins, ClientRouteEnds, ClientReceiver,
              ConnectRequested, DisconnectRequested, CloseWriteRequested, WriteTarget,
              RouteStoppedReceived
<1>4. CASE Environment
  BY <1>4, Zenon DEF Environment, UserWrites, UserCloses, TargetWrites, TargetCloses, ClientStopsPeer,
              ClientStopsRoute, BreakLink
<1> QED BY <1>1, <1>2, <1>3, <1>4, Zenon DEF Next, Idle

\* Every step keeps pts_map the table of the running server peers.
LEMMA ServerTableStep ==
  ASSUME Types, ServerTable, [Next]_vars PROVE ServerTable'
<1>a. ServerTypes
  BY DEF Types
<1>b. ASSUME UNCHANGED server PROVE ServerTable'
  BY <1>b, ServerTableFrame DEF server, s_task, s_ctl, s_table
<1>1. ASSUME NEW p \in Peers, ServerPeerTask(p) PROVE ServerTable'
  <2>1. CASE ServerPeerEnds(p)
    BY <1>a, <2>1 DEF ServerPeerEnds, ServerPeerAt, StopServerPeers, RemoveServerPeerConn,
                      ServerTypes, ServerTable
  <2>2. CASE ~ServerPeerEnds(p)
    <3>1. UNCHANGED <<s_conn, s_stop_req, pts_map>>
      BY <1>1, <2>2, ZenonT(60) DEF ServerPeerTask, SendPeerStarted, StatusReceived, WaitTimesOut, StopReceived,
         ReadUser, ReadUserEof, ReadUserFails, StoppedReceived, SendPeerStopped, s_ctl, s_table
    <3>2. PICK to \in {"wait_started", "read", "wait_stopped", "done", "cleanup"} :
            /\ s_pc[p] \in {"start", "wait_started", "read", "wait_stopped", "done"}
            /\ s_pc' = [s_pc EXCEPT ![p] = to]
      BY <1>1, <2>2, Zenon DEF ServerPeerTask, SendPeerStarted, StatusReceived, WaitTimesOut, StopReceived,
         ReadUser, ReadUserEof, ReadUserFails, StoppedReceived, SendPeerStopped, ServerPeerAt
    <3> QED BY <1>a, <3>1, <3>2, Zenon DEF ServerTypes, ServerTable
  <2> QED BY <2>1, <2>2, Zenon
<1>2. CASE ServerRouteTask
  <2>1. ASSUME NEW p \in Peers, NEW b \in BOOLEAN, AcceptTCP(p, b) PROVE ServerTable'
    BY <1>a, <2>1, Zenon DEF AcceptTCP, ServerTypes, ServerTable
  <2>2. ASSUME NEW p \in Peers, AddNewServerPeerConn(p) PROVE ServerTable'
    <3>1. CASE Cardinality(pts_map) >= RouteMax
      BY <1>a, <2>2, <3>1, ZenonT(60) DEF AddNewServerPeerConn, ServerTypes, ServerTable
    <3>2. CASE ~(Cardinality(pts_map) >= RouteMax)
      BY <1>a, <2>2, <3>2, ZenonT(60) DEF AddNewServerPeerConn, ServerTypes, ServerTable
    <3> QED BY <3>1, <3>2
  <2>3. CASE AcceptFails
    BY <1>a, <2>3, StopServerPeersTable DEF AcceptFails, ServerRouteReqStop, s_task, s_table
  <2>4. CASE ServerRouteEnds
    BY <2>4, ServerTableFrame DEF ServerRouteEnds, s_task, s_ctl, s_table
  <2> QED BY <1>2, <2>1, <2>2, <2>3, <2>4 DEF ServerRouteTask
<1>3. CASE ServerReceiver
  <2>1. ASSUME NEW p \in Peers, ReportPeerStarted(p) PROVE ServerTable'
    BY <2>1, ServerTableFrame DEF ReportPeerStarted, s_task, s_table
  <2>2. ASSUME NEW p \in Peers, ReportPeerStopped(p) PROVE ServerTable'
    BY <1>a, <2>2, StopServerPeersTable, Zenon DEF ReportPeerStopped, KnownToServer, s_task, s_table
  <2>3. ASSUME NEW p \in Peers, ReportPeerData(p) PROVE ServerTable'
    BY <1>a, <2>3, StopServerPeersTable, ServerTableFrame
       DEF ReportPeerData, KnownToServer, s_task, s_ctl, s_table
  <2>4. CASE RouteStopRequested
    <3>1. CASE sroute.in_map
      BY <1>a, <2>4, <3>1, StopServerPeersTable
         DEF RouteStopRequested, ServerRouteReqStop, s_task, s_table
    <3>2. CASE ~sroute.in_map
      BY <2>4, <3>2, ServerTableFrame, Zenon DEF RouteStopRequested, s_task, s_ctl, s_table
    <3> QED BY <3>1, <3>2
  <2> QED BY <1>3, <2>1, <2>2, <2>3, <2>4 DEF ServerReceiver
<1>4. CASE ServerStopsRoute
  BY <1>a, <1>4, StopServerPeersTable DEF ServerStopsRoute, ServerRouteReqStop, s_task, s_table
<1>5. ASSUME NEW p \in Peers, ServerStopsPeer(p) PROVE ServerTable'
  BY <1>a, <1>5, StopServerPeersTable, Zenon DEF ServerStopsPeer, s_task, s_table
<1> QED BY <1>b, <1>1, <1>2, <1>3, <1>4, <1>5, OtherStepsKeepServer DEF vars

\* Only the client's tasks and the stops of its operator change the client.
LEMMA OtherStepsKeepClient ==
  ASSUME [Next]_vars, ~ClientRouteTask, ~ClientReceiver, ~ClientStopsRoute,
         \A p \in Peers : ~ClientPeerTask(p) /\ ~ClientStopsPeer(p)
  PROVE  UNCHANGED client
<1>1. CASE UNCHANGED vars
  BY <1>1 DEF vars
<1>2. ASSUME NEW p \in Peers, ServerPeerTask(p) PROVE UNCHANGED client
  BY <1>2, Zenon DEF ServerPeerTask, SendPeerStarted, StatusReceived, WaitTimesOut, StopReceived,
              ReadUser, ReadUserEof, ReadUserFails, StoppedReceived, SendPeerStopped, ServerPeerEnds
<1>3. CASE ServerRouteTask \/ ServerReceiver
  BY <1>3, Zenon DEF ServerRouteTask, AcceptTCP, AddNewServerPeerConn, AcceptFails, ServerRouteEnds,
              ServerReceiver, ReportPeerStarted, ReportPeerStopped, ReportPeerData, RouteStopRequested
<1>4. CASE Environment
  BY <1>4, Zenon DEF Environment, UserWrites, UserCloses, TargetWrites, TargetCloses, ServerStopsPeer,
              ServerStopsRoute, BreakLink
<1> QED BY <1>1, <1>2, <1>3, <1>4 DEF Next, Idle

\* Every step keeps ptc_map right: a dialled peer is in it until it ends.
LEMMA ClientTableStep ==
  ASSUME Types, ClientTable, AnnouncedOnce, [Next]_vars PROVE ClientTable'
<1>a. ClientTypes
  BY DEF Types
<1>b. ASSUME UNCHANGED client PROVE ClientTable'
  BY <1>b, ClientTableFrame, Zenon DEF client, c_task, c_ctl, c_table
<1>1. ASSUME NEW p \in Peers, ClientPeerTask(p) PROVE ClientTable'
  <2>1. CASE DialSucceeds(p)
    BY <1>a, <2>1, Zenon DEF DialSucceeds, ClientPeerAt, ClientTypes, ClientTable
  <2>2. CASE AbortPeer(p)
    BY <1>a, <2>2, Zenon DEF AbortPeer, ClientPeerAt, ClientTypes, ClientTable, c_table
  <2>3. CASE ClientPeerEnds(p)
    BY <1>a, <2>3, Zenon DEF ClientPeerEnds, ClientPeerAt, StopClientPeers, RemoveClientPeerConn,
                      ClientTypes, ClientTable
  <2>4. CASE DialFails(p) \/ ConfirmPeerStarted(p) \/ ReadTarget(p) \/ ReadTargetEnds(p) \/ ReportStopped(p)
    <3>1. UNCHANGED <<c_conn, c_stop_req, ptc_map>>
      BY <2>4, Zenon DEF DialFails, ConfirmPeerStarted, ReadTarget, ReadTargetEnds, ReportStopped,
                  c_ctl, c_table
    <3>2. \/ c_pc[p] \in {"dial", "send_started"} /\ c_pc' = [c_pc EXCEPT ![p] = "abort"]
          \/ c_pc[p] = "send_started" /\ c_pc' = [c_pc EXCEPT ![p] = "run"]
          \/ c_pc[p] = "run" /\ c_pc' = [c_pc EXCEPT ![p] = "run"]
          \/ c_pc[p] = "run" /\ c_pc' = [c_pc EXCEPT ![p] = "end"]
          \/ c_pc[p] = "end" /\ c_pc' = [c_pc EXCEPT ![p] = "cleanup"]
      BY <2>4 DEF DialFails, ConfirmPeerStarted, ReadTarget, ReadTargetEnds, ReportStopped,
                  ClientPeerAt
    <3> QED BY <1>a, <3>1, <3>2 DEF ClientTypes, ClientTable
  <2> QED BY <1>1, <2>1, <2>2, <2>3, <2>4, Zenon DEF ClientPeerTask
<1>2. CASE ClientRouteTask
  BY <1>2, ClientTableFrame DEF ClientRouteTask, ClientRouteWakes, ClientRouteJoins, ClientRouteEnds,
                                c_task, c_ctl, c_table
<1>3. CASE ClientReceiver
  <2>1. ASSUME NEW p \in Peers, ConnectRequested(p) PROVE ClientTable'
    <3>1. c_pc[p] = "none"
      BY <2>1, SMTT(60) DEF ConnectRequested, ClientTakes, AnnouncedOnce, InFlight
    <3> QED BY <1>a, <2>1, <3>1, ZenonT(60) DEF ConnectRequested, ClientTypes, ClientTable, c_ctl, c_table
  <2>2. ASSUME NEW p \in Peers, DisconnectRequested(p) PROVE ClientTable'
    BY <1>a, <2>2, StopClientPeersTable DEF DisconnectRequested, KnownToClient, c_task, c_table
  <2>3. ASSUME NEW p \in Peers, CloseWriteRequested(p) PROVE ClientTable'
    BY <2>3, ClientTableFrame, Zenon DEF CloseWriteRequested, c_task, c_ctl, c_table
  <2>4. ASSUME NEW p \in Peers, WriteTarget(p) PROVE ClientTable'
    BY <1>a, <2>4, StopClientPeersTable, ClientTableFrame
       DEF WriteTarget, KnownToClient, c_task, c_ctl, c_table
  <2>5. CASE RouteStoppedReceived
    BY <1>a, <2>5, StopClientPeersTable, ClientTableFrame, Zenon
       DEF RouteStoppedReceived, ClientRouteReqStop, c_task, c_ctl, c_table
  <2> QED BY <1>3, <2>1, <2>2, <2>3, <2>4, <2>5, Zenon DEF ClientReceiver
<1>4. CASE ClientStopsRoute
  BY <1>a, <1>4, StopClientPeersTable DEF ClientStopsRoute, ClientRouteReqStop, c_task, c_table
<1>5. ASSUME NEW p \in Peers, ClientStopsPeer(p) PROVE ClientTable'
  BY <1>a, <1>5, StopClientPeersTable, Zenon DEF ClientStopsPeer, c_task, c_table
<1> QED BY <1>b, <1>1, <1>2, <1>3, <1>4, <1>5, OtherStepsKeepClient, Zenon

\* Only these steps change the tables.
LEMMA TableSteps ==
  ASSUME [Next]_vars
  PROVE  /\ \/ UNCHANGED <<pts_map, s_peers>>
            \/ \E p \in Peers : ServerPeerEnds(p) \/ AddNewServerPeerConn(p)
         /\ \/ UNCHANGED <<ptc_map, c_peers>>
            \/ \E p \in Peers : ClientPeerEnds(p) \/ DialSucceeds(p)
<1>1. \/ UNCHANGED <<pts_map, s_peers>>
      \/ \E p \in Peers : ServerPeerEnds(p) \/ AddNewServerPeerConn(p)
  <2>1. ASSUME NEW p \in Peers, ServerPeerTask(p)
        PROVE  UNCHANGED <<pts_map, s_peers>> \/ ServerPeerEnds(p)
    BY <2>1, Zenon DEF ServerPeerTask, SendPeerStarted, StatusReceived, WaitTimesOut, StopReceived,
       ReadUser, ReadUserEof, ReadUserFails, StoppedReceived, SendPeerStopped, s_table
  <2>2. CASE ServerRouteTask
    BY <2>2 DEF ServerRouteTask, AcceptTCP, AcceptFails, ServerRouteEnds, s_table
  <2>3. CASE ServerReceiver
    BY <2>3, Zenon DEF ServerReceiver, ReportPeerStarted, ReportPeerStopped, ReportPeerData,
                RouteStopRequested, s_table
  <2>4. ASSUME ServerStopsRoute \/ \E p \in Peers : ServerStopsPeer(p)
        PROVE  UNCHANGED <<pts_map, s_peers>>
    BY <2>4, Zenon DEF ServerStopsRoute, ServerStopsPeer, s_table
  <2>5. ASSUME UNCHANGED server PROVE UNCHANGED <<pts_map, s_peers>>
    BY <2>5 DEF server, s_table
  <2> QED BY <2>1, <2>2, <2>3, <2>4, <2>5, OtherStepsKeepServer, Zenon
<1>2. \/ UNCHANGED <<ptc_map, c_peers>>
      \/ \E p \in Peers : ClientPeerEnds(p) \/ DialSucceeds(p)
  <2>1. ASSUME NEW p \in Peers, ClientPeerTask(p)
        PROVE  UNCHANGED <<ptc_map, c_peers>> \/ ClientPeerEnds(p) \/ DialSucceeds(p)
    BY <2>1 DEF ClientPeerTask, DialFails, ConfirmPeerStarted, AbortPeer, ReadTarget,
                ReadTargetEnds, ReportStopped, c_table
  <2>2. CASE ClientRouteTask
    BY <2>2 DEF ClientRouteTask, ClientRouteWakes, ClientRouteJoins, ClientRouteEnds, c_table
  <2>3. CASE ClientReceiver
    BY <2>3, Zenon DEF ClientReceiver, ConnectRequested, DisconnectRequested, CloseWriteRequested,
                WriteTarget, RouteStoppedReceived, c_table
  <2>4. ASSUME ClientStopsRoute \/ \E p \in Peers : ClientStopsPeer(p)
        PROVE  UNCHANGED <<ptc_map, c_peers>>
    BY <2>4, Zenon DEF ClientStopsRoute, ClientStopsPeer, c_table
  <2>5. ASSUME UNCHANGED client PROVE UNCHANGED <<ptc_map, c_peers>>
    BY <2>5, Zenon DEF client, c_table
  <2> QED BY <2>1, <2>2, <2>3, <2>4, <2>5, OtherStepsKeepClient, Zenon
<1> QED BY <1>1, <1>2

-----------------------------------------------------------------------------
(* The handshake.                                                          *)

\* Peers only leave the states before their announcement or their dialling, so
\* all but the two steps that announce and dial keep AnnouncedOnce.
LEMMA AnnouncedOnceKept ==
  ASSUME StreamTypes, AnnouncedOnce, NoNew(s2c, s2c', "PEER_STARTED"),
         \A p \in Peers : s_pc'[p] \in {"none", "accepted", "start"} =>
                            s_pc[p] \in {"none", "accepted", "start"},
         \A p \in Peers : c_pc[p] = "none" => c_pc'[p] = "none"
  PROVE  AnnouncedOnce'
<1>1. s2c \in Seq(Packet)
  BY Zenon DEF StreamTypes
<1>2. \A p \in Peers : InFlight(s2c', "PEER_STARTED", p) => InFlight(s2c, "PEER_STARTED", p)
  BY <1>1, NoNewInFlight, Zenon
<1>3. Once(s2c', "PEER_STARTED")
  <2>1. Once(s2c, "PEER_STARTED")
    BY Zenon DEF AnnouncedOnce, Once
  <2> QED BY <1>1, <2>1, OnceNoNew, Zenon
<1>4. \A p \in Peers : /\ InFlight(s2c, "PEER_STARTED", p)' <=> InFlight(s2c', "PEER_STARTED", p)
  BY DEF InFlight
<1> QED BY <1>2, <1>3, <1>4, Zenon DEF AnnouncedOnce, Once

\* The kind of a packet.
LEMMA PktKind == \A k, p : Pkt(k, p).kind = k
BY Zenon DEF Pkt

Tracked == {"PEER_STARTED", "PEER_DATA", "PEER_EOF", "PEER_STOPPED"}

\* Which steps put a start, a chunk of data or an end into the stream.
LEMMA ServerTaskSends ==
  ASSUME Types, NEW p \in Peers, ServerPeerTask(p), NEW k \in Tracked,
         k = "PEER_STARTED" => ~SendPeerStarted(p), k = "PEER_DATA" => ~ReadUser(p),
         k = "PEER_EOF" => ~ReadUserEof(p), k = "PEER_STOPPED" => ~SendPeerStopped(p)
  PROVE  NoNew(s2c, s2c', k) /\ NoNew(c2s, c2s', k)
<1>a. \A x \in {"PEER_STARTED", "PEER_EOF", "PEER_STOPPED"} :
        ServerSends(Pkt(x, p)) /\ x # k => NoNew(s2c, s2c', k) /\ NoNew(c2s, c2s', k)
  BY NoNewCases, PktKind, PktType, Zenon DEF ServerSends, PeerKinds
<1>b. ServerSends(DataPkt(p, s_rd[p] + 1)) /\ k # "PEER_DATA" =>
        NoNew(s2c, s2c', k) /\ NoNew(c2s, c2s', k)
  <2>1. DataPkt(p, s_rd[p] + 1) \in Packet
    BY PktType DEF Types, ServerTypes, PeerKinds
  <2>2. DataPkt(p, s_rd[p] + 1).kind = "PEER_DATA"
    BY DEF DataPkt
  <2> QED BY <2>1, <2>2, NoNewCases, Zenon DEF ServerSends
<1>c. UNCHANGED stream => NoNew(s2c, s2c', k) /\ NoNew(c2s, c2s', k)
  BY NoNewCases, Zenon DEF stream
<1>1. CASE SendPeerStarted(p)
  BY <1>1, <1>a, <1>c DEF SendPeerStarted, SendFails, Tracked
<1>2. CASE ReadUser(p)
  BY <1>2, <1>b, <1>c, Zenon DEF ReadUser, SendFails, Tracked
<1>3. CASE ReadUserEof(p)
  BY <1>3, <1>a, <1>c, Zenon DEF ReadUserEof, SendFails, Tracked
<1>4. CASE SendPeerStopped(p)
  BY <1>4, <1>a, Zenon DEF SendPeerStopped, Tracked
<1>5. CASE ~SendPeerStarted(p) /\ ~ReadUser(p) /\ ~ReadUserEof(p) /\ ~SendPeerStopped(p)
  BY <1>5, <1>c, Zenon DEF ServerPeerTask, StatusReceived, WaitTimesOut, StopReceived, ReadUserFails,
                    StoppedReceived, ServerPeerEnds
<1> QED BY <1>1, <1>2, <1>3, <1>4, <1>5

\* The same of the tasks of the client's peers.
LEMMA ClientTaskSends ==
  ASSUME Types, NEW p \in Peers, ClientPeerTask(p), NEW k \in Tracked,
         k = "PEER_STARTED" => ~ConfirmPeerStarted(p), k = "PEER_DATA" => ~ReadTarget(p),
         k = "PEER_STOPPED" => ~ReportStopped(p)
  PROVE  NoNew(s2c, s2c', k) /\ NoNew(c2s, c2s', k)
<1>a. \A x \in {"PEER_STARTED", "PEER_ABORTED", "PEER_STOPPED"} :
        ClientSends(Pkt(x, p)) /\ x # k => NoNew(s2c, s2c', k) /\ NoNew(c2s, c2s', k)
  BY NoNewCases, PktKind, PktType, Zenon DEF ClientSends, PeerKinds
<1>b. ClientSends(DataPkt(p, c_rd[p] + 1)) /\ k # "PEER_DATA" =>
        NoNew(s2c, s2c', k) /\ NoNew(c2s, c2s', k)
  <2>1. DataPkt(p, c_rd[p] + 1) \in Packet
    BY PktType DEF Types, ClientTypes, PeerKinds
  <2>2. DataPkt(p, c_rd[p] + 1).kind = "PEER_DATA"
    BY DEF DataPkt
  <2> QED BY <2>1, <2>2, NoNewCases, Zenon DEF ClientSends
<1>c. UNCHANGED stream => NoNew(s2c, s2c', k) /\ NoNew(c2s, c2s', k)
  BY NoNewCases DEF stream
<1>1. CASE ConfirmPeerStarted(p)
  BY <1>1, <1>a, <1>c, Zenon DEF ConfirmPeerStarted, SendFails, Tracked
<1>2. CASE ReadTarget(p)
  BY <1>2, <1>b, <1>c, Zenon DEF ReadTarget, SendFails, Tracked
<1>3. CASE AbortPeer(p) \/ ReportStopped(p)
  BY <1>3, <1>a, Zenon DEF AbortPeer, ReportStopped, Tracked
<1>4. CASE ~ConfirmPeerStarted(p) /\ ~ReadTarget(p) /\ ~AbortPeer(p) /\ ~ReportStopped(p)
  BY <1>4, <1>c, Zenon DEF ClientPeerTask, DialSucceeds, DialFails, ReadTargetEnds, ClientPeerEnds
<1> QED BY <1>1, <1>2, <1>3, <1>4, SMTT(60)

\* No other step sends one.
LEMMA OtherSends ==
  ASSUME [Next]_vars, \A p \in Peers : ~ServerPeerTask(p) /\ ~ClientPeerTask(p), NEW k \in Tracked
  PROVE  NoNew(s2c, s2c', k) /\ NoNew(c2s, c2s', k)
<1>c. UNCHANGED stream => NoNew(s2c, s2c', k) /\ NoNew(c2s, c2s', k)
  BY NoNewCases DEF stream
<1>1. CASE ServerRouteTask
  BY <1>1, <1>c, Zenon DEF ServerRouteTask, AcceptTCP, AddNewServerPeerConn, AcceptFails, ServerRouteEnds
<1>2. CASE ServerReceiver
  <2>1. c2s # <<>> /\ c2s' = Tail(c2s)
    BY <1>2, Zenon DEF ServerReceiver, ReportPeerStarted, ReportPeerStopped, ReportPeerData,
                RouteStopRequested, ServerTakes
  <2>2. s2c' = s2c \/ s2c' = Append(s2c, Pkt("ROUTE_STOPPED", 0))
    BY <1>2, Zenon DEF ServerReceiver, ReportPeerStarted, ReportPeerStopped, ReportPeerData,
                RouteStopRequested
  <2>3. Pkt("ROUTE_STOPPED", 0) \in Packet /\ Pkt("ROUTE_STOPPED", 0).kind # k
    BY PktKind, RoutePktType DEF RouteKinds, Tracked
  <2>4. NoNew(s2c, s2c', k)
    BY <2>2, <2>3, NoNewCases, Zenon
  <2> QED BY <2>1, <2>4, NoNewCases
<1>3. CASE ClientRouteTask
  <2>1. CASE ClientRouteJoins
    BY <2>1, NoNewCases, PktKind, RoutePktType, Zenon DEF ClientRouteJoins, ClientSends, RouteKinds, Tracked
  <2>2. CASE ClientRouteWakes \/ ClientRouteEnds
    BY <2>2, <1>c DEF ClientRouteWakes, ClientRouteEnds
  <2> QED BY <1>3, <2>1, <2>2, Zenon DEF ClientRouteTask
<1>4. CASE ClientReceiver
  <2>1. s2c # <<>> /\ s2c' = Tail(s2c)
    BY <1>4, Zenon DEF ClientReceiver, ConnectRequested, DisconnectRequested, CloseWriteRequested,
                WriteTarget, RouteStoppedReceived, ClientTakes
  <2>2. c2s' = c2s \/ \E p \in Peers : c2s' = Append(c2s, Pkt("PEER_ABORTED", p))
    BY <1>4, Zenon DEF ClientReceiver, ConnectRequested, DisconnectRequested, CloseWriteRequested,
                WriteTarget, RouteStoppedReceived
  <2>3. \A p \in Peers : Pkt("PEER_ABORTED", p) \in Packet /\ Pkt("PEER_ABORTED", p).kind # k
    BY PktKind, PktType DEF PeerKinds, Tracked
  <2>4. NoNew(c2s, c2s', k)
    BY <2>2, <2>3, NoNewCases, Zenon
  <2> QED BY <2>1, <2>4, NoNewCases, Zenon
<1>5. CASE Environment
  BY <1>5, <1>c, NoNewCases, Zenon
     DEF Environment, UserWrites, UserCloses, TargetWrites, TargetCloses, ServerStopsPeer,
         ClientStopsPeer, ServerStopsRoute, ClientStopsRoute, BreakLink
<1>6. CASE UNCHANGED vars
  BY <1>6, <1>c, Zenon DEF vars
<1> QED BY <1>1, <1>2, <1>3, <1>4, <1>5, <1>6, Zenon DEF Next, Idle

\* No step takes a peer back to a state before its announcement, or before
\* its confirmation.
LEMMA ServerPcMoves ==
  ASSUME Types, [Next]_vars, NEW p \in Peers, s_pc'[p] \in {"none", "accepted", "start"}
  PROVE  s_pc[p] \in {"none", "accepted", "start"}
<1>a. s_pc \in [Peers -> SPcs]
  BY Zenon DEF Types, ServerTypes
<1>1. ASSUME NEW x \in Peers, ServerPeerTask(x)
      PROVE  \E to \in {"wait_started", "read", "wait_stopped", "done", "cleanup", "gone"} :
               s_pc' = [s_pc EXCEPT ![x] = to]
  BY <1>1, Zenon DEF ServerPeerTask, SendPeerStarted, StatusReceived, WaitTimesOut, StopReceived,
     ReadUser, ReadUserEof, ReadUserFails, StoppedReceived, SendPeerStopped, ServerPeerEnds,
     ServerPeerAt
<1>2. CASE ServerRouteTask
  <2>1. \/ s_pc' = s_pc
        \/ \E x \in Peers, to \in {"accepted", "start", "gone"} :
             s_pc[x] \in {"none", "accepted"} /\ s_pc' = [s_pc EXCEPT ![x] = to]
    BY <1>2 DEF ServerRouteTask, AcceptTCP, AddNewServerPeerConn, AcceptFails, ServerRouteEnds, s_task
  <2> QED BY <1>a, <2>1
<1>3. ASSUME \/ ServerReceiver \/ ServerStopsRoute \/ \E x \in Peers : ServerStopsPeer(x)
      PROVE  s_pc' = s_pc
  BY <1>3, Zenon DEF ServerReceiver, ReportPeerStarted, ReportPeerStopped, ReportPeerData,
              RouteStopRequested, ServerStopsRoute, ServerStopsPeer, s_task
<1>4. ASSUME UNCHANGED server PROVE s_pc' = s_pc
  BY <1>4, Zenon DEF server, s_task
<1> QED BY <1>a, <1>1, <1>2, <1>3, <1>4, OtherStepsKeepServer

\* The same of the client's peers.
LEMMA ClientPcMoves ==
  ASSUME Types, [Next]_vars, NEW p \in Peers
  PROVE  /\ c_pc[p] = "none" => c_pc'[p] = "none" \/ ConnectRequested(p)
         /\ AnnouncedOnce /\ c_pc'[p] \in Unconfirmed => c_pc[p] \in Unconfirmed
         /\ AnnouncedOnce /\ c_pc'[p] \in {"none", "dial", "send_started"} =>
              c_pc[p] \in {"none", "dial", "send_started"}
<1>a. c_pc \in [Peers -> CPcs]
  BY Zenon DEF Types, ClientTypes
<1>1. ASSUME NEW x \in Peers, ClientPeerTask(x)
      PROVE  \/ c_pc[x] = "dial" /\ c_pc' = [c_pc EXCEPT ![x] = "send_started"]
             \/ c_pc[x] \in {"dial", "send_started"} /\ c_pc' = [c_pc EXCEPT ![x] = "abort"]
             \/ \E to \in {"run", "end", "cleanup", "gone"} :
                  c_pc[x] # "none" /\ c_pc' = [c_pc EXCEPT ![x] = to]
  BY <1>1, Zenon DEF ClientPeerTask, DialSucceeds, DialFails, ConfirmPeerStarted, AbortPeer, ReadTarget,
              ReadTargetEnds, ReportStopped, ClientPeerEnds, ClientPeerAt
<1>2. ASSUME NEW x \in Peers, ConnectRequested(x)
      PROVE  /\ AnnouncedOnce => c_pc[x] = "none"
             /\ c_pc' = c_pc \/ c_pc' = [c_pc EXCEPT ![x] = "dial"]
  <2>1. s2c # <<>> /\ Head(s2c).kind = "PEER_STARTED" /\ Head(s2c).peer = x /\ s2c \in Seq(Packet)
    BY <1>2, Zenon DEF ConnectRequested, ClientTakes, Types, StreamTypes
  <2>2. InFlight(s2c, "PEER_STARTED", x)
    BY <2>1 DEF InFlight
  <2> QED BY <1>2, <2>2, ZenonT(60) DEF ConnectRequested, AnnouncedOnce
<1>3. ASSUME ClientReceiver, \A x \in Peers : ~ConnectRequested(x)
      PROVE  c_pc' = c_pc
  BY <1>3, Zenon DEF ClientReceiver, DisconnectRequested, CloseWriteRequested, WriteTarget,
              RouteStoppedReceived, c_task
<1>4. ASSUME \/ ClientRouteTask \/ ClientStopsRoute \/ \E x \in Peers : ClientStopsPeer(x)
      PROVE  c_pc' = c_pc
  BY <1>4, Zenon DEF ClientRouteTask, ClientRouteWakes, ClientRouteJoins, ClientRouteEnds,
              ClientStopsRoute, ClientStopsPeer, c_task
<1>5. ASSUME UNCHANGED client PROVE c_pc' = c_pc
  BY <1>5, Zenon DEF client, c_task
<1>6. CASE c_pc' = c_pc
  BY <1>6
<1>7. CASE \E x \in Peers : ClientPeerTask(x)
  BY <1>a, <1>1, <1>7, Zenon DEF Unconfirmed
<1>8. CASE \E x \in Peers : ConnectRequested(x)
  BY <1>a, <1>2, <1>8 DEF Unconfirmed
<1> QED BY <1>3, <1>4, <1>5, <1>6, <1>7, <1>8, OtherStepsKeepClient, Zenon

\* Every step keeps AnnouncedOnce: PEER_STARTED is sent and acted on once.
LEMMA AnnouncedOnceStep ==
  ASSUME Types, AnnouncedOnce, [Next]_vars PROVE AnnouncedOnce'
<1>a. StreamTypes /\ s2c \in Seq(Packet) /\ c_pc \in [Peers -> CPcs] /\ s_pc \in [Peers -> SPcs]
  BY DEF Types, StreamTypes, ClientTypes, ServerTypes
<1>b. \A q : InFlight(s2c, "PEER_STARTED", q)' <=> InFlight(s2c', "PEER_STARTED", q)
  BY Zenon DEF InFlight
<1>1. ASSUME NEW p \in Peers, SendPeerStarted(p) PROVE AnnouncedOnce'
  <2>1. UNCHANGED c_pc
    BY <1>1, Zenon DEF SendPeerStarted, client, c_task
  <2>2. CASE s2c' = s2c
    BY <2>1, <2>2, <1>a, AnnouncedOnceKept, NoNewCases, ServerPcMoves, Zenon
  <2>3. CASE s2c' # s2c
    <3> DEFINE m == Pkt("PEER_STARTED", p)
    <3>1. s_pc[p] = "start" /\ s_pc' = [s_pc EXCEPT ![p] = "wait_started"] /\ s2c' = Append(s2c, m)
      BY <1>1, <2>3, Zenon DEF SendPeerStarted, ServerPeerAt, ServerSends, SendFails, stream
    <3>2. m \in Packet /\ m.kind = "PEER_STARTED" /\ m.peer = p
      BY PktType, Zenon DEF Pkt, PeerKinds
    <3> HIDE DEF m
    <3>3. c_pc[p] = "none" /\ ~InFlight(s2c, "PEER_STARTED", p)
      BY <3>1, Zenon DEF AnnouncedOnce
    <3>4. \A q \in Peers : InFlight(s2c', "PEER_STARTED", q) =>
                             q = p \/ InFlight(s2c, "PEER_STARTED", q)
      BY <1>a, <3>1, <3>2 DEF InFlight
    <3>5. \A i \in 1..Len(s2c') : /\ i \in 1..Len(s2c) => s2c'[i] = s2c[i]
                                  /\ i \notin 1..Len(s2c) => i = Len(s2c) + 1 /\ s2c'[i] = m
      BY <1>a, <3>1, <3>2
    <3>6. \A i \in 1..Len(s2c) : s2c[i].kind = "PEER_STARTED" => s2c[i].peer # p
      BY <3>3, Zenon DEF InFlight
    <3>7. \A i, j \in 1..Len(s2c') :
            /\ s2c'[i].kind = "PEER_STARTED" /\ s2c'[j].kind = "PEER_STARTED"
            /\ s2c'[i].peer = s2c'[j].peer
            => i = j
      BY <3>2, <3>5, <3>6, ZenonT(60) DEF AnnouncedOnce
    <3>8. \A q \in Peers : s_pc'[q] \in {"none", "accepted", "start"} =>
                             q # p /\ s_pc[q] \in {"none", "accepted", "start"}
      BY <1>a, <3>1
    <3> QED BY <1>b, <2>1, <3>3, <3>4, <3>7, <3>8, Zenon DEF AnnouncedOnce
  <2> QED BY <2>2, <2>3
<1>2. ASSUME NEW p \in Peers, ConnectRequested(p) PROVE AnnouncedOnce'
  <2>1. s2c # <<>> /\ s2c' = Tail(s2c) /\ Head(s2c).kind = "PEER_STARTED" /\ Head(s2c).peer = p
    BY <1>2 DEF ConnectRequested, ClientTakes
  <2>2. c_pc' = c_pc \/ c_pc' = [c_pc EXCEPT ![p] = "dial"]
    BY <1>2, Zenon DEF ConnectRequested
  <2>3. UNCHANGED s_pc
    BY <1>2 DEF ConnectRequested, server, s_task
  <2>4. NoNew(s2c, s2c', "PEER_STARTED")
    BY <2>1, NoNewCases, Zenon
  <2>5. CASE c_pc' = c_pc
    BY <2>3, <2>4, <2>5, <1>a, AnnouncedOnceKept, Zenon
  <2>6. CASE c_pc' = [c_pc EXCEPT ![p] = "dial"]
    <3>1. /\ Len(s2c') = Len(s2c) - 1
          /\ \A i \in 1..Len(s2c') : i + 1 \in 1..Len(s2c) /\ s2c'[i] = s2c[i + 1]
          /\ 1 \in 1..Len(s2c) /\ s2c[1] = Head(s2c)
      BY <1>a, <2>1
    <3>2. ~InFlight(s2c', "PEER_STARTED", p)
      <4>1. SUFFICES ASSUME NEW i \in 1..Len(s2c'), s2c'[i].kind = "PEER_STARTED", s2c'[i].peer = p
                     PROVE  FALSE
        BY DEF InFlight
      <4>2. i + 1 \in 1..Len(s2c) /\ s2c[i + 1].kind = "PEER_STARTED" /\ s2c[i + 1].peer = p
        BY <3>1, <4>1, Zenon
      <4>3. i + 1 = 1
        BY <2>1, <3>1, <4>2 DEF AnnouncedOnce
      <4> QED BY <4>1, <4>3
    <3>3. s_pc[p] \notin {"none", "accepted", "start"}
      BY <2>1, <3>1, Zenon DEF AnnouncedOnce, InFlight
    <3>4. \A q \in Peers : InFlight(s2c', "PEER_STARTED", q) => InFlight(s2c, "PEER_STARTED", q)
      BY <1>a, <2>4, NoNewInFlight, Zenon
    <3>5. \A i, j \in 1..Len(s2c') :
            /\ s2c'[i].kind = "PEER_STARTED" /\ s2c'[j].kind = "PEER_STARTED"
            /\ s2c'[i].peer = s2c'[j].peer
            => i = j
      BY <1>a, <3>1 DEF AnnouncedOnce
    <3> QED BY <1>a, <1>b, <2>3, <2>6, <3>2, <3>3, <3>4, <3>5, Zenon DEF AnnouncedOnce
  <2> QED BY <2>2, <2>5, <2>6, Zenon
<1>3. CASE ~\E p \in Peers : SendPeerStarted(p) \/ ConnectRequested(p)
  <2>1. "PEER_STARTED" \in Tracked
    BY Zenon DEF Tracked
  <2>2. NoNew(s2c, s2c', "PEER_STARTED")
    <3>1. ASSUME NEW p \in Peers, ClientPeerTask(p) PROVE s2c' = s2c
      BY <3>1, Zenon DEF ClientPeerTask, DialSucceeds, DialFails, ConfirmPeerStarted, AbortPeer, ReadTarget,
                  ReadTargetEnds, ReportStopped, ClientPeerEnds, ClientSends, SendFails, stream
    <3> QED BY <1>3, <2>1, <3>1, ServerTaskSends, NoNewCases, OtherSends, Zenon
  <2> QED BY <1>a, <1>3, <2>2, AnnouncedOnceKept, ServerPcMoves, ClientPcMoves
<1> QED BY <1>1, <1>2, <1>3, Zenon

\* The server reads from a user only in the read loop, enters it only with a
\* started status, and has such a status only from PEER_STARTED of the client.
LEMMA ServerMoves ==
  ASSUME Types, [Next]_vars, NEW p \in Peers
  PROVE  /\ s_rd'[p] = s_rd[p] \/ s_pc[p] = "read"
         /\ s_pc'[p] \in {"read", "wait_stopped"} =>
              \/ s_pc[p] \in {"read", "wait_stopped"}
              \/ \E i \in 1..Len(s_status[p]) : s_status[p][i] = "started"
         /\ \A i \in 1..Len(s_status'[p]) : s_status'[p][i] = "started" =>
              \/ \E j \in 1..Len(s_status[p]) : s_status[p][j] = "started"
              \/ InFlight(c2s, "PEER_STARTED", p)
<1> DEFINE HasStarted == \E j \in 1..Len(s_status[p]) : s_status[p][j] = "started"
           Good == /\ s_rd'[p] = s_rd[p] \/ s_pc[p] = "read"
                   /\ s_pc'[p] \in {"read", "wait_stopped"} =>
                        s_pc[p] \in {"read", "wait_stopped"} \/ HasStarted
                   /\ \A i \in 1..Len(s_status'[p]) : s_status'[p][i] = "started" =>
                        HasStarted \/ InFlight(c2s, "PEER_STARTED", p)
<1>a. /\ s_pc \in [Peers -> SPcs] /\ s_rd \in [Peers -> Nat]
      /\ s_status \in [Peers -> Seq({"started", "stopped"})]
      /\ s_status[p] \in Seq({"started", "stopped"})
  BY Zenon DEF Types, ServerTypes
<1>b. ASSUME UNCHANGED <<s_task, s_status>> PROVE Good
  BY <1>b, Zenon DEF s_task
<1>c. ASSUME NEW ps, StopServerPeers(ps), s_rd' = s_rd,
             s_pc' = s_pc \/ \E x \in Peers : s_pc' = [s_pc EXCEPT ![x] = "gone"]
      PROVE  Good
  <2>1. s_pc'[p] = s_pc[p] \/ s_pc'[p] = "gone"
    BY <1>a, <1>c, Zenon
  <2>2. \/ s_status'[p] = s_status[p]
        \/ s_status'[p] = Append(s_status[p], "stopped")
        \/ s_status'[p] = Append(Append(s_status[p], "stopped"), "stopped")
    BY <1>c, Zenon DEF StopServerPeers
  <2>3. \A i \in 1..Len(s_status'[p]) : s_status'[p][i] = "started" => HasStarted
    <3>1. CASE s_status'[p] = s_status[p]
      BY <3>1, Zenon
    <3>2. CASE s_status'[p] = Append(s_status[p], "stopped")
      BY <1>a, <3>2
    <3>3. CASE s_status'[p] = Append(Append(s_status[p], "stopped"), "stopped")
      <4>1. \A i \in 1..Len(s_status'[p]) :
              s_status'[p][i] = IF i \in 1..Len(s_status[p]) THEN s_status[p][i] ELSE "stopped"
        BY <1>a, <3>3
      <4> QED BY <4>1
    <3> QED BY <2>2, <3>1, <3>2, <3>3, Zenon
  <2> QED BY <1>c, <2>1, <2>3, Zenon
<1>d. ASSUME NEW x \in Peers, s_pc[x] # "none", s_status[x] # <<>>,
             s_status' = [s_status EXCEPT ![x] = Tail(@)], s_rd' = s_rd,
             \/ s_pc' = [s_pc EXCEPT ![x] = "done"]
             \/ s_pc' = [s_pc EXCEPT ![x] = "read"] /\ Head(s_status[x]) = "started"
      PROVE  Good
  <2>1. CASE x = p
    <3>1. /\ Len(s_status'[p]) = Len(s_status[p]) - 1 /\ s_status[p] # <<>>
          /\ \A i \in 1..Len(s_status'[p]) :
               i + 1 \in 1..Len(s_status[p]) /\ s_status'[p][i] = s_status[p][i + 1]
      BY <1>a, <1>d, <2>1
    <3>2. \A i \in 1..Len(s_status'[p]) : s_status'[p][i] = "started" => HasStarted
      BY <3>1, Zenon
    <3>3. s_pc'[p] \in {"read", "wait_stopped"} => HasStarted
      <4>1. 1 \in 1..Len(s_status[p]) /\ Head(s_status[p]) = s_status[p][1]
        BY <1>a, <3>1
      <4> QED BY <1>a, <1>d, <2>1, <4>1, Zenon
    <3> QED BY <1>d, <3>2, <3>3, Zenon
  <2>2. CASE x # p
    BY <1>a, <1>d, <2>2, Zenon
  <2> QED BY <2>1, <2>2, Zenon
<1>e. ASSUME NEW x \in Peers, s_status' = s_status,
             s_rd' = s_rd \/ (s_pc[x] = "read" /\ s_rd' = [s_rd EXCEPT ![x] = @ + 1]),
             \E to \in SPcs : /\ s_pc' = [s_pc EXCEPT ![x] = to]
                              /\ to \in {"read", "wait_stopped"} => s_pc[x] \in {"read", "wait_stopped"}
      PROVE  Good
  BY <1>a, <1>e, Zenon
<1> HIDE DEF Good
<1>1. ASSUME NEW x \in Peers, ServerPeerTask(x) PROVE Good
  <2>1. CASE StatusReceived(x) \/ StoppedReceived(x)
    BY <2>1, <1>d DEF StatusReceived, StoppedReceived, ServerPeerAt
  <2>2. CASE ServerPeerEnds(x)
    BY <2>2, <1>c, Zenon DEF ServerPeerEnds, ServerPeerAt
  <2>3. CASE ReadUser(x)
    BY <2>3, <1>e, Zenon DEF ReadUser, ServerPeerAt, s_ctl, SPcs
  <2>4. CASE SendPeerStarted(x) \/ ReadUserEof(x)
    BY <2>4, <1>e, Zenon DEF SendPeerStarted, ReadUserEof, ServerPeerAt, s_ctl, SPcs
  <2>5. CASE WaitTimesOut(x) \/ StopReceived(x) \/ ReadUserFails(x) \/ SendPeerStopped(x)
    BY <2>5, <1>e, Zenon DEF WaitTimesOut, StopReceived, ReadUserFails, SendPeerStopped, ServerPeerAt,
                      s_ctl, SPcs
  <2> QED BY <1>1, <2>1, <2>2, <2>3, <2>4, <2>5, SMTT(60) DEF ServerPeerTask
<1>2. ASSUME ServerRouteTask PROVE Good
  <2>1. ASSUME NEW x \in Peers, NEW b \in BOOLEAN, AcceptTCP(x, b) PROVE Good
    BY <2>1, <1>e, Zenon DEF AcceptTCP, SPcs
  <2>2. ASSUME NEW x \in Peers, AddNewServerPeerConn(x) PROVE Good
    BY <2>2, <1>e DEF AddNewServerPeerConn, SPcs
  <2>3. CASE AcceptFails
    BY <2>3, <1>c, Zenon DEF AcceptFails, ServerRouteReqStop, s_task
  <2>4. CASE ServerRouteEnds
    BY <2>4, <1>b DEF ServerRouteEnds, s_ctl
  <2> QED BY <1>2, <2>1, <2>2, <2>3, <2>4, SMTT(60) DEF ServerRouteTask
<1>3. ASSUME ServerReceiver PROVE Good
  <2>1. ASSUME NEW x \in Peers, ReportPeerStarted(x) PROVE Good
    <3>1. UNCHANGED s_task
      BY <2>1, Zenon DEF ReportPeerStarted
    <3>2. CASE s_status' = s_status
      BY <3>1, <3>2, <1>b
    <3>3. CASE s_status' = [s_status EXCEPT ![x] = Append(@, "started")]
      <4>1. CASE x = p
        <5>1. c2s # <<>> /\ Head(c2s).kind = "PEER_STARTED" /\ Head(c2s).peer = p /\ c2s \in Seq(Packet)
          BY <2>1, <4>1, Zenon DEF ReportPeerStarted, ServerTakes, Types, StreamTypes
        <5>2. InFlight(c2s, "PEER_STARTED", p)
          BY <5>1 DEF InFlight
        <5> QED BY <3>1, <5>2, Zenon DEF s_task, Good
      <4>2. CASE x # p
        <5>1. s_status'[p] = s_status[p]
          BY <1>a, <3>3, <4>2, Zenon
        <5> QED BY <3>1, <5>1, Zenon DEF s_task, Good
      <4> QED BY <4>1, <4>2, Zenon
    <3> QED BY <2>1, <3>2, <3>3 DEF ReportPeerStarted
  <2>2. ASSUME NEW x \in Peers, ReportPeerStopped(x) PROVE Good
    BY <2>2, <1>c, Zenon DEF ReportPeerStopped, s_task
  <2>3. ASSUME NEW x \in Peers, ReportPeerData(x) PROVE Good
    BY <2>3, <1>b, <1>c, Zenon DEF ReportPeerData, s_task, s_ctl
  <2>4. CASE RouteStopRequested
    BY <2>4, <1>b, <1>c DEF RouteStopRequested, ServerRouteReqStop, s_task, s_ctl
  <2> QED BY <1>3, <2>1, <2>2, <2>3, <2>4, Zenon DEF ServerReceiver
<1>4. ASSUME ServerStopsRoute PROVE Good
  BY <1>4, <1>c, Zenon DEF ServerStopsRoute, ServerRouteReqStop, s_task
<1>5. ASSUME NEW x \in Peers, ServerStopsPeer(x) PROVE Good
  BY <1>5, <1>c DEF ServerStopsPeer, s_task
<1>6. ASSUME UNCHANGED server PROVE Good
  BY <1>6, <1>b, Zenon DEF server, s_ctl
<1>7. Good
  BY <1>1, <1>2, <1>3, <1>4, <1>5, <1>6, OtherStepsKeepServer, Zenon
<1> QED BY <1>7, Zenon DEF Good

\* The client reads from a target only when its task runs.
LEMMA ClientReads ==
  ASSUME Types, [Next]_vars, NEW p \in Peers PROVE c_rd'[p] = c_rd[p] \/ c_pc[p] = "run"
<1>1. ASSUME NEW x \in Peers, ClientPeerTask(x)
      PROVE  c_rd' = c_rd \/ (c_pc[x] = "run" /\ c_rd' = [c_rd EXCEPT ![x] = @ + 1])
  BY <1>1, Zenon DEF ClientPeerTask, DialSucceeds, DialFails, ConfirmPeerStarted, AbortPeer, ReadTarget,
              ReadTargetEnds, ReportStopped, ClientPeerEnds, ClientPeerAt
<1>2. CASE ClientReceiver
  BY <1>2, Zenon DEF ClientReceiver, ConnectRequested, DisconnectRequested, CloseWriteRequested,
              WriteTarget, RouteStoppedReceived, c_task
<1>3. CASE \/ ClientRouteTask \/ ClientStopsRoute \/ \E x \in Peers : ClientStopsPeer(x)
  BY <1>3, Zenon DEF ClientRouteTask, ClientRouteWakes, ClientRouteJoins, ClientRouteEnds,
              ClientStopsRoute, ClientStopsPeer, c_task
<1>4. CASE UNCHANGED client
  BY <1>4 DEF client, c_task
<1>5. c_rd \in [Peers -> Nat]
  BY Zenon DEF Types, ClientTypes
<1> QED BY <1>1, <1>2, <1>3, <1>4, <1>5, OtherStepsKeepClient, Zenon

\* Every step keeps ReadAfterConfirm: no end reads before the client connected.
LEMMA ReadAfterConfirmStep ==
  ASSUME Types, AnnouncedOnce, ReadAfterConfirm, [Next]_vars PROVE ReadAfterConfirm'
<1>a. /\ c2s \in Seq(Packet) /\ c_pc \in [Peers -> CPcs]
  BY SMTT(60) DEF Types, StreamTypes, ClientTypes
<1> SUFFICES ASSUME NEW p \in Peers
             PROVE  /\ c_pc'[p] \in Unconfirmed =>
                         /\ ~InFlight(c2s', "PEER_STARTED", p)
                         /\ \A i \in 1..Len(s_status'[p]) : s_status'[p][i] # "started"
                         /\ s_pc'[p] \notin {"read", "wait_stopped"}
                         /\ s_rd'[p] = 0
                    /\ c_pc'[p] \in {"none", "dial", "send_started"} => c_rd'[p] = 0
  BY Zenon DEF ReadAfterConfirm, InFlight, Unconfirmed
<1>1. c_pc'[p] \in Unconfirmed => c_pc[p] \in Unconfirmed
  BY ClientPcMoves
<1>2. c_pc'[p] \in Unconfirmed /\ InFlight(c2s', "PEER_STARTED", p) => InFlight(c2s, "PEER_STARTED", p)
  <2>1. ASSUME NEW x \in Peers, ConfirmPeerStarted(x) PROVE
          c_pc'[p] \in Unconfirmed /\ InFlight(c2s', "PEER_STARTED", p) =>
            InFlight(c2s, "PEER_STARTED", p)
    <3>1. CASE x = p
      <4>1. c_pc' = [c_pc EXCEPT ![p] = "run"] \/ c2s' = c2s
        BY <2>1, <3>1, Zenon DEF ConfirmPeerStarted, ClientPeerAt, SendFails, stream
      <4> QED BY <1>a, <4>1, Zenon DEF Unconfirmed
    <3>2. CASE x # p
      <4> DEFINE m == Pkt("PEER_STARTED", x)
      <4>1. c2s' = c2s \/ c2s' = Append(c2s, m)
        BY <2>1 DEF ConfirmPeerStarted, ClientSends, SendFails, stream
      <4>2. m \in Packet /\ m.peer # p
        BY <3>2, PktType, Zenon DEF Pkt, PeerKinds
      <4> HIDE DEF m
      <4> QED BY <1>a, <4>1, <4>2, SMTT(60) DEF InFlight
    <3> QED BY <3>1, <3>2, Zenon
  <2>2. CASE ~\E x \in Peers : ConfirmPeerStarted(x)
    <3>1. "PEER_STARTED" \in Tracked
      BY Zenon DEF Tracked
    <3>2. NoNew(c2s, c2s', "PEER_STARTED")
      <4>1. ASSUME NEW x \in Peers, ServerPeerTask(x) PROVE c2s' = c2s
        BY <4>1, Zenon DEF ServerPeerTask, SendPeerStarted, StatusReceived, WaitTimesOut, StopReceived,
           ReadUser, ReadUserEof, ReadUserFails, StoppedReceived, SendPeerStopped, ServerPeerEnds,
           ServerSends, SendFails, stream
      <4> QED BY <2>2, <3>1, <4>1, ClientTaskSends, NoNewCases, OtherSends, Zenon
    <3> QED BY <1>a, <3>2, NoNewInFlight
  <2> QED BY <2>1, <2>2, Zenon
<1>3. c_pc'[p] \in Unconfirmed =>
        /\ \A i \in 1..Len(s_status'[p]) : s_status'[p][i] # "started"
        /\ s_pc'[p] \notin {"read", "wait_stopped"}
        /\ s_rd'[p] = 0
  <2> SUFFICES ASSUME c_pc'[p] \in Unconfirmed
               PROVE  /\ \A i \in 1..Len(s_status'[p]) : s_status'[p][i] # "started"
                      /\ s_pc'[p] \notin {"read", "wait_stopped"}
                      /\ s_rd'[p] = 0
    BY SMTT(60)
  <2>1. /\ ~InFlight(c2s, "PEER_STARTED", p)
        /\ \A i \in 1..Len(s_status[p]) : s_status[p][i] # "started"
        /\ s_pc[p] \notin {"read", "wait_stopped"}
        /\ s_rd[p] = 0
    BY <1>1, Zenon DEF ReadAfterConfirm
  <2> QED BY <2>1, ServerMoves, SMTT(60)
<1>4. c_pc'[p] \in {"none", "dial", "send_started"} => c_rd'[p] = 0
  BY ClientPcMoves, ClientReads, Zenon DEF ReadAfterConfirm
<1>5. c_pc'[p] \in Unconfirmed => ~InFlight(c2s', "PEER_STARTED", p)
  BY <1>1, <1>2, Zenon DEF ReadAfterConfirm
<1> QED BY <1>3, <1>4, <1>5, Zenon

\* Every step keeps BrokenIsEmpty: nothing is sent on a broken stream.
LEMMA BrokenIsEmptyStep ==
  ASSUME Types, BrokenIsEmpty, [Next]_vars PROVE BrokenIsEmpty'
<1>1. ASSUME NEW p \in Peers, ServerPeerTask(p) PROVE BrokenIsEmpty'
  BY <1>1, Zenon DEF ServerPeerTask, SendPeerStarted, StatusReceived, WaitTimesOut, StopReceived,
     ReadUser, ReadUserEof, ReadUserFails, StoppedReceived, SendPeerStopped, ServerPeerEnds,
     ServerSends, SendFails, stream, BrokenIsEmpty
<1>2. ASSUME NEW p \in Peers, ClientPeerTask(p) PROVE BrokenIsEmpty'
  BY <1>2, Zenon DEF ClientPeerTask, DialSucceeds, DialFails, ConfirmPeerStarted, AbortPeer, ReadTarget,
     ReadTargetEnds, ReportStopped, ClientPeerEnds, ClientSends, SendFails, stream, BrokenIsEmpty
<1>3. CASE ServerRouteTask
  BY <1>3 DEF ServerRouteTask, AcceptTCP, AddNewServerPeerConn, AcceptFails, ServerRouteEnds,
     stream, BrokenIsEmpty
<1>4. CASE ServerReceiver
  BY <1>4, Zenon DEF ServerReceiver, ReportPeerStarted, ReportPeerStopped, ReportPeerData,
     RouteStopRequested, ServerTakes, BrokenIsEmpty
<1>5. CASE ClientRouteTask
  BY <1>5, Zenon DEF ClientRouteTask, ClientRouteWakes, ClientRouteJoins, ClientRouteEnds, ClientSends,
     stream, BrokenIsEmpty
<1>6. CASE ClientReceiver
  BY <1>6, Zenon DEF ClientReceiver, ConnectRequested, DisconnectRequested, CloseWriteRequested,
     WriteTarget, RouteStoppedReceived, ClientTakes, BrokenIsEmpty
<1>7. CASE Environment
  BY <1>7, Zenon DEF Environment, UserWrites, UserCloses, TargetWrites, TargetCloses, ServerStopsPeer,
     ClientStopsPeer, ServerStopsRoute, ClientStopsRoute, BreakLink, stream, BrokenIsEmpty
<1>8. CASE UNCHANGED vars
  BY <1>8 DEF vars, stream, BrokenIsEmpty
<1> QED BY <1>1, <1>2, <1>3, <1>4, <1>5, <1>6, <1>7, <1>8, Zenon DEF Next, Idle

-----------------------------------------------------------------------------
(* Theorems.                                                               *)

Handshaken ==
  ServerTable /\ ClientTable /\ AnnouncedOnce /\ ReadAfterConfirm /\ BrokenIsEmpty

Inv == Types /\ Handshaken

\* The inductive invariant holds initially ...
LEMMA InvInit == Init => Inv
<1> SUFFICES ASSUME Init PROVE Inv
  OBVIOUS
<1>a. s2c = <<>> /\ c2s = <<>>
  BY Zenon DEF Init
<1>b. /\ s_pc = [p \in Peers |-> "none"]
      /\ c_pc = [p \in Peers |-> "none"]
      /\ s_rd = [p \in Peers |-> 0]
      /\ c_rd = [p \in Peers |-> 0]
      /\ s_status = [p \in Peers |-> <<>>]
  BY ZenonT(60) DEF Init, ServerPeersInit, ClientPeersInit
<1>1. AnnouncedOnce
  <2>1. Len(s2c) = 0
    BY <1>a
  <2>2. \A i \in 1..Len(s2c) : FALSE
    BY <2>1
  <2>3. \A p \in Peers : ~InFlight(s2c, "PEER_STARTED", p)
    BY <2>2, Zenon DEF InFlight
  <2>4. \A p \in Peers : c_pc[p] = "none"
    BY <1>b, Zenon
  <2> QED
    BY <2>2, <2>3, <2>4, Zenon DEF AnnouncedOnce
<1>2. ReadAfterConfirm
  BY <1>a, <1>b DEF ReadAfterConfirm, InFlight, Unconfirmed
<1>3. BrokenIsEmpty
  BY <1>a, Zenon DEF BrokenIsEmpty
<1> QED BY <1>1, <1>2, <1>3, TypesInit, TablesInit, Zenon DEF Inv, Handshaken

\* ... is kept by every step ...
LEMMA InvStep == Inv /\ [Next]_vars => Inv'
BY TypesStep, ServerTableStep, ClientTableStep, AnnouncedOnceStep,
   ReadAfterConfirmStep, BrokenIsEmptyStep DEF Inv, Handshaken

\* ... and so always holds.
LEMMA InvAlways == Spec => []Inv
BY InvInit, InvStep, PTL DEF Spec

\* The read loop of ServerPeerConn.RunTask runs only for a peer whose target
\* the client has connected to (ConnectToPeer).
THEOREM ServerReadsAfterConnect == Spec => []RelayAfterConnect
<1>1. Inv => RelayAfterConnect
  <2> SUFFICES ASSUME Inv, NEW p \in Peers, s_pc[p] \in {"read", "wait_stopped"}
               PROVE  c_pc[p] \in {"run", "end", "cleanup", "gone"}
    BY DEF RelayAfterConnect
  <2>1. c_pc[p] \in CPcs
    BY Zenon DEF Inv, Types, ClientTypes
  <2>2. c_pc[p] \notin Unconfirmed
    BY DEF Inv, Handshaken, ReadAfterConfirm
  <2> QED BY <2>1, <2>2, Zenon DEF CPcs, Unconfirmed
<1> QED BY <1>1, InvAlways, PTL


-----------------------------------------------------------------------------
(* What the steps do to the queues.                                        *)

\* The queue r that follows q has lost no chunk.
Keeps(q, r) ==
  \/ r = q
  \/ \E m \in Packet : r = Append(q, m)
  \/ q # <<>> /\ Head(q).kind # "PEER_DATA" /\ r = Tail(q)

\* Chunks leave a queue only through its receiver, as long as the stream is up.
LEMMA QueuesKeep ==
  ASSUME Types, [Next]_vars, link' = "up"
  PROVE  /\ (\A p \in Peers : ~WriteTarget(p)) => Keeps(s2c, s2c')
         /\ (\A p \in Peers : ~ReportPeerData(p)) => Keeps(c2s, c2s')
         /\ link = "up"
<1> DEFINE Good == /\ (\A p \in Peers : ~WriteTarget(p)) => Keeps(s2c, s2c')
                   /\ (\A p \in Peers : ~ReportPeerData(p)) => Keeps(c2s, c2s')
                   /\ link = "up"
<1>a. ASSUME UNCHANGED stream PROVE Good
  BY <1>a DEF stream, Keeps
<1>b. ASSUME NEW m \in Packet, ServerSends(m) \/ ClientSends(m) PROVE Good
  BY <1>b, Zenon DEF ServerSends, ClientSends, Keeps
<1>c. \A p \in Peers : /\ DataPkt(p, s_rd[p] + 1) \in Packet /\ DataPkt(p, c_rd[p] + 1) \in Packet
                       /\ \A k \in PeerKinds : Pkt(k, p) \in Packet
  <2>1. \A p \in Peers : s_rd[p] + 1 \in Nat /\ c_rd[p] + 1 \in Nat
    BY DEF Types, ServerTypes, ClientTypes
  <2> QED BY <2>1, PktType DEF PeerKinds
<1>d. Pkt("ROUTE_STOP", 0) \in Packet /\ Pkt("ROUTE_STOPPED", 0) \in Packet
  BY RoutePktType DEF RouteKinds
<1> HIDE DEF Good
<1>1. ASSUME NEW p \in Peers, ServerPeerTask(p) PROVE Good
  <2>1. \/ UNCHANGED stream
        \/ \E k \in PeerKinds : ServerSends(Pkt(k, p))
        \/ ServerSends(DataPkt(p, s_rd[p] + 1))
    BY <1>1, Zenon DEF ServerPeerTask, SendPeerStarted, StatusReceived, WaitTimesOut, StopReceived,
       ReadUser, ReadUserEof, ReadUserFails, StoppedReceived, SendPeerStopped, ServerPeerEnds,
       SendFails, PeerKinds
  <2> QED BY <1>a, <1>b, <1>c, <2>1, Zenon
<1>2. ASSUME NEW p \in Peers, ClientPeerTask(p) PROVE Good
  <2>1. \/ UNCHANGED stream
        \/ \E k \in PeerKinds : ClientSends(Pkt(k, p))
        \/ ClientSends(DataPkt(p, c_rd[p] + 1))
    BY <1>2, Zenon DEF ClientPeerTask, DialSucceeds, DialFails, ConfirmPeerStarted, AbortPeer, ReadTarget,
       ReadTargetEnds, ReportStopped, ClientPeerEnds, SendFails, PeerKinds
  <2> QED BY <1>a, <1>b, <1>c, <2>1, Zenon
<1>3. ASSUME ServerRouteTask PROVE Good
  BY <1>3, <1>a, Zenon DEF ServerRouteTask, AcceptTCP, AddNewServerPeerConn, AcceptFails, ServerRouteEnds
<1>4. ASSUME ServerReceiver PROVE Good
  <2>1. link' = link /\ (s2c' = s2c \/ s2c' = Append(s2c, Pkt("ROUTE_STOPPED", 0)))
    BY <1>4, Zenon DEF ServerReceiver, ReportPeerStarted, ReportPeerStopped, ReportPeerData,
                RouteStopRequested
  <2>2. /\ c2s # <<>> /\ c2s' = Tail(c2s)
        /\ (\A p \in Peers : ~ReportPeerData(p)) => Head(c2s).kind # "PEER_DATA"
    BY <1>4, Zenon DEF ServerReceiver, ReportPeerStarted, ReportPeerStopped, ReportPeerData,
                RouteStopRequested, ServerTakes
  <2> QED BY <1>d, <2>1, <2>2, Zenon DEF Good, Keeps
<1>5. ASSUME ClientRouteTask PROVE Good
  <2>1. UNCHANGED stream \/ ClientSends(Pkt("ROUTE_STOP", 0))
    BY <1>5, Zenon DEF ClientRouteTask, ClientRouteWakes, ClientRouteJoins, ClientRouteEnds
  <2> QED BY <1>a, <1>b, <1>d, <2>1
<1>6. ASSUME ClientReceiver PROVE Good
  <2>1. link' = link /\ (c2s' = c2s \/ \E p \in Peers : c2s' = Append(c2s, Pkt("PEER_ABORTED", p)))
    BY <1>6, Zenon DEF ClientReceiver, ConnectRequested, DisconnectRequested, CloseWriteRequested,
                WriteTarget, RouteStoppedReceived
  <2>2. /\ s2c # <<>> /\ s2c' = Tail(s2c)
        /\ (\A p \in Peers : ~WriteTarget(p)) => Head(s2c).kind # "PEER_DATA"
    BY <1>6, Zenon DEF ClientReceiver, ConnectRequested, DisconnectRequested, CloseWriteRequested,
                WriteTarget, RouteStoppedReceived, ClientTakes
  <2>3. \A p \in Peers : Pkt("PEER_ABORTED", p) \in Packet
    BY <1>c, Zenon DEF PeerKinds
  <2> QED BY <2>1, <2>2, <2>3 DEF Good, Keeps
<1>7. ASSUME Environment PROVE Good
  BY <1>7, <1>a, Zenon DEF Environment, UserWrites, UserCloses, TargetWrites, TargetCloses,
     ServerStopsPeer, ClientStopsPeer, ServerStopsRoute, ClientStopsRoute, BreakLink
<1>8. ASSUME UNCHANGED vars PROVE Good
  BY <1>8, <1>a, Zenon DEF vars
<1>9. Good
  BY <1>1, <1>2, <1>3, <1>4, <1>5, <1>6, <1>7, <1>8, Zenon DEF Next, Idle
<1> QED BY <1>9 DEF Good

\* A peer that data is kept for was there before, or is new.
LEMMA ClientOpens ==
  ASSUME Types, [Next]_vars, NEW p \in Peers, ~DialSucceeds(p),
         KnownToClient(p)', p \notin c_stop_req'
  PROVE  KnownToClient(p) /\ p \notin c_stop_req
<1>a. croute \in [pc : {"wait", "join", "remove", "gone"}, stop_req : BOOLEAN, in_map : BOOLEAN]
  BY Zenon DEF Types, ClientTypes
<1>b. \A ps : StopClientPeers(ps) => p \notin c_stop_req
  BY Zenon DEF StopClientPeers
<1>1. ASSUME NEW x \in Peers, ClientPeerTask(x) PROVE KnownToClient(p) /\ p \notin c_stop_req
  <2>1. CASE DialSucceeds(x)
    <3>1. x # p
      BY <2>1, Zenon
    <3> QED BY <1>a, <2>1, <3>1, Zenon DEF DialSucceeds, KnownToClient
  <2>2. CASE AbortPeer(x)
    BY <1>a, <2>2, Zenon DEF AbortPeer, KnownToClient, c_table
  <2>3. CASE ClientPeerEnds(x)
    BY <1>b, <2>3, Zenon DEF ClientPeerEnds, RemoveClientPeerConn, KnownToClient
  <2>4. CASE DialFails(x) \/ ConfirmPeerStarted(x) \/ ReadTarget(x) \/ ReadTargetEnds(x) \/ ReportStopped(x)
    BY <2>4, Zenon DEF DialFails, ConfirmPeerStarted, ReadTarget, ReadTargetEnds, ReportStopped,
                c_ctl, c_table, KnownToClient
  <2> QED BY <1>1, <2>1, <2>2, <2>3, <2>4, Zenon DEF ClientPeerTask
<1>2. CASE ClientRouteTask
  BY <1>a, <1>2, Zenon DEF ClientRouteTask, ClientRouteWakes, ClientRouteJoins, ClientRouteEnds,
                    c_ctl, c_table, KnownToClient
<1>3. CASE ClientReceiver
  <2>1. ptc_map' = ptc_map /\ (croute' = croute \/ croute' = [croute EXCEPT !.stop_req = TRUE])
    BY <1>3, Zenon DEF ClientReceiver, ConnectRequested, DisconnectRequested, CloseWriteRequested,
                WriteTarget, RouteStoppedReceived, ClientRouteReqStop, c_table
  <2>2. c_stop_req' = c_stop_req \/ \E ps : StopClientPeers(ps)
    BY <1>3, Zenon DEF ClientReceiver, ConnectRequested, DisconnectRequested, CloseWriteRequested,
                WriteTarget, RouteStoppedReceived, ClientRouteReqStop, c_ctl
  <2> QED BY <1>a, <1>b, <2>1, <2>2, Zenon DEF KnownToClient
<1>4. CASE ClientStopsRoute
  BY <1>a, <1>b, <1>4, Zenon DEF ClientStopsRoute, ClientRouteReqStop, c_table, KnownToClient
<1>5. ASSUME NEW x \in Peers, ClientStopsPeer(x) PROVE KnownToClient(p) /\ p \notin c_stop_req
  BY <1>b, <1>5, Zenon DEF ClientStopsPeer, c_table, KnownToClient
<1>6. CASE UNCHANGED client
  BY <1>6 DEF client, c_ctl, c_table, KnownToClient
<1> QED BY <1>1, <1>2, <1>3, <1>4, <1>5, <1>6, OtherStepsKeepClient, Zenon

\* The same of the server's peers.
LEMMA ServerOpens ==
  ASSUME Types, [Next]_vars, NEW p \in Peers, ~AddNewServerPeerConn(p),
         KnownToServer(p)', p \notin s_stop_req'
  PROVE  KnownToServer(p) /\ p \notin s_stop_req
<1>a. sroute \in [pc : {"accept", "add", "wait", "gone"}, stop_req : BOOLEAN,
                  listening : BOOLEAN, in_map : BOOLEAN]
  BY Zenon DEF Types, ServerTypes
<1>b. \A ps : StopServerPeers(ps) => p \notin s_stop_req
  BY Zenon DEF StopServerPeers
<1>1. ASSUME NEW x \in Peers, ServerPeerTask(x) PROVE KnownToServer(p) /\ p \notin s_stop_req
  <2>1. CASE ServerPeerEnds(x)
    BY <1>b, <2>1, ZenonT(60) DEF ServerPeerEnds, RemoveServerPeerConn, KnownToServer
  <2>2. CASE ~ServerPeerEnds(x)
    BY <1>1, <2>2, Zenon DEF ServerPeerTask, SendPeerStarted, StatusReceived, WaitTimesOut, StopReceived,
       ReadUser, ReadUserEof, ReadUserFails, StoppedReceived, SendPeerStopped, s_ctl, s_table,
       KnownToServer
  <2> QED BY <2>1, <2>2
<1>2. CASE ServerRouteTask
  <2>1. ASSUME NEW x \in Peers, NEW b \in BOOLEAN, AcceptTCP(x, b)
        PROVE  KnownToServer(p) /\ p \notin s_stop_req
    BY <1>a, <2>1 DEF AcceptTCP, KnownToServer
  <2>2. ASSUME NEW x \in Peers, AddNewServerPeerConn(x) PROVE KnownToServer(p) /\ p \notin s_stop_req
    <3>1. x # p
      BY <2>2
    <3> QED BY <1>a, <2>2, <3>1, Zenon DEF AddNewServerPeerConn, KnownToServer
  <2>3. CASE AcceptFails
    BY <1>a, <1>b, <2>3, Zenon DEF AcceptFails, ServerRouteReqStop, s_table, KnownToServer
  <2>4. CASE ServerRouteEnds
    BY <1>a, <2>4 DEF ServerRouteEnds, s_ctl, s_table, KnownToServer
  <2> QED BY <1>2, <2>1, <2>2, <2>3, <2>4, Zenon DEF ServerRouteTask
<1>3. CASE ServerReceiver
  <2>1. pts_map' = pts_map
    BY <1>3, Zenon DEF ServerReceiver, ReportPeerStarted, ReportPeerStopped, ReportPeerData,
                RouteStopRequested, s_table
  <2>2. \/ sroute' = sroute
        \/ sroute' = [sroute EXCEPT !.in_map = FALSE, !.stop_req = TRUE, !.listening = FALSE]
    BY <1>3, Zenon DEF ServerReceiver, ReportPeerStarted, ReportPeerStopped, ReportPeerData,
                RouteStopRequested
  <2>3. s_stop_req' = s_stop_req \/ \E ps : StopServerPeers(ps)
    BY <1>3, Zenon DEF ServerReceiver, ReportPeerStarted, ReportPeerStopped, ReportPeerData,
                RouteStopRequested, ServerRouteReqStop, s_ctl
  <2> QED BY <1>a, <1>b, <2>1, <2>2, <2>3, Zenon DEF KnownToServer
<1>4. CASE ServerStopsRoute
  BY <1>a, <1>b, <1>4, Zenon DEF ServerStopsRoute, ServerRouteReqStop, s_table, KnownToServer
<1>5. ASSUME NEW x \in Peers, ServerStopsPeer(x) PROVE KnownToServer(p) /\ p \notin s_stop_req
  BY <1>b, <1>5 DEF ServerStopsPeer, s_table, KnownToServer
<1>6. CASE UNCHANGED server
  BY <1>6, Zenon DEF server, s_ctl, s_table, KnownToServer
<1> QED BY <1>1, <1>2, <1>3, <1>4, <1>5, <1>6, OtherStepsKeepServer, Zenon

\* Only the reading task and the other end's receiver move data.
LEMMA DataMoves ==
  ASSUME Types, [Next]_vars
  PROVE  /\ (\A p \in Peers : ~ReadUser(p)) => s_rd' = s_rd
         /\ (\A p \in Peers : ~ReadTarget(p)) => c_rd' = c_rd
         /\ (\A p \in Peers : ~WriteTarget(p)) => t_rcv' = t_rcv
         /\ (\A p \in Peers : ~ReportPeerData(p)) => u_rcv' = u_rcv
         /\ \A p \in Peers : u_sent[p] <= u_sent'[p] /\ t_sent[p] <= t_sent'[p]
<1> DEFINE Good == /\ (\A p \in Peers : ~ReadUser(p)) => s_rd' = s_rd
                   /\ (\A p \in Peers : ~ReadTarget(p)) => c_rd' = c_rd
                   /\ (\A p \in Peers : ~WriteTarget(p)) => t_rcv' = t_rcv
                   /\ (\A p \in Peers : ~ReportPeerData(p)) => u_rcv' = u_rcv
                   /\ \A p \in Peers : u_sent[p] <= u_sent'[p] /\ t_sent[p] <= t_sent'[p]
<1>a. u_sent \in [Peers -> Nat] /\ t_sent \in [Peers -> Nat]
  BY DEF Types, EndTypes
<1>b. ASSUME u_sent' = u_sent, t_sent' = t_sent
      PROVE  \A p \in Peers : u_sent[p] <= u_sent'[p] /\ t_sent[p] <= t_sent'[p]
  BY <1>a, <1>b, SMTT(60)
<1>1. ASSUME NEW p \in Peers, ServerPeerTask(p) PROVE Good
  <2>1. UNCHANGED <<client, user, target>>
    BY <1>1, Zenon DEF ServerPeerTask, SendPeerStarted, StatusReceived, WaitTimesOut, StopReceived,
       ReadUser, ReadUserEof, ReadUserFails, StoppedReceived, SendPeerStopped, ServerPeerEnds
  <2>2. ReadUser(p) \/ s_rd' = s_rd
    BY <1>1, Zenon DEF ServerPeerTask, SendPeerStarted, StatusReceived, WaitTimesOut, StopReceived,
       ReadUserEof, ReadUserFails, StoppedReceived, SendPeerStopped, ServerPeerEnds
  <2> QED BY <1>b, <2>1, <2>2, Zenon DEF client, c_task, user, target
<1>2. ASSUME NEW p \in Peers, ClientPeerTask(p) PROVE Good
  <2>1. UNCHANGED <<server, user, target>>
    BY <1>2, Zenon DEF ClientPeerTask, DialSucceeds, DialFails, ConfirmPeerStarted, AbortPeer, ReadTarget,
       ReadTargetEnds, ReportStopped, ClientPeerEnds
  <2>2. ReadTarget(p) \/ c_rd' = c_rd
    BY <1>2, Zenon DEF ClientPeerTask, DialSucceeds, DialFails, ConfirmPeerStarted, AbortPeer,
       ReadTargetEnds, ReportStopped, ClientPeerEnds
  <2> QED BY <1>b, <2>1, <2>2, Zenon DEF server, s_task, user, target
<1>3. CASE ServerRouteTask
  BY <1>3, <1>b, Zenon DEF ServerRouteTask, AcceptTCP, AddNewServerPeerConn, AcceptFails, ServerRouteEnds,
     s_task, client, c_task, user, target
<1>4. CASE ServerReceiver
  <2>1. UNCHANGED <<s_task, client, u_sent, target>> /\ (u_rcv' = u_rcv \/ \E p \in Peers : ReportPeerData(p))
    BY <1>4, Zenon DEF ServerReceiver, ReportPeerStarted, ReportPeerStopped, ReportPeerData,
                RouteStopRequested, user
  <2> QED BY <1>b, <2>1, Zenon DEF s_task, client, c_task, target
<1>5. CASE ClientRouteTask
  BY <1>5, <1>b, Zenon DEF ClientRouteTask, ClientRouteWakes, ClientRouteJoins, ClientRouteEnds,
     server, s_task, c_task, user, target
<1>6. CASE ClientReceiver
  <2>1. UNCHANGED <<server, c_rd, t_sent, user>> /\ (t_rcv' = t_rcv \/ \E p \in Peers : WriteTarget(p))
    BY <1>6, Zenon DEF ClientReceiver, ConnectRequested, DisconnectRequested, CloseWriteRequested,
                WriteTarget, RouteStoppedReceived, c_task, target
  <2> QED BY <1>b, <2>1, Zenon DEF server, s_task, user
<1>7. CASE Environment
  <2>1. /\ UNCHANGED <<s_rd, c_rd, u_rcv, t_rcv>>
        /\ u_sent' = u_sent \/ \E p \in Peers : u_sent' = [u_sent EXCEPT ![p] = @ + 1]
        /\ t_sent' = t_sent \/ \E p \in Peers : t_sent' = [t_sent EXCEPT ![p] = @ + 1]
    BY <1>7, Zenon DEF Environment, UserWrites, UserCloses, TargetWrites, TargetCloses, ServerStopsPeer,
       ClientStopsPeer, ServerStopsRoute, ClientStopsRoute, BreakLink, server, client, s_task,
       c_task, user, target
  <2>2. \A p \in Peers : u_sent[p] <= u_sent'[p]
    BY <1>a, <2>1, Counts, Zenon
  <2>3. \A p \in Peers : t_sent[p] <= t_sent'[p]
    BY <1>a, <2>1, Counts, Zenon
  <2> QED BY <2>1, <2>2, <2>3
<1>8. CASE UNCHANGED vars
  BY <1>8, <1>b, ZenonT(60) DEF vars, server, client, s_task, c_task, user, target
<1>9. Good
  BY <1>1, <1>2, <1>3, <1>4, <1>5, <1>6, <1>7, <1>8, ZenonT(60) DEF Next, Idle
<1> QED BY <1>9, Zenon DEF Good

-----------------------------------------------------------------------------
(* From the user to the target.                                            *)

\* The server reads a chunk (ServerPeerConn.RunTask).
LEMMA ToTargetRead ==
  ASSUME Inv, ToTarget, NEW p \in Peers, ReadUser(p) PROVE ToTarget'
<1> DEFINE m == DataPkt(p, s_rd[p] + 1)
<1>a. /\ s2c \in Seq(Packet) /\ t_rcv \in [Peers -> Seq(Nat)] /\ s_rd \in [Peers -> Nat]
      /\ u_sent \in [Peers -> Nat]
  BY Zenon DEF Inv, Types, StreamTypes, EndTypes, ServerTypes
<1>b. /\ m \in Packet /\ m.kind = "PEER_DATA" /\ m.peer = p /\ m.n = s_rd[p] + 1
  <2>1. s_rd[p] + 1 \in Nat
    BY <1>a, SMTT(60)
  <2> QED BY <2>1, PktType, Zenon DEF DataPkt, PeerKinds
<1>c. /\ s_rd' = [s_rd EXCEPT ![p] = @ + 1] /\ s_rd[p] < u_sent[p]
      /\ UNCHANGED <<t_rcv, u_sent, c_stop_req, croute, ptc_map>>
      /\ \/ link = "up" /\ link' = "up" /\ s2c' = Append(s2c, m)
         \/ link' # "up" /\ s2c' = s2c
  BY Zenon DEF ReadUser, ServerSends, SendFails, stream, client, c_ctl, c_table, user, target,
         Inv, Types, StreamTypes
<1> HIDE DEF m
<1>1. Flow(s2c', t_rcv', s_rd')
  BY <1>a, <1>b, <1>c, FlowRead, Zenon DEF ToTarget
<1>2. \A x \in Peers : s_rd'[x] <= u_sent'[x]
  BY <1>a, <1>c DEF ToTarget
<1>3. ASSUME NEW x \in Peers, link' = "up", KnownToClient(x)', x \notin c_stop_req'
      PROVE  Complete(s2c', t_rcv', s_rd', x)
  <2>1. Complete(s2c, t_rcv, s_rd, x)
    BY <1>3, <1>c, Zenon DEF ToTarget, KnownToClient
  <2>2. s2c' = Append(s2c, m) /\ t_rcv' = t_rcv
    BY <1>c, <1>3
  <2>3. Complete(Append(s2c, m), t_rcv, [s_rd EXCEPT ![p] = @ + 1], x)
    BY <1>a, <1>b, <2>1, CompleteRead, Zenon
  <2> QED BY <1>c, <2>2, <2>3, Zenon
<1> QED BY <1>1, <1>2, <1>3, Zenon DEF ToTarget, Flow, Complete, KnownToClient

\* The client writes a chunk to the target, or drops it and stops the peer.
LEMMA ToTargetWrite ==
  ASSUME Inv, ToTarget, NEW p \in Peers, WriteTarget(p) PROVE ToTarget'
<1>a. /\ s2c \in Seq(Packet) /\ t_rcv \in [Peers -> Seq(Nat)] /\ s_rd \in [Peers -> Nat]
  BY Zenon DEF Inv, Types, StreamTypes, EndTypes, ServerTypes, ClientTypes
<1>b. /\ s2c # <<>> /\ Head(s2c).kind = "PEER_DATA" /\ Head(s2c).peer = p /\ s2c' = Tail(s2c)
      /\ UNCHANGED <<s_rd, u_sent, croute, ptc_map, link>>
  BY DEF WriteTarget, ClientTakes, server, s_task, c_table, user
<1>c. link = "up"
  BY <1>b DEF Inv, Handshaken, BrokenIsEmpty, Types, StreamTypes
<1>d. \A x \in Peers : KnownToClient(x)' = KnownToClient(x)
  BY <1>b, Zenon DEF KnownToClient
<1>1. CASE KnownToClient(p) /\ p \notin c_stop_req /\ c_stop_req' = c_stop_req
           /\ t_rcv' = [t_rcv EXCEPT ![p] = Append(@, Head(s2c).n)]
  <2>1. Complete(s2c, t_rcv, s_rd, p)
    BY <1>c, <1>1, Zenon DEF ToTarget
  <2>2. Head(s2c).n = Len(t_rcv[p]) + 1
    BY <1>a, <1>b, <2>1, CompleteNext, Zenon DEF ToTarget
  <2>3. Flow(s2c', t_rcv', s_rd')
    BY <1>a, <1>b, <1>1, <2>2, FlowDeliver, Zenon DEF ToTarget
  <2>4. ASSUME NEW x \in Peers, link' = "up", KnownToClient(x)', x \notin c_stop_req'
        PROVE  Complete(s2c', t_rcv', s_rd', x)
    <3>1. Complete(s2c, t_rcv, s_rd, x)
      BY <1>c, <1>d, <1>1, <2>4, Zenon DEF ToTarget
    <3> QED BY <1>a, <1>b, <1>1, <2>2, <3>1, CompleteDeliver, ZenonT(60)
  <2> QED BY <1>b, <2>3, <2>4, ZenonT(60) DEF ToTarget, Flow, Complete, KnownToClient
<1>2. CASE /\ t_rcv' = t_rcv /\ c_stop_req \subseteq c_stop_req'
           /\ KnownToClient(p) => p \in c_stop_req'
  <2>1. Flow(s2c', t_rcv', s_rd')
    <3>1. NoNew(s2c, s2c', "PEER_DATA")
      BY <1>b, Zenon DEF NoNew
    <3> QED BY <1>a, <1>b, <1>2, <3>1, FlowNoNew, Zenon DEF ToTarget
  <2>2. ASSUME NEW x \in Peers, link' = "up", KnownToClient(x)', x \notin c_stop_req'
        PROVE  Complete(s2c', t_rcv', s_rd', x)
    <3>1. Complete(s2c, t_rcv, s_rd, x) /\ x # p
      BY <1>c, <1>d, <1>2, <2>2, Zenon DEF ToTarget
    <3> QED BY <1>a, <1>b, <1>2, <3>1, CompleteSkip, ZenonT(60)
  <2> QED BY <1>b, <2>1, <2>2, <1>2, ZenonT(60) DEF ToTarget, Flow, Complete, KnownToClient
<1>3. StopClientPeers({p}) => p \in c_stop_req' /\ c_stop_req \subseteq c_stop_req'
  BY DEF StopClientPeers
<1>4. c_conn[p] = "open" => p \notin c_stop_req
  BY Zenon DEF Inv, Handshaken, ClientTable
<1> QED BY <1>1, <1>2, <1>3, <1>4, Zenon DEF WriteTarget, c_ctl

\* Every other step, the dial that opens a target's connection included.
LEMMA ToTargetOther ==
  ASSUME Inv, ToTarget, [Next]_vars, \A p \in Peers : ~ReadUser(p) /\ ~WriteTarget(p) PROVE ToTarget'
<1>a. /\ s2c \in Seq(Packet) /\ t_rcv \in [Peers -> Seq(Nat)] /\ s_rd \in [Peers -> Nat]
      /\ u_sent \in [Peers -> Nat] /\ Types
  BY DEF Inv, Types, StreamTypes, EndTypes, ServerTypes
<1>b. u_sent' \in [Peers -> Nat]
  BY <1>a, TypesStep, Zenon DEF Types, EndTypes
<1>c. s_rd' = s_rd /\ t_rcv' = t_rcv /\ \A p \in Peers : u_sent[p] <= u_sent'[p]
  BY <1>a, DataMoves, Zenon
<1>1. NoNew(s2c, s2c', "PEER_DATA")
  <2>1. "PEER_DATA" \in Tracked
    BY Zenon DEF Tracked
  <2>2. ASSUME NEW p \in Peers, ClientPeerTask(p) PROVE s2c' = s2c
    BY <2>2, Zenon DEF ClientPeerTask, DialSucceeds, DialFails, ConfirmPeerStarted, AbortPeer, ReadTarget,
       ReadTargetEnds, ReportStopped, ClientPeerEnds, ClientSends, SendFails, stream
  <2> QED BY <1>a, <2>1, <2>2, ServerTaskSends, OtherSends, NoNewCases, Zenon
<1>2. Flow(s2c', t_rcv', s_rd')
  BY <1>a, <1>c, <1>1, FlowNoNew, Zenon DEF ToTarget
<1>3. \A p \in Peers : s_rd'[p] <= u_sent'[p]
  BY <1>a, <1>b, <1>c DEF ToTarget
<1>4. ASSUME NEW p \in Peers, link' = "up", KnownToClient(p)', p \notin c_stop_req'
      PROVE  Complete(s2c', t_rcv', s_rd', p)
  <2>1. link = "up" /\ Keeps(s2c, s2c')
    BY <1>a, <1>4, QueuesKeep, SMTT(60)
  <2>2. CASE DialSucceeds(p)
    <3>1. s_rd[p] = 0 /\ Len(t_rcv[p]) \in Nat
      <4>1. c_pc[p] = "dial"
        BY <2>2, Zenon DEF DialSucceeds, ClientPeerAt
      <4>2. s_rd[p] = 0
        BY <4>1, Zenon DEF Inv, Handshaken, ReadAfterConfirm, Unconfirmed
      <4>3. t_rcv[p] \in Seq(Nat)
        BY <1>a, Zenon
      <4> QED BY <4>2, <4>3, Nothing, Zenon
    <3>2. s_rd'[p] = 0 /\ t_rcv'[p] = t_rcv[p] /\ (Len(t_rcv[p]) + 1)..0 = {}
      BY <1>c, <3>1, Nothing, Zenon
    <3> QED BY <3>2, Zenon DEF Complete
  <2>3. CASE ~DialSucceeds(p)
    <3>1. KnownToClient(p) /\ p \notin c_stop_req
      BY <1>a, <1>4, <2>3, ClientOpens, Zenon
    <3>2. Complete(s2c, t_rcv, s_rd, p)
      BY <2>1, <3>1, Zenon DEF ToTarget
    <3> QED BY <1>a, <1>c, <2>1, <3>2, CompleteAppend, CompleteSkip, Zenon DEF Keeps
  <2> QED BY <2>2, <2>3, Zenon
<1> QED BY <1>2, <1>3, <1>4, Zenon DEF ToTarget, Flow, Complete, KnownToClient

\* Every step keeps ToTarget.
LEMMA ToTargetStep == Inv /\ ToTarget /\ [Next]_vars => ToTarget'
BY ToTargetRead, ToTargetWrite, ToTargetOther, Zenon

-----------------------------------------------------------------------------
(* From the target to the user.                                            *)

\* The client reads a chunk (ClientPeerConn.RunTask).
LEMMA ToUserRead ==
  ASSUME Inv, ToUser, NEW p \in Peers, ReadTarget(p) PROVE ToUser'
<1> DEFINE m == DataPkt(p, c_rd[p] + 1)
<1>a. /\ c2s \in Seq(Packet) /\ u_rcv \in [Peers -> Seq(Nat)] /\ c_rd \in [Peers -> Nat]
      /\ t_sent \in [Peers -> Nat]
  BY Zenon DEF Inv, Types, StreamTypes, EndTypes, ClientTypes
<1>b. /\ m \in Packet /\ m.kind = "PEER_DATA" /\ m.peer = p /\ m.n = c_rd[p] + 1
  <2>1. c_rd[p] + 1 \in Nat
    BY <1>a
  <2> QED BY <2>1, PktType DEF DataPkt, PeerKinds
<1>c. /\ c_rd' = [c_rd EXCEPT ![p] = @ + 1] /\ c_rd[p] < t_sent[p]
      /\ UNCHANGED <<u_rcv, t_sent, s_stop_req, sroute, pts_map>>
      /\ \/ link = "up" /\ link' = "up" /\ c2s' = Append(c2s, m)
         \/ link' # "up" /\ c2s' = c2s
  BY Zenon DEF ReadTarget, ClientSends, SendFails, stream, server, s_ctl, s_table, target, user,
         Inv, Types, StreamTypes
<1> HIDE DEF m
<1>1. Flow(c2s', u_rcv', c_rd')
  BY <1>a, <1>b, <1>c, FlowRead, Zenon DEF ToUser
<1>2. \A x \in Peers : c_rd'[x] <= t_sent'[x]
  BY <1>a, <1>c, ReadSent, Zenon DEF ToUser
<1>3. ASSUME NEW x \in Peers, link' = "up", KnownToServer(x)', x \notin s_stop_req'
      PROVE  Complete(c2s', u_rcv', c_rd', x)
  <2>1. Complete(c2s, u_rcv, c_rd, x)
    BY <1>3, <1>c, Zenon DEF ToUser, KnownToServer
  <2>2. c2s' = Append(c2s, m) /\ u_rcv' = u_rcv
    BY <1>c, <1>3, Zenon
  <2>3. Complete(Append(c2s, m), u_rcv, [c_rd EXCEPT ![p] = @ + 1], x)
    BY <1>a, <1>b, <2>1, CompleteRead, Zenon
  <2> QED BY <1>c, <2>2, <2>3
<1> QED BY <1>1, <1>2, <1>3, Zenon DEF ToUser, Flow, Complete, KnownToServer

\* The server writes a chunk to the user, or drops it and stops the peer.
LEMMA ToUserWrite ==
  ASSUME Inv, ToUser, NEW p \in Peers, ReportPeerData(p) PROVE ToUser'
<1>a. /\ c2s \in Seq(Packet) /\ u_rcv \in [Peers -> Seq(Nat)] /\ c_rd \in [Peers -> Nat]
  BY Zenon DEF Inv, Types, StreamTypes, EndTypes, ClientTypes, ServerTypes
<1>b. /\ c2s # <<>> /\ Head(c2s).kind = "PEER_DATA" /\ Head(c2s).peer = p /\ c2s' = Tail(c2s)
      /\ UNCHANGED <<c_rd, t_sent, sroute, pts_map, link>>
  BY Zenon DEF ReportPeerData, ServerTakes, client, c_task, s_table, target
<1>c. link = "up"
  BY <1>b, Zenon DEF Inv, Handshaken, BrokenIsEmpty, Types, StreamTypes
<1>d. \A x \in Peers : KnownToServer(x)' = KnownToServer(x)
  BY <1>b, Zenon DEF KnownToServer
<1>1. CASE KnownToServer(p) /\ p \notin s_stop_req /\ s_stop_req' = s_stop_req
           /\ u_rcv' = [u_rcv EXCEPT ![p] = Append(@, Head(c2s).n)]
  <2>1. Complete(c2s, u_rcv, c_rd, p)
    BY <1>c, <1>1, Zenon DEF ToUser
  <2>2. Head(c2s).n = Len(u_rcv[p]) + 1
    BY <1>a, <1>b, <2>1, CompleteNext, Zenon DEF ToUser
  <2>3. Flow(c2s', u_rcv', c_rd')
    BY <1>a, <1>b, <1>1, <2>2, FlowDeliver, Zenon DEF ToUser
  <2>4. ASSUME NEW x \in Peers, link' = "up", KnownToServer(x)', x \notin s_stop_req'
        PROVE  Complete(c2s', u_rcv', c_rd', x)
    <3>1. Complete(c2s, u_rcv, c_rd, x)
      BY <1>c, <1>d, <1>1, <2>4, Zenon DEF ToUser
    <3> QED BY <1>a, <1>b, <1>1, <2>2, <3>1, CompleteDeliver, Zenon
  <2> QED BY <1>b, <2>3, <2>4, ZenonT(60) DEF ToUser, Flow, Complete, KnownToServer
<1>2. CASE /\ u_rcv' = u_rcv /\ s_stop_req \subseteq s_stop_req'
           /\ KnownToServer(p) => p \in s_stop_req'
  <2>1. Flow(c2s', u_rcv', c_rd')
    <3>1. NoNew(c2s, c2s', "PEER_DATA")
      BY <1>b, Zenon DEF NoNew
    <3> QED BY <1>a, <1>b, <1>2, <3>1, FlowNoNew, Zenon DEF ToUser
  <2>2. ASSUME NEW x \in Peers, link' = "up", KnownToServer(x)', x \notin s_stop_req'
        PROVE  Complete(c2s', u_rcv', c_rd', x)
    <3>1. Complete(c2s, u_rcv, c_rd, x) /\ x # p
      BY <1>c, <1>d, <1>2, <2>2, Zenon DEF ToUser
    <3> QED BY <1>a, <1>b, <1>2, <3>1, CompleteSkip, Zenon
  <2> QED BY <1>b, <2>1, <2>2, <1>2, ZenonT(60) DEF ToUser, Flow, Complete, KnownToServer
<1>3. StopServerPeers({p}) => p \in s_stop_req' /\ s_stop_req \subseteq s_stop_req'
  BY DEF StopServerPeers
<1>4. s_conn[p] = "open" => p \notin s_stop_req
  BY Zenon DEF Inv, Handshaken, ServerTable
<1> QED BY <1>1, <1>2, <1>3, <1>4, Zenon DEF ReportPeerData, s_ctl

\* Every other step, the accept that adds a user's connection included.
LEMMA ToUserOther ==
  ASSUME Inv, ToUser, [Next]_vars, \A p \in Peers : ~ReadTarget(p) /\ ~ReportPeerData(p) PROVE ToUser'
<1>a. /\ c2s \in Seq(Packet) /\ u_rcv \in [Peers -> Seq(Nat)] /\ c_rd \in [Peers -> Nat]
      /\ t_sent \in [Peers -> Nat] /\ Types
  BY DEF Inv, Types, StreamTypes, EndTypes, ClientTypes
<1>b. t_sent' \in [Peers -> Nat]
  BY <1>a, TypesStep, Zenon DEF Types, EndTypes
<1>c. c_rd' = c_rd /\ u_rcv' = u_rcv /\ \A p \in Peers : t_sent[p] <= t_sent'[p]
  BY <1>a, DataMoves, Zenon
<1>1. NoNew(c2s, c2s', "PEER_DATA")
  <2>1. "PEER_DATA" \in Tracked
    BY Zenon DEF Tracked
  <2>2. ASSUME NEW p \in Peers, ServerPeerTask(p) PROVE c2s' = c2s
    BY <2>2, ZenonT(60) DEF ServerPeerTask, SendPeerStarted, StatusReceived, WaitTimesOut, StopReceived,
       ReadUser, ReadUserEof, ReadUserFails, StoppedReceived, SendPeerStopped, ServerPeerEnds,
       ServerSends, SendFails, stream
  <2> QED BY <1>a, <2>1, <2>2, ClientTaskSends, OtherSends, NoNewCases, Zenon
<1>2. Flow(c2s', u_rcv', c_rd')
  BY <1>a, <1>c, <1>1, FlowNoNew, Zenon DEF ToUser
<1>3. \A p \in Peers : c_rd'[p] <= t_sent'[p]
  BY <1>a, <1>b, <1>c DEF ToUser
<1>4. ASSUME NEW p \in Peers, link' = "up", KnownToServer(p)', p \notin s_stop_req'
      PROVE  Complete(c2s', u_rcv', c_rd', p)
  <2>1. link = "up" /\ Keeps(c2s, c2s')
    BY <1>a, <1>4, QueuesKeep, Zenon
  <2>2. CASE AddNewServerPeerConn(p)
    <3>1. c_rd[p] = 0 /\ Len(u_rcv[p]) \in Nat
      <4>1. c_pc[p] = "none"
        BY <2>2 DEF AddNewServerPeerConn, Inv, Handshaken, AnnouncedOnce
      <4> QED BY <1>a, <4>1 DEF Inv, Handshaken, ReadAfterConfirm
    <3>2. c_rd'[p] = 0 /\ u_rcv'[p] = u_rcv[p] /\ (Len(u_rcv[p]) + 1)..0 = {}
      BY <1>c, <3>1, Nothing, Zenon
    <3> QED BY <3>2, Zenon DEF Complete
  <2>3. CASE ~AddNewServerPeerConn(p)
    <3>1. KnownToServer(p) /\ p \notin s_stop_req
      BY <1>a, <1>4, <2>3, ServerOpens, Zenon
    <3>2. Complete(c2s, u_rcv, c_rd, p)
      BY <2>1, <3>1, Zenon DEF ToUser
    <3> QED BY <1>a, <1>c, <2>1, <3>2, CompleteAppend, CompleteSkip, Zenon DEF Keeps
  <2> QED BY <2>2, <2>3, Zenon
<1> QED BY <1>2, <1>3, <1>4, ZenonT(60) DEF ToUser, Flow, Complete, KnownToServer

\* Every step keeps ToUser.
LEMMA ToUserStep == Inv /\ ToUser /\ [Next]_vars => ToUser'
BY ToUserRead, ToUserWrite, ToUserOther

-----------------------------------------------------------------------------
(* The ends of the two directions.                                         *)

\* Where a task of the server is once it has left its read loop.
Past == {"wait_stopped", "done", "cleanup", "gone"}

\* A task of the server that has left its read loop does not come back to it.
LEMMA ServerDone ==
  ASSUME Types, [Next]_vars, NEW p \in Peers, s_pc[p] \in Past
  PROVE  s_pc'[p] \in Past /\ (s_conn'[p] = "open" => s_conn[p] = "open")
<1> DEFINE Good == s_pc'[p] \in Past /\ (s_conn'[p] = "open" => s_conn[p] = "open")
<1>a. s_pc \in [Peers -> SPcs] /\ s_conn \in [Peers -> {"open", "closed"}]
  BY Zenon DEF Types, ServerTypes
<1>b. \A ps : StopServerPeers(ps) => (s_conn'[p] = "open" => s_conn[p] = "open")
  BY <1>a, Zenon DEF StopServerPeers
<1>1. ASSUME NEW x \in Peers, ServerPeerTask(x) PROVE Good
  <2>1. \E from \in SPcs, to \in SPcs : ServerPeerAt(x, from, to) /\ (from \in Past => to \in Past)
    BY <1>1, ZenonT(60) DEF ServerPeerTask, SendPeerStarted, StatusReceived, WaitTimesOut, StopReceived,
       ReadUser, ReadUserEof, ReadUserFails, StoppedReceived, SendPeerStopped, ServerPeerEnds,
       SPcs, Past
  <2>2. s_conn' = s_conn \/ StopServerPeers({x})
    BY <1>1, Zenon DEF ServerPeerTask, SendPeerStarted, StatusReceived, WaitTimesOut, StopReceived,
       ReadUser, ReadUserEof, ReadUserFails, StoppedReceived, SendPeerStopped, ServerPeerEnds, s_ctl
  <2>3. s_pc'[p] \in Past
    BY <1>a, <2>1, Zenon DEF ServerPeerAt
  <2>4. s_conn'[p] = "open" => s_conn[p] = "open"
    BY <1>b, <2>2, Zenon
  <2> QED BY <2>3, <2>4, Zenon
<1>2. ASSUME ServerRouteTask PROVE Good
  <2>1. ASSUME NEW x \in Peers, (\E b \in BOOLEAN : AcceptTCP(x, b)) \/ AddNewServerPeerConn(x) PROVE Good
    <3>1. s_pc[x] \in {"none", "accepted"}
      BY <2>1, Zenon DEF AcceptTCP, AddNewServerPeerConn
    <3>2. x # p
      BY <3>1 DEF Past
    <3>3. \E to : s_pc' = [s_pc EXCEPT ![x] = to]
      BY <2>1, Zenon DEF AcceptTCP, AddNewServerPeerConn
    <3>4. s_conn' = s_conn \/ \E c : s_conn' = [s_conn EXCEPT ![x] = c]
      BY <2>1, Zenon DEF AcceptTCP, AddNewServerPeerConn
    <3>5. s_pc'[p] = s_pc[p] /\ s_conn'[p] = s_conn[p]
      BY <1>a, <3>2, <3>3, <3>4, Zenon
    <3> QED BY <3>5, Zenon
  <2>2. CASE AcceptFails
    BY <1>b, <2>2, Zenon DEF AcceptFails, ServerRouteReqStop, s_task
  <2>3. CASE ServerRouteEnds
    BY <2>3, Zenon DEF ServerRouteEnds, s_task, s_ctl
  <2> QED BY <1>2, <2>1, <2>2, <2>3, Zenon DEF ServerRouteTask
<1>3. ASSUME ServerReceiver \/ ServerStopsRoute \/ \E x \in Peers : ServerStopsPeer(x) PROVE Good
  <2>1. s_pc' = s_pc /\ (s_conn' = s_conn \/ \E ps : StopServerPeers(ps))
    BY <1>3, Zenon DEF ServerReceiver, ReportPeerStarted, ReportPeerStopped, ReportPeerData,
       RouteStopRequested, ServerStopsRoute, ServerStopsPeer, ServerRouteReqStop, s_task, s_ctl
  <2> QED BY <1>b, <2>1, Zenon
<1>4. ASSUME UNCHANGED server PROVE Good
  BY <1>4, Zenon DEF server, s_task, s_ctl
<1> HIDE DEF Good
<1>5. Good
  BY <1>1, <1>2, <1>3, <1>4, OtherStepsKeepServer, Zenon
<1> QED BY <1>5, Zenon DEF Good

\* A user that has closed sends no more.
LEMMA ClosedUser ==
  ASSUME Types, [Next]_vars, NEW p \in u_fin
  PROVE  p \in u_fin' /\ u_sent'[p] = u_sent[p]
<1> DEFINE Good == p \in u_fin' /\ u_sent'[p] = u_sent[p]
<1>a. u_sent \in [Peers -> Nat] /\ p \in Peers
  BY Zenon DEF Types, EndTypes
<1>1. ASSUME NEW x \in Peers, UserWrites(x) PROVE Good
  <2>1. x # p /\ u_sent' = [u_sent EXCEPT ![x] = @ + 1] /\ u_fin' = u_fin
    BY <1>1, Zenon DEF UserWrites
  <2> QED BY <1>a, <2>1
<1>2. ASSUME NEW x \in Peers, UserCloses(x) PROVE Good
  BY <1>2 DEF UserCloses
<1>3. ASSUME u_sent' = u_sent, u_fin' = u_fin PROVE Good
  BY <1>3, Zenon
<1> HIDE DEF Good
<1>4. ASSUME NEW x \in Peers, ServerPeerTask(x) PROVE u_sent' = u_sent /\ u_fin' = u_fin
  BY <1>4, Zenon DEF ServerPeerTask, SendPeerStarted, StatusReceived, WaitTimesOut, StopReceived,
     ReadUser, ReadUserEof, ReadUserFails, StoppedReceived, SendPeerStopped, ServerPeerEnds, user
<1>5. ASSUME NEW x \in Peers, ClientPeerTask(x) PROVE u_sent' = u_sent /\ u_fin' = u_fin
  BY <1>5, Zenon DEF ClientPeerTask, DialSucceeds, DialFails, ConfirmPeerStarted, AbortPeer, ReadTarget,
     ReadTargetEnds, ReportStopped, ClientPeerEnds, user
<1>6. ASSUME ServerRouteTask \/ ServerReceiver \/ ClientRouteTask \/ ClientReceiver
      PROVE  u_sent' = u_sent /\ u_fin' = u_fin
  BY <1>6, Zenon DEF ServerRouteTask, AcceptTCP, AddNewServerPeerConn, AcceptFails, ServerRouteEnds,
     ServerReceiver, ReportPeerStarted, ReportPeerStopped, ReportPeerData, RouteStopRequested,
     ClientRouteTask, ClientRouteWakes, ClientRouteJoins, ClientRouteEnds, ClientReceiver,
     ConnectRequested, DisconnectRequested, CloseWriteRequested, WriteTarget, RouteStoppedReceived, user
<1>7. ASSUME Environment, \A x \in Peers : ~UserWrites(x) /\ ~UserCloses(x)
      PROVE  u_sent' = u_sent /\ u_fin' = u_fin
  BY <1>7, Zenon DEF Environment, TargetWrites, TargetCloses, ServerStopsPeer, ClientStopsPeer,
     ServerStopsRoute, ClientStopsRoute, BreakLink, user
<1>8. ASSUME UNCHANGED vars PROVE Good
  BY <1>8, <1>3, Zenon DEF vars, user
<1>9. Good
  BY <1>1, <1>2, <1>3, <1>4, <1>5, <1>6, <1>7, <1>8, Zenon DEF Next, Idle
<1> QED BY <1>9, Zenon DEF Good

\* Only CloseWriteRequested records an end, and stops are never taken back.
LEMMA ClientRecords ==
  ASSUME [Next]_vars
  PROVE  /\ c_eof' = c_eof \/ \E x \in Peers : CloseWriteRequested(x) /\ KnownToClient(x) /\ c_eof' = c_eof \cup {x}
         /\ c_stop_req \subseteq c_stop_req'
<1> DEFINE Good == /\ \/ c_eof' = c_eof
                      \/ \E x \in Peers : CloseWriteRequested(x) /\ KnownToClient(x) /\ c_eof' = c_eof \cup {x}
                   /\ c_stop_req \subseteq c_stop_req'
<1>a. \A ps : StopClientPeers(ps) => c_stop_req \subseteq c_stop_req'
  BY DEF StopClientPeers
<1>b. ASSUME c_eof' = c_eof, c_stop_req' = c_stop_req \/ \E ps : StopClientPeers(ps) PROVE Good
  BY <1>a, <1>b
<1>1. ASSUME NEW x \in Peers, CloseWriteRequested(x) PROVE Good
  BY <1>1, Zenon DEF CloseWriteRequested, c_ctl
<1> HIDE DEF Good
<1>2. ASSUME NEW x \in Peers, ClientPeerTask(x) PROVE Good
  BY <1>2, <1>b, Zenon DEF ClientPeerTask, DialSucceeds, DialFails, ConfirmPeerStarted, AbortPeer, ReadTarget,
     ReadTargetEnds, ReportStopped, ClientPeerEnds, c_ctl
<1>3. ASSUME ClientRouteTask PROVE Good
  BY <1>3, <1>b, Zenon DEF ClientRouteTask, ClientRouteWakes, ClientRouteJoins, ClientRouteEnds, c_ctl
<1>4. ASSUME ClientReceiver, \A x \in Peers : ~CloseWriteRequested(x) PROVE Good
  BY <1>4, <1>b, Zenon DEF ClientReceiver, ConnectRequested, DisconnectRequested, WriteTarget,
     RouteStoppedReceived, ClientRouteReqStop, c_ctl
<1>5. ASSUME ClientStopsRoute \/ \E x \in Peers : ClientStopsPeer(x) PROVE Good
  BY <1>5, <1>b, Zenon DEF ClientStopsRoute, ClientStopsPeer, ClientRouteReqStop
<1>6. ASSUME UNCHANGED client PROVE Good
  BY <1>6, <1>b, Zenon DEF client, c_ctl
<1>7. Good
  BY <1>1, <1>2, <1>3, <1>4, <1>5, <1>6, OtherStepsKeepClient, Zenon
<1> QED BY <1>7, Zenon DEF Good

\* Only ReadUserEof puts PEER_EOF into the stream, and leaves the read loop.
LEMMA EofSent ==
  ASSUME Types, [Next]_vars, NEW p \in Peers, InFlight(s2c', "PEER_EOF", p), ~InFlight(s2c, "PEER_EOF", p)
  PROVE  ReadUserEof(p) /\ s_pc'[p] = "wait_stopped"
<1>a. s2c \in Seq(Packet) /\ s_pc \in [Peers -> SPcs]
  BY Zenon DEF Types, StreamTypes, ServerTypes
<1>b. "PEER_EOF" \in Tracked
  BY DEF Tracked
<1>1. ASSUME NEW x \in Peers, ReadUserEof(x) PROVE ReadUserEof(p) /\ s_pc'[p] = "wait_stopped"
  <2>1. CASE s2c' = s2c
    BY <2>1, Zenon
  <2>2. CASE s2c' # s2c
    <3>1. s2c' = Append(s2c, Pkt("PEER_EOF", x)) /\ s_pc' = [s_pc EXCEPT ![x] = "wait_stopped"]
      BY <1>1, <2>2, Zenon DEF ReadUserEof, ServerSends, SendFails, stream, ServerPeerAt
    <3>2. Pkt("PEER_EOF", x) \in Packet /\ Pkt("PEER_EOF", x).peer = x
      BY PktType DEF PeerKinds, Pkt
    <3>3. x = p
      BY <1>a, <3>1, <3>2, AppendInFlight, Zenon
    <3> QED BY <1>1, <1>a, <3>1, <3>3
  <2> QED BY <2>1, <2>2, Zenon
<1>2. ASSUME \A x \in Peers : ~ReadUserEof(x) PROVE NoNew(s2c, s2c', "PEER_EOF")
  <2>1. ASSUME NEW x \in Peers, ClientPeerTask(x) PROVE s2c' = s2c
    BY <2>1, Zenon DEF ClientPeerTask, DialSucceeds, DialFails, ConfirmPeerStarted, AbortPeer, ReadTarget,
       ReadTargetEnds, ReportStopped, ClientPeerEnds, ClientSends, SendFails, stream
  <2>2. ASSUME NEW x \in Peers, ServerPeerTask(x) PROVE NoNew(s2c, s2c', "PEER_EOF")
    <3>1. CASE SendPeerStopped(x)
      <4>1. Pkt("PEER_STOPPED", x) \in Packet /\ Pkt("PEER_STOPPED", x).kind # "PEER_EOF"
        BY PktType, PktKind DEF PeerKinds
      <4>2. s2c' = s2c \/ s2c' = Append(s2c, Pkt("PEER_STOPPED", x))
        BY <3>1, Zenon DEF SendPeerStopped, ServerSends
      <4> QED BY <4>1, <4>2, Zenon DEF NoNew
    <3>2. CASE ~SendPeerStopped(x)
      BY <1>b, <1>2, <2>2, <3>2, ServerTaskSends, Zenon
    <3> QED BY <3>1, <3>2, Zenon
  <2> QED BY <1>b, <2>1, <2>2, OtherSends, Zenon DEF NoNew
<1>3. CASE \A x \in Peers : ~ReadUserEof(x)
  BY <1>a, <1>2, <1>3, NoNewInFlight, Zenon
<1> QED BY <1>1, <1>3, Zenon

\* Without a read no chunk joins the queue to the client.
LEMMA NoChunkSent ==
  ASSUME Types, [Next]_vars, \A x \in Peers : ~ReadUser(x)
  PROVE  NoNew(s2c, s2c', "PEER_DATA")
<1>1. "PEER_DATA" \in Tracked
  BY DEF Tracked
<1>2. ASSUME NEW x \in Peers, ClientPeerTask(x) PROVE s2c' = s2c
  BY <1>2, Zenon DEF ClientPeerTask, DialSucceeds, DialFails, ConfirmPeerStarted, AbortPeer, ReadTarget,
     ReadTargetEnds, ReportStopped, ClientPeerEnds, ClientSends, SendFails, stream
<1>3. ASSUME NEW x \in Peers, ServerPeerTask(x) PROVE NoNew(s2c, s2c', "PEER_DATA")
  BY <1>1, <1>3, ServerTaskSends, Zenon
<1> QED BY <1>1, <1>2, <1>3, OtherSends, Zenon DEF NoNew

\* What ReadUser puts into the queue.
LEMMA ChunkSent ==
  ASSUME Types, NEW x \in Peers, ReadUser(x)
  PROVE  \/ s2c' = s2c
         \/ \E m \in Packet : m.kind = "PEER_DATA" /\ m.peer = x /\ s2c' = Append(s2c, m)
<1>1. s_rd[x] + 1 \in Nat
  BY DEF Types, ServerTypes
<1>2. LET m == DataPkt(x, s_rd[x] + 1) IN m \in Packet /\ m.kind = "PEER_DATA" /\ m.peer = x
  BY <1>1, PktType DEF DataPkt, PeerKinds
<1>3. s2c' = s2c \/ s2c' = Append(s2c, DataPkt(x, s_rd[x] + 1))
  BY Zenon DEF ReadUser, ServerSends, SendFails, stream
<1> QED BY <1>2, <1>3, Zenon

\* Every step keeps what PEER_EOF means.
LEMMA EofStep == Inv /\ ToTarget /\ EofIsFinal /\ [Next]_vars => EofIsFinal'
<1> SUFFICES ASSUME Inv, ToTarget, EofIsFinal, [Next]_vars PROVE EofIsFinal'
  BY Zenon
<1>a. /\ s2c \in Seq(Packet) /\ t_rcv \in [Peers -> Seq(Nat)] /\ s_rd \in [Peers -> Nat]
      /\ c_eof \subseteq Peers /\ link \in {"up", "down"} /\ Types
  BY Zenon DEF Inv, Types, StreamTypes, EndTypes, ServerTypes, ClientTypes
<1>b. ASSUME NEW p \in Peers, p \in c_eof', p \notin c_eof
      PROVE  CloseWriteRequested(p) /\ KnownToClient(p)
  BY <1>b, ClientRecords, Zenon
<1>c. ASSUME NEW p \in Peers, CloseWriteRequested(p)
      PROVE  s2c # <<>> /\ Head(s2c).kind = "PEER_EOF" /\ Head(s2c).peer = p /\ s2c' = Tail(s2c)
  BY <1>c, Zenon DEF CloseWriteRequested, ClientTakes
<1>d. ASSUME NEW p \in Peers, p \in c_eof' \/ InFlight(s2c', "PEER_EOF", p)
      PROVE  \/ p \in c_eof \/ InFlight(s2c, "PEER_EOF", p)
             \/ ReadUserEof(p) /\ s_pc'[p] = "wait_stopped"
  <2>1. CASE p \in c_eof' /\ p \notin c_eof
    BY <1>a, <1>b, <1>c, <2>1, HeadInFlight, Zenon
  <2>2. CASE InFlight(s2c', "PEER_EOF", p)
    BY <1>a, <2>2, EofSent, Zenon
  <2> QED BY <1>d, <2>1, <2>2, Zenon
<1>1. ASSUME NEW p \in Peers, p \in c_eof' \/ InFlight(s2c', "PEER_EOF", p)
      PROVE  s_pc'[p] \in Past /\ (s_conn'[p] = "open" => p \in u_fin' /\ s_rd'[p] = u_sent'[p])
  <2>1. CASE p \in c_eof \/ InFlight(s2c, "PEER_EOF", p)
    <3>1. s_pc[p] \in Past /\ (s_conn[p] = "open" => p \in u_fin /\ s_rd[p] = u_sent[p])
      BY <2>1, Zenon DEF EofIsFinal, Past
    <3>2. s_pc'[p] \in Past /\ (s_conn'[p] = "open" => s_conn[p] = "open")
      BY <1>a, <3>1, ServerDone, Zenon
    <3>3. s_pc[p] # "read"
      BY <3>1 DEF Past
    <3>4. s_rd'[p] = s_rd[p]
      BY <1>a, <3>3, ServerMoves, Zenon
    <3> QED BY <1>a, <3>1, <3>2, <3>4, ClosedUser, Zenon
  <2>2. CASE ReadUserEof(p) /\ s_pc'[p] = "wait_stopped"
    <3>1. UNCHANGED <<s_conn, s_rd, u_fin, u_sent>>
      BY <2>2, Zenon DEF ReadUserEof, s_ctl, user
    <3>2. s_conn[p] = "closed" \/ (p \in u_fin /\ s_rd[p] = u_sent[p])
      BY <2>2, Zenon DEF ReadUserEof
    <3> QED BY <2>2, <3>1, <3>2 DEF Past
  <2> QED BY <1>1, <1>d, <2>1, <2>2, Zenon
<1>2. ASSUME NEW p \in Peers, p \in c_eof' PROVE ~InFlight(s2c', "PEER_DATA", p)
  <2>1. CASE p \in c_eof
    <3>1. ~InFlight(s2c, "PEER_DATA", p) /\ s_pc[p] # "read"
      BY <2>1, Zenon DEF EofIsFinal
    <3>2. CASE \A x \in Peers : ~ReadUser(x)
      BY <1>a, <3>1, <3>2, NoChunkSent, NoNewInFlight, Zenon
    <3>3. ASSUME NEW x \in Peers, ReadUser(x) PROVE ~InFlight(s2c', "PEER_DATA", p)
      <4>1. x # p
        BY <3>1, <3>3, Zenon DEF ReadUser, ServerPeerAt
      <4>2. ASSUME NEW m \in Packet, m.peer = x, s2c' = Append(s2c, m) PROVE ~InFlight(s2c', "PEER_DATA", p)
        BY <1>a, <3>1, <4>1, <4>2, AppendInFlight, Zenon
      <4>3. CASE s2c' = s2c
        BY <3>1, <4>3, Zenon
      <4> QED BY <1>a, <3>3, <4>2, <4>3, ChunkSent, Zenon
    <3> QED BY <3>2, <3>3, Zenon
  <2>2. CASE p \notin c_eof
    <3>1. ~InFlight(s2c, "PEER_DATA", p)
      <4>1. Final(s2c, "PEER_EOF")
        BY Zenon DEF EofIsFinal
      <4> QED BY <1>2, <1>a, <1>b, <1>c, <2>2, <4>1, NothingBehind, Zenon
    <3>2. NoNew(s2c, s2c', "PEER_DATA")
      BY <1>2, <1>b, <1>c, <2>2, Zenon DEF NoNew
    <3> QED BY <1>a, <3>1, <3>2, NoNewInFlight, Zenon
  <2> QED BY <2>1, <2>2, Zenon
<1>3. ASSUME NEW p \in Peers, p \in c_eof', p \notin c_stop_req' PROVE Len(t_rcv'[p]) = s_rd'[p]
  <2>0. p \notin c_stop_req
    BY <1>3, ClientRecords, Zenon
  <2>1. CASE p \in c_eof
    <3>1. Len(t_rcv[p]) = s_rd[p] /\ ~InFlight(s2c, "PEER_DATA", p) /\ s_pc[p] # "read"
      BY <2>0, <2>1, Zenon DEF EofIsFinal
    <3>2. s_rd'[p] = s_rd[p]
      BY <1>a, <3>1, ServerMoves, Zenon
    <3>3. CASE \A x \in Peers : ~WriteTarget(x)
      BY <1>a, <3>1, <3>2, <3>3, DataMoves, Zenon
    <3>4. ASSUME NEW x \in Peers, WriteTarget(x) PROVE t_rcv'[p] = t_rcv[p]
      <4>1. InFlight(s2c, "PEER_DATA", x)
        BY <1>a, <3>4, HeadInFlight, Zenon DEF WriteTarget, ClientTakes
      <4>2. x # p
        BY <3>1, <4>1, Zenon
      <4>3. t_rcv' = t_rcv \/ \E n : t_rcv' = [t_rcv EXCEPT ![x] = n]
        BY <3>4, Zenon DEF WriteTarget
      <4> QED BY <1>a, <4>2, <4>3
    <3> QED BY <3>1, <3>2, <3>3, <3>4, ZenonT(60)
  <2>2. CASE p \notin c_eof
    <3>1. CloseWriteRequested(p) /\ KnownToClient(p) /\ s2c # <<>>
      BY <1>3, <1>b, <1>c, <2>2, Zenon
    <3>2. link = "up"
      BY <1>a, <3>1 DEF Inv, Handshaken, BrokenIsEmpty
    <3>3. Complete(s2c, t_rcv, s_rd, p) /\ Flow(s2c, t_rcv, s_rd)
      BY <2>0, <3>1, <3>2, Zenon DEF ToTarget
    <3>4. ~InFlight(s2c, "PEER_DATA", p)
      <4>1. Final(s2c, "PEER_EOF")
        BY Zenon DEF EofIsFinal
      <4> QED BY <1>a, <1>c, <3>1, <4>1, NothingBehind, Zenon
    <3>5. UNCHANGED <<t_rcv, s_rd>>
      BY <3>1, Zenon DEF CloseWriteRequested, target, server, s_task
    <3> QED BY <1>a, <3>3, <3>4, <3>5, NothingMissing, Zenon
  <2> QED BY <2>1, <2>2, Zenon
<1>4. Final(s2c', "PEER_EOF")
  <2>0. Final(s2c, "PEER_EOF")
    BY Zenon DEF EofIsFinal
  <2>1. CASE \A x \in Peers : ~ReadUser(x)
    <3>1. NoNew(s2c, s2c', "PEER_DATA")
      BY <1>a, <2>1, NoChunkSent, Zenon
    <3> QED BY <1>a, <2>0, <3>1, FinalKept
  <2>2. ASSUME NEW x \in Peers, ReadUser(x) PROVE Final(s2c', "PEER_EOF")
    <3>1. s_pc[x] = "read"
      BY <2>2, Zenon DEF ReadUser, ServerPeerAt
    <3>2. ~InFlight(s2c, "PEER_EOF", x)
      BY <3>1, Zenon DEF EofIsFinal
    <3>3. CASE s2c' = s2c
      BY <2>0, <3>3, Zenon
    <3>4. ASSUME NEW m \in Packet, m.kind = "PEER_DATA", m.peer = x, s2c' = Append(s2c, m)
          PROVE  Final(s2c', "PEER_EOF")
      BY <1>a, <2>0, <3>2, <3>4, FinalRead, Zenon
    <3> QED BY <1>a, <2>2, <3>3, <3>4, ChunkSent, Zenon
  <2> QED BY <2>1, <2>2, Zenon
<1>5. c_eof' \subseteq Peers
  BY <1>a, ClientRecords, Zenon
<1> QED BY <1>1, <1>2, <1>3, <1>4, <1>5, Zenon DEF EofIsFinal, Past

\* A client peer that has reported its end reads no more.
LEMMA ClientDone ==
  ASSUME Types, AnnouncedOnce, [Next]_vars, NEW p \in Peers, c_pc[p] \in {"cleanup", "gone"}
  PROVE  c_pc'[p] \in {"cleanup", "gone"}
<1>a. c_pc \in [Peers -> CPcs] /\ s2c \in Seq(Packet)
  BY Zenon DEF Types, ClientTypes, StreamTypes
<1>1. ASSUME NEW x \in Peers, ClientPeerTask(x) PROVE c_pc'[p] \in {"cleanup", "gone"}
  <2>1. \/ c_pc[x] \notin {"cleanup", "gone"} /\ \E to : c_pc' = [c_pc EXCEPT ![x] = to]
        \/ c_pc' = [c_pc EXCEPT ![x] = "gone"]
    BY <1>1, Zenon DEF ClientPeerTask, DialSucceeds, DialFails, ConfirmPeerStarted, AbortPeer, ReadTarget,
       ReadTargetEnds, ReportStopped, ClientPeerEnds, ClientPeerAt
  <2> QED BY <1>a, <2>1
<1>2. ASSUME NEW x \in Peers, ConnectRequested(x) PROVE c_pc'[p] = c_pc[p]
  <2>1. InFlight(s2c, "PEER_STARTED", x)
    BY <1>a, <1>2, HeadInFlight, Zenon DEF ConnectRequested, ClientTakes
  <2>2. c_pc[x] = "none"
    BY <2>1, Zenon DEF AnnouncedOnce
  <2>3. x # p
    BY <2>2, Zenon
  <2>4. c_pc' = c_pc \/ c_pc' = [c_pc EXCEPT ![x] = "dial"]
    BY <1>2, Zenon DEF ConnectRequested
  <2> QED BY <1>a, <2>3, <2>4
<1>3. ASSUME ClientReceiver, \A x \in Peers : ~ConnectRequested(x) PROVE c_pc' = c_pc
  BY <1>3, Zenon DEF ClientReceiver, DisconnectRequested, CloseWriteRequested, WriteTarget,
     RouteStoppedReceived, c_task
<1>4. ASSUME ClientRouteTask \/ ClientStopsRoute \/ \E x \in Peers : ClientStopsPeer(x) PROVE c_pc' = c_pc
  BY <1>4, Zenon DEF ClientRouteTask, ClientRouteWakes, ClientRouteJoins, ClientRouteEnds,
     ClientStopsRoute, ClientStopsPeer, c_task
<1>5. ASSUME UNCHANGED client PROVE c_pc' = c_pc
  BY <1>5, Zenon DEF client, c_task
<1> QED BY <1>1, <1>2, <1>3, <1>4, <1>5, OtherStepsKeepClient, Zenon

\* Only ReportStopped puts PEER_STOPPED into the stream, at the end of a peer.
LEMMA StoppedSent ==
  ASSUME Types, [Next]_vars, NEW p \in Peers, InFlight(c2s', "PEER_STOPPED", p), ~InFlight(c2s, "PEER_STOPPED", p)
  PROVE  c_pc'[p] = "cleanup"
<1>a. c2s \in Seq(Packet) /\ c_pc \in [Peers -> CPcs]
  BY Zenon DEF Types, StreamTypes, ClientTypes
<1>b. "PEER_STOPPED" \in Tracked
  BY DEF Tracked
<1>1. ASSUME NEW x \in Peers, ReportStopped(x) PROVE c_pc'[p] = "cleanup"
  <2>1. c2s' = c2s \/ c2s' = Append(c2s, Pkt("PEER_STOPPED", x))
    BY <1>1, Zenon DEF ReportStopped, ClientSends
  <2>2. Pkt("PEER_STOPPED", x) \in Packet /\ Pkt("PEER_STOPPED", x).peer = x
    BY PktType, Zenon DEF PeerKinds, Pkt
  <2>3. x = p
    BY <1>a, <2>1, <2>2, AppendInFlight, ZenonT(60)
  <2>4. c_pc' = [c_pc EXCEPT ![x] = "cleanup"]
    BY <1>1, Zenon DEF ReportStopped, ClientPeerAt
  <2> QED BY <1>a, <2>3, <2>4, Zenon
<1>2. ASSUME \A x \in Peers : ~ReportStopped(x) PROVE NoNew(c2s, c2s', "PEER_STOPPED")
  <2>1. ASSUME NEW x \in Peers, ServerPeerTask(x) PROVE c2s' = c2s
    BY <2>1, Zenon DEF ServerPeerTask, SendPeerStarted, StatusReceived, WaitTimesOut, StopReceived,
       ReadUser, ReadUserEof, ReadUserFails, StoppedReceived, SendPeerStopped, ServerPeerEnds,
       ServerSends, SendFails, stream
  <2>2. ASSUME NEW x \in Peers, ClientPeerTask(x) PROVE NoNew(c2s, c2s', "PEER_STOPPED")
    BY <1>b, <1>2, <2>2, ClientTaskSends, Zenon
  <2> QED BY <1>b, <2>1, <2>2, OtherSends, Zenon DEF NoNew
<1> QED BY <1>a, <1>1, <1>2, NoNewInFlight, Zenon

\* Every step keeps what PEER_STOPPED of the client means.
LEMMA StoppedStep == Inv /\ StoppedIsFinal /\ [Next]_vars => StoppedIsFinal'
<1> SUFFICES ASSUME Inv, StoppedIsFinal, [Next]_vars PROVE StoppedIsFinal'
  BY Zenon
<1>a. c2s \in Seq(Packet) /\ Types /\ AnnouncedOnce /\ Final(c2s, "PEER_STOPPED") /\ c_rd \in [Peers -> Nat]
  BY Zenon DEF Inv, Types, StreamTypes, ClientTypes, Handshaken, StoppedIsFinal
<1>1. ASSUME NEW p \in Peers, InFlight(c2s', "PEER_STOPPED", p) PROVE c_pc'[p] \in {"cleanup", "gone"}
  <2>1. CASE InFlight(c2s, "PEER_STOPPED", p)
    <3>1. c_pc[p] \in {"cleanup", "gone"}
      BY <2>1, Zenon DEF StoppedIsFinal
    <3> QED BY <1>a, <3>1, ClientDone, Zenon
  <2>2. CASE ~InFlight(c2s, "PEER_STOPPED", p)
    <3>1. c_pc'[p] = "cleanup"
      BY <1>a, <1>1, <2>2, StoppedSent, Zenon
    <3> QED BY <3>1, Zenon
  <2> QED BY <2>1, <2>2, Zenon
<1>2. Final(c2s', "PEER_STOPPED")
  <2>1. ASSUME \A x \in Peers : ~ReadTarget(x) PROVE Final(c2s', "PEER_STOPPED")
    <3>1. "PEER_DATA" \in Tracked
      BY DEF Tracked
    <3>2. ASSUME NEW x \in Peers, ServerPeerTask(x) PROVE c2s' = c2s
      BY <3>2, Zenon DEF ServerPeerTask, SendPeerStarted, StatusReceived, WaitTimesOut, StopReceived,
         ReadUser, ReadUserEof, ReadUserFails, StoppedReceived, SendPeerStopped, ServerPeerEnds,
         ServerSends, SendFails, stream
    <3>3. ASSUME NEW x \in Peers, ClientPeerTask(x) PROVE NoNew(c2s, c2s', "PEER_DATA")
      BY <1>a, <2>1, <3>1, <3>3, ClientTaskSends, Zenon
    <3>4. NoNew(c2s, c2s', "PEER_DATA")
      BY <3>1, <3>2, <3>3, OtherSends, Zenon DEF NoNew
    <3> QED BY <1>a, <3>4, FinalKept
  <2>2. ASSUME NEW x \in Peers, ReadTarget(x) PROVE Final(c2s', "PEER_STOPPED")
    <3>1. c_pc[x] = "run" /\ (c2s' = c2s \/ c2s' = Append(c2s, DataPkt(x, c_rd[x] + 1)))
      BY <2>2, Zenon DEF ReadTarget, ClientPeerAt, ClientSends, SendFails, stream
    <3>2. ~InFlight(c2s, "PEER_STOPPED", x)
      BY <3>1 DEF StoppedIsFinal
    <3>3. c_rd[x] + 1 \in Nat
      BY <1>a, Order, Zenon
    <3>4. /\ DataPkt(x, c_rd[x] + 1) \in Packet /\ DataPkt(x, c_rd[x] + 1).kind = "PEER_DATA"
          /\ DataPkt(x, c_rd[x] + 1).peer = x
      BY <3>3, PktType, Zenon DEF DataPkt, PeerKinds
    <3>5. Final(Append(c2s, DataPkt(x, c_rd[x] + 1)), "PEER_STOPPED")
      BY <1>a, <3>2, <3>4, FinalRead
    <3> QED BY <1>a, <3>1, <3>5, Zenon
  <2> QED BY <2>1, <2>2, Zenon
<1> QED BY <1>1, <1>2, Zenon DEF StoppedIsFinal

-----------------------------------------------------------------------------
(* Theorems.                                                               *)

\* The flow invariants of both directions always hold.
LEMMA FlowAlways == Spec => [](Inv /\ ToTarget /\ ToUser)
<1>1. Init => ToTarget /\ ToUser
  <2> SUFFICES ASSUME Init PROVE ToTarget /\ ToUser
    BY Zenon
  <2>1. Flow(s2c, t_rcv, s_rd) /\ Flow(c2s, u_rcv, c_rd)
    <3>1. /\ s2c = <<>> /\ c2s = <<>>
          /\ \A p \in Peers : t_rcv[p] = <<>> /\ s_rd[p] = 0 /\ u_rcv[p] = <<>> /\ c_rd[p] = 0
      BY Zenon DEF Init, ServerPeersInit, ClientPeersInit
    <3> QED BY <3>1, Nothing, ZenonT(60) DEF Flow, InOrder
  <2>2. \A p \in Peers : Complete(s2c, t_rcv, s_rd, p) /\ Complete(c2s, u_rcv, c_rd, p)
    <3>1. /\ s2c = <<>> /\ c2s = <<>>
          /\ \A p \in Peers : t_rcv[p] = <<>> /\ s_rd[p] = 0 /\ u_rcv[p] = <<>> /\ c_rd[p] = 0
      BY Zenon DEF Init, ServerPeersInit, ClientPeersInit
    <3> QED BY <3>1, Nothing, ZenonT(60) DEF Complete
  <2>3. \A p \in Peers : s_rd[p] <= u_sent[p] /\ c_rd[p] <= t_sent[p]
    <3>1. \A p \in Peers : s_rd[p] = 0 /\ u_sent[p] = 0 /\ c_rd[p] = 0 /\ t_sent[p] = 0
      BY Zenon DEF Init, ServerPeersInit, ClientPeersInit
    <3> QED BY <3>1, Nothing, Zenon
  <2> QED BY <2>1, <2>2, <2>3, Zenon DEF ToTarget, ToUser
<1>2. Inv /\ ToTarget /\ ToUser /\ [Next]_vars => (Inv /\ ToTarget /\ ToUser)'
  BY InvStep, ToTargetStep, ToUserStep
<1> QED BY <1>1, <1>2, InvInit, PTL DEF Spec

\* Data from a user reaches its target in order, without loss, repetition or
\* data of another user, for any number of peers and chunks and at every cut of
\* the stream, of a peer or of a route: the read loop of ServerPeerConn.RunTask,
\* the packet stream and PEER_DATA of ClientRoute.ReportPacket together.
THEOREM TargetOrder == Spec => []TargetGetsPrefix
<1>1. Inv /\ ToTarget => TargetGetsPrefix
  <2> SUFFICES ASSUME Inv, ToTarget, NEW p \in Peers
               PROVE  InOrder(t_rcv[p]) /\ Len(t_rcv[p]) <= u_sent[p]
    BY Zenon DEF TargetGetsPrefix
  <2>1. Len(t_rcv[p]) \in Nat /\ s_rd[p] \in Nat /\ u_sent[p] \in Nat
    BY DEF Inv, Types, ServerTypes, EndTypes
  <2>2. InOrder(t_rcv[p]) /\ Len(t_rcv[p]) <= s_rd[p] /\ s_rd[p] <= u_sent[p]
    BY Zenon DEF ToTarget, Flow
  <2> QED BY <2>1, <2>2, Order, Zenon
<1> QED BY <1>1, FlowAlways, PTL

\* The same of the data from a target to its user: ClientPeerConn.RunTask, the
\* packet stream and PEER_DATA of ServerPeerConn.ReportPacket.
THEOREM UserOrder == Spec => []UserGetsPrefix
<1>1. Inv /\ ToUser => UserGetsPrefix
  <2> SUFFICES ASSUME Inv, ToUser, NEW p \in Peers
               PROVE  InOrder(u_rcv[p]) /\ Len(u_rcv[p]) <= t_sent[p]
    BY Zenon DEF UserGetsPrefix
  <2>1. Len(u_rcv[p]) \in Nat /\ c_rd[p] \in Nat /\ t_sent[p] \in Nat
    BY DEF Inv, Types, ClientTypes, EndTypes
  <2>2. InOrder(u_rcv[p]) /\ Len(u_rcv[p]) <= c_rd[p] /\ c_rd[p] <= t_sent[p]
    BY Zenon DEF ToUser, Flow
  <2> QED BY <2>1, <2>2, Order, Zenon
<1> QED BY <1>1, FlowAlways, PTL

\* CloseWrite of ClientRoute.ReportPacket (PEER_EOF) ends the target's input
\* only after all that ServerPeerConn.RunTask read from the user, which is all
\* the user wrote unless the server has closed the connection itself:
\* half-closing overtakes and loses no chunk.
THEOREM EofLast == Spec => []EofAfterData
<1>1. Init => EofIsFinal
  <2> SUFFICES ASSUME Init PROVE EofIsFinal
    BY Zenon
  <2>1. c_eof = {} /\ s2c = <<>>
    BY Zenon DEF Init, ClientPeersInit
  <2> QED BY <2>1, Nothing, ZenonT(60) DEF EofIsFinal, InFlight, Final
<1>2. EofIsFinal /\ Inv => EofAfterData
  BY Zenon DEF EofIsFinal, EofAfterData
<1>3. (Inv /\ ToTarget /\ ToUser) /\ EofIsFinal /\ [Next]_vars => EofIsFinal'
  BY EofStep, Zenon
<1> QED BY <1>1, <1>2, <1>3, FlowAlways, PTL DEF Spec

\* When PEER_STOPPED of ClientPeerConn.RunTask reaches the server, which closes
\* the user's connection on it, the user has all that was read from the target:
\* a response is not cut by the end of the connection that follows it.
THEOREM ResponseFirst == Spec => []ResponseBeforeClose
<1>1. Init => StoppedIsFinal
  <2> SUFFICES ASSUME Init PROVE StoppedIsFinal
    BY Zenon
  <2>1. c2s = <<>>
    BY Zenon DEF Init
  <2> QED BY <2>1 DEF StoppedIsFinal, InFlight, Final
<1>2. Inv /\ ToUser /\ StoppedIsFinal => ResponseBeforeClose
  <2> SUFFICES ASSUME Inv, ToUser, StoppedIsFinal, c2s # <<>>, Head(c2s).kind = "PEER_STOPPED",
                      KnownToServer(Head(c2s).peer), Head(c2s).peer \notin s_stop_req
               PROVE  Len(u_rcv[Head(c2s).peer]) = c_rd[Head(c2s).peer]
    BY Zenon DEF ResponseBeforeClose
  <2>a. /\ c2s \in Seq(Packet) /\ u_rcv \in [Peers -> Seq(Nat)] /\ c_rd \in [Peers -> Nat]
        /\ link \in {"up", "down"} /\ pts_map \subseteq Peers
    BY Zenon DEF Inv, Types, StreamTypes, EndTypes, ClientTypes, ServerTypes
  <2>1. Head(c2s).peer \in Peers
    BY <2>a, Zenon DEF KnownToServer
  <2>2. link = "up"
    BY <2>a, Zenon DEF Inv, Handshaken, BrokenIsEmpty
  <2>3. Flow(c2s, u_rcv, c_rd) /\ Complete(c2s, u_rcv, c_rd, Head(c2s).peer)
    BY <2>1, <2>2, Zenon DEF ToUser
  <2>4. Final(c2s, "PEER_STOPPED")
    BY Zenon DEF StoppedIsFinal
  <2>5. ~InFlight(c2s, "PEER_DATA", Head(c2s).peer)
    BY <2>a, <2>4, NothingBehind
  <2> QED BY <2>a, <2>1, <2>3, <2>5, NothingMissing, Zenon
<1>3. (Inv /\ ToTarget /\ ToUser) /\ StoppedIsFinal /\ [Next]_vars => StoppedIsFinal'
  BY StoppedStep, Zenon
<1> QED BY <1>1, <1>2, <1>3, FlowAlways, PTL DEF Spec

-----------------------------------------------------------------------------
(* Counters.                                                               *)

\* Every step keeps stats.peers of both ends the sizes of the tables.
LEMMA CountedStep ==
  ASSUME Types, ServerTable, ClientTable, Counted, [Next]_vars PROVE Counted'
<1>1. IsFiniteSet(pts_map') /\ s_peers' = Cardinality(pts_map')
  <2>1. CASE UNCHANGED <<pts_map, s_peers>>
    BY <2>1 DEF Counted
  <2>2. ASSUME NEW p \in Peers, ServerPeerEnds(p)
        PROVE  IsFiniteSet(pts_map') /\ s_peers' = Cardinality(pts_map')
    <3>1. p \in pts_map
      BY <2>2 DEF ServerPeerEnds, ServerPeerAt, ServerTable
    <3> QED BY <2>2, <3>1, FS_RemoveElement, Zenon DEF ServerPeerEnds, RemoveServerPeerConn, Counted
  <2>3. ASSUME NEW p \in Peers, AddNewServerPeerConn(p)
        PROVE  IsFiniteSet(pts_map') /\ s_peers' = Cardinality(pts_map')
    <3>1. p \notin pts_map
      BY <2>3 DEF AddNewServerPeerConn, ServerTable
    <3> QED BY <2>1, <2>3, <3>1, FS_AddElement DEF AddNewServerPeerConn, Counted
  <2> QED BY <2>1, <2>2, <2>3, TableSteps, Zenon
<1>2. IsFiniteSet(ptc_map') /\ c_peers' = Cardinality(ptc_map')
  <2>1. CASE UNCHANGED <<ptc_map, c_peers>>
    BY <2>1 DEF Counted
  <2>2. ASSUME NEW p \in Peers, ClientPeerEnds(p)
        PROVE  IsFiniteSet(ptc_map') /\ c_peers' = Cardinality(ptc_map')
    <3>1. p \in ptc_map
      BY <2>2, Zenon DEF ClientPeerEnds, ClientPeerAt, ClientTable
    <3> QED BY <2>2, <3>1, FS_RemoveElement, Zenon DEF ClientPeerEnds, RemoveClientPeerConn, Counted
  <2>3. ASSUME NEW p \in Peers, DialSucceeds(p)
        PROVE  IsFiniteSet(ptc_map') /\ c_peers' = Cardinality(ptc_map')
    <3>1. p \notin ptc_map
      BY <2>3, Zenon DEF DialSucceeds, ClientPeerAt, ClientTable
    <3> QED BY <2>3, <3>1, FS_AddElement, Zenon DEF DialSucceeds, Counted
  <2> QED BY <2>1, <2>2, <2>3, TableSteps, Zenon
<1> QED BY <1>1, <1>2, Zenon DEF Counted

-----------------------------------------------------------------------------
(* Theorems.                                                               *)

CountInv == Inv /\ Counted

\* The invariant with the counters holds initially ...
LEMMA CountInvInit == Init => CountInv
<1> SUFFICES ASSUME Init PROVE Counted
  BY InvInit DEF CountInv
<1> QED
  BY FS_EmptySet, Zenon DEF Init, ServerPeersInit, ClientPeersInit, Counted

\* ... is kept by every step ...
LEMMA CountInvStep == CountInv /\ [Next]_vars => CountInv'
BY InvStep, CountedStep, Zenon DEF CountInv, Inv, Handshaken

\* ... and so always holds.
LEMMA CountInvAlways == Spec => []CountInv
BY CountInvInit, CountInvStep, PTL DEF Spec

\* The state of a tunnel stays consistent, for any number of peers, of chunks
\* and any limits: the tables of the two routes match the tasks, the counters
\* match the tables, and the two ends agree on which peers are started.
THEOREM Consistent == Spec => []TunnelConsistent
<1>1. CountInv => TunnelConsistent
  BY DEF CountInv, Inv, Handshaken, TunnelConsistent
<1> QED BY <1>1, CountInvAlways, PTL

\* Every variable has its type in every state; in particular stats.peers of
\* neither end (server.go RemoveServerPeerConn, client.go RemoveClientPeerConn)
\* goes below zero.
THEOREM TypeCorrect == Spec => []TypeOK
<1>1. CountInv => TypeOK
  <2> SUFFICES ASSUME CountInv PROVE TypeOK
    OBVIOUS
  <2>1. s_peers \in Nat /\ c_peers \in Nat
    BY FS_CardinalityType, Zenon DEF CountInv, Counted
  <2> QED BY <2>1 DEF CountInv, Inv, Types, TypeOK
<1> QED BY <1>1, CountInvAlways, PTL

\* stats.peers, which the accept loop compares with pts_limit, counts pts_map.
THEOREM ServerCountsItsPeers == Spec => []ServerPeersCounted
<1>1. CountInv => ServerPeersCounted
  BY Zenon DEF CountInv, Counted, ServerPeersCounted
<1> QED BY <1>1, CountInvAlways, PTL


-----------------------------------------------------------------------------
(* Limits.                                                                 *)

OpenPeers == {p \in pts_map : s_conn[p] = "open"}

\* Between accept and add, the one accepted connection is open only if the
\* table still has room under pts_limit.
RoomForAccepted ==
  /\ \A p, x \in Peers : s_pc[p] = "accepted" /\ s_pc[x] = "accepted" => p = x /\ sroute.pc = "add"
  /\ \A p \in Peers : s_pc[p] = "accepted" /\ s_conn[p] = "open" /\ PtsLimit > 0 =>
       Cardinality(pts_map) < PtsLimit
  /\ PtsLimit > 0 => Cardinality(OpenPeers) <= PtsLimit
  /\ Cardinality(pts_map) <= RouteMax

\* Every step but accept and add only shrinks what the limits bound.
LEMMA LimitsShrink ==
  ASSUME Inv, [Next]_vars, \A p \in Peers : ~AddNewServerPeerConn(p) /\ \A b \in BOOLEAN : ~AcceptTCP(p, b)
  PROVE  /\ pts_map' \subseteq pts_map
         /\ \A p \in Peers : s_conn'[p] = "open" => s_conn[p] = "open"
         /\ \A p \in Peers : s_pc'[p] = "accepted" => s_pc[p] = "accepted"
         /\ sroute.pc = "add" => sroute'.pc = "add"
<1> DEFINE Good == /\ pts_map' \subseteq pts_map
                   /\ \A p \in Peers : s_conn'[p] = "open" => s_conn[p] = "open"
                   /\ \A p \in Peers : s_pc'[p] = "accepted" => s_pc[p] = "accepted"
                   /\ sroute.pc = "add" => sroute'.pc = "add"
<1>a. /\ s_conn \in [Peers -> {"open", "closed"}] /\ s_pc \in [Peers -> SPcs]
      /\ sroute \in [pc : {"accept", "add", "wait", "gone"}, stop_req : BOOLEAN,
                     listening : BOOLEAN, in_map : BOOLEAN]
  BY Zenon DEF Inv, Types, ServerTypes
<1>b. \A ps : StopServerPeers(ps) => \A p \in Peers : s_conn'[p] = "open" => s_conn[p] = "open"
  BY <1>a, Zenon DEF StopServerPeers
<1>1. ASSUME NEW x \in Peers, ServerPeerTask(x) PROVE Good
  <2>1. \E to \in {"wait_started", "read", "wait_stopped", "done", "cleanup", "gone"} :
          s_pc' = [s_pc EXCEPT ![x] = to]
    BY <1>1, ZenonT(60) DEF ServerPeerTask, SendPeerStarted, StatusReceived, WaitTimesOut, StopReceived,
       ReadUser, ReadUserEof, ReadUserFails, StoppedReceived, SendPeerStopped, ServerPeerEnds,
       ServerPeerAt
  <2>2. sroute' = sroute /\ pts_map' \subseteq pts_map
    BY <1>1, ZenonT(60) DEF ServerPeerTask, SendPeerStarted, StatusReceived, WaitTimesOut, StopReceived,
       ReadUser, ReadUserEof, ReadUserFails, StoppedReceived, SendPeerStopped, ServerPeerEnds,
       RemoveServerPeerConn, s_table
  <2>3. s_conn' = s_conn \/ StopServerPeers({x})
    BY <1>1, Zenon DEF ServerPeerTask, SendPeerStarted, StatusReceived, WaitTimesOut, StopReceived,
       ReadUser, ReadUserEof, ReadUserFails, StoppedReceived, SendPeerStopped, ServerPeerEnds, s_ctl
  <2>4. \A p \in Peers : s_pc'[p] = "accepted" => s_pc[p] = "accepted"
    BY <1>a, <2>1
  <2>5. \A p \in Peers : s_conn'[p] = "open" => s_conn[p] = "open"
    BY <1>b, <2>3, Zenon
  <2> QED BY <2>2, <2>4, <2>5, Zenon
<1>2. CASE AcceptFails \/ ServerStopsRoute
  <2>1. ServerRouteReqStop /\ UNCHANGED <<s_pc, pts_map>>
    BY <1>2 DEF AcceptFails, ServerStopsRoute, s_task, s_table
  <2>2. sroute.pc = "add" => sroute'.pc = "add"
    BY <1>a, <1>2, Zenon DEF AcceptFails, ServerStopsRoute
  <2> QED BY <1>b, <2>1, <2>2, Zenon DEF ServerRouteReqStop
<1>3. CASE ServerRouteEnds
  BY <1>3 DEF ServerRouteEnds, s_task, s_ctl, s_table
<1>4. CASE ServerReceiver
  <2>1. UNCHANGED <<s_pc, pts_map>>
    BY <1>4, Zenon DEF ServerReceiver, ReportPeerStarted, ReportPeerStopped, ReportPeerData,
                RouteStopRequested, s_task, s_table
  <2>2. \/ sroute' = sroute
        \/ sroute' = [sroute EXCEPT !.in_map = FALSE, !.stop_req = TRUE, !.listening = FALSE]
    BY <1>4, Zenon DEF ServerReceiver, ReportPeerStarted, ReportPeerStopped, ReportPeerData,
                RouteStopRequested
  <2>3. s_conn' = s_conn \/ \E ps : StopServerPeers(ps)
    BY <1>4, Zenon DEF ServerReceiver, ReportPeerStarted, ReportPeerStopped, ReportPeerData,
                RouteStopRequested, ServerRouteReqStop, s_ctl
  <2>4. \A p \in Peers : s_conn'[p] = "open" => s_conn[p] = "open"
    BY <1>b, <2>3, Zenon
  <2> QED BY <1>a, <2>1, <2>2, <2>4, Zenon
<1>5. ASSUME NEW x \in Peers, ServerStopsPeer(x) PROVE Good
  BY <1>b, <1>5, Zenon DEF ServerStopsPeer, s_task, s_table
<1>6. CASE UNCHANGED server
  BY <1>6, Zenon DEF server, s_task, s_ctl, s_table
<1>7. Good
  BY <1>1, <1>2, <1>3, <1>4, <1>5, <1>6, OtherStepsKeepServer, ZenonT(60) DEF ServerRouteTask
<1> QED BY <1>7, Zenon DEF Good

\* Every step keeps RoomForAccepted: the accept loop is the only one to add.
LEMMA RoomStep == CountInv /\ RoomForAccepted /\ [Next]_vars => RoomForAccepted'
<1> SUFFICES ASSUME CountInv, RoomForAccepted, [Next]_vars PROVE RoomForAccepted'
  OBVIOUS
<1>a. /\ s_conn \in [Peers -> {"open", "closed"}] /\ s_pc \in [Peers -> SPcs]
      /\ sroute \in [pc : {"accept", "add", "wait", "gone"}, stop_req : BOOLEAN,
                     listening : BOOLEAN, in_map : BOOLEAN]
      /\ ServerTable
  BY Zenon DEF CountInv, Inv, Types, ServerTypes, Handshaken
<1>b. IsFiniteSet(pts_map) /\ s_peers = Cardinality(pts_map) /\ Cardinality(pts_map) \in Nat
  BY FS_CardinalityType DEF CountInv, Counted
<1>c. PtsLimit \in Nat /\ RouteMax \in Nat
  BY BoundsAssumption, Zenon
<1>d. IsFiniteSet(OpenPeers) /\ Cardinality(OpenPeers) \in Nat /\ Cardinality(OpenPeers) <= Cardinality(pts_map)
  BY <1>b, FS_Subset, FS_CardinalityType, Zenon DEF OpenPeers
<1>1. ASSUME NEW p \in Peers, NEW b \in BOOLEAN, AcceptTCP(p, b) PROVE RoomForAccepted'
  <2>1. p \notin pts_map /\ pts_map' = pts_map
    BY <1>a, <1>1 DEF AcceptTCP, ServerTable
  <2>2. OpenPeers' = OpenPeers
    BY <1>a, <1>1, <2>1 DEF AcceptTCP, OpenPeers
  <2>3. s_conn'[p] = "open" /\ PtsLimit > 0 => Cardinality(pts_map) < PtsLimit
    BY <1>a, <1>b, <1>1 DEF AcceptTCP, BelowPtsLimit
  <2>4. \A x \in Peers : s_pc[x] # "accepted"
    BY <1>1, Zenon DEF AcceptTCP, RoomForAccepted
  <2>5. \A x \in Peers : s_pc'[x] = "accepted" => x = p
    BY <1>a, <1>1, <2>4, Zenon DEF AcceptTCP
  <2>6. sroute'.pc = "add"
    BY <1>a, <1>1, Zenon DEF AcceptTCP
  <2> QED BY <2>1, <2>2, <2>3, <2>5, <2>6, Zenon DEF RoomForAccepted
<1>2. ASSUME NEW p \in Peers, AddNewServerPeerConn(p) PROVE RoomForAccepted'
  <2>1. \A x \in Peers : s_pc'[x] # "accepted"
    <3>1. \A x \in Peers : x # p => s_pc[x] # "accepted"
      BY <1>2 DEF AddNewServerPeerConn, RoomForAccepted
    <3> QED BY <1>a, <1>2, <3>1, Zenon DEF AddNewServerPeerConn
  <2>2. p \notin pts_map
    BY <1>a, <1>2, Zenon DEF AddNewServerPeerConn, ServerTable
  <2>3. CASE Cardinality(pts_map) >= RouteMax
    <3>1. pts_map' = pts_map /\ OpenPeers' = OpenPeers
      <4>1. pts_map' = pts_map /\ s_conn' = [s_conn EXCEPT ![p] = "closed"]
        BY <1>2, <2>3, Zenon DEF AddNewServerPeerConn
      <4>2. pts_map \subseteq Peers
        BY DEF CountInv, Inv, Types, ServerTypes
      <4>3. \A x \in pts_map : s_conn'[x] = s_conn[x]
        BY <1>a, <2>2, <4>1, <4>2, ZenonT(60)
      <4> QED BY <4>1, <4>3 DEF OpenPeers
    <3> QED BY <2>1, <3>1, Zenon DEF RoomForAccepted
  <2>4. CASE ~(Cardinality(pts_map) >= RouteMax)
    <3>1. pts_map' = pts_map \cup {p} /\ s_conn' = s_conn
      BY <1>2, <2>4, Zenon DEF AddNewServerPeerConn
    <3>2. Cardinality(pts_map') = Cardinality(pts_map) + 1 /\ IsFiniteSet(pts_map')
      BY <1>b, <2>2, <3>1, FS_AddElement, Zenon
    <3>3. PtsLimit > 0 => Cardinality(OpenPeers') <= PtsLimit
      <4>1. CASE s_conn[p] = "open"
        <5>1. PtsLimit > 0 => Cardinality(pts_map) < PtsLimit
          BY <1>2, <4>1 DEF AddNewServerPeerConn, RoomForAccepted
        <5>2. OpenPeers' \subseteq pts_map'
          BY Zenon DEF OpenPeers
        <5>3. Cardinality(OpenPeers') <= Cardinality(pts_map') /\ Cardinality(OpenPeers') \in Nat
          BY <3>2, <5>2, FS_Subset, FS_CardinalityType, Zenon
        <5> QED BY <1>b, <1>c, <3>2, <5>1, <5>3
      <4>2. CASE s_conn[p] # "open"
        <5>1. OpenPeers' = OpenPeers
          BY <3>1, <4>2, Zenon DEF OpenPeers
        <5> QED BY <5>1, Zenon DEF RoomForAccepted
      <4> QED BY <4>1, <4>2
    <3>4. Cardinality(pts_map') <= RouteMax
      BY <1>b, <1>c, <2>4, <3>2, SMTT(60)
    <3> QED BY <2>1, <3>3, <3>4, Zenon DEF RoomForAccepted
  <2> QED BY <2>3, <2>4
<1>3. CASE \A p \in Peers : ~AddNewServerPeerConn(p) /\ \A b \in BOOLEAN : ~AcceptTCP(p, b)
  <2>1. /\ pts_map' \subseteq pts_map
        /\ \A p \in Peers : s_conn'[p] = "open" => s_conn[p] = "open"
        /\ \A p \in Peers : s_pc'[p] = "accepted" => s_pc[p] = "accepted"
        /\ sroute.pc = "add" => sroute'.pc = "add"
    BY <1>3, LimitsShrink, Zenon DEF CountInv
  <2>2. Cardinality(pts_map') <= Cardinality(pts_map) /\ Cardinality(pts_map') \in Nat
    BY <1>b, <2>1, FS_Subset, FS_CardinalityType, Zenon
  <2>3. pts_map \subseteq Peers
    BY Zenon DEF CountInv, Inv, Types, ServerTypes
  <2>4. OpenPeers' \subseteq OpenPeers
    BY <2>1, <2>3, Zenon DEF OpenPeers
  <2>5. Cardinality(OpenPeers') <= Cardinality(OpenPeers) /\ Cardinality(OpenPeers') \in Nat
    BY <1>d, <2>4, FS_Subset, FS_CardinalityType, ZenonT(60)
  <2>6. PtsLimit > 0 => Cardinality(OpenPeers') <= PtsLimit
    BY <1>c, <1>d, <2>5, SMTT(60) DEF RoomForAccepted
  <2>7. Cardinality(pts_map') <= RouteMax
    BY <1>b, <1>c, <2>2, Order, Zenon DEF RoomForAccepted
  <2>8. \A p \in Peers : s_pc'[p] = "accepted" /\ s_conn'[p] = "open" /\ PtsLimit > 0 =>
          Cardinality(pts_map') < PtsLimit
    BY <1>b, <1>c, <2>1, <2>2, Order, Zenon DEF RoomForAccepted
  <2>9. \A p, x \in Peers : s_pc'[p] = "accepted" /\ s_pc'[x] = "accepted" => p = x /\ sroute'.pc = "add"
    BY <2>1, Zenon DEF RoomForAccepted
  <2> QED BY <2>6, <2>7, <2>8, <2>9, Zenon DEF RoomForAccepted
<1> QED BY <1>1, <1>2, <1>3, Zenon

\* pts_limit bounds the users whose connections the server keeps open, and the
\* table of the route its peers, although the accept loop (ServerRoute.RunTask)
\* tests stats.peers and adds in two steps with other tasks in between.
THEOREM LimitsHold == Spec => []OpenPeersWithinLimits
<1>1. Init => RoomForAccepted
  <2> SUFFICES ASSUME Init PROVE RoomForAccepted
    BY Zenon
  <2>1. pts_map = {} /\ OpenPeers = {} /\ \A p \in Peers : s_pc[p] = "none"
    BY Zenon DEF Init, ServerPeersInit, OpenPeers
  <2>2. 0 <= RouteMax /\ (PtsLimit > 0 => 0 <= PtsLimit)
    BY BoundsAssumption, Order, Zenon
  <2> QED BY <2>1, <2>2, FS_EmptySet, Zenon DEF RoomForAccepted
<1>2. RoomForAccepted => OpenPeersWithinLimits
  BY Zenon DEF RoomForAccepted, OpenPeersWithinLimits, OpenPeers
<1>3. Spec => [](CountInv /\ RoomForAccepted)
  <2>1. Init => CountInv /\ RoomForAccepted
    BY <1>1, CountInvInit, Zenon
  <2>2. CountInv /\ RoomForAccepted /\ [Next]_vars => (CountInv /\ RoomForAccepted)'
    BY CountInvStep, RoomStep
  <2> QED BY <2>1, <2>2, PTL DEF Spec
<1> QED BY <1>2, <1>3, PTL
=============================================================================
