--------------------------- MODULE RxcJobs_proofs ---------------------------
(***************************************************************************)
(* Proofs about RxcJobs, for every set of jobs and connections and every   *)
(* finite set of runs: its types, how the phases of runs and jobs belong   *)
(* together, the counters of a job, the order of its completion events,    *)
(* its place in the expiry heap, and that nothing active is removed.       *)
(*                                                                         *)
(* The counters are numbers of runs, so the invariant says which runs each *)
(* of them counts; a step moves one run from one such set to another.      *)
(***************************************************************************)
EXTENDS RxcJobs, FiniteSetTheorems, TLAPS

-----------------------------------------------------------------------------
(* The initial state, and the jobs that are done.                          *)

\* The types hold when the server starts.
LEMMA InitType == Init => TypeOK
BY RunsAssumption, JobsAssumption DEF Init, TypeOK, Status, Packet

\* A job is marked done, and its event published, by the one goroutine that takes
\* active_run_count to zero; until then the job is in the table.
DoneInv ==
  /\ \A r \in Runs : fin[r] = "mark_done" => active[JobOf[r]] = 0
  /\ \A j \in done : active[j] = 0
  /\ \A j \in Jobs : active[j] > 0 => j \in rxc_job_map
  /\ \A j \in Jobs : job_events[j] <= 1 /\ (job_events[j] = 1 => j \in done)
  /\ \A r \in Runs : fin[r] = "publish_job" => JobOf[r] \in done /\ job_events[JobOf[r]] = 0
  /\ \A q, r \in Runs : fin[q] = "publish_job" /\ fin[r] = "publish_job" /\ JobOf[q] = JobOf[r] => q = r

\* No job is done when the server starts.
LEMMA InitDone == Init => DoneInv
BY RunsAssumption DEF Init, DoneInv

\* Jobs without active runs may leave the table.
LEMMA DoneRemoved ==
  ASSUME DoneInv, active \in [Jobs -> Nat], NEW gone, \A j \in gone : active[j] = 0,
         rxc_job_map' = rxc_job_map \ gone, UNCHANGED <<fin, active, job_events, done>>
  PROVE  DoneInv'
<1>1. \A j \in Jobs : active[j] > 0 => active[j] # 0
  OBVIOUS
<1> QED
  BY <1>1, ZenonT(60) DEF DoneInv

\* Publishing a job's completion event publishes its only one.
LEMMA DonePublished ==
  ASSUME DoneInv, job_events \in [Jobs -> Nat], JobOf \in [Runs -> Jobs],
         fin \in [Runs -> {"none", "publish", "deactivate", "mark_done", "publish_job", "notify", "over"}],
         NEW r \in Runs, fin[r] = "publish_job", fin' = [fin EXCEPT ![r] = "notify"],
         job_events' = [job_events EXCEPT ![JobOf[r]] = @ + 1],
         UNCHANGED <<active, done, rxc_job_map>>
  PROVE  DoneInv'
BY SMTT(60) DEF DoneInv

\* The length of two queues put together.
LEMMA ConcatLen == \A a, b \in Seq(Jobs) : Len(a \o b) = Len(a) + Len(b)
OBVIOUS

\* What removal leaves of the heap: every other entry, and none twice.
LEMMA WithoutJobHeap ==
  ASSUME TypeOK, HeapInMap, NEW j \in Jobs
  PROVE  /\ \A i \in 1..Len(WithoutJob(j)) : WithoutJob(j)[i] # j /\ WithoutJob(j)[i] \in rxc_job_map \cap done
         /\ \A i, k \in 1..Len(WithoutJob(j)) : i # k => WithoutJob(j)[i] # WithoutJob(j)[k]
<1>1. heap \in Seq(Jobs)
  BY DEF TypeOK
<1>2. CASE ~InHeap(j)
  BY <1>2 DEF WithoutJob, InHeap, HeapInMap
<1>3. CASE InHeap(j)
  <2>1. HeapIndex(j) \in 1..Len(heap) /\ heap[HeapIndex(j)] = j
    BY <1>3 DEF InHeap, HeapIndex
  <2>2. PICK x \in 1..Len(heap) : x = HeapIndex(j) /\ heap[x] = j
    BY <2>1
  <2>3. PICK n \in Nat : n = Len(heap)
    BY <1>1
  <2> DEFINE a == SubSeq(heap, 1, x - 1)
             b == SubSeq(heap, x + 1, Len(heap))
             w == WithoutJob(j)
  <2>4. w = a \o b
    BY <1>3, <2>2, Zenon DEF WithoutJob
  <2>5. a \in Seq(Jobs) /\ Len(a) = x - 1 /\ \A i \in 1..(x - 1) : a[i] = heap[i]
    BY <1>1, <2>2, <2>3
  <2>6. b \in Seq(Jobs) /\ Len(b) = n - x /\ \A i \in 1..(n - x) : b[i] = heap[i + x]
    BY <1>1, <2>2, <2>3, SMTT(60)
  <2> HIDE DEF a, b, w
  <2>7. Len(w) = n - 1
    <3>1. w = a \o b /\ a \in Seq(Jobs) /\ b \in Seq(Jobs) /\ Len(a) = x - 1 /\ Len(b) = n - x
      BY <2>4, <2>5, <2>6, Zenon
    <3>2. Len(a \o b) = Len(a) + Len(b)
      BY <3>1, ConcatLen, Zenon
    <3>3. (x - 1) + (n - x) = n - 1
      BY <2>2, <2>3
    <3> QED
      BY <3>1, <3>2, <3>3, Zenon
  <2>8. ASSUME NEW i \in 1..(n - 1)
        PROVE  w[i] = heap[IF i < x THEN i ELSE i + 1]
    <3>1. CASE i < x
      <4>1. i \in 1..(x - 1)
        BY <3>1, <2>2, <2>3
      <4>2. w[i] = a[i]
        BY <4>1, <2>4, <2>5, <2>6, <2>2, <2>3
      <4> QED
        BY <3>1, <4>1, <4>2, <2>5
    <3>2. CASE ~(i < x)
      <4>1. i - (x - 1) \in 1..(n - x)
        BY <3>2, <2>2, <2>3
      <4>2. w[i] = b[i - (x - 1)]
        <5>1. i \in 1..(Len(a) + Len(b)) /\ i > Len(a)
          BY <3>2, <2>2, <2>3, <2>5, <2>6, SMTT(60)
        <5>2. (a \o b)[i] = b[i - Len(a)]
          BY <5>1, <2>5, <2>6
        <5> QED
          BY <5>2, <2>4, <2>5, Zenon
      <4>3. b[i - (x - 1)] = heap[i - (x - 1) + x] /\ i - (x - 1) + x = i + 1
        BY <4>1, <2>6, <2>2, <2>3, SMTT(60)
      <4> QED
        BY <3>2, <4>2, <4>3
    <3> QED
      BY <3>1, <3>2
  <2>9. ASSUME NEW i \in 1..Len(w) PROVE w[i] # j /\ w[i] \in rxc_job_map \cap done
    <3> DEFINE y == IF i < x THEN i ELSE i + 1
    <3>1. y \in 1..Len(heap) /\ y # x /\ i \in 1..(n - 1)
      BY <2>2, <2>3, <2>7, SMTT(60)
    <3>2. w[i] = heap[y]
      BY <3>1, <2>8, Zenon
    <3> HIDE DEF y
    <3> QED
      BY <3>1, <3>2, <2>2 DEF HeapInMap
  <2>10. ASSUME NEW i \in 1..Len(w), NEW k \in 1..Len(w), i # k PROVE w[i] # w[k]
    <3> DEFINE y == IF i < x THEN i ELSE i + 1
               z == IF k < x THEN k ELSE k + 1
    <3>1. y \in 1..Len(heap) /\ z \in 1..Len(heap) /\ y # z /\ i \in 1..(n - 1) /\ k \in 1..(n - 1)
      BY <2>2, <2>3, <2>7, <2>10
    <3>2. w[i] = heap[y] /\ w[k] = heap[z]
      BY <3>1, <2>8
    <3> HIDE DEF y, z
    <3> QED
      BY <3>1, <3>2 DEF HeapInMap
  <2> QED
    BY <2>9, <2>10 DEF w
<1> QED
  BY <1>2, <1>3

\* Deleting a job leaves the heap with retained, finished jobs, each once.
LEMMA HeapWithout ==
  ASSUME TypeOK, HeapInMap, NEW j \in Jobs,
         rxc_job_map' = rxc_job_map \ {j}, heap' = WithoutJob(j), UNCHANGED done
  PROVE  HeapInMap'
<1>1. /\ \A i \in 1..Len(heap') : heap'[i] # j /\ heap'[i] \in rxc_job_map \cap done
      /\ \A i, k \in 1..Len(heap') : i # k => heap'[i] # heap'[k]
  BY WithoutJobHeap, Zenon
<1>2. \A i \in 1..Len(heap') : heap'[i] \in rxc_job_map' \cap done'
  BY <1>1, Zenon
<1> QED
  BY <1>1, <1>2, Zenon DEF HeapInMap

\* A job that becomes done joins the heap once.
LEMMA HeapGrows ==
  ASSUME heap \in Seq(Jobs), HeapInMap, NEW j \in Jobs, j \in rxc_job_map, j \notin done,
         heap' = Append(heap, j), done' = done \cup {j}, UNCHANGED rxc_job_map
  PROVE  HeapInMap'
<1>1. PICK n \in Nat : n = Len(heap)
  OBVIOUS
<1>2. /\ Len(heap') = n + 1 /\ heap'[n + 1] = j
      /\ \A i \in 1..n : heap'[i] = heap[i]
  BY <1>1
<1>3. \A i \in 1..(n + 1) : i = n + 1 \/ i \in 1..n
  BY <1>1
<1>4. \A i \in 1..n : heap[i] \in rxc_job_map \cap done /\ heap[i] # j
  BY <1>1, Zenon DEF HeapInMap
<1>5. \A i \in 1..Len(heap') : heap'[i] \in rxc_job_map' \cap done'
  BY <1>2, <1>3, <1>4, Zenon
<1>6. \A i, k \in 1..n : i # k => heap[i] # heap[k]
  BY <1>1, Zenon DEF HeapInMap
<1>7. ASSUME NEW i \in 1..Len(heap'), NEW k \in 1..Len(heap'), i # k
      PROVE  heap'[i] # heap'[k]
  <2>1. (i = n + 1 \/ i \in 1..n) /\ (k = n + 1 \/ k \in 1..n)
    BY <1>2, <1>3, Zenon
  <2> QED
    BY <1>2, <1>4, <1>6, <1>7, <2>1, Zenon
<1> QED
  BY <1>5, <1>7, Zenon DEF HeapInMap

\* The purger takes the first jobs of the heap out of the table with them.
LEMMA HeapPurged ==
  ASSUME heap \in Seq(Jobs), HeapInMap, NEW k \in 0..Len(heap)
  PROVE  /\ \A i \in 1..k : heap[i] \in done
         /\ /\ rxc_job_map' = rxc_job_map \ {heap[i] : i \in 1..k}
            /\ heap' = SubSeq(heap, k + 1, Len(heap)) /\ UNCHANGED done
            => HeapInMap'
<1>1. PICK n \in Nat : n = Len(heap)
  OBVIOUS
<1>2. /\ \A i \in 1..k : i \in 1..n
      /\ \A i \in 1..(n - k) : i + k \in 1..n /\ \A x \in 1..k : x # i + k
      /\ \A i, x \in 1..(n - k) : i # x => i + k # x + k
  BY <1>1
<1>3. /\ \A i \in 1..n : heap[i] \in rxc_job_map \cap done
      /\ \A i, x \in 1..n : i # x => heap[i] # heap[x]
  BY <1>1, Zenon DEF HeapInMap
<1>4. \A i \in 1..k : heap[i] \in done
  BY <1>2, <1>3, Zenon
<1>5. ASSUME rxc_job_map' = rxc_job_map \ {heap[i] : i \in 1..k},
             heap' = SubSeq(heap, k + 1, Len(heap)), UNCHANGED done
      PROVE  HeapInMap'
  <2>1. Len(heap') = n - k /\ \A i \in 1..(n - k) : heap'[i] = heap[i + k]
    BY <1>1, <1>5
  <2>2. \A i \in 1..(n - k) : heap'[i] \in rxc_job_map' \cap done'
    BY <1>2, <1>3, <1>5, <2>1, Zenon
  <2>3. \A i, x \in 1..(n - k) : i # x => heap'[i] # heap'[x]
    BY <1>2, <1>3, <2>1, Zenon
  <2> QED
    BY <2>1, <2>2, <2>3, Zenon DEF HeapInMap
<1> QED
  BY <1>4, <1>5, Zenon

-----------------------------------------------------------------------------
(* Types.                                                                  *)

\* What a step of the counters keeps of their type.
LEMMA MovedType ==
  ASSUME TypeOK, NEW j \in Jobs, NEW s \in Status, NEW t \in Status
  PROVE  Moved(j, s, t) \in [Jobs \X Status -> Nat]
BY DEF TypeOK, Moved

\* The operations on the tallies keep their types.
LEMMA SetStatusType ==
  ASSUME TypeOK, NEW r \in Runs, NEW t \in Status, SetStatus(r, t)
  PROVE  /\ status' \in [Runs -> Status]
         /\ count' \in [Jobs \X Status -> Nat]
<1>1. JobOf[r] \in Jobs /\ status[r] \in Status
  BY RunsAssumption DEF TypeOK
<1> QED
  BY <1>1, MovedType, Zenon DEF SetStatus, TypeOK

TallyType ==
  /\ status \in [Runs -> Status] /\ count \in [Jobs \X Status -> Nat]
  /\ fin \in [Runs -> {"none", "publish", "deactivate", "mark_done", "publish_job", "notify", "over"}]

\* EndRun keeps the types of the tallies.
LEMMA EndRunType ==
  ASSUME TypeOK, NEW r \in Runs, NEW t \in Terminal, EndRun(r, t)
  PROVE  TallyType'
<1>1. t \in Status
  BY DEF Terminal, Status
<1>2. CASE Ended(r)
  BY <1>2 DEF EndRun, tallies, TallyType, TypeOK
<1>3. CASE ~Ended(r)
  <2>1. SetStatus(r, t) /\ fin' = [fin EXCEPT ![r] = "publish"]
    BY <1>3 DEF EndRun
  <2> QED
    BY <2>1, <1>1, SetStatusType, Zenon DEF TallyType, TypeOK
<1> QED
  BY <1>2, <1>3

\* RequestStop keeps the types of the tallies and of the stop requests.
LEMMA RequestStopType ==
  ASSUME TypeOK, NEW r \in Runs, RequestStop(r)
  PROVE  TallyType' /\ stop_sends' \subseteq Runs
<1>1. CASE status[r] = "running"
  <2>1. SetStatus(r, "stopping") /\ stop_sends' = stop_sends \cup {r} /\ UNCHANGED fin
    BY <1>1 DEF RequestStop
  <2>2. "stopping" \in Status
    BY DEF Status
  <2> QED
    BY <2>1, <2>2, SetStatusType, ZenonT(60) DEF TallyType, TypeOK
<1>2. CASE status[r] # "running"
  BY <1>2 DEF RequestStop, tallies, TallyType, TypeOK
<1> QED
  BY <1>1, <1>2

\* Sends keep the types of the streams.
LEMMA SendsType ==
  ASSUME TypeOK, NEW c \in Conns, NEW m \in Packet
  PROVE  /\ ServerSends(c, m) => s2c' \in [Conns -> Seq(Packet)] /\ c2s' \in [Conns -> Seq(Packet)]
         /\ ClientSends(c, m) => s2c' \in [Conns -> Seq(Packet)] /\ c2s' \in [Conns -> Seq(Packet)]
<1>1. s2c[c] \in Seq(Packet) /\ c2s[c] \in Seq(Packet)
  BY DEF TypeOK
<1>2. Append(s2c[c], m) \in Seq(Packet) /\ Append(c2s[c], m) \in Seq(Packet)
  BY <1>1
<1>3. /\ [s2c EXCEPT ![c] = Append(@, m)] \in [Conns -> Seq(Packet)]
      /\ [c2s EXCEPT ![c] = Append(@, m)] \in [Conns -> Seq(Packet)]
  BY <1>2 DEF TypeOK
<1> QED
  BY <1>3, ZenonT(60) DEF TypeOK, ServerSends, ClientSends

\* Packets.
LEMMA PktType ==
  ASSUME NEW r \in Runs
  PROVE  Pkt("RXC_START", r) \in Packet /\ Pkt("RXC_STOP", r) \in Packet
BY DEF Pkt, Packet

\* So does taking the packet at the head of one.
LEMMA TakesType ==
  ASSUME TypeOK, NEW c \in Conns
  PROVE  /\ s2c[c] # <<>> => [s2c EXCEPT ![c] = Tail(@)] \in [Conns -> Seq(Packet)]
         /\ c2s[c] # <<>> => [c2s EXCEPT ![c] = Tail(@)] \in [Conns -> Seq(Packet)]
<1>1. s2c[c] \in Seq(Packet) /\ c2s[c] \in Seq(Packet)
  BY DEF TypeOK
<1>2. s2c[c] # <<>> => Tail(s2c[c]) \in Seq(Packet)
  BY <1>1
<1>3. c2s[c] # <<>> => Tail(c2s[c]) \in Seq(Packet)
  BY <1>1
<1> QED
  BY <1>2, <1>3 DEF TypeOK

\* Removal from the heap keeps its type.
LEMMA WithoutJobType ==
  ASSUME TypeOK, NEW j \in Jobs
  PROVE  WithoutJob(j) \in Seq(Jobs)
<1>1. heap \in Seq(Jobs)
  BY DEF TypeOK
<1>2. CASE InHeap(j)
  <2>1. HeapIndex(j) \in 1..Len(heap)
    BY <1>2 DEF InHeap, HeapIndex
  <2> DEFINE i == HeapIndex(j)
  <2>2. i \in 1..Len(heap)
    BY <2>1
  <2>3. WithoutJob(j) = SubSeq(heap, 1, i - 1) \o SubSeq(heap, i + 1, Len(heap))
    BY <1>2, Zenon DEF WithoutJob
  <2> HIDE DEF i
  <2>4. SubSeq(heap, 1, i - 1) \in Seq(Jobs)
    BY <1>1, <2>2
  <2>5. SubSeq(heap, i + 1, Len(heap)) \in Seq(Jobs)
    BY <1>1, <2>2
  <2> QED
    BY <2>3, <2>4, <2>5
<1>3. CASE ~InHeap(j)
  BY <1>1, <1>3 DEF WithoutJob
<1> QED
  BY <1>2, <1>3

\* Every step keeps the types, a finite set of targets having a size.
LEMMA TypeStep ==
  ASSUME TypeOK, [Next]_vars, \A S \in SUBSET Runs : Cardinality(S) \in Nat
  PROVE  TypeOK'
<1> DEFINE Good == TypeOK'
<1> HIDE DEF Good
<1> SUFFICES Good
  BY DEF Good
<1> USE RunsAssumption
<1>1. ASSUME NEW r \in Runs, PublishRunDone(r) PROVE Good
  <2> SUFFICES TypeOK'
    BY DEF Good
  <2> QED
    BY <1>1 DEF TypeOK, PublishRunDone, runs, tallies, events, table, purging, stops, registry, conns, streams, clients
<1>2. ASSUME NEW r \in Runs, Deactivate(r) PROVE Good
  <2> SUFFICES TypeOK'
    BY DEF Good
  <2> QED
    BY <1>2, SMTT(60) DEF TypeOK, Deactivate, runs, tallies, events, table, purging, stops, registry, conns, streams, clients
<1>3. ASSUME NEW r \in Runs, MarkJobDone(r) PROVE Good
  <2> SUFFICES TypeOK'
    BY DEF Good
  <2>1. CASE JobOf[r] \notin rxc_job_map \/ JobOf[r] \in done
    BY <1>3, <2>1, ZenonT(60) DEF TypeOK, MarkJobDone, runs, tallies, events, table, purging, stops, registry, conns, streams, clients
  <2>2. CASE ~(JobOf[r] \notin rxc_job_map \/ JobOf[r] \in done)
    <3>1. /\ fin' = [fin EXCEPT ![r] = "publish_job"]
          /\ done' = done \cup {JobOf[r]}
          /\ heap' = IF Retention THEN Append(heap, JobOf[r]) ELSE heap
          /\ UNCHANGED rxc_job_map
      BY <1>3, <2>2 DEF MarkJobDone
    <3>2. JobOf[r] \in Jobs /\ heap \in Seq(Jobs)
      BY DEF TypeOK
    <3>3. Append(heap, JobOf[r]) \in Seq(Jobs)
      BY <3>2
    <3>4. heap' \in Seq(Jobs) /\ done' \subseteq Jobs /\ rxc_job_map' \subseteq Jobs
      BY <3>1, <3>2, <3>3 DEF TypeOK
    <3> QED
      BY <1>3, <3>1, <3>4, Zenon DEF TypeOK, MarkJobDone, runs, events, purging, stops, registry, conns, streams, clients
  <2> QED
    BY <2>1, <2>2
<1>4. ASSUME NEW r \in Runs, PublishJobDone(r) PROVE Good
  <2> SUFFICES TypeOK'
    BY DEF Good
  <2> QED
    BY <1>4 DEF TypeOK, PublishJobDone, runs, tallies, events, table, purging, stops, registry, conns, streams, clients
<1>5. ASSUME NEW r \in Runs, NotifyPurge(r) PROVE Good
  <2> SUFFICES TypeOK'
    BY DEF Good
  <2> QED
    BY <1>5 DEF TypeOK, NotifyPurge, runs, tallies, events, table, purging, stops, registry, conns, streams, clients
<1>6. ASSUME NEW r \in Runs, RegisterRxc(r) PROVE Good
  <2> SUFFICES TypeOK'
    BY DEF Good
  <2> QED
    BY <1>6, SMTT(60) DEF TypeOK, RegisterRxc, runs, tallies, events, table, purging, stops, registry, conns, streams, clients
<1>7. ASSUME NEW r \in Runs, SendRxcStart(r) PROVE Good
  <2> SUFFICES TypeOK'
    BY DEF Good
  <2>1. ConnOf[r] \in Conns /\ Pkt("RXC_START", r) \in Packet
    BY PktType
  <2>2. s2c' \in [Conns -> Seq(Packet)] /\ c2s' \in [Conns -> Seq(Packet)]
    BY <1>7, <2>1, SendsType DEF SendRxcStart
  <2> QED
    BY <1>7, <2>2, Zenon DEF TypeOK, SendRxcStart, runs, tallies, events, table, purging, stops, registry, conns, streams, clients
<1>8. ASSUME NEW r \in Runs, SendRxcStartFails(r) PROVE Good
  <2> SUFFICES TypeOK'
    BY DEF Good
  <2> QED
    BY <1>8, Zenon DEF TypeOK, SendRxcStartFails, runs, tallies, events, table, purging, stops, registry, conns, streams, clients
<1>9. ASSUME NEW r \in Runs, MarkStarted(r) PROVE Good
  <2> SUFFICES TypeOK'
    BY DEF Good
  <2>1. status' \in [Runs -> Status] /\ count' \in [Jobs \X Status -> Nat]
    <3>1. CASE status[r] = "starting"
      <4>1. SetStatus(r, "running") /\ "running" \in Status
        BY <1>9, <3>1 DEF MarkStarted, Status
      <4> QED
        BY <4>1, SetStatusType, Zenon
    <3>2. CASE status[r] # "starting"
      BY <1>9, <3>2 DEF MarkStarted, TypeOK
    <3> QED
      BY <3>1, <3>2
  <2>2. run_pc' \in [Runs -> {"none", "target", "send", "mark", "fail", "over"}] /\ sessions' \in Int
    BY <1>9 DEF TypeOK, MarkStarted
  <2> QED
    BY <1>9, <2>1, <2>2, Zenon DEF TypeOK, MarkStarted, runs, events, table, purging, stops, registry, conns, streams, clients
<1>10. ASSUME NEW r \in Runs, MarkStartFailure(r) PROVE Good
  <2> SUFFICES TypeOK'
    BY DEF Good
  <2>1. TallyType'
    <3>1. "failed" \in Terminal /\ EndRun(r, "failed")
      BY <1>10 DEF MarkStartFailure, Terminal
    <3> QED
      BY <3>1, EndRunType
  <2> QED
    BY <1>10, <2>1, Zenon DEF TypeOK, TallyType, MarkStartFailure, runs, events, table, purging, stops, registry, conns, streams, clients
<1>11. ASSUME NEW r \in Runs, StopNextRun(r) PROVE Good
  <2> SUFFICES TypeOK'
    BY DEF Good
  <2>1. TallyType' /\ stop_sends' \subseteq Runs
    BY <1>11, RequestStopType DEF StopNextRun
  <2> QED
    BY <1>11, <2>1, Zenon DEF TypeOK, TallyType, StopNextRun, runs, events, table, purging, stops, registry, conns, streams, clients
<1>12. ASSUME NEW r \in Runs, StopRxcJobRun(r) PROVE Good
  <2> SUFFICES TypeOK'
    BY DEF Good
  <2>1. TallyType' /\ stop_sends' \subseteq Runs
    BY <1>12, RequestStopType, Zenon DEF StopRxcJobRun
  <2> QED
    BY <1>12, <2>1, SMTT(60) DEF TypeOK, TallyType, StopRxcJobRun, runs, events, table, purging, stops, registry, conns, streams, clients
<1>13. ASSUME NEW r \in Runs, SendRxcStop(r) PROVE Good
  <2> SUFFICES TypeOK'
    BY DEF Good
  <2>1. ConnOf[r] \in Conns /\ Pkt("RXC_STOP", r) \in Packet
    BY PktType
  <2>2. s2c' \in [Conns -> Seq(Packet)] /\ c2s' \in [Conns -> Seq(Packet)]
    BY <1>13, <2>1, SendsType DEF SendRxcStop
  <2> QED
    BY <1>13, <2>2, Zenon DEF TypeOK, SendRxcStop, runs, tallies, events, table, purging, stops, registry, conns, streams, clients
<1>14. ASSUME NEW r \in Runs, SendRxcStopFails(r) PROVE Good
  <2> SUFFICES TypeOK'
    BY DEF Good
  <2>1. TallyType'
    <3>1. "stopped" \in Terminal /\ EndRun(r, "stopped")
      BY <1>14 DEF SendRxcStopFails, Terminal
    <3> QED
      BY <3>1, EndRunType
  <2> QED
    BY <1>14, <2>1, SMTT(60) DEF TypeOK, TallyType, SendRxcStopFails, runs, events, table, purging, stops, registry, conns, streams, clients
<1>15. ASSUME NEW r \in Runs, StopRxcSink(r) PROVE Good
  <2> SUFFICES TypeOK'
    BY DEF Good
  <2>1. c2s' \in [Conns -> Seq(Packet)]
    BY <1>15, TakesType, Zenon DEF StopRxcSink
  <2>2. CASE r \in rxc_map
    <3>1. "stopped" \in Terminal /\ EndRun(r, "stopped")
      BY <1>15, <2>2 DEF StopRxcSink, Terminal
    <3>2. TallyType'
      BY <3>1, EndRunType
    <3> QED
      BY <1>15, <2>1, <2>2, <3>2, SMTT(60) DEF TypeOK, TallyType, StopRxcSink, runs, events, table, purging, stops, registry, conns, streams, clients
  <2>3. CASE r \notin rxc_map
    BY <1>15, <2>1, <2>3, SMTT(60) DEF TypeOK, StopRxcSink, runs, tallies, events, table, purging, stops, registry, conns, streams, clients
  <2> QED
    BY <2>2, <2>3, SMTT(60)
<1>16. ASSUME NEW r \in Runs, ReqStopSession(r) PROVE Good
  <2> SUFFICES TypeOK'
    BY DEF Good
  <2>1. TallyType'
    <3>1. "stopped" \in Terminal /\ EndRun(r, "stopped")
      BY <1>16 DEF ReqStopSession, Terminal
    <3> QED
      BY <3>1, EndRunType
  <2> QED
    BY <1>16, <2>1, SMTT(60) DEF TypeOK, TallyType, ReqStopSession, runs, events, table, purging, stops, registry, conns, streams, clients
<1>17. ASSUME NEW r \in Runs, StartRxc(r) PROVE Good
  <2> SUFFICES TypeOK'
    BY DEF Good
  <2>1. s2c' \in [Conns -> Seq(Packet)]
    BY <1>17, TakesType DEF StartRxc, ClientTakes
  <2> QED
    BY <1>17, <2>1, Zenon DEF TypeOK, StartRxc, runs, tallies, events, table, purging, stops, registry, conns, streams, clients
<1>18. ASSUME NEW r \in Runs, StartRxcFails(r) PROVE Good
  <2> SUFFICES TypeOK'
    BY DEF Good
  <2>1. s2c' \in [Conns -> Seq(Packet)]
    BY <1>18, TakesType DEF StartRxcFails, ClientTakes
  <2>2. c2s' \in [Conns -> Seq(Packet)]
    BY <1>18, PktType DEF StartRxcFails, TypeOK
  <2> QED
    BY <1>18, <2>1, <2>2, Zenon DEF TypeOK, StartRxcFails, runs, tallies, events, table, purging, stops, registry, conns, streams, clients
<1>19. ASSUME NEW r \in Runs, StopRxc(r) PROVE Good
  <2> SUFFICES TypeOK'
    BY DEF Good
  <2>1. s2c' \in [Conns -> Seq(Packet)]
    BY <1>19, TakesType DEF StopRxc, ClientTakes
  <2> QED
    BY <1>19, <2>1, SMTT(60) DEF TypeOK, StopRxc, runs, tallies, events, table, purging, stops, registry, conns, streams, clients
<1>20. ASSUME NEW r \in Runs, EndRxcLoop(r) PROVE Good
  <2> SUFFICES TypeOK'
    BY DEF Good
  <2>1. ConnOf[r] \in Conns /\ Pkt("RXC_STOP", r) \in Packet
    BY PktType
  <2>2. s2c' \in [Conns -> Seq(Packet)] /\ c2s' \in [Conns -> Seq(Packet)]
    BY <1>20, <2>1, SendsType, Zenon DEF EndRxcLoop
  <2> QED
    BY <1>20, <2>2, Zenon DEF TypeOK, EndRxcLoop, runs, tallies, events, table, purging, stops, registry, conns, streams, clients
<1>21. ASSUME NEW r \in Runs, DeleteRxcJobRun(r) PROVE Good
  <2> SUFFICES TypeOK'
    BY DEF Good
  <2> QED
    BY <1>21, SMTT(60) DEF TypeOK, DeleteRxcJobRun, runs, tallies, events, table, purging, stops, registry, conns, streams, clients
<1>22. ASSUME NEW j \in Jobs, FillRunMap(j) PROVE Good
  <2> SUFFICES TypeOK'
    BY DEF Good
  <2>1. run_map' \subseteq Runs
    BY <1>22, Zenon DEF TypeOK, FillRunMap, RunsOf, table
  <2> QED
    BY <1>22, <2>1 DEF TypeOK, FillRunMap, runs, tallies, events, table, purging, stops, registry, conns, streams, clients
<1>23. ASSUME NEW j \in Jobs, Expire(j) PROVE Good
  <2> SUFFICES TypeOK'
    BY DEF Good
  <2> QED
    BY <1>23 DEF TypeOK, Expire, runs, tallies, events, table, purging, stops, registry, conns, streams, clients
<1>24. ASSUME NEW j \in Jobs, StopRxcJob(j) PROVE Good
  <2> SUFFICES TypeOK'
    BY DEF Good
  <2> QED
    BY <1>24, ZenonT(60) DEF TypeOK, StopRxcJob, runs, tallies, events, table, purging, stops, registry, conns, streams, clients
<1>25. ASSUME NEW j \in Jobs, DeleteRxcJob(j) PROVE Good
  <2> SUFFICES TypeOK'
    BY DEF Good
  <2>1. WithoutJob(j) \in Seq(Jobs)
    BY WithoutJobType
  <2> QED
    BY <1>25, <2>1 DEF TypeOK, DeleteRxcJob, runs, tallies, events, table, purging, stops, registry, conns, streams, clients
<1>26. ASSUME NEW c \in Conns, ReceiverEnds(c) PROVE Good
  <2> SUFFICES TypeOK'
    BY DEF Good
  <2> QED
    BY <1>26, Zenon DEF TypeOK, ReceiverEnds, runs, tallies, events, table, purging, stops, registry, conns, streams, clients
<1>27. ASSUME NEW c \in Conns, ConnReqStop(c) PROVE Good
  <2> SUFFICES TypeOK'
    BY DEF Good
  <2> QED
    BY <1>27 DEF TypeOK, ConnReqStop, runs, tallies, events, table, purging, stops, registry, conns, streams, clients
<1>28. ASSUME NEW c \in Conns, ReqStopLocks(c) PROVE Good
  <2> SUFFICES TypeOK'
    BY DEF Good
  <2> QED
    BY <1>28, Zenon DEF TypeOK, ReqStopLocks, runs, tallies, events, table, purging, stops, registry, conns, streams, clients
<1>29. ASSUME NEW c \in Conns, ReleaseRxcMap(c) PROVE Good
  <2> SUFFICES TypeOK'
    BY DEF Good
  <2> QED
    BY <1>29, Zenon DEF TypeOK, ReleaseRxcMap, runs, tallies, events, table, purging, stops, registry, conns, streams, clients
<1>30. ASSUME NEW c \in Conns, LoseStream(c) PROVE Good
  <2> SUFFICES TypeOK'
    BY DEF Good
  <2> QED
    BY <1>30, SMTT(60) DEF TypeOK, LoseStream, runs, tallies, events, table, purging, stops, registry, conns, streams, clients
<1>31. ASSUME NEW c \in Conns, CloseStream(c) PROVE Good
  <2> SUFFICES TypeOK'
    BY DEF Good
  <2> QED
    BY <1>31 DEF TypeOK, CloseStream, runs, tallies, events, table, purging, stops, registry, conns, streams, clients
<1>32. ASSUME NEW c \in Conns, ConnEnd(c) PROVE Good
  <2> SUFFICES TypeOK'
    BY DEF Good
  <2> QED
    BY <1>32, Zenon DEF TypeOK, ConnEnd, runs, tallies, events, table, purging, stops, registry, conns, streams, clients
<1>33. ASSUME ArmTimer PROVE Good
  <2> SUFFICES TypeOK'
    BY DEF Good
  <2>1. heap # <<>> => Head(heap) \in Jobs
    BY DEF TypeOK
  <2> QED
    BY <1>33, <2>1, SMTT(60) DEF TypeOK, ArmTimer, runs, tallies, events, table, purging, stops, registry, conns, streams, clients
<1>34. ASSUME PurgerNotified PROVE Good
  <2> SUFFICES TypeOK'
    BY DEF Good
  <2>1. purger' \in [pc : {"top", "select"}, timer : Jobs \cup {NoJob}]
    BY <1>34, Zenon DEF TypeOK, PurgerNotified, RunsOf, table
  <2> QED
    BY <1>34, <2>1, SMTT(60) DEF TypeOK, PurgerNotified, runs, tallies, events, table, purging, stops, registry, conns, streams, clients
<1>35. ASSUME NEW j \in Jobs, NEW targets \in SUBSET RunsOf(j), StartRxcJob(j, targets) PROVE Good
  <2> SUFFICES TypeOK'
    BY DEF Good
  <2>1. Cardinality(targets) \in Nat
    BY DEF RunsOf
  <2>2. <<j, "starting">> \in Jobs \X Status
    BY DEF Status
  <2> QED
    BY <1>35, <2>1, <2>2, SMTT(60) DEF TypeOK, StartRxcJob, runs, tallies, events, table, purging, stops, registry, conns, streams, clients
<1>36. ASSUME NEW k \in 0..Len(heap), PurgeStaleJobs(k) PROVE Good
  <2> SUFFICES TypeOK'
    BY DEF Good
  <2>1. SubSeq(heap, k + 1, Len(heap)) \in Seq(Jobs)
    BY SMTT(60) DEF TypeOK
  <2> QED
    BY <1>36, <2>1, Zenon DEF TypeOK, PurgeStaleJobs, runs, tallies, events, table, purging, stops, registry, conns, streams, clients
<1>37. CASE UNCHANGED vars
  <2> SUFFICES TypeOK'
    BY DEF Good
  <2> QED
    BY <1>37 DEF TypeOK, vars, runs, tallies, events, table, purging, stops, registry, conns, streams, clients
<1> QED
  BY <1>1, <1>2, <1>3, <1>4, <1>5, <1>6, <1>7, <1>8, <1>9, <1>10, <1>11, <1>12, <1>13, <1>14, <1>15, <1>16, <1>17, <1>18, <1>19, <1>20, <1>21, <1>22, <1>23, <1>24, <1>25, <1>26, <1>27, <1>28, <1>29, <1>30, <1>31, <1>32, <1>33, <1>34, <1>35, <1>36, <1>37, Zenon DEF Next, Progress, RunTask, StartRun, Complete, StopRun, ClientTask, ConnTask, Purger, Operator

-----------------------------------------------------------------------------
(* The phases of runs and jobs.                                            *)

Started(r) == run_pc[r] # "none"

\* What is known of a run or job from how far it has come: a run that is not
\* started is nowhere, a run has ended exactly if someone completes it, and
\* only runs that have ended may have left the table of their job.
PhaseInv ==
  /\ \A r \in Runs : ~Started(r) => /\ status[r] = "starting"
                                    /\ r \notin run_map /\ r \notin rxc_map
                                    /\ r \notin to_stop /\ r \notin stop_sends
  /\ \A r \in Runs : Started(r) => job_pc[JobOf[r]] # "none"
  /\ \A r \in Runs : job_pc[JobOf[r]] = "fill" => run_pc[r] \in {"none", "target"} /\ r \notin run_map
  /\ \A r \in Runs : (fin[r] = "none") <=> ~Ended(r)
  /\ \A r \in Runs : Started(r) /\ ~Ended(r) /\ job_pc[JobOf[r]] = "start" => r \in run_map
  /\ \A r \in Runs : fin[r] \notin {"none", "publish"} => r \in run_events
  /\ \A j \in done \cup rxc_job_map : job_pc[j] # "none"

\* The variables the invariants are about.
core == <<job_pc, run_pc, status, count, fin, run_map, active, run_events, job_events,
          rxc_job_map, done, heap, rxc_map, to_stop, stop_sends>>

\* The steps that change one of them.
CoreStep ==
  \/ \E r \in Runs :
       \/ PublishRunDone(r) \/ Deactivate(r) \/ MarkJobDone(r) \/ PublishJobDone(r)
       \/ NotifyPurge(r) \/ RegisterRxc(r) \/ SendRxcStart(r) \/ SendRxcStartFails(r)
       \/ MarkStarted(r) \/ MarkStartFailure(r) \/ StopNextRun(r) \/ StopRxcJobRun(r)
       \/ SendRxcStop(r) \/ SendRxcStopFails(r) \/ StopRxcSink(r) \/ ReqStopSession(r)
       \/ DeleteRxcJobRun(r)
  \/ \E j \in Jobs : FillRunMap(j) \/ StopRxcJob(j) \/ DeleteRxcJob(j)
  \/ \E j \in Jobs : \E targets \in SUBSET RunsOf(j) : StartRxcJob(j, targets)
  \/ \E k \in 0..Len(heap) : PurgeStaleJobs(k)

\* Clients, streams, connections and the timer leave them alone.
LEMMA StepCases ==
  ASSUME [Next]_vars
  PROVE  UNCHANGED core \/ CoreStep
<1>1. ASSUME NEW r \in Runs, StartRxc(r) PROVE UNCHANGED core
  BY <1>1 DEF StartRxc, core, tallies, runs, events, table, purging, stops, registry, conns, streams, clients
<1>2. ASSUME NEW r \in Runs, StartRxcFails(r) PROVE UNCHANGED core
  BY <1>2 DEF StartRxcFails, core, tallies, runs, events, table, purging, stops, registry, conns, streams, clients
<1>3. ASSUME NEW r \in Runs, StopRxc(r) PROVE UNCHANGED core
  BY <1>3 DEF StopRxc, core, tallies, runs, events, table, purging, stops, registry, conns, streams, clients
<1>4. ASSUME NEW r \in Runs, EndRxcLoop(r) PROVE UNCHANGED core
  BY <1>4 DEF EndRxcLoop, core, tallies, runs, events, table, purging, stops, registry, conns, streams, clients
<1>5. ASSUME NEW j \in Jobs, Expire(j) PROVE UNCHANGED core
  BY <1>5 DEF Expire, core, tallies, runs, events, table, purging, stops, registry, conns, streams, clients
<1>6. ASSUME NEW c \in Conns, ReceiverEnds(c) PROVE UNCHANGED core
  BY <1>6 DEF ReceiverEnds, core, tallies, runs, events, table, purging, stops, registry, conns, streams, clients
<1>7. ASSUME NEW c \in Conns, ConnReqStop(c) PROVE UNCHANGED core
  BY <1>7 DEF ConnReqStop, core, tallies, runs, events, table, purging, stops, registry, conns, streams, clients
<1>8. ASSUME NEW c \in Conns, ReqStopLocks(c) PROVE UNCHANGED core
  BY <1>8 DEF ReqStopLocks, core, tallies, runs, events, table, purging, stops, registry, conns, streams, clients
<1>9. ASSUME NEW c \in Conns, ReleaseRxcMap(c) PROVE UNCHANGED core
  BY <1>9 DEF ReleaseRxcMap, core, tallies, runs, events, table, purging, stops, registry, conns, streams, clients
<1>10. ASSUME NEW c \in Conns, LoseStream(c) PROVE UNCHANGED core
  BY <1>10 DEF LoseStream, core, tallies, runs, events, table, purging, stops, registry, conns, streams, clients
<1>11. ASSUME NEW c \in Conns, CloseStream(c) PROVE UNCHANGED core
  BY <1>11 DEF CloseStream, core, tallies, runs, events, table, purging, stops, registry, conns, streams, clients
<1>12. ASSUME NEW c \in Conns, ConnEnd(c) PROVE UNCHANGED core
  BY <1>12 DEF ConnEnd, core, tallies, runs, events, table, purging, stops, registry, conns, streams, clients
<1>13. ASSUME ArmTimer PROVE UNCHANGED core
  BY <1>13 DEF ArmTimer, core, tallies, runs, events, table, purging, stops, registry, conns, streams, clients
<1>14. ASSUME PurgerNotified PROVE UNCHANGED core
  BY <1>14 DEF PurgerNotified, core, tallies, runs, events, table, purging, stops, registry, conns, streams, clients
<1>15. CASE UNCHANGED vars
  BY <1>15 DEF vars, core, tallies, runs, events, table, purging, stops, registry, conns, streams, clients
<1> QED
  BY <1>1, <1>2, <1>3, <1>4, <1>5, <1>6, <1>7, <1>8, <1>9, <1>10, <1>11, <1>12, <1>13, <1>14, <1>15, ZenonT(60) DEF CoreStep, Next, Progress, RunTask, StartRun, Complete, StopRun, ClientTask, ConnTask, Purger, Operator

\* What EndRun does to the status and the completion of runs.
LEMMA EndRunEffect ==
  ASSUME TypeOK, NEW r \in Runs, NEW t \in Terminal, EndRun(r, t)
  PROVE  /\ status' = [status EXCEPT ![r] = IF Ended(r) THEN @ ELSE t]
         /\ fin' = [fin EXCEPT ![r] = IF Ended(r) THEN @ ELSE "publish"]
<1>1. CASE Ended(r)
  BY <1>1 DEF EndRun, tallies, TypeOK
<1>2. CASE ~Ended(r)
  BY <1>2 DEF EndRun, SetStatus
<1> QED
  BY <1>1, <1>2

\* What RequestStop does to the status of runs and the stop requests.
LEMMA RequestStopEffect ==
  ASSUME TypeOK, NEW r \in Runs, RequestStop(r)
  PROVE  /\ status' = [status EXCEPT ![r] = IF @ = "running" THEN "stopping" ELSE @]
         /\ stop_sends' = stop_sends \/ (status[r] = "running" /\ stop_sends' = stop_sends \cup {r})
         /\ fin' = fin
<1>1. CASE status[r] = "running"
  BY <1>1 DEF RequestStop, SetStatus
<1>2. CASE status[r] # "running"
  BY <1>2, ZenonT(60) DEF RequestStop, tallies, TypeOK
<1> QED
  BY <1>1, <1>2

\* The part of the types the phases need.
PhaseType ==
  /\ job_pc \in [Jobs -> {"none", "fill", "start"}]
  /\ run_pc \in [Runs -> {"none", "target", "send", "mark", "fail", "over"}]
  /\ status \in [Runs -> Status] /\ JobOf \in [Runs -> Jobs]
  /\ fin \in [Runs -> {"none", "publish", "deactivate", "mark_done", "publish_job", "notify", "over"}]
  /\ run_map \subseteq Runs /\ rxc_map \subseteq Runs

\* Ending a run that is started keeps the phases.
LEMMA EndRunPhase ==
  ASSUME PhaseType, PhaseInv, NEW r \in Runs, NEW t \in Terminal, Started(r),
         status' = [status EXCEPT ![r] = IF Ended(r) THEN @ ELSE t],
         fin' = [fin EXCEPT ![r] = IF Ended(r) THEN @ ELSE "publish"],
         \/ run_pc' = run_pc
         \/ run_pc[r] = "fail" /\ run_pc' = [run_pc EXCEPT ![r] = "over"],
         rxc_map' \subseteq rxc_map, to_stop' \subseteq to_stop, stop_sends' \subseteq stop_sends,
         UNCHANGED <<job_pc, run_map, run_events, done, rxc_job_map>>
  PROVE  PhaseInv'
<1>1. \A q \in Runs : /\ Started(q)' <=> Started(q)
                      /\ q # r => status'[q] = status[q] /\ fin'[q] = fin[q]
                      /\ run_pc[q] \in {"none", "target"} => run_pc'[q] = run_pc[q]
  BY SMTT(60) DEF PhaseType, Started
<1>2. /\ Ended(r) => status'[r] = status[r] /\ fin'[r] = fin[r]
      /\ ~Ended(r) => status'[r] = t /\ fin'[r] = "publish" /\ Ended(r)'
  BY SMTT(60) DEF PhaseType, Ended
<1>3. \A q \in Runs : (fin'[q] = "none") <=> ~Ended(q)'
  BY <1>1, <1>2, SMTT(60) DEF PhaseInv, Ended
<1>4. \A q \in Runs : ~Ended(q)' => ~Ended(q)
  BY <1>1, <1>2, SMTT(60) DEF Ended
<1>5. \A q \in Runs : fin'[q] \notin {"none", "publish"} => q \in run_events'
  BY <1>1, <1>2, SMTT(60) DEF PhaseInv
<1>6. ASSUME NEW q \in Runs, ~Started(q)'
      PROVE  /\ status'[q] = "starting"
             /\ q \notin run_map' /\ q \notin rxc_map'
             /\ q \notin to_stop' /\ q \notin stop_sends'
  <2>1. ~Started(q) /\ q # r
    BY <1>1, <1>6, Zenon
  <2>2. status[q] = "starting" /\ q \notin run_map /\ q \notin rxc_map /\ q \notin to_stop /\ q \notin stop_sends
    BY <2>1, Zenon DEF PhaseInv
  <2> QED
    BY <1>1, <2>1, <2>2
<1>7. \A q \in Runs : /\ Started(q)' => job_pc'[JobOf[q]] # "none"
                      /\ job_pc'[JobOf[q]] = "fill" => run_pc'[q] \in {"none", "target"} /\ q \notin run_map'
                      /\ Started(q)' /\ ~Ended(q)' /\ job_pc'[JobOf[q]] = "start" => q \in run_map'
  BY <1>1, <1>4, SMTT(60) DEF PhaseInv
<1>8. \A j \in done' \cup rxc_job_map' : job_pc'[j] # "none"
  BY DEF PhaseInv
<1> QED
  BY <1>3, <1>5, <1>6, <1>7, <1>8, Zenon DEF PhaseInv, Started, Ended

\* A step that leaves alone what the phases are about keeps them.
LEMMA PhaseFrame ==
  ASSUME PhaseInv,
         UNCHANGED <<job_pc, run_pc, status, fin, run_map, rxc_map, to_stop, stop_sends, run_events, done,
                     rxc_job_map>>
  PROVE  PhaseInv'
BY Zenon DEF PhaseInv, Started, Ended

\* Every step keeps the phases.
LEMMA PhaseStep ==
  ASSUME TypeOK, PhaseInv, [Next]_vars
  PROVE  PhaseInv'
<1> DEFINE Good == PhaseInv'
<1> HIDE DEF Good
<1> SUFFICES Good
  BY DEF Good
<1>a. PhaseType
  BY RunsAssumption, Zenon DEF TypeOK, PhaseType
<1>1. ASSUME NEW r \in Runs, PublishRunDone(r) PROVE Good
  <2> SUFFICES PhaseInv'
    BY Zenon DEF Good
  <2> QED
    BY <1>a, <1>1, SMTT(60) DEF PublishRunDone, PhaseType, PhaseInv, Started, Ended, Terminal, Status, tallies, runs, events, table, purging, stops, registry, conns, streams, clients
<1>2. ASSUME NEW r \in Runs, Deactivate(r) PROVE Good
  <2> SUFFICES PhaseInv'
    BY DEF Good
  <2> QED
    BY <1>a, <1>2, ZenonT(60) DEF Deactivate, PhaseType, PhaseInv, Started, Ended, Terminal, Status, tallies, runs, events, table, purging, stops, registry, conns, streams, clients
<1>3. ASSUME NEW r \in Runs, MarkJobDone(r) PROVE Good
  <2> SUFFICES PhaseInv'
    BY DEF Good
  <2> QED
    BY <1>a, <1>3, SMTT(60) DEF MarkJobDone, PhaseType, PhaseInv, Started, Ended, Terminal, Status, tallies, runs, events, table, purging, stops, registry, conns, streams, clients
<1>4. ASSUME NEW r \in Runs, PublishJobDone(r) PROVE Good
  <2> SUFFICES PhaseInv'
    BY DEF Good
  <2> QED
    BY <1>a, <1>4, ZenonT(60) DEF PublishJobDone, PhaseType, PhaseInv, Started, Ended, Terminal, Status, tallies, runs, events, table, purging, stops, registry, conns, streams, clients
<1>5. ASSUME NEW r \in Runs, NotifyPurge(r) PROVE Good
  <2> SUFFICES PhaseInv'
    BY DEF Good
  <2> QED
    BY <1>a, <1>5, SMTT(60) DEF NotifyPurge, PhaseType, PhaseInv, Started, Ended, Terminal, Status, tallies, runs, events, table, purging, stops, registry, conns, streams, clients
<1>6. ASSUME NEW r \in Runs, RegisterRxc(r) PROVE Good
  <2> SUFFICES PhaseInv'
    BY DEF Good
  <2> QED
    BY <1>a, <1>6, SMTT(60) DEF RegisterRxc, PhaseType, PhaseInv, Started, Ended, Terminal, Status, tallies, runs, events, table, purging, stops, registry, conns, streams, clients, RunsOf
<1>7. ASSUME NEW r \in Runs, SendRxcStart(r) PROVE Good
  <2> SUFFICES PhaseInv'
    BY DEF Good
  <2> QED
    BY <1>a, <1>7, ZenonT(60) DEF SendRxcStart, PhaseType, PhaseInv, Started, Ended, Terminal, Status, tallies, runs, events, table, purging, stops, registry, conns, streams, clients
<1>8. ASSUME NEW r \in Runs, SendRxcStartFails(r) PROVE Good
  <2> SUFFICES PhaseInv'
    BY DEF Good
  <2> QED
    BY <1>a, <1>8, SMTT(60) DEF SendRxcStartFails, PhaseType, PhaseInv, Started, Ended, Terminal, Status, tallies, runs, events, table, purging, stops, registry, conns, streams, clients
<1>9. ASSUME NEW r \in Runs, MarkStarted(r) PROVE Good
  <2> SUFFICES PhaseInv'
    BY DEF Good
  <2>1. status' = [status EXCEPT ![r] = IF @ = "starting" THEN "running" ELSE @]
    BY <1>a, <1>9, SMTT(60) DEF MarkStarted, SetStatus, PhaseType
  <2> QED
    BY <1>a, <1>9, <2>1 DEF MarkStarted, PhaseType, PhaseInv, Started, Ended, Terminal, Status, runs, events, table, purging, stops, registry, conns, streams, clients
<1>10. ASSUME NEW r \in Runs, MarkStartFailure(r) PROVE Good
  <2> SUFFICES PhaseInv'
    BY DEF Good
  <2>1. "failed" \in Terminal /\ EndRun(r, "failed") /\ Started(r)
    BY <1>10, SMTT(60) DEF MarkStartFailure, Terminal, Started, PhaseInv
  <2>2. /\ \/ run_pc' = run_pc
           \/ run_pc[r] = "fail" /\ run_pc' = [run_pc EXCEPT ![r] = "over"]
        /\ rxc_map' \subseteq rxc_map /\ to_stop' \subseteq to_stop /\ stop_sends' \subseteq stop_sends
        /\ UNCHANGED <<job_pc, run_map, run_events, done, rxc_job_map>>
    BY <1>10, Zenon DEF MarkStartFailure, events, table, stops, registry
  <2>3. /\ status' = [status EXCEPT ![r] = IF Ended(r) THEN @ ELSE "failed"]
        /\ fin' = [fin EXCEPT ![r] = IF Ended(r) THEN @ ELSE "publish"]
    BY <2>1, EndRunEffect, Zenon
  <2> QED
    BY <1>a, <2>1, <2>2, <2>3, EndRunPhase, Zenon
<1>11. ASSUME NEW r \in Runs, StopNextRun(r) PROVE Good
  <2> SUFFICES PhaseInv'
    BY DEF Good
  <2>1. RequestStop(r)
    BY <1>11, Zenon DEF StopNextRun
  <2> QED
    BY <1>a, <1>11, <2>1, RequestStopEffect DEF StopNextRun, PhaseType, PhaseInv, Started, Ended, Terminal, Status, runs, events, table, purging, stops, registry, conns, streams, clients
<1>12. ASSUME NEW r \in Runs, StopRxcJobRun(r) PROVE Good
  <2> SUFFICES PhaseInv'
    BY DEF Good
  <2>1. RequestStop(r)
    BY <1>12, Zenon DEF StopRxcJobRun
  <2> QED
    BY <1>a, <1>12, <2>1, RequestStopEffect DEF StopRxcJobRun, PhaseType, PhaseInv, Started, Ended, Terminal, Status, runs, events, table, purging, stops, registry, conns, streams, clients
<1>13. ASSUME NEW r \in Runs, SendRxcStop(r) PROVE Good
  <2> SUFFICES PhaseInv'
    BY DEF Good
  <2> QED
    BY <1>a, <1>13, SMTT(60) DEF SendRxcStop, PhaseType, PhaseInv, Started, Ended, Terminal, Status, tallies, runs, events, table, purging, stops, registry, conns, streams, clients
<1>14. ASSUME NEW r \in Runs, SendRxcStopFails(r) PROVE Good
  <2> SUFFICES PhaseInv'
    BY DEF Good
  <2>0. EndRun(r, "stopped") /\ r \in stop_sends
    BY <1>14, Zenon DEF SendRxcStopFails
  <2>1. "stopped" \in Terminal /\ EndRun(r, "stopped") /\ Started(r)
    BY <2>0, Zenon DEF Terminal, PhaseInv
  <2>2. /\ \/ run_pc' = run_pc
           \/ run_pc[r] = "fail" /\ run_pc' = [run_pc EXCEPT ![r] = "over"]
        /\ rxc_map' \subseteq rxc_map /\ to_stop' \subseteq to_stop /\ stop_sends' \subseteq stop_sends
        /\ UNCHANGED <<job_pc, run_map, run_events, done, rxc_job_map>>
    BY <1>14, Zenon DEF SendRxcStopFails, runs, events, table, registry
  <2>3. /\ status' = [status EXCEPT ![r] = IF Ended(r) THEN @ ELSE "stopped"]
        /\ fin' = [fin EXCEPT ![r] = IF Ended(r) THEN @ ELSE "publish"]
    BY <2>1, EndRunEffect
  <2> QED
    BY <1>a, <2>1, <2>2, <2>3, EndRunPhase, Zenon
<1>15. ASSUME NEW r \in Runs, StopRxcSink(r) PROVE Good
  <2> SUFFICES PhaseInv'
    BY DEF Good
  <2>1. CASE r \notin rxc_map
    <3>1. UNCHANGED <<job_pc, run_pc, status, fin, run_map, rxc_map, to_stop, stop_sends, run_events, done,
                      rxc_job_map>>
      BY <1>15, <2>1, Zenon DEF StopRxcSink, tallies, runs, events, table, stops, registry
    <3> QED
      BY <3>1, PhaseFrame, Zenon
  <2>2. CASE r \in rxc_map
    <3>0. EndRun(r, "stopped")
      BY <1>15, <2>2, Zenon DEF StopRxcSink
    <3>1. "stopped" \in Terminal /\ EndRun(r, "stopped") /\ Started(r)
      BY <2>2, <3>0, Zenon DEF Terminal, PhaseInv
    <3>2. /\ run_pc' = run_pc /\ rxc_map' \subseteq rxc_map
          /\ to_stop' \subseteq to_stop /\ stop_sends' \subseteq stop_sends
          /\ UNCHANGED <<job_pc, run_map, run_events, done, rxc_job_map>>
      BY <1>15, <2>2, Zenon DEF StopRxcSink, runs, events, table, stops
    <3>3. /\ status' = [status EXCEPT ![r] = IF Ended(r) THEN @ ELSE "stopped"]
          /\ fin' = [fin EXCEPT ![r] = IF Ended(r) THEN @ ELSE "publish"]
      BY <3>1, EndRunEffect
    <3> QED
      BY <1>a, <3>1, <3>2, <3>3, EndRunPhase, Zenon
  <2> QED
    BY <2>1, <2>2, Zenon
<1>16. ASSUME NEW r \in Runs, ReqStopSession(r) PROVE Good
  <2> SUFFICES PhaseInv'
    BY DEF Good
  <2>0. EndRun(r, "stopped") /\ r \in rxc_map
    BY <1>16, Zenon DEF ReqStopSession
  <2>1. "stopped" \in Terminal /\ EndRun(r, "stopped") /\ Started(r)
    BY <2>0, Zenon DEF Terminal, PhaseInv
  <2>2. /\ \/ run_pc' = run_pc
           \/ run_pc[r] = "fail" /\ run_pc' = [run_pc EXCEPT ![r] = "over"]
        /\ rxc_map' \subseteq rxc_map /\ to_stop' \subseteq to_stop /\ stop_sends' \subseteq stop_sends
        /\ UNCHANGED <<job_pc, run_map, run_events, done, rxc_job_map>>
    BY <1>16, Zenon DEF ReqStopSession, runs, events, table, stops, registry
  <2>3. /\ status' = [status EXCEPT ![r] = IF Ended(r) THEN @ ELSE "stopped"]
        /\ fin' = [fin EXCEPT ![r] = IF Ended(r) THEN @ ELSE "publish"]
    BY <2>1, EndRunEffect
  <2> QED
    BY <1>a, <2>1, <2>2, <2>3, EndRunPhase, Zenon
<1>17. ASSUME NEW r \in Runs, DeleteRxcJobRun(r) PROVE Good
  <2> SUFFICES PhaseInv'
    BY DEF Good
  <2> QED
    BY <1>a, <1>17, Zenon DEF DeleteRxcJobRun, PhaseType, PhaseInv, Started, Ended, Terminal, Status, tallies, runs, events, table, purging, stops, registry, conns, streams, clients
<1>18. ASSUME NEW j \in Jobs, FillRunMap(j) PROVE Good
  <2> SUFFICES PhaseInv'
    BY DEF Good
  <2> QED
    BY <1>a, <1>18, SMTT(60) DEF FillRunMap, PhaseType, PhaseInv, Started, Ended, Terminal, Status, tallies, runs, events, table, purging, stops, registry, conns, streams, clients, RunsOf
<1>19. ASSUME NEW j \in Jobs, StopRxcJob(j) PROVE Good
  <2> SUFFICES PhaseInv'
    BY DEF Good
  <2> QED
    BY <1>a, <1>19, Zenon DEF StopRxcJob, PhaseType, PhaseInv, Started, Ended, Terminal, Status, tallies, runs, events, table, purging, stops, registry, conns, streams, clients, RunsOf
<1>20. ASSUME NEW j \in Jobs, DeleteRxcJob(j) PROVE Good
  <2> SUFFICES PhaseInv'
    BY DEF Good
  <2> QED
    BY <1>a, <1>20, Zenon DEF DeleteRxcJob, PhaseType, PhaseInv, Started, Ended, Terminal, Status, tallies, runs, events, table, purging, stops, registry, conns, streams, clients
<1>21. ASSUME NEW j \in Jobs, NEW targets \in SUBSET RunsOf(j), StartRxcJob(j, targets) PROVE Good
  <2> SUFFICES PhaseInv'
    BY DEF Good
  <2> QED
    BY <1>a, <1>21 DEF StartRxcJob, RunsOf, PhaseType, PhaseInv, Started, Ended, Terminal, Status, tallies, runs, events, table, purging, stops, registry, conns, streams, clients
<1>22. ASSUME NEW k \in 0..Len(heap), PurgeStaleJobs(k) PROVE Good
  <2> SUFFICES PhaseInv'
    BY DEF Good
  <2> QED
    BY <1>a, <1>22 DEF PurgeStaleJobs, PhaseType, PhaseInv, Started, Ended, Terminal, Status, tallies, runs, events, table, purging, stops, registry, conns, streams, clients
<1>23. ASSUME UNCHANGED core PROVE Good
  <2> SUFFICES PhaseInv'
    BY DEF Good
  <2> QED
    BY <1>23, PhaseFrame, Zenon DEF core
<1>24. Good
  BY <1>1, <1>2, <1>3, <1>4, <1>5, <1>6, <1>7, <1>8, <1>9, <1>10, <1>11, <1>12, <1>13, <1>14, <1>15, <1>16, <1>17, <1>18, <1>19, <1>20, <1>21, <1>22, <1>23, StepCases, Zenon DEF CoreStep
<1> QED
  BY <1>24

-----------------------------------------------------------------------------
(* The kinds of steps.                                                     *)

SameRuns == \A r \in Runs : Started(r)' <=> Started(r)

\* No run changes its status and nothing is completed.
KeepsTallies ==
  SameRuns /\ UNCHANGED <<job_pc, status, count, fin, run_map, active, job_events, table>>

\* A run that has not ended goes to status t.
MovesRun(r, t) ==
  /\ Started(r) /\ ~Ended(r) /\ status[r] # t
  /\ t \in Status \ Terminal
  /\ SetStatus(r, t)
  /\ SameRuns /\ UNCHANGED <<job_pc, fin, run_map, active, job_events, table>>

\* A run that has not ended ends as t.
EndsRun(r, t) ==
  /\ Started(r) /\ ~Ended(r) /\ status[r] # t
  /\ t \in Terminal
  /\ SetStatus(r, t) /\ fin' = [fin EXCEPT ![r] = "publish"]
  /\ SameRuns /\ UNCHANGED <<job_pc, run_map, active, job_events, table>>

\* The steps of the job table and of completions.
TableStep ==
  \/ \E r \in Runs : \/ PublishRunDone(r) \/ Deactivate(r) \/ MarkJobDone(r) \/ PublishJobDone(r)
                     \/ NotifyPurge(r) \/ DeleteRxcJobRun(r)
  \/ \E j \in Jobs : FillRunMap(j) \/ DeleteRxcJob(j)
  \/ \E j \in Jobs : \E targets \in SUBSET RunsOf(j) : StartRxcJob(j, targets)
  \/ \E k \in 0..Len(heap) : PurgeStaleJobs(k)

\* EndRun of a started run either changes nothing or ends the run.
LEMMA EndRunKind ==
  ASSUME PhaseType, NEW r \in Runs, NEW t \in Terminal, EndRun(r, t), Started(r),
         SameRuns, UNCHANGED <<job_pc, run_map, active, job_events, table>>
  PROVE  KeepsTallies \/ EndsRun(r, t)
<1>1. CASE Ended(r)
  BY <1>1 DEF EndRun, tallies, KeepsTallies
<1>2. CASE ~Ended(r)
  BY <1>2 DEF EndRun, EndsRun, Ended
<1> QED
  BY <1>1, <1>2

\* RequestStop of a started run either changes nothing or moves the run.
LEMMA RequestStopKind ==
  ASSUME PhaseType, NEW r \in Runs, RequestStop(r), Started(r),
         SameRuns, UNCHANGED <<job_pc, run_map, active, job_events, table>>
  PROVE  KeepsTallies \/ MovesRun(r, "stopping")
<1>1. CASE status[r] = "running"
  BY <1>1 DEF RequestStop, MovesRun, Ended, Terminal, Status
<1>2. CASE status[r] # "running"
  BY <1>2 DEF RequestStop, tallies, KeepsTallies
<1> QED
  BY <1>1, <1>2

\* A step of the whole system is of one of these kinds.
LEMMA Kinds ==
  ASSUME TypeOK, PhaseInv, [Next]_vars
  PROVE  \/ KeepsTallies
         \/ \E r \in Runs : \E t \in Status : MovesRun(r, t)
         \/ \E r \in Runs : \E t \in Status : EndsRun(r, t)
         \/ TableStep
<1>a. PhaseType
  BY RunsAssumption DEF TypeOK, PhaseType
<1> DEFINE Good == \/ KeepsTallies
                   \/ \E r \in Runs : \E t \in Status : MovesRun(r, t)
                   \/ \E r \in Runs : \E t \in Status : EndsRun(r, t)
                   \/ TableStep
<1>b. "stopped" \in Terminal /\ "failed" \in Terminal /\ Terminal \subseteq Status /\ "stopping" \in Status
  BY Zenon DEF Terminal, Status
<1>1. ASSUME NEW r \in Runs, RegisterRxc(r) PROVE Good
  BY <1>a, <1>1 DEF RegisterRxc, KeepsTallies, SameRuns, Started, PhaseType, tallies, runs, events, table, purging, stops, registry, conns, streams, clients
<1>2. ASSUME NEW r \in Runs, SendRxcStart(r) PROVE Good
  BY <1>a, <1>2, ZenonT(60) DEF SendRxcStart, KeepsTallies, SameRuns, Started, PhaseType, tallies, runs, events, table, purging, stops, registry, conns, streams, clients
<1>3. ASSUME NEW r \in Runs, SendRxcStartFails(r) PROVE Good
  BY <1>a, <1>3, Zenon DEF SendRxcStartFails, KeepsTallies, SameRuns, Started, PhaseType, tallies, runs, events, table, purging, stops, registry, conns, streams, clients
<1>4. ASSUME NEW r \in Runs, SendRxcStop(r) PROVE Good
  BY <1>a, <1>4, Zenon DEF SendRxcStop, KeepsTallies, SameRuns, Started, PhaseType, tallies, runs, events, table, purging, stops, registry, conns, streams, clients
<1>5. ASSUME NEW j \in Jobs, StopRxcJob(j) PROVE Good
  BY <1>a, <1>5 DEF StopRxcJob, KeepsTallies, SameRuns, Started, tallies, runs, events, table, purging, stops, registry, conns, streams, clients
<1>6. ASSUME UNCHANGED core PROVE Good
  BY <1>6 DEF core, KeepsTallies, SameRuns, Started, table
<1>7. ASSUME NEW r \in Runs, MarkStarted(r) PROVE Good
  <2>1. SameRuns /\ Started(r) /\ UNCHANGED <<job_pc, fin, run_map, active, job_events, table>>
    BY <1>a, <1>7 DEF MarkStarted, SameRuns, Started, PhaseType, runs, events, table, purging, stops, registry, conns, streams, clients
  <2>2. CASE status[r] = "starting"
    <3>1. SetStatus(r, "running")
      BY <1>7, <2>2 DEF MarkStarted
    <3>2. MovesRun(r, "running") /\ "running" \in Status
      BY <2>1, <2>2, <3>1, Zenon DEF MovesRun, Ended, Terminal, Status
    <3> QED
      BY <3>2
  <2>3. CASE status[r] # "starting"
    BY <1>7, <2>1, <2>3 DEF MarkStarted, KeepsTallies
  <2> QED
    BY <2>2, <2>3, Zenon
<1>8. ASSUME NEW r \in Runs, MarkStartFailure(r) PROVE Good
  <2>1. SameRuns /\ Started(r) /\ UNCHANGED <<job_pc, run_map, active, job_events, table>>
    BY <1>a, <1>8 DEF MarkStartFailure, SameRuns, Started, PhaseType, PhaseInv, runs, events, table, purging, stops, registry, conns, streams, clients
  <2>2. EndRun(r, "failed")
    BY <1>8 DEF MarkStartFailure
  <2> QED
    BY <1>a, <1>b, <2>1, <2>2, EndRunKind, Zenon
<1>9. ASSUME NEW r \in Runs, SendRxcStopFails(r) PROVE Good
  <2>1. SameRuns /\ Started(r) /\ UNCHANGED <<job_pc, run_map, active, job_events, table>>
    BY <1>a, <1>9, Zenon DEF SendRxcStopFails, SameRuns, Started, PhaseType, PhaseInv, runs, events, table, purging, stops, registry, conns, streams, clients
  <2>2. EndRun(r, "stopped")
    BY <1>9, Zenon DEF SendRxcStopFails
  <2> QED
    BY <1>a, <1>b, <2>1, <2>2, EndRunKind, Zenon
<1>10. ASSUME NEW r \in Runs, ReqStopSession(r) PROVE Good
  <2>1. SameRuns /\ Started(r) /\ UNCHANGED <<job_pc, run_map, active, job_events, table>>
    BY <1>a, <1>10 DEF ReqStopSession, SameRuns, Started, PhaseType, PhaseInv, runs, events, table, purging, stops, registry, conns, streams, clients
  <2>2. EndRun(r, "stopped")
    BY <1>10 DEF ReqStopSession
  <2> QED
    BY <1>a, <1>b, <2>1, <2>2, EndRunKind, Zenon
<1>11. ASSUME NEW r \in Runs, StopRxcSink(r) PROVE Good
  <2>1. SameRuns /\ UNCHANGED <<job_pc, run_map, active, job_events, table>>
    BY <1>a, <1>11, Zenon DEF StopRxcSink, SameRuns, Started, runs, events, table, purging, stops, registry, conns, streams, clients
  <2>2. CASE r \in rxc_map
    <3>1. Started(r) /\ EndRun(r, "stopped")
      BY <1>11, <2>2, Zenon DEF StopRxcSink, Started, PhaseInv
    <3> QED
      BY <1>a, <1>b, <2>1, <3>1, EndRunKind, Zenon
  <2>3. CASE r \notin rxc_map
    BY <1>11, <2>1, <2>3, Zenon DEF StopRxcSink, KeepsTallies, tallies
  <2> QED
    BY <2>2, <2>3, ZenonT(60)
<1>12. ASSUME NEW r \in Runs, StopNextRun(r) PROVE Good
  <2>1. SameRuns /\ Started(r) /\ UNCHANGED <<job_pc, run_map, active, job_events, table>>
    BY <1>a, <1>12, Zenon DEF StopNextRun, SameRuns, Started, PhaseType, PhaseInv, runs, events, table, purging, stops, registry, conns, streams, clients
  <2>2. RequestStop(r)
    BY <1>12 DEF StopNextRun
  <2> QED
    BY <1>a, <1>b, <2>1, <2>2, RequestStopKind, Zenon
<1>13. ASSUME NEW r \in Runs, StopRxcJobRun(r) PROVE Good
  <2>1. SameRuns /\ Started(r) /\ UNCHANGED <<job_pc, run_map, active, job_events, table>>
    BY <1>a, <1>13 DEF StopRxcJobRun, SameRuns, Started, PhaseType, PhaseInv, runs, events, table, purging, stops, registry, conns, streams, clients
  <2>2. RequestStop(r)
    BY <1>13 DEF StopRxcJobRun
  <2> QED
    BY <1>a, <1>b, <2>1, <2>2, RequestStopKind, Zenon
<1>14. ASSUME TableStep PROVE Good
  BY <1>14, Zenon
<1> HIDE DEF Good
<1>15. Good
  BY <1>1, <1>2, <1>3, <1>4, <1>5, <1>6, <1>7, <1>8, <1>9, <1>10, <1>11, <1>12, <1>13, <1>14, StepCases, Zenon DEF CoreStep, TableStep
<1> QED
  BY <1>15 DEF Good

-----------------------------------------------------------------------------

-----------------------------------------------------------------------------
(* The counters.                                                           *)

\* The runs active_run_count counts: their completion has not come past
\* maybe_mark_rxc_job_done.
ActiveRuns(j) ==
  {r \in Runs : JobOf[r] = j /\ Started(r) /\ fin[r] \in {"none", "publish", "deactivate"}}

\* The runs the counter of a status counts; all of them are in the table of the
\* job once it is filled.
Counted(j, s) ==
  {r \in Runs : /\ JobOf[r] = j /\ Started(r) /\ status[r] = s
                /\ job_pc[j] = "start" => r \in run_map}

ActiveInv == \A j \in Jobs : active[j] = Cardinality(ActiveRuns(j))
StatusInv == \A j \in Jobs, s \in Status : count[<<j, s>>] = Cardinality(Counted(j, s))

\* These sets are finite.
LEMMA CountedFinite ==
  ASSUME NEW j, NEW s
  PROVE  /\ IsFiniteSet(ActiveRuns(j)) /\ IsFiniteSet(Counted(j, s))
         /\ Cardinality(ActiveRuns(j)) \in Nat /\ Cardinality(Counted(j, s)) \in Nat
<1>1. ActiveRuns(j) \subseteq Runs /\ Counted(j, s) \subseteq Runs
  BY DEF ActiveRuns, Counted
<1>2. IsFiniteSet(ActiveRuns(j)) /\ IsFiniteSet(Counted(j, s))
  BY <1>1, RunsAssumption, FS_Subset
<1> QED
  BY <1>2, FS_CardinalityType, Zenon

\* A counter of a status that some run has is positive.
LEMMA CountedPositive ==
  ASSUME NEW j, NEW s, NEW r \in Counted(j, s)
  PROVE  Cardinality(Counted(j, s)) > 0
<1>1. Cardinality(Counted(j, s)) # 0
  BY CountedFinite, FS_EmptySet, Zenon
<1> QED
  BY <1>1, CountedFinite

\* What Moved does to each counter.
MovedAll(j, s, t) ==
  \A i \in Jobs, u \in Status :
    Moved(j, s, t)[<<i, u>>] = IF i = j /\ u = s THEN count[<<i, u>>] - 1
                               ELSE IF i = j /\ u = t THEN count[<<i, u>>] + 1
                               ELSE count[<<i, u>>]

LEMMA MovedValue ==
  ASSUME TypeOK, NEW j \in Jobs, NEW s \in Status, NEW t \in Status, s # t, count[<<j, s>>] > 0
  PROVE  MovedAll(j, s, t)
<1> SUFFICES ASSUME NEW i \in Jobs, NEW u \in Status
             PROVE  Moved(j, s, t)[<<i, u>>] = IF i = j /\ u = s THEN count[<<i, u>>] - 1
                                               ELSE IF i = j /\ u = t THEN count[<<i, u>>] + 1
                                               ELSE count[<<i, u>>]
  BY Zenon DEF MovedAll
<1>1. <<i, u>> \in Jobs \X Status
  OBVIOUS
<1>2. Moved(j, s, t)[<<i, u>>] = IF <<i, u>> = <<j, s>> /\ count[<<i, u>>] > 0 THEN count[<<i, u>>] - 1
                                 ELSE IF <<i, u>> = <<j, t>> THEN count[<<i, u>>] + 1
                                 ELSE count[<<i, u>>]
  BY <1>1, Zenon DEF Moved
<1> QED
  BY <1>2

\* SetStatus moves a run from the set of its status to the set of the new one,
\* and the counters with it.
LEMMA SetStatusCounts ==
  ASSUME TypeOK, PhaseInv, StatusInv, NEW r \in Runs, NEW t \in Status,
         Started(r), ~Ended(r), status[r] # t, SetStatus(r, t), SameRuns, UNCHANGED <<job_pc, run_map>>
  PROVE  StatusInv'
<1> DEFINE j == JobOf[r]
<1>0. PICK s \in Status : s = status[r]
  BY Zenon DEF TypeOK
<1>a. j \in Jobs /\ job_pc[j] \in {"none", "fill", "start"}
  BY RunsAssumption DEF TypeOK
<1>1. status' = [status EXCEPT ![r] = t] /\ status \in [Runs -> Status] /\ count' = Moved(j, s, t)
  BY <1>0, Zenon DEF SetStatus, TypeOK
<1>2. r \in Counted(j, s) /\ r \notin Counted(j, t)
  BY <1>0, <1>a, Zenon DEF Counted, PhaseInv, Started
<1>3. Counted(j, s)' = Counted(j, s) \ {r}
  BY <1>0, <1>1, Zenon DEF Counted, SameRuns
<1>4. Counted(j, t)' = Counted(j, t) \cup {r}
  BY <1>0, <1>1, <1>2, Zenon DEF Counted, SameRuns
<1>5. \A i \in Jobs, u \in Status : ~(i = j /\ u = s) /\ ~(i = j /\ u = t) => Counted(i, u)' = Counted(i, u)
  BY <1>0, <1>1, Zenon DEF Counted, SameRuns
<1>6. count[<<j, s>>] > 0
  BY <1>a, <1>2, CountedPositive DEF StatusInv
<1>7. Cardinality(Counted(j, s)') = Cardinality(Counted(j, s)) - 1
  BY <1>2, <1>3, CountedFinite, FS_RemoveElement, ZenonT(60)
<1>8. Cardinality(Counted(j, t)') = Cardinality(Counted(j, t)) + 1
  BY <1>2, <1>4, CountedFinite, FS_AddElement, Zenon
<1> SUFFICES ASSUME NEW i \in Jobs, NEW u \in Status
             PROVE  count'[<<i, u>>] = Cardinality(Counted(i, u)')
  BY Zenon DEF StatusInv
<1>9. count'[<<i, u>>] = IF i = j /\ u = s THEN count[<<i, u>>] - 1
                         ELSE IF i = j /\ u = t THEN count[<<i, u>>] + 1
                         ELSE count[<<i, u>>]
  <2>1. s # t
    BY <1>0
  <2> HIDE DEF j
  <2>2. Moved(j, s, t)[<<i, u>>] = IF i = j /\ u = s THEN count[<<i, u>>] - 1
                                   ELSE IF i = j /\ u = t THEN count[<<i, u>>] + 1
                                   ELSE count[<<i, u>>]
    <3>1. \A x \in Jobs, y \in Status :
            Moved(j, s, t)[<<x, y>>] = IF x = j /\ y = s THEN count[<<x, y>>] - 1
                                       ELSE IF x = j /\ y = t THEN count[<<x, y>>] + 1
                                       ELSE count[<<x, y>>]
      <4>1. MovedAll(j, s, t)
        BY <1>a, <1>6, <2>1, MovedValue, Zenon
      <4> QED
        BY <4>1, Zenon DEF MovedAll
    <3> QED
      BY <3>1, Zenon
  <2> QED
    BY <1>1, <2>2, Zenon
<1>10. count[<<i, u>>] = Cardinality(Counted(i, u))
  BY Zenon DEF StatusInv
<1>11. s # t
  BY <1>0
<1> HIDE DEF j
<1>12. CASE i = j /\ u = s
  BY <1>12, <1>9, <1>10, <1>7, Zenon
<1>13. CASE i = j /\ u = t
  BY <1>13, <1>9, <1>10, <1>8, <1>11, ZenonT(60)
<1>14. CASE ~(i = j /\ u = s) /\ ~(i = j /\ u = t)
  BY <1>14, <1>9, <1>10, <1>5, Zenon
<1> QED
  BY <1>12, <1>13, <1>14, Zenon

\* A step that keeps what the sets are made of keeps the counters right.
LEMMA ActiveKept ==
  ASSUME ActiveInv, UNCHANGED active,
         \A r \in Runs : /\ Started(r)' <=> Started(r)
                         /\ fin'[r] \in {"none", "publish", "deactivate"} <=> fin[r] \in {"none", "publish", "deactivate"}
  PROVE  ActiveInv'
<1>1. \A j \in Jobs : ActiveRuns(j)' = ActiveRuns(j)
  BY DEF ActiveRuns
<1> QED
  BY <1>1, Zenon DEF ActiveInv

\* The same for the counters of statuses.
LEMMA StatusKept ==
  ASSUME StatusInv, UNCHANGED <<count, status, job_pc, run_map>>, SameRuns
  PROVE  StatusInv'
<1>1. \A j \in Jobs, s \in Status : Counted(j, s)' = Counted(j, s)
  BY DEF Counted, SameRuns
<1> QED
  BY <1>1, Zenon DEF StatusInv

\* Every step keeps active_run_count and the counters of statuses right.
LEMMA CountStep ==
  ASSUME TypeOK, PhaseInv, ActiveInv, StatusInv, [Next]_vars
  PROVE  ActiveInv' /\ StatusInv'
<1>a. PhaseType
  BY RunsAssumption DEF TypeOK, PhaseType
<1> DEFINE Good == ActiveInv' /\ StatusInv'
<1>1. ASSUME KeepsTallies PROVE Good
  BY <1>1, ActiveKept, StatusKept DEF KeepsTallies, SameRuns
<1>2. ASSUME NEW r \in Runs, NEW t \in Status, MovesRun(r, t) PROVE Good
  <2>1. ActiveInv'
    BY <1>2, ActiveKept DEF MovesRun, SameRuns
  <2>2. StatusInv'
    BY <1>2, SetStatusCounts, Zenon DEF MovesRun
  <2> QED
    BY <2>1, <2>2, Zenon
<1>3. ASSUME NEW r \in Runs, NEW t \in Status, EndsRun(r, t) PROVE Good
  <2>1. \A q \in Runs : fin'[q] \in {"none", "publish", "deactivate"} <=> fin[q] \in {"none", "publish", "deactivate"}
    BY <1>a, <1>3, ZenonT(60) DEF EndsRun, PhaseType, PhaseInv
  <2>2. ActiveInv'
    BY <1>3, <2>1, ActiveKept DEF EndsRun, SameRuns
  <2>3. StatusInv'
    BY <1>3, SetStatusCounts DEF EndsRun
  <2> QED
    BY <2>2, <2>3
<1>4. ASSUME NEW r \in Runs, PublishRunDone(r) PROVE Good
  <2>1. SameRuns /\ UNCHANGED <<active, count, status, job_pc, run_map>>
    BY <1>4 DEF PublishRunDone, SameRuns, Started, runs, events, table, purging, stops, registry, conns, streams, clients
  <2>2. \A q \in Runs : fin'[q] \in {"none", "publish", "deactivate"} <=> fin[q] \in {"none", "publish", "deactivate"}
    BY <1>a, <1>4 DEF PublishRunDone, PhaseType
  <2>3. ActiveInv'
    BY <2>1, <2>2, ActiveKept, Zenon DEF SameRuns
  <2> QED
    BY <2>1, <2>3, StatusKept, Zenon
<1>5. ASSUME NEW r \in Runs, MarkJobDone(r) PROVE Good
  <2>1. SameRuns /\ UNCHANGED <<active, count, status, job_pc, run_map>>
    BY <1>5 DEF MarkJobDone, SameRuns, Started, runs, events, table, purging, stops, registry, conns, streams, clients
  <2>2. \A q \in Runs : fin'[q] \in {"none", "publish", "deactivate"} <=> fin[q] \in {"none", "publish", "deactivate"}
    BY <1>a, <1>5, ZenonT(60) DEF MarkJobDone, PhaseType
  <2>3. ActiveInv'
    BY <2>1, <2>2, ActiveKept, Zenon DEF SameRuns
  <2> QED
    BY <2>1, <2>3, StatusKept
<1>6. ASSUME NEW r \in Runs, PublishJobDone(r) PROVE Good
  <2>1. SameRuns /\ UNCHANGED <<active, count, status, job_pc, run_map>>
    BY <1>6 DEF PublishJobDone, SameRuns, Started, runs, events, table, purging, stops, registry, conns, streams, clients
  <2>2. \A q \in Runs : fin'[q] \in {"none", "publish", "deactivate"} <=> fin[q] \in {"none", "publish", "deactivate"}
    BY <1>a, <1>6, Zenon DEF PublishJobDone, PhaseType
  <2>3. ActiveInv'
    BY <2>1, <2>2, ActiveKept DEF SameRuns
  <2> QED
    BY <2>1, <2>3, StatusKept
<1>7. ASSUME NEW r \in Runs, NotifyPurge(r) PROVE Good
  <2>1. SameRuns /\ UNCHANGED <<active, count, status, job_pc, run_map>>
    BY <1>7, Zenon DEF NotifyPurge, SameRuns, Started, runs, events, table, purging, stops, registry, conns, streams, clients
  <2>2. \A q \in Runs : fin'[q] \in {"none", "publish", "deactivate"} <=> fin[q] \in {"none", "publish", "deactivate"}
    BY <1>a, <1>7 DEF NotifyPurge, PhaseType
  <2>3. ActiveInv'
    BY <2>1, <2>2, ActiveKept DEF SameRuns
  <2> QED
    BY <2>1, <2>3, StatusKept
<1>8. ASSUME NEW r \in Runs, Deactivate(r) PROVE Good
  <2> DEFINE j == JobOf[r]
  <2>1. SameRuns /\ UNCHANGED <<count, status, job_pc, run_map>>
    BY <1>8, Zenon DEF Deactivate, SameRuns, Started, runs
  <2>2. Started(r)
    BY <1>a, <1>8, Zenon DEF Deactivate, PhaseInv, PhaseType, Ended, Terminal
  <2>3. fin[r] = "deactivate" /\ fin' = [fin EXCEPT ![r] = IF active[j] > 1 THEN "over" ELSE "mark_done"]
    BY <1>8, Zenon DEF Deactivate
  <2>4. r \in ActiveRuns(j)
    BY <2>2, <2>3, Zenon DEF ActiveRuns
  <2>5. ActiveRuns(j)' = ActiveRuns(j) \ {r}
    BY <1>a, <2>1, <2>3, Zenon DEF ActiveRuns, SameRuns, PhaseType
  <2>6. \A i \in Jobs : i # j => ActiveRuns(i)' = ActiveRuns(i)
    BY <1>a, <2>1, <2>3 DEF ActiveRuns, SameRuns, PhaseType
  <2>7. Cardinality(ActiveRuns(j)') = Cardinality(ActiveRuns(j)) - 1
    BY <2>4, <2>5, CountedFinite, FS_RemoveElement, Zenon
  <2>8. j \in Jobs
    BY <1>a, Zenon DEF PhaseType
  <2>9. active[j] = Cardinality(ActiveRuns(j)) /\ active[j] \in Nat
    BY <2>8, CountedFinite, Zenon DEF ActiveInv
  <2>10. active[j] > 0
    BY <2>4, <2>9, CountedFinite, FS_EmptySet
  <2>11. active' = [active EXCEPT ![j] = active[j] - 1] /\ active \in [Jobs -> Nat]
    BY <1>8, <2>10, Zenon DEF Deactivate, TypeOK
  <2> HIDE DEF j
  <2>12. ActiveInv'
    BY <2>6, <2>7, <2>8, <2>9, <2>11, Zenon DEF ActiveInv
  <2>13. StatusInv'
    BY <2>1, StatusKept
  <2> QED
    BY <2>12, <2>13, Zenon
<1>9. ASSUME NEW r \in Runs, DeleteRxcJobRun(r) PROVE Good
  <2> DEFINE j == JobOf[r]
  <2>0. PICK s \in Status : s = status[r]
    BY <1>a, ZenonT(60) DEF PhaseType
  <2>1. SameRuns /\ UNCHANGED <<active, fin, status, job_pc>> /\ run_map' = run_map \ {r}
    BY <1>9, Zenon DEF DeleteRxcJobRun, SameRuns, Started, runs
  <2>2. ActiveInv'
    BY <2>1, ActiveKept DEF SameRuns
  <2>3. j \in Jobs /\ Started(r) /\ job_pc[j] = "start"
    BY <1>a, <1>9, ZenonT(60) DEF DeleteRxcJobRun, PhaseInv, PhaseType, Started
  <2>4. r \in Counted(j, s)
    BY <1>9, <2>0, <2>3, Zenon DEF Counted, DeleteRxcJobRun
  <2>5. Counted(j, s)' = Counted(j, s) \ {r}
    BY <2>1, <2>3, Zenon DEF Counted, SameRuns
  <2>6. \A i \in Jobs, u \in Status : ~(i = j /\ u = s) => Counted(i, u)' = Counted(i, u)
    BY <2>0, <2>1, Zenon DEF Counted, SameRuns
  <2>7. Cardinality(Counted(j, s)') = Cardinality(Counted(j, s)) - 1
    BY <2>4, <2>5, CountedFinite, FS_RemoveElement, Zenon
  <2>8. count[<<j, s>>] = Cardinality(Counted(j, s)) /\ count[<<j, s>>] > 0
    BY <2>3, <2>4, CountedPositive, ZenonT(60) DEF StatusInv
  <2>9. count' = [count EXCEPT ![<<j, s>>] = count[<<j, s>>] - 1] /\ count \in [Jobs \X Status -> Nat]
    BY <1>9, <2>0, <2>8, Zenon DEF DeleteRxcJobRun, TypeOK
  <2> HIDE DEF j
  <2>10. ASSUME NEW i \in Jobs, NEW u \in Status PROVE count'[<<i, u>>] = Cardinality(Counted(i, u)')
    <3>1. CASE i = j /\ u = s
      BY <3>1, <2>3, <2>7, <2>8, <2>9, Zenon
    <3>2. CASE ~(i = j /\ u = s)
      <4>1. count'[<<i, u>>] = count[<<i, u>>]
        BY <3>2, <2>9
      <4> QED
        BY <3>2, <4>1, <2>6, Zenon DEF StatusInv
    <3> QED
      BY <3>1, <3>2
  <2>11. StatusInv'
    BY <2>10, Zenon DEF StatusInv
  <2> QED
    BY <2>2, <2>11
<1>10. ASSUME NEW j \in Jobs, FillRunMap(j) PROVE Good
  <2>1. SameRuns /\ UNCHANGED <<active, fin, count, status, run_pc>>
    BY <1>10 DEF FillRunMap, SameRuns, Started, tallies
  <2>2. ActiveInv'
    BY <2>1, ActiveKept, Zenon DEF SameRuns
  <2>3. \A i \in Jobs, s \in Status : Counted(i, s)' = Counted(i, s)
    BY <1>a, <1>10, <2>1 DEF FillRunMap, Counted, Started, PhaseInv, PhaseType, RunsOf
  <2>4. StatusInv'
    BY <2>1, <2>3, Zenon DEF StatusInv
  <2> QED
    BY <2>2, <2>4
<1>11. ASSUME NEW j \in Jobs, DeleteRxcJob(j) PROVE Good
  <2>1. SameRuns /\ UNCHANGED <<active, fin, count, status, job_pc, run_map>>
    BY <1>11 DEF DeleteRxcJob, SameRuns, Started, runs, tallies
  <2> QED
    BY <2>1, ActiveKept, StatusKept, Zenon DEF SameRuns
<1>12. ASSUME NEW k \in 0..Len(heap), PurgeStaleJobs(k) PROVE Good
  <2>1. SameRuns /\ UNCHANGED <<active, fin, count, status, job_pc, run_map>>
    BY <1>12 DEF PurgeStaleJobs, SameRuns, Started, runs, tallies
  <2> QED
    BY <2>1, ActiveKept, StatusKept DEF SameRuns
<1>13. ASSUME NEW j \in Jobs, NEW targets \in SUBSET RunsOf(j), StartRxcJob(j, targets) PROVE Good
  <2>1. /\ job_pc[j] = "none" /\ job_pc' = [job_pc EXCEPT ![j] = "fill"]
        /\ run_pc' = [r \in Runs |-> IF r \in targets THEN "target" ELSE run_pc[r]]
        /\ UNCHANGED <<status, fin, run_map>>
    BY <1>13, Zenon DEF StartRxcJob
  <2>2. \A r \in Runs : JobOf[r] = j => ~Started(r) /\ status[r] = "starting" /\ fin[r] = "none"
    BY <1>a, <2>1 DEF PhaseInv, PhaseType, Started, Ended, Terminal
  <2>3. \A r \in targets : r \in Runs /\ JobOf[r] = j
    BY DEF RunsOf
  <2>4. \A r \in Runs : Started(r)' <=> r \in targets \/ Started(r)
    BY <2>1, Zenon DEF Started
  <2>5. ActiveRuns(j)' = targets
    BY <2>1, <2>2, <2>3, <2>4, Zenon DEF ActiveRuns
  <2>6. \A i \in Jobs : i # j => ActiveRuns(i)' = ActiveRuns(i)
    BY <2>1, <2>3, <2>4, Zenon DEF ActiveRuns
  <2>7. Counted(j, "starting")' = targets
    BY <1>a, <2>1, <2>2, <2>3, <2>4, Zenon DEF Counted, PhaseType
  <2>8. ASSUME NEW i \in Jobs, NEW s \in Status, ~(i = j /\ s = "starting")
        PROVE  Counted(i, s)' = Counted(i, s)
    <3>1. CASE i = j
      <4>1. Counted(i, s) = {} /\ Counted(i, s)' = {}
        BY <2>1, <2>2, <2>8, <3>1, Zenon DEF Counted
      <4> QED
        BY <4>1, Zenon
    <3>2. CASE i # j
      <4>1. \A r \in Runs : JobOf[r] = i => (Started(r)' <=> Started(r))
        BY <2>3, <2>4, <3>2, Zenon
      <4>2. job_pc'[i] = job_pc[i]
        BY <1>a, <2>1, <3>2, ZenonT(60) DEF PhaseType
      <4> QED
        BY <2>1, <4>1, <4>2, Zenon DEF Counted
    <3> QED
      BY <3>1, <3>2, Zenon
  <2>9. active' = [active EXCEPT ![j] = Cardinality(targets)] /\ active \in [Jobs -> Nat]
    BY <1>13, Zenon DEF StartRxcJob, TypeOK
  <2>10. ActiveInv'
    BY <2>5, <2>6, <2>9, Zenon DEF ActiveInv
  <2>11. /\ count' = [count EXCEPT ![<<j, "starting">>] = Cardinality(targets)]
         /\ count \in [Jobs \X Status -> Nat] /\ "starting" \in Status
    BY <1>13, ZenonT(60) DEF StartRxcJob, TypeOK, Status
  <2>12. ASSUME NEW i \in Jobs, NEW s \in Status PROVE count'[<<i, s>>] = Cardinality(Counted(i, s)')
    <3>1. CASE i = j /\ s = "starting"
      BY <3>1, <2>7, <2>11, ZenonT(60)
    <3>2. CASE ~(i = j /\ s = "starting")
      <4>1. count'[<<i, s>>] = count[<<i, s>>]
        BY <3>2, <2>11
      <4> QED
        BY <3>2, <4>1, <2>8, Zenon DEF StatusInv
    <3> QED
      BY <3>1, <3>2
  <2>13. StatusInv'
    BY <2>12, Zenon DEF StatusInv
  <2> QED
    BY <2>10, <2>13, Zenon
<1> HIDE DEF Good
<1>14. Good
  BY <1>1, <1>2, <1>3, <1>4, <1>5, <1>6, <1>7, <1>8, <1>9, <1>10, <1>11, <1>12, <1>13, Kinds, Zenon DEF TableStep
<1> QED
  BY <1>14, Zenon DEF Good

-----------------------------------------------------------------------------
(* Completion of jobs and the expiry heap.                                 *)

\* Every step keeps the completion of jobs and the heap in order.
LEMMA DoneStep ==
  ASSUME TypeOK, PhaseInv, ActiveInv, DoneInv, HeapInMap, [Next]_vars
  PROVE  DoneInv' /\ HeapInMap'
<1>a. PhaseType
  BY RunsAssumption, Zenon DEF TypeOK, PhaseType
<1>b. active \in [Jobs -> Nat] /\ job_events \in [Jobs -> Nat] /\ heap \in Seq(Jobs) /\ done \subseteq Jobs /\ rxc_job_map \subseteq Jobs
  BY Zenon DEF TypeOK
<1> DEFINE Good == DoneInv' /\ HeapInMap'
<1>1. ASSUME KeepsTallies PROVE Good
  BY <1>1, Zenon DEF KeepsTallies, DoneInv, HeapInMap, table
<1>2. ASSUME NEW r \in Runs, NEW t \in Status, MovesRun(r, t) PROVE Good
  BY <1>2, Zenon DEF MovesRun, DoneInv, HeapInMap, table
<1>3. ASSUME NEW r \in Runs, NEW t \in Status, EndsRun(r, t) PROVE Good
  BY <1>a, <1>3, ZenonT(60) DEF EndsRun, DoneInv, HeapInMap, table, PhaseType
<1>4. ASSUME NEW r \in Runs, PublishRunDone(r) PROVE Good
  BY <1>a, <1>4, ZenonT(60) DEF PublishRunDone, DoneInv, HeapInMap, table, PhaseType
<1>5. ASSUME NEW r \in Runs, NotifyPurge(r) PROVE Good
  BY <1>a, <1>5, ZenonT(60) DEF NotifyPurge, DoneInv, HeapInMap, table, events, PhaseType
<1>6. ASSUME NEW r \in Runs, DeleteRxcJobRun(r) PROVE Good
  BY <1>6, Zenon DEF DeleteRxcJobRun, DoneInv, HeapInMap, table, events
<1>7. ASSUME NEW j \in Jobs, FillRunMap(j) PROVE Good
  BY <1>7, Zenon DEF FillRunMap, DoneInv, HeapInMap, table, events, tallies
<1>8. ASSUME NEW r \in Runs, PublishJobDone(r) PROVE Good
  <2>1. HeapInMap'
    BY <1>8, Zenon DEF PublishJobDone, HeapInMap, table
  <2>2. DoneInv'
    <3>1. /\ fin[r] = "publish_job" /\ fin' = [fin EXCEPT ![r] = "notify"]
          /\ job_events' = [job_events EXCEPT ![JobOf[r]] = @ + 1]
          /\ UNCHANGED <<active, done, rxc_job_map>>
      BY <1>8, Zenon DEF PublishJobDone, table
    <3>2. /\ JobOf \in [Runs -> Jobs]
          /\ fin \in [Runs -> {"none", "publish", "deactivate", "mark_done", "publish_job", "notify", "over"}]
      BY <1>a, ZenonT(60) DEF PhaseType
    <3> QED
      BY <1>b, <3>1, <3>2, DonePublished, Zenon
  <2> QED
    BY <2>1, <2>2, Zenon
<1>9. ASSUME NEW r \in Runs, Deactivate(r) PROVE Good
  <2> DEFINE j == JobOf[r]
  <2>1. j \in Jobs /\ fin[r] = "deactivate" /\ Started(r)
    BY <1>a, <1>9 DEF Deactivate, PhaseInv, PhaseType, Ended, Terminal
  <2>2. r \in ActiveRuns(j)
    BY <2>1, ZenonT(60) DEF ActiveRuns
  <2>3. active[j] > 0
    <3>1. active[j] = Cardinality(ActiveRuns(j)) /\ active[j] \in Nat
      BY <1>b, <2>1, Zenon DEF ActiveInv
    <3> QED
      <4>1. active[j] # 0
        BY <2>2, <3>1, CountedFinite, FS_EmptySet, ZenonT(60)
      <4> QED
        BY <3>1, <4>1, SMT
  <2>4. /\ active' = [active EXCEPT ![j] = active[j] - 1]
        /\ fin' = [fin EXCEPT ![r] = IF active[j] > 1 THEN "over" ELSE "mark_done"]
        /\ UNCHANGED <<events, table>>
    BY <1>9, <2>3, Zenon DEF Deactivate
  <2>5. HeapInMap'
    BY <2>4, Zenon DEF HeapInMap, table
  <2>6. DoneInv'
    BY <1>a, <1>b, <2>1, <2>3, <2>4 DEF DoneInv, PhaseType, events, table
  <2> QED
    BY <2>5, <2>6, Zenon
<1>10. ASSUME NEW r \in Runs, MarkJobDone(r) PROVE Good
  <2> DEFINE j == JobOf[r]
  <2>0. fin[r] = "mark_done" /\ j \in Jobs /\ UNCHANGED <<active, events>>
    BY <1>a, <1>10, Zenon DEF MarkJobDone, PhaseType
  <2>1. CASE j \notin rxc_job_map \/ j \in done
    <3>1. fin' = [fin EXCEPT ![r] = "over"] /\ UNCHANGED table
      BY <1>10, <2>1 DEF MarkJobDone
    <3> QED
      BY <1>a, <2>0, <3>1, ZenonT(60) DEF DoneInv, HeapInMap, PhaseType, events, table
  <2>2. CASE ~(j \notin rxc_job_map \/ j \in done)
    <3>1. /\ fin' = [fin EXCEPT ![r] = "publish_job"]
          /\ done' = done \cup {j}
          /\ heap' = IF Retention THEN Append(heap, j) ELSE heap
          /\ UNCHANGED rxc_job_map
      BY <1>10, <2>2, Zenon DEF MarkJobDone
    <3>2. DoneInv'
      BY <1>a, <1>b, <2>0, <2>2, <3>1 DEF DoneInv, PhaseType, events
    <3>4. CASE Retention
      <4>6. HeapInMap'
        BY <1>b, <2>0, <2>2, <3>1, <3>4, HeapGrows, Zenon
      <4> QED
        BY <3>2, <4>6
    <3>5. CASE ~Retention
      <4>1. HeapInMap'
        BY <3>1, <3>5, Zenon DEF HeapInMap
      <4> QED
        BY <3>2, <4>1, Zenon
    <3> QED
      BY <3>4, <3>5, Zenon
  <2> QED
    BY <2>1, <2>2
<1>11. ASSUME NEW j \in Jobs, DeleteRxcJob(j) PROVE Good
  <2>1. /\ active[j] = 0 /\ rxc_job_map' = rxc_job_map \ {j} /\ heap' = WithoutJob(j)
        /\ UNCHANGED <<fin, active, job_events, done>>
    BY <1>11, ZenonT(60) DEF DeleteRxcJob, tallies, events
  <2>2. DoneInv'
    <3>1. PICK gone : gone = {j}
      BY Zenon
    <3>2. (\A x \in gone : active[x] = 0) /\ rxc_job_map' = rxc_job_map \ gone
      BY <2>1, <3>1, Zenon
    <3> QED
      BY <1>b, <2>1, <3>2, DoneRemoved, Zenon
  <2>3. HeapInMap'
    BY <1>b, <2>1, HeapWithout, Zenon
  <2> QED
    BY <2>2, <2>3
<1>12. ASSUME NEW k \in 0..Len(heap), PurgeStaleJobs(k) PROVE Good
  <2>1. /\ rxc_job_map' = rxc_job_map \ {heap[i] : i \in 1..k}
        /\ heap' = SubSeq(heap, k + 1, Len(heap))
        /\ UNCHANGED <<fin, active, job_events, done>>
    BY <1>12 DEF PurgeStaleJobs, tallies, events
  <2>3. \A i \in 1..k : heap[i] \in done
    BY <1>b, HeapPurged, Zenon
  <2>4. DoneInv'
    <3>1. PICK gone : gone = {heap[i] : i \in 1..k}
      BY Zenon
    <3>2. \A x \in gone : x \in done
      BY <2>3, <3>1, Zenon
    <3>3. \A x \in done : active[x] = 0
      BY Zenon DEF DoneInv
    <3>4. (\A x \in gone : active[x] = 0) /\ rxc_job_map' = rxc_job_map \ gone
      BY <2>1, <3>1, <3>2, <3>3, Zenon
    <3> QED
      BY <1>b, <2>1, <3>4, DoneRemoved, Zenon
  <2>8. HeapInMap'
    BY <1>b, <2>1, HeapPurged, Zenon
  <2> QED
    BY <2>4, <2>8
<1>13. ASSUME NEW j \in Jobs, NEW targets \in SUBSET RunsOf(j), StartRxcJob(j, targets) PROVE Good
  <2>1. /\ job_pc[j] = "none" /\ rxc_job_map' = rxc_job_map \cup {j}
        /\ active' = [active EXCEPT ![j] = Cardinality(targets)]
        /\ UNCHANGED <<fin, job_events, done, heap>>
    BY <1>13, SMTT(60) DEF StartRxcJob, events
  <2>2. j \notin done /\ \A r \in Runs : JobOf[r] = j => fin[r] = "none"
    BY <1>a, <2>1, Zenon DEF PhaseInv, PhaseType, Started, Ended, Terminal
  <2>3. DoneInv'
    BY <1>a, <1>b, <2>1, <2>2, ZenonT(60) DEF DoneInv, PhaseType
  <2>4. HeapInMap'
    BY <2>1, Zenon DEF HeapInMap
  <2> QED
    BY <2>3, <2>4, Zenon
<1> HIDE DEF Good
<1>14. Good
  BY <1>1, <1>2, <1>3, <1>4, <1>5, <1>6, <1>7, <1>8, <1>9, <1>10, <1>11, <1>12, <1>13, Kinds, Zenon DEF TableStep
<1> QED
  BY <1>14, Zenon DEF Good

-----------------------------------------------------------------------------
(* The theorems.                                                           *)

IInv == TypeOK /\ PhaseInv /\ ActiveInv /\ StatusInv /\ DoneInv /\ HeapInMap

\* The invariant holds when the server starts.
LEMMA IInvInit == Init => IInv
<1> SUFFICES ASSUME Init PROVE IInv
  BY Zenon
<1>1. TypeOK
  BY InitType, Zenon
<1>2. PhaseInv
  BY RunsAssumption, Zenon DEF Init, PhaseInv, Started, Ended, Terminal
<1>3. \A j, s : ActiveRuns(j) = {} /\ Counted(j, s) = {}
  BY DEF Init, ActiveRuns, Counted, Started
<1>4. ActiveInv /\ StatusInv
  BY <1>3, FS_EmptySet, ZenonT(60) DEF Init, ActiveInv, StatusInv
<1>5. DoneInv
  BY InitDone, Zenon
<1>6. HeapInMap
  BY DEF Init, HeapInMap
<1> QED
  BY <1>1, <1>2, <1>4, <1>5, <1>6 DEF IInv

\* The invariant of the job table, the runs and their counters, on which the
\* theorems below rest, holds in every reachable state.
THEOREM Invariance == Spec => []IInv
<1>1. \A S \in SUBSET Runs : Cardinality(S) \in Nat
  BY RunsAssumption, FS_Subset, FS_CardinalityType, Zenon
<1>2. IInv /\ [Next]_vars => IInv'
  BY <1>1, TypeStep, PhaseStep, CountStep, DoneStep DEF IInv
<1> QED
  BY <1>2, IInvInit, PTL DEF Spec

\* Types hold in every reachable state of the jobs, their runs and the streams.
THEOREM TypeCorrect == Spec => []TypeOK
<1>1. IInv => TypeOK
  BY ZenonT(60) DEF IInv
<1> QED
  BY <1>1, Invariance, PTL

\* The counters the control API reports for a job are right, for any number of
\* jobs, clients and goroutines that end its runs.
THEOREM CountersRight == Spec => []RunsCounted
<1>1. IInv => RunsCounted
  <2> SUFFICES ASSUME IInv, NEW j \in Jobs, job_pc[j] = "start", NEW s \in Status
               PROVE  count[<<j, s>>] = Cardinality(RunsIn(j, s))
    BY ZenonT(60) DEF RunsCounted
  <2>1. run_map \subseteq Runs /\ \A r \in run_map : Started(r)
    BY SMTT(60) DEF IInv, TypeOK, PhaseInv
  <2>2. Counted(j, s) = RunsIn(j, s)
    BY <2>1, Zenon DEF Counted, RunsIn
  <2> QED
    BY <2>2 DEF IInv, StatusInv
<1> QED
  BY <1>1, Invariance, PTL

\* maybe_mark_rxc_job_done: the completion event of a job is published at most
\* once and after the completion events of all its runs.
THEOREM JobDoneOnceAndLast == Spec => []JobDoneIsLast
<1>1. IInv => JobDoneIsLast
  <2> SUFFICES ASSUME IInv, NEW j \in Jobs
               PROVE  /\ job_events[j] <= 1
                      /\ job_events[j] = 1 => \A r \in RunsOf(j) : run_pc[r] # "none" => r \in run_events
    BY DEF JobDoneIsLast
  <2>1. job_events[j] <= 1
    BY Zenon DEF IInv, DoneInv
  <2>2. ASSUME job_events[j] = 1, NEW r \in RunsOf(j), run_pc[r] # "none" PROVE r \in run_events
    <3>1. active[j] = 0
      BY <2>2 DEF IInv, DoneInv
    <3>2. ActiveRuns(j) = {}
      BY <3>1, CountedFinite, FS_EmptySet, ZenonT(60) DEF IInv, ActiveInv
    <3>3. r \in Runs /\ fin[r] \notin {"none", "publish"}
      BY <2>2, <3>2, Zenon DEF ActiveRuns, RunsOf, Started
    <3> QED
      BY <3>3, Zenon DEF IInv, PhaseInv
  <2> QED
    BY <2>1, <2>2
<1> QED
  BY <1>1, Invariance, PTL

\* Jobs in the expiry heap are in the table, once each, and done: the mismatch that
\* purge_stale_rxc_jobs warns of "must not happen" and does not.
THEOREM HeapConsistent == Spec => []HeapInMap
<1>1. IInv => HeapInMap
  BY Zenon DEF IInv
<1> QED
  BY <1>1, Invariance, PTL

\* Neither DeleteRxcJob, DeleteRxcJobRun nor the purger removes what is active.
THEOREM ActiveNotRemoved == Spec => []ActiveIsKept
<1>1. IInv => ActiveIsKept
  <2> SUFFICES ASSUME IInv, NEW r \in Runs, ~Ended(r), run_pc[r] # "none"
               PROVE  JobOf[r] \in rxc_job_map /\ (job_pc[JobOf[r]] = "start" => r \in run_map)
    BY DEF ActiveIsKept
  <2>1. JobOf[r] \in Jobs /\ active[JobOf[r]] \in Nat
    BY RunsAssumption, ZenonT(60) DEF IInv, TypeOK
  <2>2. r \in ActiveRuns(JobOf[r])
    BY SMTT(60) DEF ActiveRuns, Started, IInv, PhaseInv
  <2>3. active[JobOf[r]] = Cardinality(ActiveRuns(JobOf[r]))
    BY <2>1, ZenonT(60) DEF IInv, ActiveInv
  <2>4. active[JobOf[r]] > 0
    <3>1. IsFiniteSet(ActiveRuns(JobOf[r]))
      BY CountedFinite, Zenon
    <3>2. Cardinality(ActiveRuns(JobOf[r])) # 0
      BY <2>2, <3>1, FS_EmptySet, Zenon
    <3>3. \A n \in Nat : n # 0 => n > 0
      OBVIOUS
    <3> QED
      BY <2>1, <2>3, <3>2, <3>3, Zenon
  <2> QED
    BY <2>1, <2>4, Zenon DEF IInv, DoneInv, PhaseInv, Started
<1> QED
  BY <1>1, Invariance, PTL

\* Whichever of the racing goroutines ends a run first, no later one changes its
\* status again.
THEOREM FirstEndCounts == Spec => EndedStays
<1>1. IInv /\ [Next]_vars => [\A r \in Runs : Ended(r) => status'[r] = status[r]]_vars
  <2> SUFFICES ASSUME IInv, [Next]_vars, NEW r \in Runs, Ended(r)
               PROVE  status'[r] = status[r]
    BY ZenonT(60)
  <2>1. TypeOK /\ PhaseInv /\ status \in [Runs -> Status]
    BY DEF IInv, TypeOK
  <2>2. ASSUME KeepsTallies PROVE status'[r] = status[r]
    BY <2>2 DEF KeepsTallies
  <2>3. ASSUME NEW q \in Runs, NEW t \in Status, MovesRun(q, t) PROVE status'[r] = status[r]
    BY <2>1, <2>3 DEF MovesRun, SetStatus
  <2>4. ASSUME NEW q \in Runs, NEW t \in Status, EndsRun(q, t) PROVE status'[r] = status[r]
    BY <2>1, <2>4 DEF EndsRun, SetStatus
  <2>5. ASSUME TableStep PROVE status'[r] = status[r]
    BY <2>5, Zenon DEF TableStep, PublishRunDone, Deactivate, MarkJobDone, PublishJobDone, NotifyPurge,
                DeleteRxcJobRun, FillRunMap, DeleteRxcJob, StartRxcJob, PurgeStaleJobs, tallies
  <2> QED
    BY <2>1, <2>2, <2>3, <2>4, <2>5, Kinds, Zenon
<1> QED
  BY <1>1, Invariance, PTL DEF Spec, EndedStays

=============================================================================
