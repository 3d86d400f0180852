------------------------------ MODULE RxcJobs ------------------------------
(***************************************************************************)
(* Remote execution jobs.  A job has a run for each client it targets.     *)
(* The server starts the runs one after the other over the packet streams  *)
(* of the clients; a run ends when its client says so, when starting it    *)
(* fails, or when its connection is closed.  The goroutine that ends a run *)
(* also completes it, and the last completion completes the job, which a   *)
(* purger removes after the retention time.                                *)
(*                                                                         *)
(* A run stands for its session as well: ids of sessions are not reused    *)
(* (a counter of 64 bits).  Output is left out, since nothing here reads   *)
(* it.  rxc_mtx of a connection is held while the connection stops its     *)
(* sessions; the other mutexes are held for one step only.  A goroutine    *)
(* may go on before the completion it makes of a run is over, which only   *)
(* adds interleavings.                                                     *)
(***************************************************************************)
EXTENDS Integers, Sequences, FiniteSets

CONSTANTS
  Jobs,       \* ids of jobs
  Conns,      \* ids of connections
  Runs,       \* the runs jobs may have
  JobOf,      \* the job of each run
  ConnOf,     \* the connection of each run
  Retention,  \* whether RxcDoneJobRetention is positive
  NoJob,      \* no job: the purger's timer is not armed
  Fragile,    \* bound: connections that may be lost or stopped
  Events      \* bound: which events from outside the instance includes

ASSUME RunsAssumption ==
  /\ IsFiniteSet(Runs)
  /\ JobOf \in [Runs -> Jobs]
  /\ ConnOf \in [Runs -> Conns]
ASSUME JobsAssumption == Retention \in BOOLEAN /\ NoJob \notin Jobs
ASSUME EventsAssumption ==
  /\ Fragile \subseteq Conns
  /\ Events \subseteq {"break", "stop_conn", "start_fails", "stop_job", "stop_run", "delete_job",
                       "delete_run"}

VARIABLES
  job_pc,       \* StartRxcJob of each job: the table of runs is to be filled, or runs are started
  run_pc,       \* the start of each run, from StartRxcJob to mark_started or mark_start_failure
  status,       \* Status of each run
  run_map,      \* runs in the run_map of their jobs
  count,        \* of each job and status, the counter of runs
  active,       \* active_run_count of each job
  fin,          \* the completion of each run: what the goroutine that ended it does next
  run_events,   \* runs whose SERVER_EVENT_RXC_JOB_RUN_DONE was published
  job_events,   \* how often SERVER_EVENT_RXC_JOB_DONE of each job was published
  rxc_job_map,  \* jobs in the server's table
  done,         \* jobs with Done set
  heap,         \* rxc_job_heap, in the order of expire_at
  expired,      \* jobs whose expire_at has passed
  purger,       \* run_rxc_job_purger: pc, and the job its timer is armed for
  purge_chan,   \* messages in rxc_job_purge_chan, of capacity 1
  asked,        \* jobs StopRxcJob was called for
  to_stop,      \* runs StopRxcJob has yet to call StopRxcJobRun for
  stop_sends,   \* runs StopRxcJobRun has yet to call SendStopRxcById for
  rxc_map,      \* runs registered in the rxc_map of their connections
  sessions,     \* stats.rxc_sessions
  cts_map,      \* connections in the server's table
  link,         \* the stream of each connection: up, lost unnoticed by the server, or down
  recv_pc,      \* receive_from_stream of each connection
  stop_pc,      \* ServerConn.ReqStop of each connection
  s2c, c2s,     \* the streams, one FIFO per connection and direction
  c_pc,         \* the session of each run on its client
  killed        \* sessions ReqStop was called for on the client

runs == <<job_pc, run_pc>>
tallies == <<status, count, fin>>
events == <<run_events, job_events>>
table == <<rxc_job_map, done, heap>>
purging == <<expired, purger, purge_chan>>
stops == <<asked, to_stop, stop_sends>>
registry == <<rxc_map, sessions>>
conns == <<cts_map, link, recv_pc, stop_pc>>
streams == <<s2c, c2s>>
clients == <<c_pc, killed>>
vars == <<runs, tallies, run_map, active, events, table, purging, stops, registry, conns,
          streams, clients>>

Status == {"starting", "running", "stopping", "stopped", "failed"}
Terminal == {"stopped", "failed"}
Ended(r) == status[r] \in Terminal
RunsOf(j) == {r \in Runs : JobOf[r] = j}
Packet == [kind : {"RXC_START", "RXC_STOP"}, run : Runs]
Pkt(k, r) == [kind |-> k, run |-> r]

Init ==
  /\ job_pc = [j \in Jobs |-> "none"] /\ run_pc = [r \in Runs |-> "none"]
  /\ status = [r \in Runs |-> "starting"]
  /\ run_map = {}
  /\ count = [x \in Jobs \X Status |-> 0] /\ active = [j \in Jobs |-> 0]
  /\ fin = [r \in Runs |-> "none"]
  /\ run_events = {} /\ job_events = [j \in Jobs |-> 0]
  /\ rxc_job_map = {} /\ done = {} /\ heap = <<>>
  /\ expired = {} /\ purger = [pc |-> "top", timer |-> NoJob] /\ purge_chan = 0
  /\ asked = {} /\ to_stop = {} /\ stop_sends = {}
  /\ rxc_map = {} /\ sessions = 0
  /\ cts_map = Conns /\ link = [c \in Conns |-> "up"]
  /\ recv_pc = [c \in Conns |-> "run"] /\ stop_pc = [c \in Conns |-> "none"]
  /\ s2c = [c \in Conns |-> <<>>] /\ c2s = [c \in Conns |-> <<>>]
  /\ c_pc = [r \in Runs |-> "none"] /\ killed = {}

-----------------------------------------------------------------------------
(* Transitions of a run, each under run.mtx and the job's run_mtx.         *)

\* One run of job j goes from status s to status t.
Moved(j, s, t) ==
  [x \in Jobs \X Status |->
     IF x = <<j, s>> /\ count[x] > 0 THEN count[x] - 1
     ELSE IF x = <<j, t>> THEN count[x] + 1
     ELSE count[x]]

SetStatus(r, t) ==
  /\ status' = [status EXCEPT ![r] = t]
  /\ count' = Moved(JobOf[r], status[r], t)

\* Mutant of EndRun: the run is counted out of the running ones, whatever its status.
EndRunAsRunning(r, t) ==
  IF Ended(r) THEN UNCHANGED tallies
  ELSE /\ status' = [status EXCEPT ![r] = t]
       /\ count' = Moved(JobOf[r], "running", t)
       /\ fin' = [fin EXCEPT ![r] = "publish"]

\* stop and mark_start_failure: the run ends, unless it has, as t; the goroutine
\* that has ended it goes on to complete it.
EndRun(r, t) ==
  IF Ended(r) THEN UNCHANGED tallies
  ELSE SetStatus(r, t) /\ fin' = [fin EXCEPT ![r] = "publish"]

\* request_stop: only a running run is to stop.
RequestStop(r) ==
  IF status[r] = "running"
  THEN SetStatus(r, "stopping") /\ stop_sends' = stop_sends \cup {r} /\ UNCHANGED fin
  ELSE UNCHANGED <<tallies, stop_sends>>

-----------------------------------------------------------------------------
(* Completion of a run by the goroutine that ended it.                     *)

\* FireRxcJobRunEvent.
PublishRunDone(r) ==
  /\ fin[r] = "publish"
  /\ fin' = [fin EXCEPT ![r] = "deactivate"]
  /\ run_events' = run_events \cup {r}
  /\ UNCHANGED <<runs, status, count, run_map, active, job_events, table, purging, stops,
                 registry, conns, streams, clients>>

\* Mutant of Deactivate: the last run but one takes itself for the last.
DeactivateEarly(r) ==
  LET n == active[JobOf[r]] IN
  /\ fin[r] = "deactivate"
  /\ active' = [active EXCEPT ![JobOf[r]] = IF n > 0 THEN n - 1 ELSE n]
  /\ fin' = [fin EXCEPT ![r] = IF n > 2 THEN "over" ELSE "mark_done"]
  /\ UNCHANGED <<runs, status, count, run_map, events, table, purging, stops, registry, conns,
                 streams, clients>>

\* Mutant of Deactivate: no run takes itself for the last.
DeactivateOnly(r) ==
  LET n == active[JobOf[r]] IN
  /\ fin[r] = "deactivate"
  /\ active' = [active EXCEPT ![JobOf[r]] = IF n > 0 THEN n - 1 ELSE n]
  /\ fin' = [fin EXCEPT ![r] = IF n > 0 THEN "over" ELSE "mark_done"]
  /\ UNCHANGED <<runs, status, count, run_map, events, table, purging, stops, registry, conns,
                 streams, clients>>

\* maybe_mark_rxc_job_done, under run_mtx: only the last run goes on.
Deactivate(r) ==
  LET n == active[JobOf[r]] IN
  /\ fin[r] = "deactivate"
  /\ active' = [active EXCEPT ![JobOf[r]] = IF n > 0 THEN n - 1 ELSE n]
  /\ fin' = [fin EXCEPT ![r] = IF n > 1 THEN "over" ELSE "mark_done"]
  /\ UNCHANGED <<runs, status, count, run_map, events, table, purging, stops, registry, conns,
                 streams, clients>>

\* maybe_mark_rxc_job_done, under rxc_job_mtx.
MarkJobDone(r) ==
  LET j == JobOf[r] IN
  /\ fin[r] = "mark_done"
  /\ IF j \notin rxc_job_map \/ j \in done
     THEN fin' = [fin EXCEPT ![r] = "over"] /\ UNCHANGED table
     ELSE /\ fin' = [fin EXCEPT ![r] = "publish_job"]
          /\ done' = done \cup {j}
          /\ heap' = IF Retention THEN Append(heap, j) ELSE heap
          /\ UNCHANGED rxc_job_map
  /\ UNCHANGED <<runs, status, count, run_map, active, events, purging, stops, registry, conns,
                 streams, clients>>

\* FireRxcJobEvent.
PublishJobDone(r) ==
  /\ fin[r] = "publish_job"
  /\ fin' = [fin EXCEPT ![r] = "notify"]
  /\ job_events' = [job_events EXCEPT ![JobOf[r]] = @ + 1]
  /\ UNCHANGED <<runs, status, count, run_map, active, run_events, table, purging, stops,
                 registry, conns, streams, clients>>

\* Mutant of NotifyPurge: the channel has no buffer, and the purger may not be at its
\* select yet.
NotifyPurgeUnbuffered(r) ==
  /\ fin[r] = "notify"
  /\ fin' = [fin EXCEPT ![r] = "over"]
  /\ purge_chan' \in {purge_chan, 1}
  /\ UNCHANGED <<runs, status, count, run_map, active, events, table, expired, purger, stops,
                 registry, conns, streams, clients>>

\* notify_rxc_job_purge: a send that does not block.
NotifyPurge(r) ==
  /\ fin[r] = "notify"
  /\ fin' = [fin EXCEPT ![r] = "over"]
  /\ purge_chan' = 1
  /\ UNCHANGED <<runs, status, count, run_map, active, events, table, expired, purger, stops,
                 registry, conns, streams, clients>>

Complete(r) ==
  PublishRunDone(r) \/ Deactivate(r) \/ MarkJobDone(r) \/ PublishJobDone(r) \/ NotifyPurge(r)

-----------------------------------------------------------------------------
(* StartRxcJob.                                                            *)

\* resolve_server_rxc_targets, the new job, and its entry in the table.
StartRxcJob(j, targets) ==
  /\ job_pc[j] = "none"
  /\ targets # {}
  /\ \A r \in targets : JobOf[r] = j /\ ConnOf[r] \in cts_map
  /\ job_pc' = [job_pc EXCEPT ![j] = "fill"]
  /\ run_pc' = [r \in Runs |-> IF r \in targets THEN "target" ELSE run_pc[r]]
  /\ active' = [active EXCEPT ![j] = Cardinality(targets)]
  /\ count' = [count EXCEPT ![<<j, "starting">>] = Cardinality(targets)]
  /\ rxc_job_map' = rxc_job_map \cup {j}
  /\ UNCHANGED <<status, fin, run_map, events, done, heap, purging, stops, registry, conns,
                 streams, clients>>

\* The run_map is filled under run_mtx.
FillRunMap(j) ==
  /\ job_pc[j] = "fill"
  /\ job_pc' = [job_pc EXCEPT ![j] = "start"]
  /\ run_map' = run_map \cup {r \in RunsOf(j) : run_pc[r] = "target"}
  /\ UNCHANGED <<run_pc, tallies, active, events, table, purging, stops, registry, conns,
                 streams, clients>>

\* rxc_mtx of connection c is not held by a loop that stops its sessions.
Unlocked(c) == recv_pc[c] # "stopping" /\ stop_pc[c] # "stopping"

\* add_new_rxc registers the session; StartRxcJob starts one run at a time.
RegisterRxc(r) ==
  /\ run_pc[r] = "target" /\ job_pc[JobOf[r]] = "start"
  /\ r \in run_map
  /\ \A q \in RunsOf(JobOf[r]) : run_pc[q] \in {"none", "target", "over"}
  /\ Unlocked(ConnOf[r])
  /\ run_pc' = [run_pc EXCEPT ![r] = "send"]
  /\ rxc_map' = rxc_map \cup {r}
  /\ UNCHANGED <<job_pc, tallies, run_map, active, events, table, purging, stops, sessions,
                 conns, streams, clients>>

\* Send fails on a stream that is down.  Before the server has noticed the loss of
\* the stream it succeeds, and the packet is lost.
ServerSends(c, m) ==
  /\ link[c] # "down"
  /\ s2c' = IF link[c] = "up" THEN [s2c EXCEPT ![c] = Append(@, m)] ELSE s2c
  /\ UNCHANGED c2s

\* add_new_rxc sends RXC_START ...
SendRxcStart(r) ==
  /\ run_pc[r] = "send"
  /\ run_pc' = [run_pc EXCEPT ![r] = "mark"]
  /\ ServerSends(ConnOf[r], Pkt("RXC_START", r))
  /\ UNCHANGED <<job_pc, tallies, run_map, active, events, table, purging, stops, registry,
                 conns, clients>>

\* Mutant of SendRxcStartFails: the error is not returned.
SendRxcStartFailsIgnored(r) ==
  /\ run_pc[r] = "send"
  /\ link[ConnOf[r]] = "down"
  /\ Unlocked(ConnOf[r])
  /\ run_pc' = [run_pc EXCEPT ![r] = "over"]
  /\ rxc_map' = rxc_map \ {r}
  /\ UNCHANGED <<job_pc, tallies, run_map, active, events, table, purging, stops, sessions,
                 conns, streams, clients>>

\* ... or fails to, and takes the session out again.
SendRxcStartFails(r) ==
  /\ run_pc[r] = "send"
  /\ link[ConnOf[r]] = "down"
  /\ Unlocked(ConnOf[r])
  /\ run_pc' = [run_pc EXCEPT ![r] = "fail"]
  /\ rxc_map' = rxc_map \ {r}
  /\ UNCHANGED <<job_pc, tallies, run_map, active, events, table, purging, stops, sessions,
                 conns, streams, clients>>

\* Mutant of MarkStarted: a run that has ended is running again.
MarkStartedAnyway(r) ==
  /\ run_pc[r] = "mark"
  /\ run_pc' = [run_pc EXCEPT ![r] = "over"]
  /\ sessions' = sessions + 1
  /\ SetStatus(r, "running")
  /\ UNCHANGED <<job_pc, fin, run_map, active, events, table, purging, stops, rxc_map, conns,
                 streams, clients>>

\* The session is counted, and mark_started; the run may have ended before.
MarkStarted(r) ==
  /\ run_pc[r] = "mark"
  /\ run_pc' = [run_pc EXCEPT ![r] = "over"]
  /\ sessions' = sessions + 1
  /\ IF status[r] = "starting" THEN SetStatus(r, "running") ELSE UNCHANGED <<status, count>>
  /\ UNCHANGED <<job_pc, fin, run_map, active, events, table, purging, stops, rxc_map, conns,
                 streams, clients>>

MarkStartFailure(r) ==
  /\ run_pc[r] = "fail"
  /\ run_pc' = [run_pc EXCEPT ![r] = "over"]
  /\ EndRun(r, "failed")
  /\ UNCHANGED <<job_pc, run_map, active, events, table, purging, stops, registry, conns,
                 streams, clients>>

StartRun(r) ==
  \/ RegisterRxc(r) \/ SendRxcStart(r) \/ SendRxcStartFails(r)
  \/ MarkStarted(r) \/ MarkStartFailure(r)

-----------------------------------------------------------------------------
(* The control API.                                                        *)

\* StopRxcJob takes a snapshot of the runs ...
StopRxcJob(j) ==
  /\ "stop_job" \in Events
  /\ j \in rxc_job_map \ asked
  /\ asked' = asked \cup {j}
  /\ to_stop' = to_stop \cup (run_map \cap RunsOf(j))
  /\ UNCHANGED <<runs, tallies, run_map, active, events, table, purging, stop_sends, registry,
                 conns, streams, clients>>

\* ... and calls StopRxcJobRun for each of them.
StopNextRun(r) ==
  /\ r \in to_stop
  /\ to_stop' = to_stop \ {r}
  /\ RequestStop(r)
  /\ UNCHANGED <<runs, run_map, active, events, table, purging, asked, registry, conns,
                 streams, clients>>

\* StopRxcJobRun for one run.
StopRxcJobRun(r) ==
  /\ "stop_run" \in Events
  /\ r \in run_map /\ status[r] = "running"
  /\ RequestStop(r)
  /\ UNCHANGED <<runs, run_map, active, events, table, purging, asked, to_stop, registry,
                 conns, streams, clients>>

\* SendStopRxcById asks the client to stop ...
SendRxcStop(r) ==
  /\ r \in stop_sends
  /\ r \in rxc_map /\ Unlocked(ConnOf[r])
  /\ stop_sends' = stop_sends \ {r}
  /\ ServerSends(ConnOf[r], Pkt("RXC_STOP", r))
  /\ UNCHANGED <<runs, tallies, run_map, active, events, table, purging, asked, to_stop,
                 registry, conns, clients>>

\* ... or fails to, and StopRxcJobRun ends the run itself.
SendRxcStopFails(r) ==
  /\ r \in stop_sends
  /\ r \notin rxc_map \/ link[ConnOf[r]] = "down"
  /\ Unlocked(ConnOf[r])
  /\ stop_sends' = stop_sends \ {r}
  /\ EndRun(r, "stopped")
  /\ UNCHANGED <<runs, run_map, active, events, table, purging, asked, to_stop, registry,
                 conns, streams, clients>>

StopRun(r) == StopNextRun(r) \/ SendRxcStop(r) \/ SendRxcStopFails(r)

\* delete_server_rxc_job_from_heap_no_lock.
InHeap(j) == \E i \in 1..Len(heap) : heap[i] = j
HeapIndex(j) == CHOOSE i \in 1..Len(heap) : heap[i] = j
\* Mutant of WithoutJob: the entry stays.
WithoutJobKept(j) == heap
WithoutJob(j) ==
  IF InHeap(j)
  THEN SubSeq(heap, 1, HeapIndex(j) - 1) \o SubSeq(heap, HeapIndex(j) + 1, Len(heap))
  ELSE heap

\* Mutant of DeleteRxcJob: a job with active runs is deleted too.
DeleteRxcJobAnyway(j) ==
  /\ "delete_job" \in Events
  /\ j \in rxc_job_map
  /\ rxc_job_map' = rxc_job_map \ {j}
  /\ heap' = WithoutJob(j)
  /\ purge_chan' = IF Retention THEN 1 ELSE purge_chan
  /\ UNCHANGED <<runs, tallies, run_map, active, events, done, expired, purger, stops, registry,
                 conns, streams, clients>>

\* DeleteRxcJob: a job with no active run.  is_done stays true once it is,
\* so its test and the deletion are one step.
DeleteRxcJob(j) ==
  /\ "delete_job" \in Events
  /\ j \in rxc_job_map
  /\ active[j] = 0
  /\ rxc_job_map' = rxc_job_map \ {j}
  /\ heap' = WithoutJob(j)
  /\ purge_chan' = IF Retention THEN 1 ELSE purge_chan
  /\ UNCHANGED <<runs, tallies, run_map, active, events, done, expired, purger, stops, registry,
                 conns, streams, clients>>

\* DeleteRxcJobRun: a run that has ended, which it stays.
DeleteRxcJobRun(r) ==
  /\ "delete_run" \in Events
  /\ r \in run_map /\ Ended(r)
  /\ run_map' = run_map \ {r}
  /\ count' = [count EXCEPT ![<<JobOf[r], status[r]>>] = IF @ > 0 THEN @ - 1 ELSE @]
  /\ UNCHANGED <<runs, status, fin, active, events, table, purging, stops, registry, conns,
                 streams, clients>>

-----------------------------------------------------------------------------
(* The purger.                                                             *)

\* get_next_rxc_job_purge_time, and the timer for the head of the heap.
ArmTimer ==
  /\ Retention
  /\ purger.pc = "top"
  /\ purger' = [pc |-> "select", timer |-> IF heap = <<>> THEN NoJob ELSE Head(heap)]
  /\ UNCHANGED <<runs, tallies, run_map, active, events, table, expired, purge_chan, stops,
                 registry, conns, streams, clients>>

\* The heap has changed.
PurgerNotified ==
  /\ purger.pc = "select"
  /\ purge_chan = 1
  /\ purge_chan' = 0
  /\ purger' = [purger EXCEPT !.pc = "top"]
  /\ UNCHANGED <<runs, tallies, run_map, active, events, table, expired, stops, registry,
                 conns, streams, clients>>

\* The timer fires: purge_stale_rxc_jobs removes the k jobs that have expired by
\* the time it fired, the one it was armed for among them if it is still there.
PurgeStaleJobs(k) ==
  /\ purger.pc = "select"
  /\ purger.timer \in expired
  /\ \A i \in 1..k : heap[i] \in expired
  /\ \A i \in (k + 1)..Len(heap) : heap[i] # purger.timer
  /\ purger' = [purger EXCEPT !.pc = "top"]
  /\ rxc_job_map' = rxc_job_map \ {heap[i] : i \in 1..k}
  /\ heap' = SubSeq(heap, k + 1, Len(heap))
  /\ UNCHANGED <<runs, tallies, run_map, active, events, done, expired, purge_chan, stops,
                 registry, conns, streams, clients>>

\* Time passes expire_at of job j, in the order of the heap.
Expire(j) ==
  /\ Retention
  /\ j \in done \ expired
  /\ \A i \in 1..Len(heap) : heap[i] = j => \A k \in 1..(i - 1) : heap[k] \in expired
  /\ expired' = expired \cup {j}
  /\ UNCHANGED <<runs, tallies, run_map, active, events, table, purger, purge_chan, stops,
                 registry, conns, streams, clients>>

Purger == ArmTimer \/ PurgerNotified \/ \E k \in 0..Len(heap) : PurgeStaleJobs(k)

-----------------------------------------------------------------------------
(* Connections on the server.                                              *)

SessionsOf(c) == {r \in rxc_map : ConnOf[r] = c}

\* receive_from_stream, RXC_STOP: StopRxcSinkById.
StopRxcSink(r) ==
  LET c == ConnOf[r] IN
  /\ recv_pc[c] = "run" /\ Unlocked(c)
  /\ c2s[c] # <<>> /\ Head(c2s[c]).run = r
  /\ c2s' = [c2s EXCEPT ![c] = Tail(@)]
  /\ IF r \in rxc_map
     THEN rxc_map' = rxc_map \ {r} /\ sessions' = sessions - 1 /\ EndRun(r, "stopped")
     ELSE UNCHANGED <<registry, tallies>>
  /\ UNCHANGED <<runs, run_map, active, events, table, purging, stops, conns, s2c, clients>>

\* The receiver leaves its loop, because Recv fails or because it finds stop_req
\* set after some packet, and takes rxc_mtx to stop the sessions.
ReceiverEnds(c) ==
  /\ recv_pc[c] = "run" /\ Unlocked(c)
  /\ link[c] = "down" \/ stop_pc[c] # "none"
  /\ recv_pc' = [recv_pc EXCEPT ![c] = "stopping"]
  /\ UNCHANGED <<runs, tallies, run_map, active, events, table, purging, stops, registry,
                 cts_map, link, stop_pc, streams, clients>>

\* ServerConn.ReqStop, from the control API or because the stream is down: stop_req
\* is set ...
ConnReqStop(c) ==
  /\ stop_pc[c] = "none"
  /\ link[c] = "down" \/ (c \in Fragile /\ "stop_conn" \in Events)
  /\ stop_pc' = [stop_pc EXCEPT ![c] = "req"]
  /\ UNCHANGED <<runs, tallies, run_map, active, events, table, purging, stops, registry,
                 cts_map, link, recv_pc, streams, clients>>

\* ... and then rxc_mtx is taken to stop the sessions.
ReqStopLocks(c) ==
  /\ stop_pc[c] = "req" /\ Unlocked(c)
  /\ stop_pc' = [stop_pc EXCEPT ![c] = "stopping"]
  /\ UNCHANGED <<runs, tallies, run_map, active, events, table, purging, stops, registry,
                 cts_map, link, recv_pc, streams, clients>>

\* Either loop calls ReqStop of a session.
ReqStopSession(r) ==
  /\ ~Unlocked(ConnOf[r])
  /\ r \in rxc_map /\ ~Ended(r)
  /\ EndRun(r, "stopped")
  /\ UNCHANGED <<runs, run_map, active, events, table, purging, stops, registry, conns,
                 streams, clients>>

\* The loop is over; rxc_map is left as it is.
ReleaseRxcMap(c) ==
  /\ ~Unlocked(c)
  /\ \A r \in SessionsOf(c) : Ended(r)
  /\ recv_pc' = [recv_pc EXCEPT ![c] = IF @ = "stopping" THEN "gone" ELSE @]
  /\ stop_pc' = [stop_pc EXCEPT ![c] = IF @ = "stopping" THEN "stopped" ELSE @]
  /\ UNCHANGED <<runs, tallies, run_map, active, events, table, purging, stops, registry,
                 cts_map, link, streams, clients>>

\* The stream is lost, with what is in flight, before the server notices.
LoseStream(c) ==
  /\ c \in Fragile /\ "break" \in Events
  /\ link[c] = "up"
  /\ link' = [link EXCEPT ![c] = "lost"]
  /\ s2c' = [s2c EXCEPT ![c] = <<>>] /\ c2s' = [c2s EXCEPT ![c] = <<>>]
  /\ UNCHANGED <<runs, tallies, run_map, active, events, table, purging, stops, registry,
                 cts_map, recv_pc, stop_pc, clients>>

\* The server notices the loss, or RunTask returns after ReqStop and so ends the stream.
CloseStream(c) ==
  /\ link[c] = "lost" \/ (link[c] = "up" /\ stop_pc[c] = "stopped")
  /\ link' = [link EXCEPT ![c] = "down"]
  /\ s2c' = [s2c EXCEPT ![c] = <<>>] /\ c2s' = [c2s EXCEPT ![c] = <<>>]
  /\ UNCHANGED <<runs, tallies, run_map, active, events, table, purging, stops, registry,
                 cts_map, recv_pc, stop_pc, clients>>

\* HandleConn, ConnEnd: RemoveServerConnByAddr.  Its ReqStop is ConnReqStop.
ConnEnd(c) ==
  /\ link[c] = "down"
  /\ c \in cts_map
  /\ cts_map' = cts_map \ {c}
  /\ UNCHANGED <<runs, tallies, run_map, active, events, table, purging, stops, registry,
                 link, recv_pc, stop_pc, streams, clients>>

ConnTask(c) ==
  \/ ReceiverEnds(c) \/ ReqStopLocks(c) \/ ReleaseRxcMap(c) \/ CloseStream(c) \/ ConnEnd(c)
  \/ link[c] = "down" /\ ConnReqStop(c)

-----------------------------------------------------------------------------
(* Sessions on the clients.                                                *)

\* A packet the client sends after the loss of the stream is lost too.
ClientSends(c, m) ==
  /\ c2s' = IF link[c] = "up" THEN [c2s EXCEPT ![c] = Append(@, m)] ELSE c2s
  /\ UNCHANGED s2c

\* The client receives the packet of kind k for run r.
ClientTakes(k, r) ==
  LET c == ConnOf[r] IN
  /\ s2c[c] # <<>> /\ Head(s2c[c]) = Pkt(k, r)
  /\ s2c' = [s2c EXCEPT ![c] = Tail(@)]

\* StartRxc: the command is started and RxcLoop runs ...
StartRxc(r) ==
  /\ ClientTakes("RXC_START", r)
  /\ c_pc' = [c_pc EXCEPT ![r] = "run"]
  /\ UNCHANGED <<runs, tallies, run_map, active, events, table, purging, stops, registry, conns,
                 c2s, killed>>

\* ... or it cannot be started, which the client reports at once.
StartRxcFails(r) ==
  /\ "start_fails" \in Events
  /\ ClientTakes("RXC_START", r)
  /\ c_pc' = [c_pc EXCEPT ![r] = "gone"]
  /\ c2s' = [c2s EXCEPT ![ConnOf[r]] = Append(@, Pkt("RXC_STOP", r))]
  /\ UNCHANGED <<runs, tallies, run_map, active, events, table, purging, stops, registry, conns,
                 killed>>

\* Mutant of StopRxc: the process goes on.
StopRxcIgnored(r) ==
  /\ ClientTakes("RXC_STOP", r)
  /\ killed' = killed
  /\ UNCHANGED <<runs, tallies, run_map, active, events, table, purging, stops, registry, conns,
                 c2s, c_pc>>

\* StopRxc: the process of a session that exists is killed.
StopRxc(r) ==
  /\ ClientTakes("RXC_STOP", r)
  /\ killed' = IF c_pc[r] = "run" THEN killed \cup {r} ELSE killed
  /\ UNCHANGED <<runs, tallies, run_map, active, events, table, purging, stops, registry, conns,
                 c2s, c_pc>>

\* RxcLoop ends: the process has exited or was killed, or the client has lost
\* the stream.  It reports the end, if it can, and removes the session.
EndRxcLoop(r) ==
  /\ c_pc[r] = "run"
  /\ c_pc' = [c_pc EXCEPT ![r] = "gone"]
  /\ ClientSends(ConnOf[r], Pkt("RXC_STOP", r))
  /\ UNCHANGED <<runs, tallies, run_map, active, events, table, purging, stops, registry, conns,
                 killed>>

ClientTask(r) ==
  \/ StartRxc(r) \/ StartRxcFails(r) \/ StopRxc(r)
  \/ (r \in killed \/ link[ConnOf[r]] # "up") /\ EndRxcLoop(r)

-----------------------------------------------------------------------------
RunTask(r) ==
  StartRun(r) \/ Complete(r) \/ StopRun(r) \/ StopRxcSink(r) \/ ReqStopSession(r)

Operator ==
  \/ \E j \in Jobs : \/ \E targets \in SUBSET RunsOf(j) : StartRxcJob(j, targets)
                     \/ StopRxcJob(j) \/ DeleteRxcJob(j)
  \/ \E r \in Runs : StopRxcJobRun(r) \/ DeleteRxcJobRun(r)

\* What goes on by itself: goroutines that can run do run, time passes, both ends
\* notice a lost stream and a killed process ends.  A process need not end by
\* itself.  Every such step is taken a bounded number of times, so fairness of
\* all of them together lets none of them wait for ever.
Progress ==
  \/ \E r \in Runs : RunTask(r) \/ ClientTask(r)
  \/ \E j \in Jobs : FillRunMap(j) \/ Expire(j)
  \/ \E c \in Conns : ConnTask(c)
  \/ Purger

Next ==
  \/ Progress
  \/ \E r \in Runs : EndRxcLoop(r)
  \/ \E c \in Conns : ConnReqStop(c) \/ LoseStream(c)
  \/ Operator

Spec == Init /\ [][Next]_vars
FairSpec == Spec /\ WF_vars(Progress)

-----------------------------------------------------------------------------
(* Properties.                                                             *)

\* Types.  Counters never fall below zero, purge_chan holds one message at most.
TypeOK ==
  /\ job_pc \in [Jobs -> {"none", "fill", "start"}]
  /\ run_pc \in [Runs -> {"none", "target", "send", "mark", "fail", "over"}]
  /\ status \in [Runs -> Status] /\ run_map \subseteq Runs
  /\ count \in [Jobs \X Status -> Nat] /\ active \in [Jobs -> Nat]
  /\ fin \in [Runs -> {"none", "publish", "deactivate", "mark_done", "publish_job", "notify", "over"}]
  /\ run_events \subseteq Runs /\ job_events \in [Jobs -> Nat]
  /\ rxc_job_map \subseteq Jobs /\ done \subseteq Jobs /\ heap \in Seq(Jobs)
  /\ expired \subseteq Jobs /\ purge_chan \in 0..1
  /\ purger \in [pc : {"top", "select"}, timer : Jobs \cup {NoJob}]
  /\ asked \subseteq Jobs /\ to_stop \subseteq Runs /\ stop_sends \subseteq Runs
  /\ rxc_map \subseteq Runs /\ sessions \in Int
  /\ cts_map \subseteq Conns /\ link \in [Conns -> {"up", "lost", "down"}]
  /\ recv_pc \in [Conns -> {"run", "stopping", "gone"}]
  /\ stop_pc \in [Conns -> {"none", "req", "stopping", "stopped"}]
  /\ s2c \in [Conns -> Seq(Packet)] /\ c2s \in [Conns -> Seq(Packet)]
  /\ c_pc \in [Runs -> {"none", "run", "gone"}] /\ killed \subseteq Runs

RunsIn(j, s) == {r \in run_map : JobOf[r] = j /\ status[r] = s}

\* The counters of a job, which the control API reports, are the numbers of its
\* retained runs by status: transitions, completions and deletions of runs keep
\* them, although each is made by whichever goroutine comes first.
RunsCounted ==
  \A j \in Jobs : job_pc[j] = "start" =>
    \A s \in Status : count[<<j, s>>] = Cardinality(RunsIn(j, s))

\* A job's completion event is published once, and after the completion events of
\* all its runs, although these are published by different goroutines outside
\* any lock.
JobDoneIsLast ==
  \A j \in Jobs : /\ job_events[j] <= 1
                  /\ job_events[j] = 1 =>
                       \A r \in RunsOf(j) : run_pc[r] # "none" => r \in run_events

\* What maybe_mark_rxc_job_done, deletion and the purger keep in step: every job in
\* the expiry heap is in the table, once, and is done ("this must not happen").
HeapInMap ==
  /\ \A i \in 1..Len(heap) : heap[i] \in rxc_job_map \cap done
  /\ \A i, k \in 1..Len(heap) : i # k => heap[i] # heap[k]

\* Neither an operator nor the purger removes a job, or a run, that is active.
ActiveIsKept ==
  \A r \in Runs : ~Ended(r) /\ run_pc[r] # "none" =>
    JobOf[r] \in rxc_job_map /\ (job_pc[JobOf[r]] = "start" => r \in run_map)

\* A run that has ended stays so, with the status it ended with: the start, the stop,
\* the client's answer and the loss of the connection race for the run, and only
\* the first to end it counts.
EndedStays == [][\A r \in Runs : Ended(r) => status'[r] = status[r]]_vars

\* The purger does not miss a job that is done, although it is told of it by a
\* message that may find the channel full or the purger between two selects.
DoneIsPurged == \A j \in Jobs : Retention /\ j \in done ~> j \notin rxc_job_map

\* A run that was asked to stop ends, or its connection does.
StopEnds == \A r \in Runs : status[r] = "stopping" ~> (Ended(r) \/ link[ConnOf[r]] # "up")

\* When the last run of a job has completed, so does the job: its completion event
\* follows that of the final run.
JobDoneFollows ==
  \A j \in Jobs : (job_pc[j] = "start" /\ \A r \in RunsOf(j) : run_pc[r] # "none" => r \in run_events)
                    ~> job_events[j] = 1

\* The server cleans up the runs of a connection that is lost.
ConnLossEnds ==
  \A r \in Runs : run_pc[r] # "none" /\ link[ConnOf[r]] # "up" ~> Ended(r)
=============================================================================
