------------------------------ MODULE Bulletin ------------------------------
(* The bulletin of a server or a client: events are put into a ring, a     *)
(* task forwards them to the subscribers, which are the web sockets of     *)
(* the control API. Topics are not modelled: nothing in the program        *)
(* publishes to one.                                                       *)
EXTENDS Naturals, Sequences, FiniteSets

CONSTANTS
  Subscribers,   \* requests for the event socket
  Capacity,      \* r_cap
  Backlog,       \* the size of the channel of a subscription
  MaxEvents      \* bound: events of routes and peers

ASSUME BulletinBounds == Capacity \in Nat \ {0} /\ Backlog \in Nat \ {0} /\ MaxEvents \in Nat

VARIABLES
  fired,         \* events fired so far
  r,             \* the ring, oldest event first
  r_chan,        \* a notification is pending
  stop_chan,     \* a stop is pending
  blocked,
  task,          \* where RunTask is
  msg,           \* the event RunTask has dequeued
  tmr,           \* RunTask's timer is armed
  subscribed,    \* sbsc_list
  C,             \* the channel of each subscription
  handler,       \* where each ServeWebsocket is
  sender,        \* where its sending goroutine is
  held,          \* the event that goroutine has taken from C
  ws,            \* the web socket: open, gone (left by the browser) or closed
  latest,        \* the event each browser got last
  count          \* the number of events each browser got

ring == <<fired, r, r_chan, blocked>>
runner == <<stop_chan, task, msg, tmr>>
socket == <<handler, sender, held, ws, latest, count>>
bvars == <<ring, runner, subscribed, C, socket>>

BulletinInit ==
  /\ fired = 0 /\ r = <<>> /\ r_chan = FALSE /\ stop_chan = FALSE /\ blocked = FALSE
  /\ task = "none" /\ msg = 0 /\ tmr = TRUE
  /\ subscribed = {} /\ C = [w \in Subscribers |-> <<>>]
  /\ handler = [w \in Subscribers |-> "none"]
  /\ sender = [w \in Subscribers |-> "none"]
  /\ held = [w \in Subscribers |-> 0]
  /\ ws = [w \in Subscribers |-> "open"]
  /\ latest = [w \in Subscribers |-> 0] /\ count = [w \in Subscribers |-> 0]

-----------------------------------------------------------------------------
(* The ring.                                                               *)

\* Mutant of Enqueue: an event in an empty ring is not notified.
EnqueueNotifiesEmpty ==
  /\ fired' = fired + 1
  /\ \/ blocked /\ UNCHANGED <<r, r_chan>>
     \/ /\ ~blocked
        /\ r' = Append(IF Len(r) < Capacity THEN r ELSE Tail(r), fired + 1)
        /\ r_chan' = (r_chan \/ Len(r) > 0)
  /\ UNCHANGED <<blocked, runner, subscribed, C, socket>>

\* A full ring loses its oldest event; r_chan holds one notification.
Enqueue ==
  /\ fired' = fired + 1
  /\ \/ blocked /\ UNCHANGED <<r, r_chan>>
     \/ /\ ~blocked
        /\ r' = Append(IF Len(r) < Capacity THEN r ELSE Tail(r), fired + 1)
        /\ r_chan' = TRUE
  /\ UNCHANGED <<blocked, runner, subscribed, C, socket>>

\* An event of a route or a peer.
FireEvent == fired < MaxEvents /\ Enqueue

\* Mutant of Dequeue: the head does not advance.
DequeueKeeps ==
  /\ task = "dequeue"
  /\ \/ r = <<>> /\ task' = "select" /\ UNCHANGED <<r, msg>>
     \/ r # <<>> /\ task' = "forward" /\ msg' = Head(r) /\ r' = r
  /\ UNCHANGED <<fired, r_chan, blocked, stop_chan, tmr, subscribed, C, socket>>

Dequeue ==
  /\ task = "dequeue"
  /\ \/ r = <<>> /\ task' = "select" /\ UNCHANGED <<r, msg>>
     \/ r # <<>> /\ task' = "forward" /\ msg' = Head(r) /\ r' = Tail(r)
  /\ UNCHANGED <<fired, r_chan, blocked, stop_chan, tmr, subscribed, C, socket>>

Block ==
  /\ blocked' = TRUE
  /\ UNCHANGED <<fired, r, r_chan, runner, subscribed, C, socket>>

BulletinReqStop ==
  /\ stop_chan' = TRUE
  /\ UNCHANGED <<ring, task, msg, tmr, subscribed, C, socket>>

-----------------------------------------------------------------------------
(* RunTask.                                                                *)

StartBulletin ==
  /\ task = "none" /\ task' = "dequeue"
  /\ UNCHANGED <<ring, stop_chan, msg, tmr, subscribed, C, socket>>

SelectStop ==
  /\ task = "select" /\ stop_chan
  /\ stop_chan' = FALSE /\ task' = "ended"
  /\ UNCHANGED <<ring, msg, tmr, subscribed, C, socket>>

SelectNotified ==
  /\ task = "select" /\ r_chan
  /\ r_chan' = FALSE /\ tmr' = TRUE /\ task' = "dequeue"
  /\ UNCHANGED <<fired, r, blocked, stop_chan, msg, subscribed, C, socket>>

\* The timer: it is stopped by every event and armed again by a notification only.
SelectTimer ==
  /\ task = "select" /\ tmr
  /\ task' = "dequeue"
  /\ UNCHANGED <<ring, stop_chan, msg, tmr, subscribed, C, socket>>

\* One pass under sbsc_mtx; a full channel loses the event.
Forward ==
  /\ task = "forward"
  /\ C' = [w \in Subscribers |->
             IF w \in subscribed /\ Len(C[w]) < Backlog THEN Append(C[w], msg) ELSE C[w]]
  /\ tmr' = FALSE /\ task' = "dequeue" /\ msg' = 0
  /\ UNCHANGED <<ring, stop_chan, subscribed, socket>>

RunTask == Dequeue \/ SelectStop \/ SelectNotified \/ Forward

-----------------------------------------------------------------------------
(* ServeWebsocket of the event socket, and its sending goroutine.          *)

RequestEvents(w) ==
  /\ handler[w] = "none"
  /\ handler' = [handler EXCEPT ![w] = "request"]
  /\ UNCHANGED <<ring, runner, subscribed, C, sender, held, ws, latest, count>>

\* Authentication fails, or the bulletin is blocked.
Refuse(w) ==
  /\ handler[w] = "request"
  /\ handler' = [handler EXCEPT ![w] = "done"]
  /\ ws' = [ws EXCEPT ![w] = "closed"]
  /\ UNCHANGED <<ring, runner, subscribed, C, sender, held, latest, count>>

Subscribe(w) ==
  /\ handler[w] = "request" /\ ~blocked
  /\ subscribed' = subscribed \cup {w}
  /\ handler' = [handler EXCEPT ![w] = "receive"]
  /\ sender' = [sender EXCEPT ![w] = "get"]
  /\ UNCHANGED <<ring, runner, C, held, ws, latest, count>>

\* Mutant of Unsubscribe: the channel is not closed.
UnsubscribeKeeps(w) ==
  /\ handler[w] = "receive" /\ ws[w] # "open"
  /\ handler' = [handler EXCEPT ![w] = "join"]
  /\ ws' = [ws EXCEPT ![w] = "closed"]
  /\ UNCHANGED <<ring, runner, subscribed, C, sender, held, latest, count>>

\* Receive fails: Unsubscribe closes the channel, then the web socket is closed.
Unsubscribe(w) ==
  /\ handler[w] = "receive" /\ ws[w] # "open"
  /\ subscribed' = subscribed \ {w}
  /\ handler' = [handler EXCEPT ![w] = "join"]
  /\ ws' = [ws EXCEPT ![w] = "closed"]
  /\ UNCHANGED <<ring, runner, C, sender, held, latest, count>>

JoinSender(w) ==
  /\ handler[w] = "join" /\ sender[w] = "ended"
  /\ handler' = [handler EXCEPT ![w] = "done"]
  /\ UNCHANGED <<ring, runner, subscribed, C, sender, held, ws, latest, count>>

\* The next event, or the end of a closed channel.
GetEvent(w) ==
  /\ sender[w] = "get"
  /\ \/ /\ C[w] # <<>>
        /\ held' = [held EXCEPT ![w] = Head(C[w])] /\ C' = [C EXCEPT ![w] = Tail(@)]
        /\ sender' = [sender EXCEPT ![w] = "send"]
        /\ UNCHANGED ws
     \/ /\ C[w] = <<>> /\ w \notin subscribed
        /\ sender' = [sender EXCEPT ![w] = "ended"]
        /\ ws' = [ws EXCEPT ![w] = "closed"]
        /\ UNCHANGED <<held, C>>
  /\ UNCHANGED <<ring, runner, subscribed, handler, latest, count>>

SendEvent(w) ==
  /\ sender[w] = "send" /\ ws[w] = "open"
  /\ latest' = [latest EXCEPT ![w] = held[w]] /\ held' = [held EXCEPT ![w] = 0]
  /\ count' = [count EXCEPT ![w] = @ + 1]
  /\ sender' = [sender EXCEPT ![w] = "get"]
  /\ UNCHANGED <<ring, runner, subscribed, C, handler, ws>>

SendEventFails(w) ==
  /\ sender[w] = "send" /\ ws[w] # "open"
  /\ sender' = [sender EXCEPT ![w] = "ended"] /\ held' = [held EXCEPT ![w] = 0]
  /\ ws' = [ws EXCEPT ![w] = "closed"]
  /\ UNCHANGED <<ring, runner, subscribed, C, handler, latest, count>>

\* The browser leaves. While it stays it need not read.
BrowserLeaves(w) ==
  /\ handler[w] = "receive" /\ ws[w] = "open"
  /\ ws' = [ws EXCEPT ![w] = "gone"]
  /\ UNCHANGED <<ring, runner, subscribed, C, handler, sender, held, latest, count>>

EventSocket(w) == Unsubscribe(w) \/ JoinSender(w) \/ GetEvent(w) \/ SendEventFails(w)
=============================================================================
