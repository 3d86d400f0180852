-------------------------------- MODULE Feed --------------------------------
(* What the event socket promises to a subscriber: the events it gets are  *)
(* events that were fired, in the order they were fired, each once. It may *)
(* miss some. Events are numbered in the order they are fired.             *)
EXTENDS Naturals

CONSTANT Subscribers

VARIABLES
  fired,     \* the number of events fired
  latest,    \* the event each subscriber got last
  count      \* the number of events each subscriber got

Init ==
  /\ fired = 0
  /\ latest = [w \in Subscribers |-> 0]
  /\ count = [w \in Subscribers |-> 0]

Fire ==
  /\ fired' = fired + 1
  /\ UNCHANGED <<latest, count>>

Receive(w) ==
  /\ \E e \in latest[w] + 1 .. fired : latest' = [latest EXCEPT ![w] = e]
  /\ count' = [count EXCEPT ![w] = @ + 1]
  /\ UNCHANGED fired

Next == Fire \/ \E w \in Subscribers : Receive(w)

Spec == Init /\ [][Next]_<<fired, latest, count>>
=============================================================================
