----------------------------- MODULE MCServices -----------------------------
(* Three scenes in one run, whose state spaces add: a browser on the event *)
(* socket of a server, which gets three events or gets one and is stopped, *)
(* the start and the stop of each HTTP service, and those of a program     *)
(* with connections.                                                       *)
EXTENDS Services

NoConns == \A c \in Conns : conn'[c] = "none"
NoSocket == \A w \in Subscribers : handler'[w] = "none"

Socket ==
  /\ configured = {"ctl"}
  /\ NoConns /\ caller'["program"] = "idle"
  /\ fired' # fired => sh = "run" /\ \E w \in Subscribers : handler[w] \notin {"none", "done"}
  /\ fired' # fired => ~sigterm \/ fired = 0
  /\ sigterm' # sigterm => hs["ctl"] = "serving" /\ fired <= 1
HttpOnly == NoConns /\ NoSocket /\ fired' = 0
ConnsOnly == NoSocket /\ (fired' # fired => conn' # conn)

Allowed ==
  IF role = "client" \/ configured = {} THEN ConnsOnly ELSE Socket \/ HttpOnly

SceneInit ==
  /\ Init
  /\ role = "client" \/ Cardinality(configured) <= 1 \/ configured = {"ctl", "rpx"}

SceneSpec == SceneInit /\ [][Next]_vars /\ Fairness
=============================================================================
