----------------------------- MODULE MCRxcScenes -----------------------------
(* Two scenes in one run, whose state spaces add: the loss of a connection *)
(* of a job over two connections, and two jobs over one connection that    *)
(* end, fail to start, or are stopped, and are purged.                     *)
EXTENDS MCRxcJobs

Scenes == {<<j1, c1>>, <<j1, c2>>, <<j2, c1>>}

Loss ==
  /\ job_pc'[j2] = "none" /\ asked' = {}
  /\ \A r \in Runs : c_pc[r] = "none" => c_pc'[r] # "gone"

Purge ==
  /\ \A c \in Conns : link'[c] = "up"
  /\ run_pc'[<<j1, c2>>] = "none"

Allowed == Loss \/ Purge
=============================================================================
