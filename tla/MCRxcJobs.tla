----------------------------- MODULE MCRxcJobs -----------------------------
(* Runs of RxcJobs: pairs of a job and a connection.                       *)
EXTENDS RxcJobs, TLC

CONSTANTS j1, j2, c1, c2

OneJob == {<<j1, c1>>, <<j1, c2>>}
RunJob == [r \in Runs |-> r[1]]
RunConn == [r \in Runs |-> r[2]]
=============================================================================
