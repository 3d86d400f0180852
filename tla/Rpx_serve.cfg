CONSTANTS
  Reqs = {q1}
  MaxBody = 2
  MaxResp = 2
  DoneMax = 5
  Faults = {"abort", "break", "target"}
SPECIFICATION FairSpec
INVARIANTS  BodyInOrder 
 
CHECK_DEADLOCK FALSE
