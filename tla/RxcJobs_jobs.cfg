SPECIFICATION Spec
CONSTANTS
  j1 = j1
  j2 = j2
  c1 = c1
  c2 = c2
  Jobs = {j1}
  Conns = {c1, c2}
  Runs <- OneJob
  JobOf <- RunJob
  ConnOf <- RunConn
  Retention = TRUE
  NoJob = NoJob
  Fragile = {c1}
  Events = {"break", "stop_conn", "stop_run", "delete_job", "delete_run"}
CHECK_DEADLOCK FALSE
INVARIANTS
  RunsCounted
  JobDoneIsLast
  HeapInMap
  ActiveIsKept
PROPERTIES
  EndedStays
