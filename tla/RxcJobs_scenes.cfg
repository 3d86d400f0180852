SPECIFICATION FairSpec
ACTION_CONSTRAINT Allowed
CONSTANTS
  j1 = j1
  j2 = j2
  c1 = c1
  c2 = c2
  Jobs = {j1, j2}
  Conns = {c1, c2}
  Runs <- Scenes
  JobOf <- RunJob
  ConnOf <- RunConn
  Retention = TRUE
  NoJob = NoJob
  Fragile = {c1}
  Events = {"break", "start_fails", "stop_job"}
CHECK_DEADLOCK FALSE
PROPERTIES
  
  JobDoneFollows
  DoneIsPurged
  StopEnds
