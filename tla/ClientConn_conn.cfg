SPECIFICATION FairSpec
CONSTANTS
  Servers = 1
  Statics <- OneAutomatic
  ApiIds = {0}
  MaxRouteId = 2
  Routes = {r1, r2}
  Faults = {"address", "connect", "error", "lifetime", "post", "delete", "stop", "cancel", "listen", "break"}
  None = None
CHECK_DEADLOCK FALSE
INVARIANTS
  AnswerReachesItsRoute
  
  LiveRouteMapped
PROPERTIES
  CancelEndsConn
