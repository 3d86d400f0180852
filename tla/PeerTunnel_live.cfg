SPECIFICATION FairSpec
CONSTANTS
  p1 = p1
  p2 = p2
  p3 = p3
  Peers = {p1}
  MaxChunks = 0
  PtcLimit = 0
  PtsLimit = 0
  RouteMax = 4
  Events <- NoServerStop
PROPERTIES
  ServerStopCompletes
  ClientStopCompletes
  ClientEndReachesServer
