SPECIFICATION Spec
CONSTANTS
  p1 = p1
  p2 = p2
  p3 = p3
  Peers = {p1}
  MaxChunks = 2
  PtcLimit = 0
  PtsLimit = 0
  RouteMax = 4
  Events <- AllEvents
INVARIANTS
  TypeOK
  TargetGetsPrefix
  UserGetsPrefix
  EofAfterData
  ResponseBeforeClose
  RelayAfterConnect
