SPECIFICATION FairSpec
CONSTANTS
  c1 = c1
  c2 = c2
  Conns = {c1}
  Addrs = {c1}
  AddrOf <- OwnTransport
  Tokens = {}
  RouteIds = {1, 2}
  Names = {None}
  Ports = {p1, p2}
  Routes = {r1, r2}
  Lookups = {l1}
  CtsLimit = 0
  MaxEvents = 2
  None = None
CHECK_DEADLOCK FALSE
PROPERTY StoppedRouteEnds
