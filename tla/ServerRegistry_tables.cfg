SPECIFICATION Spec
CONSTANTS
  c1 = c1
  c2 = c2
  Conns = {c1, c2}
  Addrs = {c1, c2}
  AddrOf <- OwnTransport
  Tokens = {t1}
  RouteIds = {1}
  Names = {n1}
  Ports = {p1}
  Routes = {r1, r2}
  Lookups = {l1}
  CtsLimit = 0
  MaxEvents = 2
  None = None
SYMMETRY Symmetry
CHECK_DEADLOCK FALSE
INVARIANTS
  PortsOwned
  ConnsIndexed
  
