SPECIFICATION SceneSpec
ACTION_CONSTRAINT Allowed
CONSTANTS
  Subscribers = {w1}
  Capacity = 1
  Backlog = 1
  MaxEvents = 3
  Conns = {c1}
CHECK_DEADLOCK FALSE
PROPERTIES
  InOrder
  EventForwarded
  SocketEnds
  
