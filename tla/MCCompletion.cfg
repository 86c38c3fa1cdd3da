CONSTANTS
  NumConns = 3
  Worker = {w1, w2}
  Accepter = Accepter
  MaxRequests = 1
SPECIFICATION Spec
INVARIANTS
  TypeOK
  OneRead
  ReadsAlive
  Reachable
PROPERTIES
  ImplementsSessions
  ClosedLeave
  WritesFreed
CHECK_DEADLOCK FALSE
