CONSTANTS
  Conn = {c1, c2, c3}
  MaxClock = 2
  MaxRequests = 3
SPECIFICATION Spec
SYMMETRY Symmetry
INVARIANTS
  TypeOK
  TimeNotStale
  PingNotNegative
  ExitMeansFailure
CHECK_DEADLOCK FALSE
