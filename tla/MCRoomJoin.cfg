CONSTANTS
  Conn = {c1, c2, c3}
  NoPlayer = NoPlayer
  NumWorkers = 2
  MaxRequests = 0
SPECIFICATION Spec
PROPERTIES
  JoinAddsPlayer
CHECK_DEADLOCK FALSE
