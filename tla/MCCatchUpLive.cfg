CONSTANTS
  Conn = {c1, c2, c3}
  NoPlayer = NoPlayer
  View = {v1}
  PackLimit = 3
  MaxMessages = 2
SPECIFICATION InOrderFairSpec
PROPERTIES
  JoinsFinish
  WorkersFinish
CHECK_DEADLOCK FALSE
