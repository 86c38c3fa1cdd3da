CONSTANTS
  Conn = {c1, c2, c3}
  NoPlayer = NoPlayer
  View = {v1}
  PackLimit = 2
  MaxMessages = 2
SPECIFICATION InOrderFairSpec
PROPERTIES
  JoinsFinish
CHECK_DEADLOCK FALSE
