CONSTANTS
  Conn = {c1, c2, c3}
  NoPlayer = NoPlayer
  View = {v1}
  PackLimit = 3
  MaxMessages = 3
SPECIFICATION Spec
SYMMETRY Symmetry
INVARIANTS
  TypeOK
  NothingMissed
  TwiceAtMost
  LaterWins
  NoneLeftBehind
PROPERTIES
  ImplementsLog
CHECK_DEADLOCK FALSE
