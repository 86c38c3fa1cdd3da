CONSTANTS
  Conn = {c1, c2, c3}
  Room = Room
  Table = {c1, Room}
  Key = {k1, k2}
  NoWalk = NoWalk
  MaxUpdates = 2
SPECIFICATION VisitedSpec
SYMMETRY Symmetry
INVARIANTS
  TypeOK
  Converged
  StartsOver
PROPERTIES
  NeverBackwards
CHECK_DEADLOCK FALSE
