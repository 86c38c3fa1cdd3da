CONSTANTS
  Conn = {c1, c2, c3}
  NoPlayer = NoPlayer
  NumWorkers = 2
  MaxRequests = 1
SPECIFICATION Spec
SYMMETRY Symmetry
INVARIANTS
  TypeOK
  UniqueNumbers
  Survives
  OneMaster
  NoStranger
  ViewsAgree
CHECK_DEADLOCK FALSE
