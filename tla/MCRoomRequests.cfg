CONSTANTS
  Conn = {c1, c2}
  NoPlayer = NoPlayer
  NumWorkers = 2
  MaxRequests = 3
SPECIFICATION FairSpec
INVARIANTS
  ViewsAgree
  OneMaster
PROPERTIES
  HandlersFinish
CHECK_DEADLOCK FALSE
