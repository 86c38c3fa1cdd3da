CONSTANTS
  Buffer = 10
  MaxMessages = 4
  Sizes = {2, 3}
SPECIFICATION Spec
INVARIANTS
  SplitReturns
CHECK_DEADLOCK FALSE
