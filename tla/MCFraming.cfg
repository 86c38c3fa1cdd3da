CONSTANTS
  Buffer = 10
  MaxMessages = 4
  Sizes = {2, 3}
SPECIFICATION Spec
INVARIANTS
  TypeOK
  InOrder
  Reassembled
PROPERTIES
  ImplementsDelivery
CHECK_DEADLOCK FALSE
