SPECIFICATION Spec
CONSTANTS
  Messages <- MCMessages
  BufferSize = 18
  LengthOf <- MCLengthOf
CHECK_DEADLOCK FALSE
INVARIANTS
  DeliveredExact
  ConformingDelivered
PROPERTIES
  LoopEnds
