SPECIFICATION Spec
CONSTANTS
  NumCalls = 3
  NumClosing = 0
CHECK_DEADLOCK FALSE
INVARIANTS
  MethodsResponse
