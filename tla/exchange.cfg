SPECIFICATION FairSpec
CONSTANTS
  NumCalls = 3
  NumClosing = 2
CHECK_DEADLOCK FALSE
INVARIANTS
  WrongAnswerIsLate
  AtMostOnce
  OwnAnswer
PROPERTIES
  OneCallPerConnection
  CallsEnd
  HandlersEnd
