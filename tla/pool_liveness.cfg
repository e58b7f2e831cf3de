SPECIFICATION OpenSpec
CONSTANTS
  Child = {c1, c2}
  Families = {"v4", "v6"}
  Conn = {k1, k2}
  NoConn = NoConn
  CloseMayFail = TRUE
  ForkMayFail = TRUE
  AppMayStop = FALSE
CHECK_DEADLOCK FALSE
PROPERTIES
  WaitingServed
  TakenFinished
