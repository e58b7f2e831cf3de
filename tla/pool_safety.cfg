SPECIFICATION Spec
CONSTANTS
  Child = {c1, c2}
  Families = {"v4", "v6"}
  Conn = {k1, k2}
  NoConn = NoConn
  CloseMayFail = TRUE
  ForkMayFail = TRUE
  AppMayStop = TRUE
SYMMETRY Symmetry
CHECK_DEADLOCK FALSE
INVARIANTS
  FreshDescriptor
  AnsweredOnce
  SomeHandlerReady
  NoOrphans
  DestroyedSignalled
PROPERTIES
  NoSilentDrop
  ServiceSpec
