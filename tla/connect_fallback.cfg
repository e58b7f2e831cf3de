SPECIFICATION ConnectSpec
CONSTANTS
  Families = {"v4", "v6"}
INVARIANTS
  FallbackTried
