SPECIFICATION ConnectFairSpec
CONSTANTS
  Families = {"v4", "v6"}
INVARIANTS
  SpoiledAtMostTwo
PROPERTIES
  GetsThrough
