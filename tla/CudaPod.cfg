SPECIFICATION FairSpec
CONSTANTS
  p1 = p1
  p2 = p2
  Pods = {p1, p2}
  MeshX = 2
  MeshY = 2
  Calls <- MixedCalls
  MaxGrids = 2
  MaxPrograms = 1
INVARIANTS
  TypeOK
  TilesOwned
  References
  WaitsOnlyWhenFull
PROPERTIES
  FinishIsReal
  ExecuteCompletes
  ExecuteReturns
