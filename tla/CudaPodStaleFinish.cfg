SPECIFICATION Spec
CONSTANTS
  p1 = p1
  Pods = {p1}
  MeshX = 2
  MeshY = 1
  Calls <- MissingCalls
  MaxGrids = 2
  MaxPrograms = 2
PROPERTIES
  ExecuteCompletes
CHECK_DEADLOCK FALSE
