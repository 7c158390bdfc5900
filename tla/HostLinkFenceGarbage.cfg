SPECIFICATION Spec
CONSTANTS
  Els = 2
  HostCredits = 3
  MaxOut = 3
  LoadCap = 3
  MaxCnt = 4
  Garbage <- UsedStack
PROPERTIES
  FenceDrains
