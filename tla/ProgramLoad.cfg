SPECIFICATION FairSpec
CONSTANTS
  NTiles = 2
  Groups <- SomeGroups
  Images <- TwoPrograms
  IcacheWords = 1
  DmemWords = 5
  DramWords = 2
  MaxLaunches = 2
  MaxCrashes = 1
INVARIANTS
  TypeOK
  RunsWholeProgram
  KernelSeesLaunch
  RecoversFromCrash
PROPERTIES
  LaunchCompletes
CHECK_DEADLOCK FALSE
