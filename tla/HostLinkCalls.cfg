SPECIFICATION FairSpec
CONSTANTS
  Els = 2
  HostCredits = 3
  MaxOut = 3
  LoadCap = 3
  MaxCnt = 9
  Garbage <- CleanStack
INVARIANTS
  TypeOK
  TransmitFlowControl
  WholePackets
  ReadCredits
  LoadsAccounted
PROPERTIES
  FenceDrains
  ImplementsLink
  CallsReturn
