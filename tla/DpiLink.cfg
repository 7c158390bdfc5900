SPECIFICATION FairSpec
CONSTANTS
  MaxOut = 4
  RspCap = 3
  LoadCap = 3
  MaxCnt = 5
INVARIANTS
  TypeOK
PROPERTIES
  ReadsInPlace
  ImplementsLink
  CallsReturn
