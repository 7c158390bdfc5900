SPECIFICATION FairSpec
CONSTANTS
  Instances = {m1, m2, m3}
  Kinds = {"f1", "dpi"}
  Rounds = 2
  LoadCap = 3
INVARIANTS
  TypeOK
  OneOwner
  CleanStart
PROPERTIES
  CallsReturn
