SPECIFICATION Spec
CONSTANTS
  Align = 2
  Threshold = 2
  Null = 255
  Pods = {0, 1}
  DefaultPod = 0
  DramBase = 16
  PodDram = 5
  Ends <- OneEnd
  Sizes = {0, 3}
  ArgvSizes = {1}
  MaxGroups = 2
  EvaMod = 64
INVARIANTS
  TypeOK
  Partition
  FewPieces
  ReplicatedBacked
PROPERTIES
  ImplementsHeap
