SPECIFICATION Spec
CONSTANTS
  Align = 2
  Threshold = 4
  Null = 255
  Pods = {0}
  DefaultPod = 0
  DramBase = 16
  PodDram = 14
  Ends <- SomeEnds
  Sizes <- FewSizes
  ArgvSizes = {}
  MaxGroups = 1
  EvaMod = 64
INVARIANTS
  HeldBacked
