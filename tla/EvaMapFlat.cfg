SPECIFICATION Spec
CONSTANTS
  PodsX = 2
  PodsY = 2
  Cols = 2
  Rows = 2
  Host <- TheHost
  Memsys = "dramsim3"
  Channels = 4
  MemoryWords = 16
  Fields <- TheFields
  Stripe = 2
  BankWords = 4
  DramWords = 64
  CacheWords = 2
  DmemWords = 2
  Csrs = {5}
  EpaSpan = 8
  GroupXs = 8
  GroupYs = 4
  GlobalEpaSpan = 4
  GlobalXs = 8
  GlobalYs = 16
  FinishBase = 2
  Requests <- AllRequests
  MaxCalls = 2
  MaxGroups = 2
INVARIANTS
  TypeOK
  RoundTrip
  FinishReaches
PROPERTIES
  ImplementsFlat
CHECK_DEADLOCK FALSE
