SPECIFICATION Spec
CONSTANTS
  c1 = c1
  Caches = {c1}
  Lines = 2
  Block = 1
  Sets = 1
  Ways = 2
  Ranges <- TwoLines
  Jobs <- WordByWord
  MaxWrites = 2
INVARIANTS
  ReadsFresh
