SPECIFICATION Spec
CONSTANTS
  c1 = c1
  c2 = c2
  Caches = {c1, c2}
  Lines = 2
  Block = 1
  Sets = 1
  Ways = 2
  Ranges <- WholeLines
  Jobs <- Mixed
  MaxWrites = 2
INVARIANTS
  TypeOK
  ReadsFresh
  Coherent
