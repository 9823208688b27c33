SPECIFICATION Spec
CONSTANTS
  c1 = c1
  c2 = c2
  Callers = {c1, c2}
  MaxThreads = 3
  BlockSize = 3
  MaxLength = 10
INVARIANTS
  SumIsExact
  NoReadAfterReturn
PROPERTIES
  CallEnds
