SPECIFICATION Spec
CONSTANTS
  n1 = n1
  g1 = g1
  g2 = g2
  Objs = {n1}
  Globals = {g1, g2}
  BaseGlobals = {g2}
  Null = Null
  CountMod = 16
  Reentrant = FALSE
  LockConverted = TRUE
INVARIANTS
  PointsAtObject
