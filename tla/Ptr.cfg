SPECIFICATION Spec
CONSTANTS
  n1 = n1
  n2 = n2
  n3 = n3
  g1 = g1
  g2 = g2
  Objs = {n1, n2, n3}
  Globals = {g1, g2}
  BaseGlobals = {g2}
  Null = Null
  CountMod = 16
  Reentrant = FALSE
  LockConverted = FALSE
SYMMETRY Symmetry
CONSTRAINT Bound
INVARIANTS
  CountsExact
  LifetimesExact
  PointsAtObject
  NoFault
PROPERTIES
  NoResurrection
