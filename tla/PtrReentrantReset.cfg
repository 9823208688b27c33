SPECIFICATION Spec
CONSTANTS
  n1 = n1
  g1 = g1
  g2 = g2
  Objs = {n1}
  Globals = {g1, g2}
  BaseGlobals = {}
  Null = Null
  CountMod = 16
  Reentrant = TRUE
  LockConverted = FALSE
SYMMETRY Symmetry
INVARIANTS
  NoFault
