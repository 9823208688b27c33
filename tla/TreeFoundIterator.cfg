SPECIFICATION Spec
CONSTANTS
  Key = {1, 2, 3}
  Nil = Nil
  Dangling = Dangling
INVARIANT IteratorsStep
