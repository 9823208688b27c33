SPECIFICATION MCSpec
CONSTANTS
  Key = {1, 2, 3, 4, 5, 6, 7, 8, 9, 10}
  FreeKeys = {1, 2, 3, 4, 5, 6, 7}
  IteratorKeys = {1, 2, 3, 4, 5}
  ParkKeys = {1, 2, 3, 4}
  Nil = Nil
  Dangling = Dangling
INVARIANTS SearchTree RedBlack
PROPERTIES FixupClimbs ImplementsKeySet
