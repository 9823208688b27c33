SPECIFICATION Spec
CONSTANTS
  Key = {0, 1, 2, 5}
  Value = {v1, v2}
  Absent = Absent
  Hash <- MCHash
  Capacities = {0, 1, 3, 5}
INVARIANTS Layout LoadBounded
PROPERTIES GrowthCatchesUp ImplementsKeyMap
