SPECIFICATION USpec
CONSTANTS
  u1 = u1
  u2 = u2
  u3 = u3
  c1 = c1
  c2 = c2
  w1 = w1
  w2 = w2
  Units = {u1, u2, u3}
  Conns = {c1, c2}
  Writes = {w1, w2}
  ConnOf <- MCConnOf
INVARIANTS
  ActiveIsUsable
  TransactionOwned
