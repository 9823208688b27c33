SPECIFICATION Spec
CONSTANTS
  MaxWorkers = 1
  MaxSpurious = 0
  c1 = c1
  c2 = c2
  Clients = {c1, c2}
  Owner = c1
  t1 = t1
  Tasks = {t1}
  NoThread = NoThread
  NoTask = NoTask
INVARIANTS
  EveryFutureAnswered
