SPECIFICATION LiveSpec
CONSTANTS
  MaxWorkers = 3
  MaxSpurious = 1
  c1 = c1
  c2 = c2
  Clients = {c1, c2}
  Owner = c1
  t1 = t1
  t2 = t2
  Tasks = {t1, t2}
  NoThread = NoThread
  NoTask = NoTask
INVARIANTS
  IInv
  FrontExists
  NoUseAfterDestroy
  EnqueuedBeforeStopDone
  WorkConserving
  OwnFuturesReady
PROPERTIES
  CallsReturn
  ImplementsExecutor
