SPECIFICATION FairSpec
CONSTANTS
  NThreads = 2
  Active <- AllActive
  t1 = t1
  t2 = t2
  Tasks = {t1, t2}
  PoolSize = 2
  Sessions = 1
  Master = Master
  NoTask = NoTask
CHECK_DEADLOCK FALSE
INVARIANTS
  Accounting
  QuiescentIsDone
  ExitSound
PROPERTIES
  DrainReturns
  FiniReturns
