SPECIFICATION FairSpec
CONSTANTS
  NThreads = 2
  Active <- AllActive
  t1 = t1
  t2 = t2
  Tasks = {t1}
  PoolSize = 2
  Sessions = 2
  Master = Master
  NoTask = NoTask
CHECK_DEADLOCK FALSE
PROPERTIES
  DrainReturns
