SPECIFICATION Spec
CONSTANTS
  NThreads = 3
  t1 = t1
  t2 = t2
  t3 = t3
  Tasks = {t1, t2, t3}
  Places <- OverlappingPlaces
  Critical = {t1, t2, t3}
  Home <- AllAtZero
  NoTask = NoTask
  DeleteExecuted = FALSE
SYMMETRY TaskSymmetry
INVARIANTS
  TypeOK
  CommonOrder
  NoWaitCycle
  GangEntry
  LastExit
  SingleProducer
  InsertInv
