SPECIFICATION Spec
CONSTANTS
  NThreads = 2
  t1 = t1
  t2 = t2
  t3 = t3
  Tasks = {t1, t2}
  Places <- AllPlaces
  Critical = {}
  Home <- AllAtZero
  NoTask = NoTask
  DeleteExecuted = TRUE
INVARIANT LastExit
