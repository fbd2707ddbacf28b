SPECIFICATION FairSpec
CONSTANTS
  NThreads = 3
  t1 = t1
  t2 = t2
  t3 = t3
  Tasks = {t1, t2}
  Places <- AllPlaces
  Critical = {t1}
  Home <- AllAtZero
  NoTask = NoTask
  DeleteExecuted = FALSE
PROPERTIES
  EveryTaskCommits
  ImplementsGangSchedule
