SPECIFICATION FairSpec
CONSTANTS
  NThreads = 3
  Active <- AllWorkers
  t1 = t1
  t2 = t2
  t3 = t3
  t4 = t4
  Tasks = {t1, t2, t3, t4}
  Succ <- Diamond
  Simple = {t2}
  Critical = {t3}
  Affinity <- SecondToOne
  StealFrom <- OneThief
  Places <- AllPlaces
  NoTask = NoTask
INVARIANTS
  RefcountExact
  DependenciesHold
  Custody
  EachMemberOnce
PROPERTIES
  EveryTaskCompletes
  ImplementsDagExecution
