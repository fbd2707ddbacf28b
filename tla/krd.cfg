SPECIFICATION Spec
CONSTANTS
  Recordings <- SmallRecordings
  Tools = {"merge", "coherence"}
  Warmups = {0, 2, 5}
  Partitions = {2}
  HistLen = 4
  Unlimited = 1000
  DistanceMod = 4
  AllKernels = 99
  Kernels = {1, 99}
  CountMod = 100
CHECK_DEADLOCK FALSE
INVARIANTS
  TimeOrder
  NothingLost
  RecencyOrder
  DistanceBounds
  EveryWordCounted
  PartsCover
  PartsEqualWhole
