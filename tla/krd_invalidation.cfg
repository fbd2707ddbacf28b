SPECIFICATION Spec
CONSTANTS
  Recordings <- TwoWordProbes
  Tools = {"coherence"}
  Warmups = {0}
  Partitions = {2}
  HistLen = 4
  Unlimited = 1000
  DistanceMod = 4
  AllKernels = 99
  Kernels = {99}
  CountMod = 100
CHECK_DEADLOCK FALSE
INVARIANT ProbesMark
