SPECIFICATION SystemSpec
CONSTANTS
  MaxThreads = 6
  Files <- ThreeWorkerFiles
  CommandLines <- SmallCommandLines
  Masks <- SmallMasks
  Bases = {0, 3}
  DefaultCount = 4
  EnvCount = 6
  None = None
CHECK_DEADLOCK FALSE
INVARIANTS
  TablesAgree
  DefaultIsSymmetric
  FileIsLayout
  OneWorkerPerCore
  PushedToWorker
