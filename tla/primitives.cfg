SPECIFICATION Spec
CONSTANTS
  a1 = a1
  a2 = a2
  a3 = a3
  p1 = p1
  p2 = p2
  v1 = v1
  v2 = v2
  Addresses = {a1, a2, a3}
  Producers = {p1, p2}
  Values = {v1, v2}
  Null = Null
  MaxPushes = 4
  t1 = t1
  t2 = t2
  t3 = t3
  Threads = {t1, t2, t3}
  Modulus = 3
  Spurious = FALSE
  Loops <- SmallLoops
  MaxMembers = 3
  Slackness = 2
  MaxSize = 9
  MaxBlock = 2
  Pinned <- TwoCores
  Jobs <- SmallJobs
  MaxThreads = 5
  Limit = 3
  MaxRuns = 2
CHECK_DEADLOCK FALSE
INVARIANTS
  HeapSound
  EachIterationOnce
  TraceIsRecord
PROPERTIES
  ImplementsFifo
  ImplementsBarrier
  CxxImplementsBarrier
