SPECIFICATION Spec
CONSTANTS
  w1 = w1
  w2 = w2
  g1 = g1
  g2 = g2
  Free = Free
  Abandoned = Abandoned
  Workers <- TwoWorkers
  Groups <- TwoGroups
  Intervals = {3}
  FastDelay = 1
  RevokeTTL = 3
  IterMax = 2
  DeleteGrace = 1
  TitleWait = 1
  Batch = 2
  Ops <- DeleteOps
  Failures <- NoFailures
  MaxQueue = 1
  MaxOps = 1
  MaxFaults = 1
INVARIANTS
  NoLostBatch
