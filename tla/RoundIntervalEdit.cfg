SPECIFICATION Spec
CONSTANTS
  w1 = w1
  w2 = w2
  g1 = g1
  g2 = g2
  Free = Free
  Abandoned = Abandoned
  Workers <- TwoWorkers
  Groups <- TwoGroups
  Intervals = {2, 3}
  FastDelay = 1
  RevokeTTL = 2
  IterMax = 1
  DeleteGrace = 0
  TitleWait = 0
  Batch = 1
  Ops <- IntervalOps
  Failures <- NoFailures
  MaxQueue = 2
  MaxOps = 1
  MaxFaults = 1
INVARIANTS
  DueWithinInterval
