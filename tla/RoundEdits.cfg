SPECIFICATION Spec
CONSTANTS
  w1 = w1
  w2 = w2
  g1 = g1
  g2 = g2
  Free = Free
  Abandoned = Abandoned
  Workers <- TwoWorkers
  Groups <- TwoGroups
  Intervals = {2, 3}
  FastDelay = 1
  RevokeTTL = 2
  IterMax = 1
  DeleteGrace = 1
  TitleWait = 1
  Batch = 2
  Ops <- Signalled
  Failures <- NoFailures
  MaxQueue = 2
  MaxOps = 2
  MaxFaults = 1
SYMMETRY Symmetry
INVARIANTS
  SignalInv
  StaleRoundIsRevoked
  OneSendAfterSignal
  AtMostOneStaleSend
  TextFromDatabase
