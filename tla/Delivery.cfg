SPECIFICATION Spec
CONSTANTS
  g1 = g1
  g2 = g2
  p1 = p1
  p2 = p2
  NoGroup = NoGroup
  Groups <- TwoGroups
  Procs <- TwoProcs
  Limit = 2
  SlowRetries = 1
  FloodRetries = 1
  GenericRetries = 1
  Batch = 1
  Pooling = TRUE
  Fickle = {g1}
  MaxRounds = 2
  MaxDrops = 1
CHECK_DEADLOCK FALSE
INVARIANTS
  IInv
  CopiesBounded
  RefusedOnce
  BarredOnce
  WarmUpCounted
  BarredClientGone
PROPERTIES
  RoundNearsEnd
SYMMETRY SameProcs
