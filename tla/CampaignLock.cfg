SPECIFICATION FairSpec
CONSTANTS
  w1 = w1
  w2 = w2
  w3 = w3
  t1 = t1
  t2 = t2
  t3 = t3
  t4 = t4
  NoToken = NoToken
  Free = Free
  Abandoned = Abandoned
  Workers <- ThreeWorkers
  Tokens <- FourTokens
  TTL = 6
  HB = 2
  MaxGap = 9
INVARIANTS
  MutualExclusion
  IInv
PROPERTIES
  AbstractLock
  OrphanExpires
  OnlyOwnerDeletes
  OnlyOwnerRenews
