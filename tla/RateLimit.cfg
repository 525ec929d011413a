SPECIFICATION Spec
CONSTANTS
  p1 = p1
  p2 = p2
  p3 = p3
  p4 = p4
  Procs <- FourProcs
  MaxSends = 2
  Horizon = 1
  MaxLeak = 3
INVARIANTS
  AtMostMaxSends
  DeniedOnlyWhenFull
  IInv
