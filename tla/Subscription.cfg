SPECIFICATION FairSpec
CONSTANTS
  Demo = 1
  Tariffs <- TwoTariffs
  MaxPayments = 3
  MaxFaults = 1
INVARIANTS
  PaidDaysServed
  RemindInv
PROPERTIES
  PayingUserKept
  RemindedOnce
  ExpiredIsPurged
