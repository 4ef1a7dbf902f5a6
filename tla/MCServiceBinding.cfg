CONSTANTS
  p1 = p1
  p2 = p2
  s1 = s1
  s2 = s2
  Providers <- MCProviders
  DefMethods <- MCDefMethods
  PriceValues = {1, 2}
  DepositValues = {0, 2, 4}
  InitBalance = 4
  MinDepositMultiple = 2
  RefundDelay = 1
  IntBits = 4
  MaxTime = 2

SPECIFICATION Spec
INVARIANTS TypeOK DepositsBacked AvailableMeetsMinDeposit
