CONSTANTS
  IntBits = 4
  MaxPrices = 2

SPECIFICATION Spec
INVARIANTS MinDepositMatchesReference OverflowOnlyWhenTooWide
