CONSTANTS
  u1 = u1
  u2 = u2
  bad = bad
  Users <- MCUsers
  BadAddr = bad
  Amounts = {0, 1}
  InitBalance <- MCInitBalance
  MaxCodes = 1
  MaxInstances = 2
  CounterBits = 3
  CodeShift = 1
  GasMultiplier = 2
  MaxGas = 10
  GasLimit = 4
  ReadCost = 1
  MaxMsgs = 1
  QueryGasLimit = 5

SPECIFICATION FairQSpec

PROPERTY TxEnds
