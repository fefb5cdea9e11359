CONSTANTS
  t1 = t1
  t2 = t2
  o1 = o1
  o2 = o2
  AAA = AAA
  BBB = BBB
  Threads = {t1, t2}
  Ids = {o1, o2}
  NoId = NoId
  Symbols = {AAA, BBB}
  Calls <- RetryCalls
  NoDepth = NoDepth
  NoLimit = NoLimit
  NoOrder = NoOrder
  InitialCash = 100
  InitialPositions <- MCInitialPositions
  Scale = 20
  FeeRate = 1
  TaxRate = 2
  Slippage = 2
  FillRatio = 20
  MaxCalls = 2
SPECIFICATION Spec
INVARIANTS IdempotentExecution
