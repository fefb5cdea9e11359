CONSTANTS
  AAA = AAA
  BBB = BBB
  CCC = CCC
  Symbols = {AAA, BBB, CCC}
  Weight <- MCWeight
  Price <- MCPrice
  Market <- MCMarket
  Scale = 20
  FeeRate = 1
  TaxRate = 2
  Slippage = 2
  MaxOrderNotional = 70
  MaxPositionNotional = 100
  MaxPortfolioNotional = 100
  MaxMarketExposure = 20
  MinCashReserve = 0
  Selections <- MCSelections
  InitialAccounts <- MCInitialAccounts
  MaxFaults = 2
SPECIFICATION Spec
INVARIANTS TypeOK EveryTradeAudited RejectedBatchTradesNothing FailedRunMarked ResultIsDurable
