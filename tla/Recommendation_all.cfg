CONSTANTS
  Securities = {1, 2, 3, 4}
  Dates = {1, 2}
  MarketOf <- MCMarketOf
  Tables <- MCTables
  Decision = 2
  Score <- MCScore
  Confidence <- MCConfidence
  Volatility <- MCVolatility
  MinHistory = 2
  MinVolume = 1
  MaxReturn = 50
  MaxVolatility = 10
  MinScore = 50
  MinConfidence = 40
  MaxPositions = 2
  MaxPerMarket = 1
  MaxWeight = 600000
SPECIFICATION Spec
INVARIANTS TypeOK PortfolioByDefinition WeightsFit
