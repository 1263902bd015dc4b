CONSTANTS
  Accounts = {0, 1, 2, 3, 4, 5}
  Treasury = 0
  InsuranceFund = 1
  Pools = {1}
  Markets = {1, 2}
  Bases = {1, 2, 3}
  Books <- TakeoverBooks
  Offers <- MCOffers
  Ticks <- TakeoverTicks
  MaxBlocks = 1
  MaxMsgs = 0
  MaxAdlAttemptsPerBlock = 2
  MaxAdlCandidatesPerVictim = 2
  MaxFillsPerMsg = 2
  MaxOrderPrice = 100
  LiquidationFee = 1
  InitialMarginFraction = 4
  MaintenanceMarginFraction = 2
  CloseOutMarginFraction = 1
  MarginTick = 10
  FeeTick = 10
  FundingRateTick = 5
  MaxPositionSize = 8
  MaxEntryQuote = 200
  OpenInterestLimit = 0
SPECIFICATION Spec
CHECK_DEADLOCK FALSE
PROPERTY TakeoverKeepsMargin
