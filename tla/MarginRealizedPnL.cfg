CONSTANTS
  a1 = a1
  a2 = a2
  a3 = a3
  treasuryAccount = treasuryAccount
  insuranceAccount = insuranceAccount
  Accounts <- MCAccounts
  Traders = {a1, a2, a3}
  Treasury = treasuryAccount
  InsuranceFund = insuranceAccount
  Markets = {1}
  Fills <- RingFills
  Amounts = {}
  Marks = {1, 3}
  Rates = {1}
  ExtensionMultiplier = 2
  Funds = 3
  MaxSteps = 4
  InitialMarginFraction = 5
  MaintenanceMarginFraction = 3
  CloseOutMarginFraction = 2
  MarginTick = 10
  FeeTick = 5
  FundingRateTick = 2
  MaxPositionSize = 3
  MaxEntryQuote = 8
  OpenInterestLimit = 4
SPECIFICATION Spec
PROPERTIES FillsRealizeProfit
