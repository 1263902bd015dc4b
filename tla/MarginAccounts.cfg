CONSTANTS
  a1 = a1
  a2 = a2
  a3 = a3
  treasuryAccount = treasuryAccount
  insuranceAccount = insuranceAccount
  Accounts <- MCAccounts
  Traders = {a1, a2}
  Treasury = treasuryAccount
  InsuranceFund = insuranceAccount
  Markets = {1, 2}
  Fills <- PairFills
  Amounts = {3}
  Marks = {1, 3}
  Rates = {1}
  ExtensionMultiplier = 2
  Funds = 3
  MaxSteps = 4
  InitialMarginFraction = 5
  MaintenanceMarginFraction = 3
  CloseOutMarginFraction = 2
  MarginTick = 10
  FeeTick = 5
  FundingRateTick = 2
  MaxPositionSize = 3
  MaxEntryQuote = 8
  OpenInterestLimit = 4
SPECIFICATION Spec
INVARIANT MoneyConserved
PROPERTIES IsolatedFenced PayoutsSeeFunding
