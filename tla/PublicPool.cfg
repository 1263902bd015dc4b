SPECIFICATION Spec
CONSTANTS
  gov = gov
  lp = lp
  fund = fund
  pool = pool
  noPool = noPool
  Users <- MCUsers
  Gov = gov
  Pools <- MCPools
  InsuranceFund = fund
  NoPool = noPool
  Multiplier = 2
  InitialPoolShareValue = 1
  ShareTick = 4
  FeeTick = 4
  SharesListSize = 1
  Strategies = {1, 2}
  InitialBuckets <- MCBuckets
  Moves <- MCMoves
  Seeds = {2}
  Principals = {1, 3}
  Fees = {0, 3}
  Rates = {0, 2}
  Cooldowns = {1}
  Funds <- MCFunds
  MaxTime = 1
  MaxMsgs = 4
  MaxMoves = 2
INVARIANTS SharesAccountedFor OperatorFloor 
PROPERTIES NoDilution RedemptionsKeepMargin FeeOnlyOnProfit
CHECK_DEADLOCK FALSE
