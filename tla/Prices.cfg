\* Three validators, one of them faulty, a perp and a spot market, blocks up to time 5.
SPECIFICATION Spec
CONSTANTS
  v1 = v1
  v2 = v2
  v3 = v3
  Validators = {v1, v2, v3}
  Power <- MCPower
  Faulty = {v3}
  Bps = 10
  MinVotingPowerRatio = 7
  DeviationThresholdBps = 3
  MarkPriceEmaAlpha = 5
  MaxAgeMs = 1
  ImpactNotional = 9
  PremiumSampleInterval = 2
  FundingPeriod = 3
  FundingPeriodDivisor = 1
  MaxPremiumSampleCount = 2
  FundingRateTick = 8
  MarkPremiumClampDivisor = 2
  MarkPremiumEmaTau = 2
  MaxUint32 = 20
  Markets = {1, 2}
  Perp = 1
  Commits <- MCCommits
  Books <- MCBooks
  Genesis <- MCGenesis
  NewExpiries = {0, 3}
  Seeds <- MCSeeds
  Terms <- MCTerms
  ParamSets <- MCParamSets
  Gaps = {1, 2}
  MaxTime = 5
  MaxMsgs = 1
INVARIANTS  MarkNearOracle GatedMarkFresh BookPriceFresh SampledMarketsMarked ExpiryIndexExact
PROPERTIES FundingFollowsPremium ExpiredMarketsStop
CHECK_DEADLOCK FALSE
