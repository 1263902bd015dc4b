SPECIFICATION FairSpec
CONSTANTS
  p1 = p1
  p2 = p2
  btc = btc
  Providers = {p1, p2}
  Quotes <- MCQuotes
  Pairs = {btc}
  Markets = {1}
  PairOf <- MCPairOf
  ChanCap = 1
  SampleMaxAge = 1
  MinSources = 1
  RecomputeEvery = 1
  FetchTimeout = 0
  MaxAge = 1
  ScaleUp = 1
  ScaleDown = 2
  MaxUint32 = 20
  MaxTime = 5
  MaxFetches = 2
INVARIANT VotesBacked
PROPERTY StopEndsTheDaemon
