\* Two traders with opposite perp positions: reduce-only, triggers, late errors, a fair block loop.
SPECIFICATION FairSpec
CONSTANTS
  a1 = a1
  a2 = a2
  fees = fees
  Accounts = {a1, a2, fees}
  Traders = {a1, a2}
  Treasury = fees
  Assets = {"eth", "usdc"}
  Markets = {1}
  SpotMarkets = {}
  BaseAsset <- MCBaseAsset
  QuoteAsset <- MCQuoteAsset
  ClientIds = {1}
  MaxOrders = 3
  MaxPrice = 2
  MaxBase = 2
  MaxExpiry = 2
  MaxOrderQuoteAmount = 3
  FirstBidNonce = 20
  Requests <- PerpRequests
  Changes <- PerpChanges
  InitBal <- MCInitBal
  InitPos <- LongShort
  Marks = {0, 1}
  FeeTick = 2
  TakerFee = 1
  MakerFee = 0
  MaxFillsPerMsg = 2
  MaxCancelsPerMsg = 2
  MinBaseAmount = 1
  MinQuoteAmount = 1
  OrderQuoteLimit = 4
  MaxOpenOrdersPerAccount = 2
INVARIANT BookAgrees
PROPERTIES ReduceOnlyReduces BlockEndsClean GTTOrdersEnd
