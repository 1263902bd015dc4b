\* Two traders on a spot market without maker fees: locks and settlement.
SPECIFICATION Spec
CONSTANTS
  a1 = a1
  a2 = a2
  fees = fees
  Accounts = {a1, a2, fees}
  Traders = {a1, a2}
  Treasury = fees
  Assets = {"eth", "usdc"}
  Markets = {2}
  SpotMarkets = {2}
  BaseAsset <- MCBaseAsset
  QuoteAsset <- MCQuoteAsset
  ClientIds = {1}
  MaxOrders = 4
  MaxPrice = 2
  MaxBase = 2
  MaxExpiry = 2
  MaxOrderQuoteAmount = 100
  FirstBidNonce = 20
  Requests <- SpotRequests
  Changes <- NoChanges
  InitBal <- MCInitBal
  InitPos <- Flat
  Marks = {0}
  FeeTick = 2
  TakerFee = 1
  MakerFee = 0
  MaxFillsPerMsg = 2
  MaxCancelsPerMsg = 2
  MinBaseAmount = 1
  MinQuoteAmount = 1
  OrderQuoteLimit = 4
  MaxOpenOrdersPerAccount = 2
INVARIANTS LocksExact MakersCanSettle AssetsConserved FillsBalance
