\* Two traders on a spot and a perp market that share the quote asset, up to nonce exhaustion.
SPECIFICATION Spec
CONSTANTS
  a1 = a1
  a2 = a2
  Accounts = {a1, a2}
  Traders = {a1, a2}
  Assets = {"eth", "usdc"}
  Markets = {1, 2}
  SpotMarkets = {2}
  BaseAsset <- MCBaseAsset
  QuoteAsset <- MCQuoteAsset
  ClientIds = {1}
  MaxOrders = 3
  MaxPrice = 2
  MaxBase = 2
  MaxExpiry = 1
  MaxOrderQuoteAmount = 3
  FirstBidNonce = 4
  Requests <- MCRequests
  InitBal <- MCInitBal
INVARIANTS IndexesAgree  PriceTime RestartKeepsTheBook
PROPERTY ImplementsPlainBook
CHECK_DEADLOCK FALSE
