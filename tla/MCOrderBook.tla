---------------------------- MODULE MCOrderBook ----------------------------
(* Small instances of OrderBook: one spot and one perp market that share   *)
(* the quote asset.                                                        *)
EXTENDS OrderBookGenesis

CONSTANTS a1, a2

MCBaseAsset  == [m \in Markets |-> IF m = 1 THEN "usdc" ELSE "eth"]
MCQuoteAsset == [m \in Markets |-> "usdc"]
MCInitBal    == [r \in Rows |-> 3]

Req(o, m, ask, ty, tif, p, b, e, c) ==
  [owner |-> o, market |-> m, isAsk |-> ask, type |-> ty, tif |-> tif,
   reduceOnly |-> FALSE, price |-> p, base |-> b, trig |-> p, expiry |-> e,
   client |-> c]

\* Spot: both sides, two prices, client ids reused, triggers of both kinds.
SpotRequests ==
  {Req(a1, 2, FALSE, "limit", "GTT", p, 2, 1, 1) : p \in {1, 2}}
  \cup {Req(a1, 2, TRUE, "limit", "PostOnly", 2, 1, 1, 1),
        Req(a2, 2, TRUE, "limit", "GTT", 2, 2, 1, 0),
        Req(a1, 2, FALSE, "stopLoss", "GTT", 1, 2, 1, 1),
        Req(a1, 2, FALSE, "stopLossLimit", "GTT", 2, 2, 1, 0)}

\* Perp: no locks; orders of one owner at one price differ only in age.
PerpRequests ==
  {Req(a, 1, ask, "limit", "GTT", p, 2, 1, 0) :
     a \in {a1}, ask \in BOOLEAN, p \in {1, 2}}
  \cup {Req(a2, 1, FALSE, "takeProfitLimit", "GTT", 2, 1, 1, 1),
        Req(a2, 1, TRUE, "market", "IOC", 0, 1, 0, 1)}

MCRequests == SpotRequests \cup PerpRequests
=============================================================================
