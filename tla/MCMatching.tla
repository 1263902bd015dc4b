----------------------------- MODULE MCMatching -----------------------------
(* Small instances of Matching: market 1 is a perp market, market 2 a spot  *)
(* market.                                                                  *)
EXTENDS Matching

CONSTANTS a1, a2, fees

MCBaseAsset  == [m \in Markets |-> IF m = 1 THEN "usdc" ELSE "eth"]
MCQuoteAsset == [m \in Markets |-> "usdc"]
MCInitBal    == [r \in Rows |-> IF r[1] = fees THEN 0 ELSE 6]
Flat         == [c \in CountKeys |-> 0]
LongShort    == [c \in CountKeys |-> IF c[2] # 1 THEN 0 ELSE IF c[1] = a1 THEN 1 ELSE -1]

Req(o, m, ask, ty, tif, ro, p, b, e, c) ==
  [owner |-> o, market |-> m, isAsk |-> ask, type |-> ty, tif |-> tif,
   reduceOnly |-> ro, price |-> p, base |-> b, trig |-> p, expiry |-> e,
   client |-> c]

\* Spot: makers and takers on both sides, post-only, IOC, client ids.
SpotRequests ==
  {Req(a1, 2, FALSE, "limit", "GTT", FALSE, 1, 2, 1, 1),
   Req(a1, 2, FALSE, "limit", "PostOnly", FALSE, 2, 2, 2, 0),
   Req(a1, 2, TRUE, "limit", "GTT", FALSE, 1, 1, 2, 0),
   Req(a2, 2, TRUE, "limit", "GTT", FALSE, 1, 1, 2, 1),
   Req(a2, 2, FALSE, "market", "IOC", FALSE, 0, 2, 0, 0)}

\* Perp: reduce-only orders larger than the position, triggers of both kinds
\* and directions, orders that need two makers.
PerpRequests ==
  {Req(a1, 1, TRUE, "limit", "GTT", TRUE, 1, 2, 1, 1),
   Req(a1, 1, TRUE, "stopLoss", "GTT", FALSE, 1, 2, 2, 1),
   Req(a1, 1, TRUE, "limit", "GTT", FALSE, 2, 1, 2, 0),
   Req(a2, 1, FALSE, "limit", "GTT", TRUE, 1, 2, 2, 0),
   Req(a2, 1, FALSE, "limit", "GTT", FALSE, 1, 1, 2, 0),
   Req(a2, 1, FALSE, "takeProfitLimit", "GTT", FALSE, 2, 1, 2, 1),
   Req(a2, 1, FALSE, "market", "IOC", FALSE, 0, 1, 0, 0)}

NoChanges   == {}
\* One that fits on the book and one above MaxOrderQuoteAmount.
PerpChanges == {[price |-> 2, base |-> 1], [price |-> 2, base |-> 2]}
=============================================================================
