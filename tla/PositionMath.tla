---------------------------- MODULE PositionMath ----------------------------
(***************************************************************************)
(* The arithmetic of a perp position (x/account/types/position_math.go),   *)
(* of margin requirements (x/market/types/market_helpers.go), of health    *)
(* (x/risk) and of the isolated-margin rebalance (x/trade/keeper/perp).    *)
(* Amounts are math.Int, that is, unbounded; every division truncates.     *)
(***************************************************************************)
EXTENDS Integers

CONSTANTS
  InitialMarginFraction, MaintenanceMarginFraction, CloseOutMarginFraction,
  MarginTick,      \* the denominator of the three fractions
  FeeTick,         \* the denominator of fee rates
  FundingRateTick  \* the denominator of funding rates

\* validMarginChain and validateMarketDetailsStatics order the three fractions.
ASSUME MathAssumption ==
  /\ MarginTick \in Nat \ {0} /\ FeeTick \in Nat \ {0} /\ FundingRateTick \in Nat \ {0}
  /\ CloseOutMarginFraction \in Nat /\ MaintenanceMarginFraction \in Nat
  /\ InitialMarginFraction \in Nat
  /\ CloseOutMarginFraction < MaintenanceMarginFraction
  /\ MaintenanceMarginFraction < InitialMarginFraction
  /\ InitialMarginFraction <= MarginTick

Abs(n) == IF n < 0 THEN -n ELSE n

Larger(a, b) == IF a < b THEN b ELSE a

Smaller(a, b) == IF a < b THEN a ELSE b

\* math.Int.Quo: division truncated toward zero.
Quo(a, b) ==
  IF (a < 0) = (b < 0) THEN Abs(a) \div Abs(b) ELSE -(Abs(a) \div Abs(b))

\* A position row; last is LastFundingRatePrefixSum.
Position == [size: Int, entry: Int, alloc: Int, last: Int, isolated: BOOLEAN]

\* GetPosition of an absent row.
NoPosition == [size |-> 0, entry |-> 0, alloc |-> 0, last |-> 0, isolated |-> FALSE]

\* A flat row owes nothing.
FlatIsEmpty(p) == p.size = 0 => p.entry = 0

IsSameSide(a, b) == a # 0 /\ b # 0 /\ (a < 0) = (b < 0)

-----------------------------------------------------------------------------
(* Fills. *)

\* What remains of the entry quote after a decrease to new.
EntryLeft(p, new) == IF new = 0 THEN 0 ELSE Quo(p.entry * new, p.size)

\* ApplyFill: open; increase; decrease or close; flip.
ApplyFill(p, delta, price) ==
  LET new == p.size + delta
      notional == delta * price
      closes == new = 0 \/ IsSameSide(p.size, new)
  IN IF p.size = 0 THEN
       [size |-> new, entry |-> notional, pnl |-> 0, flipped |-> FALSE]
     ELSE IF IsSameSide(p.size, delta) THEN
       [size |-> new, entry |-> p.entry + notional, pnl |-> 0, flipped |-> FALSE]
     ELSE IF closes THEN
       [size |-> new,
        entry |-> EntryLeft(p, new),
        pnl |-> notional + Quo(p.entry * delta, -p.size),
        flipped |-> FALSE]
     ELSE
       [size |-> new,
        entry |-> new * price,
        pnl |-> p.entry - p.size * price,  \* the closing leg has the sign of delta
        flipped |-> TRUE]

\* notional * bps / FeeTick.
FeeOf(notional, bps) == Quo(notional * bps, FeeTick)

\* The fee on what a liquidation fill improves over the zero price.
liquidationImprovementFee(f) ==
  LET improvement == IF f.takerAsk THEN f.price - f.zeroPrice ELSE f.zeroPrice - f.price
      rate == Smaller(f.liquidationFeeBps, Quo(improvement * FeeTick, f.price))
  IN IF f.liquidationFeeBps = 0 \/ f.base = 0 \/ f.price = 0 \/ improvement <= 0 THEN 0
     ELSE Quo(f.base * f.price * rate, FeeTick)

-----------------------------------------------------------------------------
(* Margin and health. *)

\* |size| * mark * fraction / MarginTick.
MarginRequirement(size, mark, fraction) ==
  Quo(Abs(size) * mark * fraction, MarginTick)

InitialMargin(size, mark) == MarginRequirement(size, mark, InitialMarginFraction)

UnrealizedPnL(p, mark) ==
  IF p.size = 0 \/ mark = 0 THEN 0 ELSE p.size * mark - p.entry

MarketValue(p, mark) == p.alloc + UnrealizedPnL(p, mark)

\* One position's contribution to RiskParameters.
RiskOf(p, mark, value) ==
  [collateral |-> value,
   tav |-> value + UnrealizedPnL(p, mark),
   imr |-> InitialMargin(p.size, mark),
   mmr |-> MarginRequirement(p.size, mark, MaintenanceMarginFraction),
   cmr |-> MarginRequirement(p.size, mark, CloseOutMarginFraction)]

Healthy == 0
PreLiquidation == 1
PartialLiquidation == 2
FullLiquidation == 3
Bankruptcy == 4

\* RiskParameters.HealthStatus.
HealthStatus(r) ==
  IF r.tav < 0 THEN Bankruptcy
  ELSE IF r.tav < r.cmr THEN FullLiquidation
  ELSE IF r.tav < r.mmr THEN PartialLiquidation
  ELSE IF r.tav < r.imr THEN PreLiquidation
  ELSE Healthy

\* classifyChange: below initial margin the class may not get worse, nor the
\* account value per margin; in PreLiquidation the margin may not grow either.
classifyChange(pre, post) ==
  \/ HealthStatus(post) = Healthy
  \/ /\ HealthStatus(post) <= HealthStatus(pre)
     /\ IF HealthStatus(pre) = PreLiquidation
        THEN /\ post.mmr <= pre.mmr
             /\ pre.mmr # 0 /\ post.mmr # 0 => post.tav * pre.mmr >= pre.tav * post.mmr
        ELSE pre.imr # 0 /\ post.imr # 0 => post.tav * pre.imr >= pre.tav * post.imr

-----------------------------------------------------------------------------
(* Isolated margin. *)

ceilDivPositive(num, den) ==
  Quo(num, den) + (IF num % den = 0 THEN 0 ELSE 1)

\* The amount that moves from the cross collateral to the allocated margin after
\* a fill; new already holds the profit, less fees.
calculateIsolatedMarginDelta(old, new, flipped, mark, fee) ==
  LET posReq == InitialMargin(new.size, mark)
      grown == Abs(new.size) - Abs(old.size)
      oldMV == MarketValue(old, mark)
      scaled == ceilDivPositive(oldMV * Abs(new.size), Abs(old.size))
      target == IF oldMV > 0 THEN Larger(scaled, posReq) ELSE posReq
      excess == Larger(MarketValue(new, mark) - target, 0)
      tradePnL == UnrealizedPnL(new, mark) - UnrealizedPnL(old, mark) - fee
  IN IF new.size = 0 THEN -Larger(new.alloc, 0)
     ELSE IF flipped THEN posReq - MarketValue(new, mark)
     ELSE IF grown < 0 THEN -Smaller(excess, Larger(new.alloc, 0))
     ELSE IF grown > 0 THEN Larger(InitialMargin(grown, mark) - tradePnL, 0)
     ELSE 0
=============================================================================
