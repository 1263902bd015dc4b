------------------------------ MODULE Funding ------------------------------
(***************************************************************************)
(* What the funding BeginBlocker does to the MarketDetails d of one active  *)
(* perp market: the premium sample, the mark price, the funding round       *)
(* (x/funding), and the impact prices it reads off the order book.          *)
(* A timestamp is 0 until it is first set; px is NoPrice when the oracle    *)
(* has no fresh price.                                                      *)
(***************************************************************************)
EXTENDS Oracle, Sequences

CONSTANTS
  ImpactNotional,          \* MarketImpactNotional
  PremiumSampleInterval, FundingPeriod, FundingPeriodDivisor, MaxPremiumSampleCount,
  FundingRateTick, MarkPremiumClampDivisor, MarkPremiumEmaTau

\* types.Params.Validate; a band is less than the price it is around.
ASSUME FundingAssumption ==
  /\ ImpactNotional \in Nat /\ PremiumSampleInterval \in Nat \ {0}
  /\ FundingPeriod \in Nat /\ FundingPeriod >= PremiumSampleInterval
  /\ {FundingPeriodDivisor, MaxPremiumSampleCount, FundingRateTick, MarkPremiumEmaTau}
       \subseteq Nat \ {0}
  /\ MarkPremiumClampDivisor \in Nat /\ MarkPremiumClampDivisor >= 2

\* small, big and rate are the governance terms of funding.
MarketDetails ==
  [mark : Nat, index : Nat, bid : Nat, ask : Nat, impact : Nat, ema : Int,
   refreshed : Nat, sampled : Nat, sum : Int, n : Nat, prefix : Int,
   small : Nat, big : Nat, rate : Nat]

\* math.Int.Quo by a positive divisor truncates.
Quo(a, b) == IF a < 0 THEN -((-a) \div b) ELSE a \div b

CeilDiv(a, b) == (a + b - 1) \div b

clamp(v, lo, hi) == IF v < lo THEN lo ELSE IF v > hi THEN hi ELSE v

clampUint32(v) == clamp(v, 0, MaxUint32)

Positive(n) == IF n > 0 THEN n ELSE 0

-----------------------------------------------------------------------------
(* Impact prices.  A side of the book is its levels, best first. *)

QuoteUpTo(levels, i) == MapThenSumSet(LAMBDA j : levels[j].price * levels[j].base, 1..i)
BaseUpTo(levels, i) == MapThenSumSet(LAMBDA j : levels[j].base, 1..i)

\* The base that is taken from the last level.
NeedBase(quote, price) == CeilDiv(quote, price)

\* The average price of the impact notional, against the taker; 0 when the
\* side does not hold that much.
ComputeImpactPrice(levels, isAsk) ==
  LET reached == {i \in DOMAIN levels : QuoteUpTo(levels, i) >= ImpactNotional}
  IN IF ImpactNotional = 0 \/ reached = {} THEN 0 ELSE
     LET k     == Min(reached)
         taken == NeedBase(ImpactNotional - QuoteUpTo(levels, k - 1), levels[k].price)
         base  == BaseUpTo(levels, k - 1) + taken
         quote == QuoteUpTo(levels, k - 1) + taken * levels[k].price
     IN IF quote < ImpactNotional \/ base = 0 THEN 0
        ELSE IF isAsk THEN CeilDiv(quote, base) ELSE quote \div base

-----------------------------------------------------------------------------
(* The premium sample. *)

SampleDue(d, now) == d.sampled = 0 \/ now - d.sampled >= PremiumSampleInterval

\* Mutant: a drained side leaves the middle price of the last full book.
WithImpactKept(d, bid, ask) ==
  [d EXCEPT !.bid = bid, !.ask = ask,
            !.impact = IF bid # 0 /\ ask # 0 THEN (bid + ask) \div 2 ELSE @]

WithImpact(d, bid, ask) ==
  [d EXCEPT !.bid = bid, !.ask = ask,
            !.impact = IF bid # 0 /\ ask # 0 THEN (bid + ask) \div 2 ELSE 0]

premium(bid, ask, idx) == Quo((Positive(bid - idx) - Positive(idx - ask)) * FundingRateTick, idx)

\* A sample beyond the cap of a round is dropped.
Sample(d, px, now) ==
  IF d.n < MaxPremiumSampleCount
    THEN [d EXCEPT !.index = px.index, !.sampled = now, !.n = @ + 1,
                   !.sum = @ + premium(d.bid, d.ask, px.index)]
    ELSE [d EXCEPT !.index = px.index, !.sampled = now]

\* Without a price only the impact prices are kept and the next block samples
\* again; a one-sided book uses the sample up.
processMarketSample(d, bid, ask, px, now) ==
  LET c == WithImpact(d, bid, ask)
  IN IF ~SampleDue(d, now) THEN d
     ELSE IF px = NoPrice THEN c
     ELSE IF bid = 0 \/ ask = 0 \/ px.index = 0
       THEN [c EXCEPT !.index = px.index, !.sampled = now]
     ELSE Sample(c, px, now)

-----------------------------------------------------------------------------
(* The mark price. *)

Band(idx) == idx \div MarkPremiumClampDivisor

rawPremium(d, idx) ==
  IF d.impact # 0 /\ idx > 0 THEN clamp(d.impact - idx, -Band(idx), Band(idx)) ELSE 0

emaStep(prev, raw, dt, reset) ==
  IF reset \/ dt >= MarkPremiumEmaTau THEN raw
  ELSE IF dt <= 0 THEN prev
  ELSE prev + Quo((raw - prev) * dt, MarkPremiumEmaTau)

\* Mutant: the stored average is not clamped to the band of the new index.
PremiumEmaStale(d, idx, now) ==
  emaStep(d.ema, rawPremium(d, idx), now - d.refreshed, d.refreshed = 0)

PremiumEma(d, idx, now) ==
  LET ema == emaStep(d.ema, rawPremium(d, idx), now - d.refreshed, d.refreshed = 0)
  IN IF idx > 0 THEN clamp(ema, -Band(idx), Band(idx)) ELSE ema

median3(a, b, c) ==
  IF a <= b THEN (IF b <= c THEN b ELSE IF a <= c THEN c ELSE a)
            ELSE (IF a <= c THEN a ELSE IF b <= c THEN c ELSE b)

\* The median of three prices, the mean of two, or the one there is.
MarkFrom(a, b, c) ==
  IF a # 0 /\ b # 0 /\ c # 0 THEN median3(a, b, c)
  ELSE IF (a = 0 /\ b = 0) \/ (a = 0 /\ c = 0) \/ (b = 0 /\ c = 0) THEN a + b + c
  ELSE (a + b + c) \div 2

refreshMarkPrice(d, px, now) ==
  LET idx  == IF px.index # 0 THEN px.index ELSE d.index
      ema  == PremiumEma(d, idx, now)
      mark == MarkFrom(d.impact, clampUint32(idx + ema), px.mark)
  IN IF px = NoPrice \/ mark = 0 THEN d
     ELSE [d EXCEPT !.index = idx, !.ema = ema, !.mark = mark, !.refreshed = now]

-----------------------------------------------------------------------------
(* The funding round. *)

\* Mutant: the interest correction has the wrong sign.
FundingRateAway(d) ==
  LET avg     == Quo(d.sum, d.n)
      clamped == clamp(avg - clamp(d.rate - avg, -d.small, d.small), -d.big, d.big)
  IN Quo(clamped, FundingPeriodDivisor)

FundingRate(d) ==
  LET avg     == Quo(d.sum, d.n)
      clamped == clamp(avg + clamp(d.rate - avg, -d.small, d.small), -d.big, d.big)
  IN Quo(clamped, FundingPeriodDivisor)

\* Mutant: the samples of a round are left for the next.
settleKeepsSamples(d) ==
  IF d.n = 0 THEN d ELSE [d EXCEPT !.prefix = @ + d.mark * FundingRate(d)]

settleMarket(d) ==
  IF d.n = 0 THEN d
  ELSE [d EXCEPT !.prefix = @ + d.mark * FundingRate(d), !.sum = 0, !.n = 0]

\* A round is due a period after the last one, and in the first block.
RoundDue(last, now) == last = 0 \/ now - last >= FundingPeriod
=============================================================================
