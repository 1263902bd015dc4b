---------------------------- MODULE PricesProofs ----------------------------
(* Where a mark price comes from and how old it is, and the lifecycle of a  *)
(* market, for every validator set, order book and block time.              *)
EXTENDS Prices, TLAPS

\* Euclid: the quotient of naturals.
LEMMA DivRange ==
  ASSUME NEW x \in Nat, NEW n \in Nat, n # 0
  PROVE  x \div n \in Nat /\ (x \div n) * n <= x
  OBVIOUS

\* Multiplying by a natural keeps the order.
LEMMA TimesMonotone ==
  ASSUME NEW x \in Int, NEW y \in Int, NEW n \in Nat, x <= y
  PROVE  x * n <= y * n
  OBVIOUS

\* A positive factor cancels.
LEMMA TimesCancel ==
  ASSUME NEW x \in Int, NEW y \in Int, NEW n \in Nat, n # 0, x * n <= y * n
  PROVE  x <= y
  OBVIOUS

\* math.Int.Quo returns an integer.
LEMMA QuoInt ==
  ASSUME NEW a \in Int, NEW n \in Nat, n # 0
  PROVE  Quo(a, n) \in Int
<1>1. CASE a < 0
  <2>1. -a \in Nat
    BY <1>1
  <2>2. (-a) \div n \in Nat
    BY <2>1, DivRange
  <2> QED BY <1>1, <2>2 DEF Quo
<1>2. CASE a >= 0
  BY <1>2, DivRange DEF Quo
<1> QED BY <1>1, <1>2

-----------------------------------------------------------------------------
(* The oracle. *)

\* WeightedMedian returns a price that was voted, or 0.
LEMMA MedianIsVoted ==
  ASSUME NEW vs, NEW price
  PROVE  WeightedMedian(vs, price) = 0 \/ \E v \in vs : WeightedMedian(vs, price) = price[v]
<1> DEFINE prices == {price[v] : v \in vs}
           first  == {p \in prices : /\ Crosses(vs, price, p)
                                     /\ \A q \in prices : Crosses(vs, price, q) => p <= q}
           last   == {p \in prices : \A q \in prices : q <= p}
<1>1. CASE first # {}
  <2>1. (CHOOSE p \in first : TRUE) \in first
    BY <1>1
  <2>2. WeightedMedian(vs, price) = CHOOSE p \in first : TRUE
    BY <1>1 DEF WeightedMedian
  <2> QED BY <2>1, <2>2
<1>2. CASE first = {} /\ last # {}
  <2>1. (CHOOSE p \in last : TRUE) \in last
    BY <1>2
  <2>2. WeightedMedian(vs, price) = CHOOSE p \in last : TRUE
    BY <1>2 DEF WeightedMedian
  <2> QED BY <2>1, <2>2
<1>3. CASE first = {} /\ last = {}
  BY <1>3 DEF WeightedMedian
<1> QED BY <1>1, <1>2, <1>3

\* aggregateFromExtInfo makes no price or two prices that fit their field.
LEMMA AggregateFits ==
  ASSUME NEW c \in [Validators -> Vote]
  PROVE  \/ aggregateFromExtInfo(c) = NoPrice
         \/ /\ aggregateFromExtInfo(c).index \in 1..MaxUint32
            /\ aggregateFromExtInfo(c).mark \in 1..MaxUint32
<1> DEFINE all  == Samples(c)
           idxs == [v \in all |-> c[v].index]
           mks  == [v \in all |-> c[v].mark]
           near == Near(c, all, WeightedMedian(all, idxs), WeightedMedian(all, mks))
           kept == IF DeviationThresholdBps > 0 /\ near # {} THEN near ELSE all
           idx  == WeightedMedian(kept, idxs)
           mk   == WeightedMedian(kept, mks)
<1>1. aggregateFromExtInfo(c) =
        IF all # {} /\ Quorum(c) /\ idx # 0 /\ mk # 0
          THEN [index |-> idx, mark |-> mk, time |-> 0] ELSE NoPrice
  BY DEF aggregateFromExtInfo
<1>2. all \subseteq Validators
  BY DEF Samples, Committed
<1>3. kept \subseteq all
  BY DEF Near
<1>4. idx = 0 \/ \E v \in kept : idx = idxs[v]
  BY MedianIsVoted
<1>5. mk = 0 \/ \E v \in kept : mk = mks[v]
  BY MedianIsVoted
<1>6. \A v \in Validators : c[v].index \in 0..MaxUint32 /\ c[v].mark \in 0..MaxUint32
  BY DEF Vote
<1> HIDE DEF all, kept, idx, mk
<1>7. idx \in 0..MaxUint32
  <2>1. 0 \in 0..MaxUint32
    BY OracleAssumption
  <2> QED BY <1>2, <1>3, <1>4, <1>6, <2>1
<1>8. mk \in 0..MaxUint32
  <2>1. 0 \in 0..MaxUint32
    BY OracleAssumption
  <2> QED BY <1>2, <1>3, <1>5, <1>6, <2>1
<1>9. idx # 0 => idx \in 1..MaxUint32
  BY <1>7, OracleAssumption
<1>10. mk # 0 => mk \in 1..MaxUint32
  BY <1>8, OracleAssumption
<1> QED BY <1>1, <1>9, <1>10

\* The smoothed mark lies in the range of a price.
LEMMA SmoothedFits ==
  ASSUME NEW s \in OraclePrice, NEW m \in 1..MaxUint32
  PROVE  applyMarkSmoothing(s, m) \in 1..MaxUint32
<1> DEFINE a == MarkPriceEmaAlpha
           x == a * m + (Bps - a) * s.mark
           q == x \div Bps
<1>1. a \in Nat /\ Bps \in Nat /\ Bps # 0 /\ Bps - a \in Nat /\ MaxUint32 \in Nat
  BY OracleAssumption
<1>2. s.mark \in Nat /\ s.mark <= MaxUint32 /\ m \in Nat /\ m <= MaxUint32
  BY <1>1 DEF OraclePrice
<1>3. m * a <= MaxUint32 * a /\ s.mark * (Bps - a) <= MaxUint32 * (Bps - a)
  BY <1>1, <1>2, TimesMonotone
<1>4. m * a \in Nat /\ s.mark * (Bps - a) \in Nat
  BY <1>1, <1>2
<1>5. x \in Nat /\ x <= MaxUint32 * Bps
  <2>1. x = m * a + s.mark * (Bps - a)
    BY <1>1, <1>2
  <2>2. MaxUint32 * a + MaxUint32 * (Bps - a) = MaxUint32 * Bps
    BY <1>1
  <2>3. MaxUint32 * a \in Nat /\ MaxUint32 * (Bps - a) \in Nat
    BY <1>1
  <2> QED BY <1>3, <1>4, <2>1, <2>2, <2>3
<1> HIDE DEF x
<1>6. q \in Nat /\ q * Bps <= x
  BY <1>1, <1>5, DivRange
<1>7. q * Bps <= MaxUint32 * Bps
  <2>1. q * Bps \in Int /\ MaxUint32 * Bps \in Int
    BY <1>1, <1>6
  <2> QED BY <1>5, <1>6, <2>1
<1> HIDE DEF q
<1>8. q <= MaxUint32
  BY <1>1, <1>6, <1>7, TimesCancel
<1>9. applyMarkSmoothing(s, m) \in {m, q, 1} /\ (applyMarkSmoothing(s, m) = q => q # 0 \/ q = m)
  BY <1>1, <1>2 DEF applyMarkSmoothing, x, q
<1> QED BY <1>1, <1>2, <1>6, <1>8, <1>9

\* PreBlock leaves the stored price or writes a complete one of this block.
LEMMA SetPriceComplete ==
  ASSUME NEW s \in OraclePrice, NEW c \in [Validators -> Vote], NEW t \in Nat
  PROVE  LET r == SetPrice(s, aggregateFromExtInfo(c), t)
         IN \/ r = s
            \/ r \in OraclePrice /\ r.index # 0 /\ r.mark # 0 /\ r.time = t
<1> DEFINE g == aggregateFromExtInfo(c)
<1>1. CASE g = NoPrice
  BY <1>1 DEF SetPrice
<1>2. CASE g # NoPrice
  <2>1. g.index \in 1..MaxUint32 /\ g.mark \in 1..MaxUint32
    BY <1>2, AggregateFits
  <2>2. applyMarkSmoothing(s, g.mark) \in 1..MaxUint32
    BY <2>1, SmoothedFits
  <2>3. SetPrice(s, g, t) =
          [index |-> g.index, mark |-> applyMarkSmoothing(s, g.mark), time |-> t]
    BY <1>2 DEF SetPrice
  <2> HIDE DEF g
  <2> QED BY <2>1, <2>2, <2>3, OracleAssumption DEF OraclePrice, g
<1> QED BY <1>1, <1>2

-----------------------------------------------------------------------------
(* The funding operators. *)

\* A band is smaller than the index it is around.
LEMMA BandSmall ==
  ASSUME NEW idx \in Nat, idx # 0
  PROVE  Band(idx) \in Nat /\ Band(idx) < idx
<1> DEFINE n == MarkPremiumClampDivisor
           q == idx \div n
<1>1. n \in Nat /\ n >= 2
  BY FundingAssumption
<1>2. q \in Nat /\ q * n <= idx
  BY <1>1, DivRange
<1>3. 2 * q <= n * q
  BY <1>1, <1>2, TimesMonotone
<1> HIDE DEF q
<1>4. q * n = n * q /\ n * q \in Int
  BY <1>1, <1>2
<1> HIDE DEF n
<1>5. q < idx
  <2>1. 2 * q <= idx
    BY <1>2, <1>3, <1>4
  <2> QED BY <1>2, <2>1
<1> QED BY <1>2, <1>5 DEF Band, q, n

\* The premium average is an integer within the band of the index.
LEMMA EmaInBand ==
  ASSUME NEW d \in MarketDetails, NEW idx \in Nat, idx # 0, NEW t \in Nat
  PROVE  PremiumEma(d, idx, t) \in (-Band(idx)) .. Band(idx)
<1>1. Band(idx) \in Nat
  BY BandSmall
<1>2. d.impact \in Nat /\ d.ema \in Int /\ d.refreshed \in Nat
  BY DEF MarketDetails
<1> DEFINE raw == rawPremium(d, idx)
           ema == emaStep(d.ema, raw, t - d.refreshed, d.refreshed = 0)
<1>3. raw \in Int
  BY <1>1, <1>2 DEF rawPremium, clamp
<1> HIDE DEF raw
<1>4. ema \in Int
  <2>1. MarkPremiumEmaTau \in Nat /\ MarkPremiumEmaTau # 0
    BY FundingAssumption
  <2>2. (raw - d.ema) * (t - d.refreshed) \in Int
    BY <1>2, <1>3
  <2>3. Quo((raw - d.ema) * (t - d.refreshed), MarkPremiumEmaTau) \in Int
    BY <2>1, <2>2, QuoInt
  <2> QED BY <1>2, <1>3, <2>3 DEF emaStep
<1> HIDE DEF ema
<1>5. PremiumEma(d, idx, t) = clamp(ema, -Band(idx), Band(idx))
  BY DEF PremiumEma, ema, raw
<1> QED BY <1>1, <1>4, <1>5 DEF clamp

\* The median or the mean of the prices lies between the second and the third.
LEMMA MarkBetween ==
  ASSUME NEW a \in Nat, NEW b \in Nat, NEW c \in Nat, b # 0, c # 0
  PROVE  /\ MarkFrom(a, b, c) \in Nat /\ MarkFrom(a, b, c) # 0
         /\ MarkFrom(a, b, c) >= b \/ MarkFrom(a, b, c) >= c
         /\ MarkFrom(a, b, c) <= b \/ MarkFrom(a, b, c) <= c
  BY DEF MarkFrom, median3

\* refreshMarkPrice with a complete price writes a mark between the oracle's
\* mark and the band around its index, and touches nothing but the mark, the
\* index, the average and the refresh time.
LEMMA RefreshMarks ==
  ASSUME NEW d \in MarketDetails, NEW px \in OraclePrice, NEW t \in Nat,
         px.index # 0, px.mark # 0
  PROVE  LET r == refreshMarkPrice(d, px, t)
         IN /\ r \in MarketDetails
            /\ r.mark # 0 /\ r.refreshed = t
            /\ r.mark >= px.index - Band(px.index) \/ r.mark >= px.mark
            /\ r.mark <= px.index + Band(px.index) \/ r.mark <= px.mark
            /\ r.n = d.n /\ r.small = d.small /\ r.big = d.big
<1> DEFINE idx == px.index
           ema == PremiumEma(d, idx, t)
           p1  == clampUint32(idx + ema)
           mk  == MarkFrom(d.impact, p1, px.mark)
<1>1. idx \in Nat /\ idx # 0 /\ idx <= MaxUint32 /\ px.mark \in Nat /\ MaxUint32 \in Nat
  BY OracleAssumption DEF OraclePrice
<1>2. Band(idx) \in Nat /\ Band(idx) < idx
  BY <1>1, BandSmall
<1>3. ema \in (-Band(idx)) .. Band(idx)
  BY <1>1, EmaInBand
<1> HIDE DEF idx, ema
<1>4. p1 \in Nat /\ p1 # 0 /\ p1 >= idx - Band(idx) /\ p1 <= idx + Band(idx)
  BY <1>1, <1>2, <1>3 DEF clampUint32, clamp
<1> HIDE DEF p1
<1>5. d.impact \in Nat
  BY DEF MarketDetails
<1>6. /\ mk \in Nat /\ mk # 0
      /\ mk >= p1 \/ mk >= px.mark
      /\ mk <= p1 \/ mk <= px.mark
  BY <1>1, <1>4, <1>5, MarkBetween
<1>7. px # NoPrice
  BY DEF NoPrice
<1>8. refreshMarkPrice(d, px, t) =
        [d EXCEPT !.index = idx, !.ema = ema, !.mark = mk, !.refreshed = t]
  BY <1>6, <1>7 DEF refreshMarkPrice, idx, ema, p1
<1> HIDE DEF mk
<1>9. ema \in Int
  BY <1>2, <1>3
<1>10. [d EXCEPT !.index = idx, !.ema = ema, !.mark = mk, !.refreshed = t] \in MarketDetails
  BY <1>1, <1>6, <1>9 DEF MarketDetails
<1>11. /\ mk >= idx - Band(idx) \/ mk >= px.mark
       /\ mk <= idx + Band(idx) \/ mk <= px.mark
  BY <1>1, <1>2, <1>4, <1>6
<1>12. DOMAIN d = {"mark", "index", "bid", "ask", "impact", "ema", "refreshed", "sampled",
                   "sum", "n", "prefix", "small", "big", "rate"}
  BY DEF MarketDetails
<1> QED BY <1>6, <1>8, <1>10, <1>11, <1>12 DEF idx

\* Without a price refreshMarkPrice does nothing.
LEMMA RefreshSkips ==
  ASSUME NEW d, NEW t
  PROVE  refreshMarkPrice(d, NoPrice, t) = d
  BY DEF refreshMarkPrice

\* processMarketSample leaves the mark and its time alone, and counts a sample
\* only with a price.
LEMMA SampleKeepsMark ==
  ASSUME NEW d \in MarketDetails, NEW bid \in Nat, NEW ask \in Nat,
         NEW px \in OraclePrice, NEW t \in Nat
  PROVE  LET e == processMarketSample(d, bid, ask, px, t)
         IN /\ e \in MarketDetails
            /\ e.mark = d.mark /\ e.refreshed = d.refreshed
            /\ e.small = d.small /\ e.big = d.big
            /\ px = NoPrice => e.n = d.n
<1> DEFINE imp == IF bid # 0 /\ ask # 0 THEN (bid + ask) \div 2 ELSE 0
           c   == [d EXCEPT !.bid = bid, !.ask = ask, !.impact = imp]
<1>1. WithImpact(d, bid, ask) = c
  BY DEF WithImpact
<1>2. imp \in Nat
  BY DivRange
<1> HIDE DEF imp
<1>3. c \in MarketDetails /\ c.mark = d.mark /\ c.refreshed = d.refreshed /\ c.small = d.small
      /\ c.big = d.big /\ c.n = d.n /\ c.bid = bid /\ c.ask = ask
  BY <1>2 DEF MarketDetails
<1> HIDE DEF c
<1>4. px.index \in Nat
  BY OracleAssumption DEF OraclePrice
<1> DEFINE skip == [c EXCEPT !.index = px.index, !.sampled = t]
<1>5. /\ skip \in MarketDetails /\ skip.mark = c.mark /\ skip.refreshed = c.refreshed
      /\ skip.small = c.small /\ skip.big = c.big
  BY <1>3, <1>4 DEF MarketDetails
<1> DEFINE s == c.sum + premium(c.bid, c.ask, px.index)
           k == c.n + 1
           took == [c EXCEPT !.index = px.index, !.sampled = t, !.n = k, !.sum = s]
<1>6. px.index # 0 => s \in Int
  <2>1. FundingRateTick \in Nat
    BY FundingAssumption
  <2>2. c.sum \in Int
    BY <1>3 DEF MarketDetails
  <2>3. (Positive(bid - px.index) - Positive(px.index - ask)) * FundingRateTick \in Int
    BY <1>4, <2>1 DEF Positive
  <2>4. px.index # 0 => premium(c.bid, c.ask, px.index) \in Int
    BY <1>3, <1>4, <2>3, QuoInt DEF premium
  <2> QED BY <2>2, <2>4
<1>6a. k \in Nat
  BY <1>3 DEF MarketDetails
<1> HIDE DEF s, k
<1>7. px.index # 0 =>
        /\ took \in MarketDetails /\ took.mark = c.mark /\ took.refreshed = c.refreshed
        /\ took.small = c.small /\ took.big = c.big
  BY <1>3, <1>4, <1>6, <1>6a DEF MarketDetails
<1>8. processMarketSample(d, bid, ask, px, t) \in {d, c}
      \/ (px # NoPrice /\ processMarketSample(d, bid, ask, px, t) = skip)
      \/ (px # NoPrice /\ px.index # 0 /\ processMarketSample(d, bid, ask, px, t) = took)
  BY <1>1 DEF processMarketSample, Sample, s, k
<1> HIDE DEF skip, took
<1> QED BY <1>3, <1>5, <1>7, <1>8

\* A round only moves the prefix sum and clears the samples.
LEMMA SettleKeepsMark ==
  ASSUME NEW d \in MarketDetails
  PROVE  LET e == settleMarket(d)
         IN /\ e \in MarketDetails /\ e.n = 0
            /\ e.mark = d.mark /\ e.refreshed = d.refreshed
            /\ e.small = d.small /\ e.big = d.big
<1> DEFINE p == d.prefix + d.mark * FundingRate(d)
           e == [d EXCEPT !.prefix = p, !.sum = 0, !.n = 0]
<1>1. CASE d.n = 0
  BY <1>1 DEF settleMarket
<1>2. CASE d.n # 0
  <2>1. /\ d.n \in Nat /\ d.sum \in Int /\ d.prefix \in Int /\ d.mark \in Nat
        /\ d.small \in Nat /\ d.big \in Nat /\ d.rate \in Nat
    BY DEF MarketDetails
  <2> DEFINE avg == Quo(d.sum, d.n)
             cut == clamp(avg + clamp(d.rate - avg, -d.small, d.small), -d.big, d.big)
  <2>2. avg \in Int
    BY <1>2, <2>1, QuoInt
  <2> HIDE DEF avg
  <2>3. cut \in Int
    BY <2>1, <2>2 DEF clamp
  <2> HIDE DEF cut
  <2>4. FundingPeriodDivisor \in Nat /\ FundingPeriodDivisor # 0
    BY FundingAssumption
  <2>5. FundingRate(d) = Quo(cut, FundingPeriodDivisor)
    BY DEF FundingRate, cut, avg
  <2>6. FundingRate(d) \in Int
    BY <2>3, <2>4, <2>5, QuoInt
  <2>7. p \in Int
    BY <2>1, <2>6
  <2>8. settleMarket(d) = e
    BY <1>2 DEF settleMarket
  <2> HIDE DEF p
  <2> DEFINE z == 0
  <2>9. z \in Nat /\ z \in Int /\ z = 0
    OBVIOUS
  <2> HIDE DEF z
  <2>10. [d EXCEPT !.prefix = p, !.sum = z, !.n = z] \in MarketDetails
    BY <2>7, <2>9 DEF MarketDetails
  <2>11. /\ e.n = 0 /\ e.mark = d.mark /\ e.refreshed = d.refreshed
         /\ e.small = d.small /\ e.big = d.big
    BY DEF MarketDetails
  <2> QED BY <2>8, <2>9, <2>10, <2>11
<1> QED BY <1>1, <1>2

-----------------------------------------------------------------------------
(* The inductive invariant. *)

\* Before BeginBlock nothing of this block has reached the market.
Early == phase \in {"propose", "process", "begin"}

\* The clocks: no timestamp lies ahead, and before BeginBlock the round and
\* the mark are of an earlier block.
ClocksBehind ==
  /\ stored.time <= now /\ lastRound <= now
  /\ Early => lastRound < now
  /\ phase = "settle" => lastRound < now
  /\ details.mark # 0 => details.refreshed <= now /\ (Early => details.refreshed < now)

\* A mark rests on votes that were fresh when it was written.
MarkBacked ==
  details.mark # 0 => basis <= details.refreshed /\ details.refreshed - basis <= MaxAgeMs

IInv == TypeOK /\ ClocksBehind /\ MarkBacked /\ MarkNearOracle /\ SampledMarketsMarked

\* GetPrice returns the stored price while it is young, and else nothing.
LEMMA GetPriceFresh ==
  ASSUME TypeOK, stored.time <= now
  PROVE  \/ GetPrice(stored, now) = NoPrice
         \/ /\ GetPrice(stored, now) = stored /\ stored # NoPrice
            /\ stored.index # 0 /\ stored.mark # 0 /\ now - stored.time <= MaxAgeMs
  BY OracleAssumption DEF TypeOK, GetPrice, OraclePrice, NoPrice

LEMMA InitInv ==
  ASSUME Init
  PROVE  IInv
<1>1. TypeOK
  <2>1. proposal \in [commit : [Validators -> Vote], injected : BOOLEAN]
    <3>1. [committed |-> FALSE, index |-> 0, mark |-> 0] \in Vote
      BY OracleAssumption DEF Vote
    <3> QED BY <3>1 DEF Init, Unproposed
  <2>2. details \in MarketDetails /\ details.small <= details.big
    BY PricesAssumption DEF Init, resetRuntimeDetails, MarketDetails
  <2>3. stored \in OraclePrice
    BY OracleAssumption DEF Init, OraclePrice, NoPrice
  <2> QED BY <2>1, <2>2, <2>3, PricesAssumption DEF Init, TypeOK, NoPrice
<1>2. details.mark = 0 /\ details.n = 0
  BY DEF Init, resetRuntimeDetails
<1>3. stored.time = 0
  BY DEF Init, NoPrice
<1> QED BY <1>1, <1>2, <1>3
       DEF Init, IInv, ClocksBehind, MarkBacked, MarkNearOracle, SampledMarketsMarked

-----------------------------------------------------------------------------
(* One lemma per group of actions. *)

\* The proposal reaches no price.
LEMMA ProposalInv ==
  ASSUME IInv,
         \/ \E c \in Commits, fits \in BOOLEAN : PrepareProposal(c, fits)
         \/ Rejected
  PROVE  IInv'
<1>1. /\ phase \in {"propose", "process"} /\ phase' \in {"propose", "process"}
      /\ UNCHANGED <<now, stored, details, lastRound, market, history>>
  BY DEF PrepareProposal, Rejected
<1>2. Unproposed \in [commit : [Validators -> Vote], injected : BOOLEAN]
  <2>1. [committed |-> FALSE, index |-> 0, mark |-> 0] \in Vote
    BY OracleAssumption DEF Vote
  <2> QED BY <2>1 DEF Unproposed
<1>3. proposal' \in [commit : [Validators -> Vote], injected : BOOLEAN]
  <2>1. CASE Rejected
    BY <1>2, <2>1 DEF Rejected
  <2>2. ASSUME NEW c \in Commits, NEW fits \in BOOLEAN, PrepareProposal(c, fits)
        PROVE  proposal' \in [commit : [Validators -> Vote], injected : BOOLEAN]
    <3>1. c \in [Validators -> Vote]
      BY PricesAssumption
    <3> QED BY <1>2, <2>2, <3>1 DEF PrepareProposal
  <2> QED BY <2>1, <2>2
<1>4. TypeOK'
  BY <1>1, <1>3 DEF IInv, TypeOK, market, history
<1>5. ClocksBehind' /\ MarkBacked'
  BY <1>1 DEF IInv, ClocksBehind, MarkBacked, Early, market, history
<1>6. MarkNearOracle' /\ SampledMarketsMarked'
  BY <1>1 DEF IInv, MarkNearOracle, SampledMarketsMarked, Active, market, history
<1> QED BY <1>4, <1>5, <1>6 DEF IInv

LEMMA PreBlockerInv ==
  ASSUME IInv, PreBlocker
  PROVE  IInv'
<1>1. /\ phase = "process" /\ phase' = "begin"
      /\ UNCHANGED <<now, proposal, details, lastRound, market, history>>
  BY DEF PreBlocker
<1>2. /\ now \in Nat /\ stored \in OraclePrice /\ proposal.commit \in [Validators -> Vote]
      /\ stored.time <= now
  BY DEF IInv, TypeOK, ClocksBehind
<1> DEFINE r == SetPrice(stored, aggregateFromExtInfo(proposal.commit), now)
<1>3. r = stored \/ (r \in OraclePrice /\ r.index # 0 /\ r.mark # 0 /\ r.time = now)
  BY <1>2, SetPriceComplete
<1>4. stored' = stored \/ stored' = r
  BY DEF PreBlocker
<1> HIDE DEF r
<1>5. lastRound < now /\ lastRound \in Nat
  BY <1>1 DEF IInv, TypeOK, ClocksBehind, Early
<1>6. /\ stored' \in OraclePrice /\ (stored'.index = 0 <=> stored'.mark = 0)
      /\ (stored'.index = 0 <=> stored'.time = 0) /\ stored'.time <= now
  BY <1>2, <1>3, <1>4, <1>5 DEF IInv, TypeOK
<1>7. TypeOK'
  BY <1>1, <1>6 DEF IInv, TypeOK, market, history
<1>8. ClocksBehind' /\ MarkBacked'
  BY <1>1, <1>6 DEF IInv, ClocksBehind, MarkBacked, Early, market, history
<1>9. MarkNearOracle' /\ SampledMarketsMarked'
  BY <1>1 DEF IInv, MarkNearOracle, SampledMarketsMarked, Active, market, history
<1> QED BY <1>7, <1>8, <1>9 DEF IInv

\* The sample, the mark and what it rests on.
LEMMA BeginBlockerInv ==
  ASSUME IInv, NEW b \in Books, BeginBlocker(b)
  PROVE  IInv'
<1> DEFINE px  == GetPrice(stored, now)
           bid == ComputeImpactPrice(b.bids, FALSE)
           ask == ComputeImpactPrice(b.asks, TRUE)
           d   == processMarketSample(details, bid, ask, px, now)
           e   == refreshMarkPrice(d, px, now)
<1>1. /\ phase = "begin" /\ phase' \in {"settle", "deliver"}
      /\ UNCHANGED <<now, stored, lastRound, market>>
      /\ proposal' = Unproposed
  BY DEF BeginBlocker
<1>2. bid \in Nat /\ ask \in Nat
  <2>1. bid \in 0..MaxUint32
    BY PricesAssumption, Zenon
  <2>2. ask \in 0..MaxUint32
    BY PricesAssumption, Zenon
  <2> HIDE DEF bid, ask
  <2> QED BY <2>1, <2>2, OracleAssumption
<1>3. /\ now \in Nat /\ stored \in OraclePrice /\ details \in MarketDetails /\ lastRound \in Nat
      /\ details.small <= details.big /\ stored.time <= now /\ lastRound < now
      /\ basis \in Nat /\ bookRead \in Nat /\ stored.time \in Nat
      /\ details.mark # 0 => details.refreshed < now
  BY <1>1 DEF IInv, TypeOK, ClocksBehind, Early, OraclePrice
<1>4. \/ px = NoPrice
      \/ /\ px = stored /\ px # NoPrice
         /\ px.index # 0 /\ px.mark # 0 /\ now - px.time <= MaxAgeMs
  BY <1>3, GetPriceFresh DEF IInv
<1>5. px \in OraclePrice
  BY <1>3, <1>4, OracleAssumption DEF OraclePrice, NoPrice
<1>6. IF Active(Perp)
        THEN /\ details' = e
             /\ basis' = IF px # NoPrice /\ details'.mark # 0 THEN px.time ELSE basis
             /\ bookRead' \in {now, bookRead}
        ELSE UNCHANGED <<details, history>>
  BY DEF BeginBlocker
<1> HIDE DEF px, bid, ask
<1>7. /\ d \in MarketDetails /\ d.mark = details.mark /\ d.refreshed = details.refreshed
      /\ d.small = details.small /\ d.big = details.big
      /\ px = NoPrice => d.n = details.n
  <2>1. now \in Nat /\ details \in MarketDetails
    BY <1>3
  <2> QED BY <1>2, <1>5, <2>1, SampleKeepsMark
<1> HIDE DEF d
<1>8. px = NoPrice => e = d
  BY RefreshSkips
<1>9. px # NoPrice =>
        /\ e \in MarketDetails /\ e.mark # 0 /\ e.refreshed = now
        /\ e.mark >= px.index - Band(px.index) \/ e.mark >= px.mark
        /\ e.mark <= px.index + Band(px.index) \/ e.mark <= px.mark
        /\ e.small = d.small /\ e.big = d.big
  BY <1>3, <1>4, <1>5, <1>7, RefreshMarks
<1> HIDE DEF e
<1>10. proposal' \in [commit : [Validators -> Vote], injected : BOOLEAN]
  <2>1. [committed |-> FALSE, index |-> 0, mark |-> 0] \in Vote
    BY OracleAssumption DEF Vote
  <2> QED BY <1>1, <2>1 DEF Unproposed
<1>11. details' \in MarketDetails /\ details'.small <= details'.big
  BY <1>3, <1>6, <1>7, <1>8, <1>9
<1>12. basis' \in Nat /\ bookRead' \in Nat
  BY <1>3, <1>4, <1>6 DEF history
<1>13. TypeOK'
  BY <1>1, <1>10, <1>11, <1>12 DEF IInv, TypeOK, market
<1>14. CASE Active(Perp) /\ px # NoPrice
  <2>1. /\ details'.mark # 0 /\ details'.refreshed = now /\ basis' = stored.time
        /\ now - stored.time <= MaxAgeMs
    BY <1>4, <1>6, <1>9, <1>14
  <2>2. ClocksBehind' /\ MarkBacked'
    BY <1>1, <1>3, <2>1 DEF ClocksBehind, MarkBacked, Early
  <2>3. MarkNearOracle'
    BY <1>1, <1>4, <1>6, <1>9, <1>14 DEF MarkNearOracle
  <2>4. SampledMarketsMarked'
    <3>1. details'.mark \in Nat
      BY <1>11 DEF MarketDetails
    <3> QED BY <1>1, <1>3, <2>1, <3>1 DEF SampledMarketsMarked
  <2> QED BY <1>13, <2>2, <2>3, <2>4 DEF IInv
<1>15. CASE ~Active(Perp) \/ px = NoPrice
  <2>1. /\ details'.mark = details.mark /\ details'.refreshed = details.refreshed
        /\ details'.n = details.n /\ basis' = basis
    BY <1>6, <1>7, <1>8, <1>15 DEF history
  <2>2. ClocksBehind' /\ MarkBacked'
    <3>1. details.mark # 0 => details.refreshed <= now
      BY DEF IInv, ClocksBehind
    <3> QED BY <1>1, <1>3, <2>1, <3>1 DEF IInv, ClocksBehind, MarkBacked, Early
  <2>3. MarkNearOracle'
    BY <1>1, <1>3, <2>1 DEF MarketDetails, MarkNearOracle
  <2>4. SampledMarketsMarked'
    BY <1>1, <2>1 DEF IInv, SampledMarketsMarked, Active, market
  <2> QED BY <1>13, <2>2, <2>3, <2>4 DEF IInv
<1> QED BY <1>14, <1>15

\* The round clears the samples, so nothing has to be newer than it.
LEMMA SettleInv ==
  ASSUME IInv, SettleAllMarkets
  PROVE  IInv'
<1>1. /\ phase = "settle" /\ phase' = "deliver" /\ lastRound' = now
      /\ UNCHANGED <<now, proposal, stored, market, history>>
      /\ details' = IF Active(Perp) THEN settleMarket(details) ELSE details
  BY DEF SettleAllMarkets
<1>2. now \in Nat /\ details \in MarketDetails
  BY DEF IInv, TypeOK
<1>3. /\ details' \in MarketDetails /\ details'.mark = details.mark
      /\ details'.refreshed = details.refreshed
      /\ details'.small = details.small /\ details'.big = details.big
      /\ Active(Perp) => details'.n = 0
  BY <1>1, <1>2, SettleKeepsMark
<1>4. TypeOK'
  BY <1>1, <1>3 DEF IInv, TypeOK, market, history
<1>5. ClocksBehind' /\ MarkBacked'
  BY <1>1, <1>2, <1>3 DEF IInv, ClocksBehind, MarkBacked, Early, history
<1>6. MarkNearOracle'
  BY <1>1, <1>3 DEF IInv, MarkNearOracle, Active, market
<1>7. SampledMarketsMarked'
  BY <1>1, <1>3 DEF SampledMarketsMarked, Active, market
<1> QED BY <1>4, <1>5, <1>6, <1>7 DEF IInv

\* A message is counted, within the bound.
LEMMA MessageCounted ==
  ASSUME TypeOK, Message
  PROVE  phase = "deliver" /\ msgs' \in 0..MaxMsgs
<1>1. MaxMsgs \in Nat /\ msgs \in 0..MaxMsgs
  BY PricesAssumption DEF TypeOK
<1> QED BY <1>1 DEF Message

LEMMA CreateMarketInv ==
  ASSUME IInv, NEW m \in Markets, NEW x \in NewExpiries, CreateMarket(m, x)
  PROVE  IInv'
<1>1. /\ phase = "deliver" /\ msgs' \in 0..MaxMsgs
      /\ UNCHANGED <<now, phase, proposal, stored, lastRound, params, history>>
      /\ markets' = [markets EXCEPT ![m] = [status |-> "active", expiry |-> x]]
  <2>1. phase = "deliver" /\ msgs' \in 0..MaxMsgs
    BY MessageCounted DEF CreateMarket, IInv
  <2> QED BY <2>1 DEF CreateMarket
<1>2. markets' \in [Markets -> Market]
  <2>1. [status |-> "active", expiry |-> x] \in Market
    BY PricesAssumption DEF Market
  <2> QED BY <1>1, <2>1 DEF IInv, TypeOK
<1>3. CASE m = Perp
  <2>1. \E s \in Seeds, t \in Terms : details' = resetRuntimeDetails(s, t)
    BY <1>3 DEF CreateMarket
  <2>2. /\ details' \in MarketDetails /\ details'.small <= details'.big
        /\ details'.mark = 0 /\ details'.n = 0
    BY <2>1, PricesAssumption DEF resetRuntimeDetails, MarketDetails
  <2>3. TypeOK'
    BY <1>1, <1>2, <2>2 DEF IInv, TypeOK, history
  <2>4. ClocksBehind' /\ MarkBacked' /\ MarkNearOracle' /\ SampledMarketsMarked'
    BY <1>1, <2>2
       DEF IInv, ClocksBehind, MarkBacked, MarkNearOracle, SampledMarketsMarked, Early
  <2> QED BY <2>3, <2>4 DEF IInv
<1>4. CASE m # Perp
  <2>1. details' = details
    BY <1>4 DEF CreateMarket
  <2>2. TypeOK'
    BY <1>1, <1>2, <2>1 DEF IInv, TypeOK, history
  <2>3. ClocksBehind' /\ MarkBacked'
    BY <1>1, <2>1 DEF IInv, ClocksBehind, MarkBacked, Early, history
  <2>4. Active(Perp)' = Active(Perp)
    BY <1>1, <1>4, PricesAssumption DEF Active, IInv, TypeOK
  <2>5. MarkNearOracle' /\ SampledMarketsMarked'
    BY <1>1, <2>1, <2>4 DEF IInv, MarkNearOracle, SampledMarketsMarked
  <2> QED BY <2>2, <2>3, <2>5 DEF IInv
<1> QED BY <1>3, <1>4

\* An update leaves the market active or ends it.
LEMMA UpdateMarketInv ==
  ASSUME IInv, NEW m \in Markets, NEW x \in NewExpiries, NEW s \in {"active", "expired"},
         UpdateMarket(m, s, x)
  PROVE  IInv'
<1>1. /\ phase = "deliver" /\ msgs' \in 0..MaxMsgs
      /\ UNCHANGED <<now, phase, proposal, stored, details, lastRound, params, history>>
      /\ markets[m].status = "active"
      /\ markets' = [markets EXCEPT ![m] = [status |-> s, expiry |-> x]]
  <2>1. phase = "deliver" /\ msgs' \in 0..MaxMsgs
    BY MessageCounted DEF UpdateMarket, IInv
  <2> QED BY <2>1 DEF UpdateMarket, Updatable
<1>2. markets' \in [Markets -> Market]
  <2>1. [status |-> s, expiry |-> x] \in Market
    BY PricesAssumption DEF Market
  <2> QED BY <1>1, <2>1 DEF IInv, TypeOK
<1>3. TypeOK'
  BY <1>1, <1>2 DEF IInv, TypeOK, history
<1>4. ClocksBehind' /\ MarkBacked'
  BY <1>1 DEF IInv, ClocksBehind, MarkBacked, Early, history
<1>5. Active(Perp)' => Active(Perp)
  BY <1>1, PricesAssumption DEF Active, IInv, TypeOK
<1>6. MarkNearOracle' /\ SampledMarketsMarked'
  BY <1>1, <1>5 DEF IInv, MarkNearOracle, SampledMarketsMarked
<1> QED BY <1>3, <1>4, <1>6 DEF IInv

LEMMA GovernanceInv ==
  ASSUME IInv,
         (\E t \in Terms : UpdateMarketDetails(t)) \/ (\E p \in ParamSets : UpdateParams(p))
  PROVE  IInv'
<1>1. /\ phase = "deliver" /\ msgs' \in 0..MaxMsgs
      /\ UNCHANGED <<now, phase, proposal, stored, lastRound, markets, expiryIndex, history>>
      /\ params' \in ParamSets
  <2>1. phase = "deliver" /\ msgs' \in 0..MaxMsgs
    BY MessageCounted DEF UpdateMarketDetails, UpdateParams, IInv
  <2> QED BY <2>1 DEF UpdateMarketDetails, UpdateParams, IInv, TypeOK
<1>2. \/ details' = details
      \/ \E t \in Terms : details' = [details EXCEPT !.small = t.small, !.big = t.big,
                                                      !.rate = t.rate]
  BY DEF UpdateMarketDetails, UpdateParams
<1>3. /\ details' \in MarketDetails /\ details'.small <= details'.big
      /\ details'.mark = details.mark /\ details'.refreshed = details.refreshed
      /\ details'.n = details.n
  BY <1>2, PricesAssumption DEF IInv, TypeOK, MarketDetails
<1>4. TypeOK'
  BY <1>1, <1>3 DEF IInv, TypeOK, history
<1>5. ClocksBehind' /\ MarkBacked'
  BY <1>1, <1>3 DEF IInv, ClocksBehind, MarkBacked, Early, history
<1>6. MarkNearOracle' /\ SampledMarketsMarked'
  BY <1>1, <1>3 DEF IInv, MarkNearOracle, SampledMarketsMarked, Active
<1> QED BY <1>4, <1>5, <1>6 DEF IInv

\* The clock moves on, so everything there is lies behind it.
LEMMA EndBlockerInv ==
  ASSUME IInv, NEW gap \in Gaps, EndBlocker(gap)
  PROVE  IInv'
<1>1. /\ phase = "deliver" /\ phase' = "propose" /\ now' = now + gap
      /\ UNCHANGED <<proposal, stored, details, lastRound, params, msgs, history>>
      /\ markets' = [m \in Markets |->
           IF \E e \in iterateExpired : e[2] = m THEN [markets[m] EXCEPT !.status = "expired"]
                                                 ELSE markets[m]]
  BY DEF EndBlocker
<1>2. now \in Nat /\ now' \in Nat /\ now < now'
  BY <1>1, PricesAssumption DEF IInv, TypeOK
<1>3. markets' \in [Markets -> Market]
  BY <1>1 DEF IInv, TypeOK, Market
<1>4. TypeOK'
  BY <1>1, <1>2, <1>3 DEF IInv, TypeOK, history
<1>5. stored.time \in Nat /\ lastRound \in Nat /\ details.refreshed \in Nat
  BY DEF IInv, TypeOK, OraclePrice, MarketDetails
<1>6. ClocksBehind' /\ MarkBacked'
  BY <1>1, <1>2, <1>5 DEF IInv, ClocksBehind, MarkBacked, Early, history
<1>7. Active(Perp)' => Active(Perp)
  BY <1>1, PricesAssumption DEF Active, IInv, TypeOK, Market
<1>8. MarkNearOracle' /\ SampledMarketsMarked'
  BY <1>1, <1>7 DEF IInv, MarkNearOracle, SampledMarketsMarked
<1> QED BY <1>4, <1>6, <1>8 DEF IInv

LEMMA NextInv ==
  ASSUME IInv, [Next]_vars
  PROVE  IInv'
<1>1. CASE Next
  BY <1>1, ProposalInv, PreBlockerInv, BeginBlockerInv, SettleInv, CreateMarketInv,
     UpdateMarketInv, GovernanceInv, EndBlockerInv DEF Next
<1>2. CASE UNCHANGED vars
  BY <1>2 DEF vars, market, history, IInv, TypeOK, ClocksBehind, MarkBacked, MarkNearOracle,
              SampledMarketsMarked, Early, Active
<1> QED BY <1>1, <1>2

\* Everything the invariant says holds in every reachable state.
THEOREM PricesInvariant == Spec => []IInv
<1>1. Init => IInv
  BY InitInv
<1>2. IInv /\ [Next]_vars => IInv'
  BY NextInv
<1> QED BY <1>1, <1>2, PTL DEF Spec

-----------------------------------------------------------------------------
(* The theorems about the mark. *)

\* refreshMarkPrice keeps the mark of an active market between the oracle's
\* mark and the band around its index.
THEOREM MarkNearOracleHolds == Spec => []MarkNearOracle
<1>1. IInv => MarkNearOracle
  BY DEF IInv
<1> QED BY <1>1, PricesInvariant, PTL

\* A funding round settles only a market with a mark, refreshed since the
\* round before (the claim above settleMarket).
THEOREM SampledMarketsMarkedHolds == Spec => []SampledMarketsMarked
<1>1. IInv => SampledMarketsMarked
  BY DEF IInv
<1> QED BY <1>1, PricesInvariant, PTL

\* A mark that passes gateMarkPrice rests on votes no older than the two age
\* limits together.
THEOREM GatedMarkFreshHolds == Spec => []GatedMarkFresh
<1>1. IInv => GatedMarkFresh
  <2> SUFFICES ASSUME IInv, gateMarkPrice, params.staleness > 0
               PROVE  now - basis <= MaxAgeMs + params.staleness
    BY DEF GatedMarkFresh
  <2>1. now - details.refreshed <= params.staleness
    BY DEF gateMarkPrice
  <2>2. details.refreshed - basis <= MaxAgeMs
    BY DEF gateMarkPrice, IInv, MarkBacked
  <2>3. /\ now \in Nat /\ details.refreshed \in Nat /\ basis \in Nat /\ params.staleness \in Nat
        /\ MaxAgeMs \in Nat
    BY PricesAssumption, OracleAssumption DEF IInv, TypeOK, MarketDetails
  <2> QED BY <2>1, <2>2, <2>3
<1> QED BY <1>1, PricesInvariant, PTL

-----------------------------------------------------------------------------
(* The lifecycle of markets. *)

\* updateMarket (and createMarket) move the entry of the one market they write.
LEMMA EntryMoves ==
  ASSUME NEW m \in Markets, NEW new \in Market, markets \in [Markets -> Market],
         ExpiryIndexExact,
         markets' = [markets EXCEPT ![m] = new], expiryIndex' = updateMarket(m, new)
  PROVE  ExpiryIndexExact'
<1>1. \A e : e \in expiryIndex <=>
              \E k \in Markets : Indexed(markets[k]) /\ e = <<markets[k].expiry, k>>
  BY DEF ExpiryIndexExact
<1>2. \A e : e \in expiryIndex' <=>
              \/ e \in expiryIndex /\ ~(Indexed(markets[m]) /\ e = <<markets[m].expiry, m>>)
              \/ Indexed(new) /\ e = <<new.expiry, m>>
  BY DEF updateMarket, Entry
<1>3. markets'[m] = new /\ \A k \in Markets \ {m} : markets'[k] = markets[k]
  OBVIOUS
<1>4. \A e : e \in expiryIndex' <=>
              \E k \in Markets : Indexed(markets'[k]) /\ e = <<markets'[k].expiry, k>>
  <2> SUFFICES ASSUME NEW e
               PROVE  e \in expiryIndex' <=>
                        \E k \in Markets : Indexed(markets'[k]) /\ e = <<markets'[k].expiry, k>>
    OBVIOUS
  <2>1. ASSUME e \in expiryIndex'
        PROVE  \E k \in Markets : Indexed(markets'[k]) /\ e = <<markets'[k].expiry, k>>
    BY <1>1, <1>2, <1>3, <2>1
  <2>2. ASSUME NEW k \in Markets, Indexed(markets'[k]), e = <<markets'[k].expiry, k>>
        PROVE  e \in expiryIndex'
    <3>1. CASE k = m
      BY <1>2, <1>3, <2>2, <3>1
    <3>2. CASE k # m
      BY <1>1, <1>2, <1>3, <2>2, <3>2
    <3> QED BY <3>1, <3>2
  <2> QED BY <2>1, <2>2
<1> QED BY <1>4 DEF ExpiryIndexExact, Indexed

\* iterateExpired takes out exactly the entries of the markets it expires.
LEMMA EntriesExpire ==
  ASSUME NEW gap \in Gaps, EndBlocker(gap), markets \in [Markets -> Market], ExpiryIndexExact
  PROVE  ExpiryIndexExact'
<1> DEFINE out == iterateExpired
<1>1. /\ markets' = [m \in Markets |->
           IF \E e \in out : e[2] = m THEN [markets[m] EXCEPT !.status = "expired"]
                                      ELSE markets[m]]
      /\ expiryIndex' = expiryIndex \ out
  BY DEF EndBlocker
<1>2. out \subseteq expiryIndex
  BY DEF iterateExpired, Due
<1> HIDE DEF out
<1>3. \A e : e \in expiryIndex <=>
              \E k \in Markets : Indexed(markets[k]) /\ e = <<markets[k].expiry, k>>
  BY DEF ExpiryIndexExact
<1>4. \A k \in Markets : (\E e \in out : e[2] = k) => ~Indexed(markets'[k])
  BY <1>1 DEF Indexed, Market
<1>5. \A k \in Markets : ~(\E e \in out : e[2] = k) => markets'[k] = markets[k]
  BY <1>1
<1>6. \A e : e \in expiryIndex' <=>
              \E k \in Markets : Indexed(markets'[k]) /\ e = <<markets'[k].expiry, k>>
  <2> SUFFICES ASSUME NEW e
               PROVE  e \in expiryIndex' <=>
                        \E k \in Markets : Indexed(markets'[k]) /\ e = <<markets'[k].expiry, k>>
    OBVIOUS
  <2>1. ASSUME e \in expiryIndex'
        PROVE  \E k \in Markets : Indexed(markets'[k]) /\ e = <<markets'[k].expiry, k>>
    <3>1. e \in expiryIndex /\ e \notin out
      BY <1>1, <2>1
    <3>2. PICK k \in Markets : Indexed(markets[k]) /\ e = <<markets[k].expiry, k>>
      BY <1>3, <3>1
    <3>3. ASSUME NEW f \in out, f[2] = k
          PROVE  FALSE
      <4>1. PICK j \in Markets : f = <<markets[j].expiry, j>>
        BY <1>2, <1>3
      <4>2. j = k
        BY <3>3, <4>1
      <4> QED BY <3>1, <3>2, <4>1, <4>2
    <3>4. markets'[k] = markets[k]
      BY <1>5, <3>3
    <3> QED BY <3>2, <3>4
  <2>2. ASSUME NEW k \in Markets, Indexed(markets'[k]), e = <<markets'[k].expiry, k>>
        PROVE  e \in expiryIndex'
    <3>1. ~(\E f \in out : f[2] = k)
      BY <1>4, <2>2
    <3>2. markets'[k] = markets[k]
      BY <1>5, <3>1
    <3>3. e \in expiryIndex
      BY <1>3, <2>2, <3>2
    <3>4. e[2] = k
      BY <2>2
    <3> QED BY <1>1, <3>1, <3>3, <3>4
  <2> QED BY <2>1, <2>2
<1> QED BY <1>6 DEF ExpiryIndexExact, Indexed

\* No sequence of creations, updates and expiries makes the expiry index list
\* anything but the active markets with an expiry.
THEOREM ExpiryIndexExactHolds == Spec => []ExpiryIndexExact
<1>1. Init => ExpiryIndexExact
  BY DEF Init, ExpiryIndexExact
<1>2. IInv /\ ExpiryIndexExact /\ [Next]_vars => ExpiryIndexExact'
  <2> SUFFICES ASSUME IInv, ExpiryIndexExact, [Next]_vars
               PROVE  ExpiryIndexExact'
    OBVIOUS
  <2>1. markets \in [Markets -> Market]
    BY DEF IInv, TypeOK
  <2>2. CASE UNCHANGED <<markets, expiryIndex>>
    BY <2>2 DEF ExpiryIndexExact
  <2>3. ASSUME NEW m \in Markets, NEW x \in NewExpiries, CreateMarket(m, x)
        PROVE  ExpiryIndexExact'
    <3> DEFINE new == [status |-> "active", expiry |-> x]
    <3>1. new \in Market
      BY PricesAssumption DEF Market
    <3>2. markets' = [markets EXCEPT ![m] = new] /\ expiryIndex' = updateMarket(m, new)
      BY <2>3 DEF CreateMarket
    <3> HIDE DEF new
    <3> QED BY <2>1, <3>1, <3>2, EntryMoves
  <2>4. ASSUME NEW m \in Markets, NEW x \in NewExpiries, NEW s \in {"active", "expired"},
               UpdateMarket(m, s, x)
        PROVE  ExpiryIndexExact'
    <3> DEFINE new == [status |-> s, expiry |-> x]
    <3>1. new \in Market
      BY PricesAssumption DEF Market
    <3>2. markets' = [markets EXCEPT ![m] = new] /\ expiryIndex' = updateMarket(m, new)
      BY <2>4 DEF UpdateMarket
    <3> HIDE DEF new
    <3> QED BY <2>1, <3>1, <3>2, EntryMoves
  <2>5. ASSUME NEW gap \in Gaps, EndBlocker(gap)
        PROVE  ExpiryIndexExact'
    BY <2>1, <2>5, EntriesExpire
  <2>6. \/ UNCHANGED <<markets, expiryIndex>>
        \/ \E m \in Markets, x \in NewExpiries :
             CreateMarket(m, x) \/ \E s \in {"active", "expired"} : UpdateMarket(m, s, x)
        \/ \E gap \in Gaps : EndBlocker(gap)
    BY DEF Next, vars, market, PrepareProposal, Rejected, PreBlocker, BeginBlocker,
           SettleAllMarkets, UpdateMarketDetails, UpdateParams
  <2> QED BY <2>2, <2>3, <2>4, <2>5, <2>6
<1> QED BY <1>1, <1>2, PricesInvariant, PTL DEF Spec

\* No step of any module takes an expired market back, or moves the mark or
\* the funding of one.
THEOREM ExpiredMarketsStopHolds == Spec => ExpiredMarketsStop
<1>1. IInv /\ [Next]_vars => [ExpiredStay]_vars
  <2> SUFFICES ASSUME IInv, Next, NEW m \in Markets, markets[m].status = "expired"
               PROVE  /\ markets'[m] = markets[m]
                      /\ m = Perp => /\ details'.mark = details.mark /\ details'.ema = details.ema
                                     /\ details'.prefix = details.prefix
                                     /\ details'.n = details.n
    BY DEF ExpiredStay
  <2>1. markets \in [Markets -> Market] /\ details \in MarketDetails
    BY DEF IInv, TypeOK
  <2>2. markets'[m] = markets[m]
    <3>1. ASSUME NEW k \in Markets, NEW x \in NewExpiries,
                 CreateMarket(k, x) \/ \E s \in {"active", "expired"} : UpdateMarket(k, s, x)
          PROVE  markets'[m] = markets[m]
      BY <2>1, <3>1 DEF CreateMarket, UpdateMarket, Updatable
    <3>2. ASSUME NEW gap \in Gaps, EndBlocker(gap)
          PROVE  markets'[m] = markets[m]
      <4>1. markets'[m] \in {markets[m], [markets[m] EXCEPT !.status = "expired"]}
        BY <3>2 DEF EndBlocker
      <4>2. [markets[m] EXCEPT !.status = "expired"] = markets[m]
        BY <2>1 DEF Market
      <4> QED BY <4>1, <4>2
    <3> QED BY <3>1, <3>2 DEF Next, market, PrepareProposal, Rejected, PreBlocker,
                              BeginBlocker, SettleAllMarkets, UpdateMarketDetails, UpdateParams
  <2>3. ASSUME m = Perp
        PROVE  /\ details'.mark = details.mark /\ details'.ema = details.ema
               /\ details'.prefix = details.prefix /\ details'.n = details.n
    <3>1. ~Active(Perp)
      BY <2>3 DEF Active
    <3>2. \/ details' = details
          \/ \E t \in Terms : UpdateMarketDetails(t)
      BY <2>3, <3>1
         DEF Next, PrepareProposal, Rejected, PreBlocker, BeginBlocker, SettleAllMarkets,
             CreateMarket, UpdateMarket, UpdateParams, EndBlocker
    <3>3. ASSUME NEW t \in Terms, UpdateMarketDetails(t)
          PROVE  /\ details'.mark = details.mark /\ details'.ema = details.ema
                 /\ details'.prefix = details.prefix /\ details'.n = details.n
      <4>1. details' = [details EXCEPT !.small = t.small, !.big = t.big, !.rate = t.rate]
        BY <3>3 DEF UpdateMarketDetails
      <4> QED BY <2>1, <4>1 DEF MarketDetails
    <3> QED BY <3>2, <3>3
  <2> QED BY <2>2, <2>3
<1> QED BY <1>1, PricesInvariant, PTL DEF Spec, ExpiredMarketsStop
=============================================================================
