----------------------------- MODULE PerpTrade -----------------------------
(***************************************************************************)
(* The perp trade engine (x/trade/keeper/perp), the funding settlement of  *)
(* a position (x/funding) and the account-wide risk checks (x/risk), as    *)
(* operators on a ledger                                                   *)
(*   pos[a][m], collateral[a]   rows of x/account                          *)
(*   oi[m], mark[m], prefix[m]  fields of x/market's MarketDetails         *)
(*   gated                      markets whose mark gateMarkPrice refuses   *)
(***************************************************************************)
EXTENDS PositionMath, FiniteSets, FiniteSetsExt

CONSTANTS
  Accounts, Markets,
  Treasury, InsuranceFund,         \* TreasuryAccountIndex, InsuranceFundOperatorAccountIdx
  MaxPositionSize, MaxEntryQuote,
  OpenInterestLimit                \* 0: no limit

ASSUME TradeAssumption ==
  /\ IsFiniteSet(Accounts) /\ IsFiniteSet(Markets)
  /\ {Treasury, InsuranceFund} \subseteq Accounts /\ Treasury # InsuranceFund
  /\ MaxPositionSize \in Nat /\ MaxEntryQuote \in Nat /\ OpenInterestLimit \in Nat

LedgerType ==
  [pos: [Accounts -> [Markets -> Position]], collateral: [Accounts -> Int],
   oi: [Markets -> Nat], mark: [Markets -> Nat], prefix: [Markets -> Int],
   gated: SUBSET Markets]

\* AddCollateral: no lower bound of its own.
AddCollateral(l, a, delta) == [l EXCEPT !.collateral[a] = @ + delta]

\* GetMarkPriceAndDetails succeeds.
Marked(l, m) == l.mark[m] # 0 /\ m \notin l.gated

-----------------------------------------------------------------------------
(* Funding. *)

\* SettlePositionFunding: the payment is folded into the entry quote.
SettlePositionFunding(l, a, m) ==
  LET p == l.pos[a][m]
      pay == Quo(p.size * (l.prefix[m] - p.last), FundingRateTick)
  IN [l EXCEPT !.pos[a][m] = [p EXCEPT !.entry = @ + pay, !.last = l.prefix[m]]]

\* Mutant: nothing is settled before a withdrawal.
settleNoFunding(l, a) == l

\* settleAllPositionFunding: every open position of an account.
settleAllPositionFunding(l, a) ==
  [l EXCEPT !.pos[a] = [m \in Markets |->
     IF @[m].size = 0 THEN @[m] ELSE SettlePositionFunding(l, a, m).pos[a][m]]]

-----------------------------------------------------------------------------
(* Risk. *)

Open(l, a, isolated) == {m \in Markets : l.pos[a][m].size # 0 /\ l.pos[a][m].isolated = isolated}

\* ComputeCrossRisk: isolated positions are left out.
ComputeCrossRisk(l, a) ==
  LET At(m) == RiskOf(l.pos[a][m], l.mark[m], 0)
      tav(m) == At(m).tav
      imr(m) == At(m).imr
      mmr(m) == At(m).mmr
      cmr(m) == At(m).cmr
      S == Open(l, a, FALSE)
  IN [collateral |-> l.collateral[a],
      tav |-> l.collateral[a] + MapThenSumSet(tav, S),
      imr |-> MapThenSumSet(imr, S),
      mmr |-> MapThenSumSet(mmr, S),
      cmr |-> MapThenSumSet(cmr, S)]

ComputeIsolatedRisk(l, a, m) == RiskOf(l.pos[a][m], l.mark[m], l.pos[a][m].alloc)

\* The cross risk, or the whole risk of an account, can be computed.
CrossReadable(l, a) == \A m \in Open(l, a, FALSE) : Marked(l, m)
RiskReadable(l, a) == CrossReadable(l, a) /\ \A m \in Open(l, a, TRUE) : Marked(l, m)

\* GetAvailableUsdcCollateral: what an isolated position may draw.
GetAvailableUsdcCollateral(l, a) ==
  LET r == ComputeCrossRisk(l, a)
  IN IF HealthStatus(r) # Healthy \/ r.collateral < 0 THEN 0
     ELSE Smaller(Larger(r.tav - r.imr, 0), r.collateral)

\* Mutant: isolated positions are not checked.
IsValidCrossChange(pre, post, a) ==
  classifyChange(ComputeCrossRisk(pre, a), ComputeCrossRisk(post, a))

\* IsValidRiskChangeFrom: the cross account and each isolated position of post
\* against pre; a position that pre does not have must be healthy.
IsValidRiskChangeFrom(pre, post, a) ==
  /\ classifyChange(ComputeCrossRisk(pre, a), ComputeCrossRisk(post, a))
  /\ \A m \in Open(post, a, TRUE) :
       IF m \in Open(pre, a, TRUE)
       THEN classifyChange(ComputeIsolatedRisk(pre, a, m), ComputeIsolatedRisk(post, a, m))
       ELSE HealthStatus(ComputeIsolatedRisk(post, a, m)) = Healthy

-----------------------------------------------------------------------------
(* One side of a fill. *)

isWithinPositionBounds(p) == Abs(p.size) <= MaxPositionSize /\ Abs(p.entry) <= MaxEntryQuote

\* applyPositionChange: the row gets its new size and entry quote.
applyPositionChange(l, a, m, c) ==
  [l EXCEPT !.pos[a][m].size = c.size, !.pos[a][m].entry = c.entry]

\* What an isolated position gets from (or, negative, gives back to) the cross
\* collateral: old is the row before the fill, new the row with profit less fees.
IsolatedRow(l, a, m, c, cost) == [l.pos[a][m] EXCEPT !.alloc = @ + c.pnl - cost]
MarginDelta(l, a, m, old, c, fee, liqFee) ==
  calculateIsolatedMarginDelta(old, IsolatedRow(l, a, m, c, fee + liqFee), c.flipped, l.mark[m], fee)

\* applyCrossAccount: profit less fees goes to the cross collateral.
applyCrossAccount(l, a, c, fee, liqFee) == AddCollateral(l, a, c.pnl - fee - liqFee)

\* Mutant: the rebalance forgets to debit the cross collateral.
applyIsolatedFree(l, a, m, old, c, fee, liqFee) ==
  LET delta == MarginDelta(l, a, m, old, c, fee, liqFee)
  IN [l EXCEPT !.pos[a][m].alloc = @ + c.pnl - fee - liqFee + delta]

\* applyIsolatedAccount: profit less fees goes to the margin of the position, which
\* is then rebalanced.
applyIsolatedAccount(l, a, m, old, c, fee, liqFee) ==
  LET delta == MarginDelta(l, a, m, old, c, fee, liqFee)
  IN [AddCollateral(l, a, -delta) EXCEPT !.pos[a][m].alloc = @ + c.pnl - fee - liqFee + delta]

applyAccount(l, a, m, old, c, fee, liqFee) ==
  IF old.isolated THEN applyIsolatedAccount(l, a, m, old, c, fee, liqFee)
  ELSE applyCrossAccount(l, a, c, fee, liqFee)

\* Mutant: the draw on the cross collateral is not checked.
RebalancesUnchecked(l, a, m, old, c, fee, liqFee, skip, err) == "ok"

\* What rebalanceIsolatedMargin returns.
Rebalances(l, a, m, old, c, fee, liqFee, skip, err) ==
  LET delta == MarginDelta(l, a, m, old, c, fee, liqFee)
  IN IF ~old.isolated \/ c.size = 0 THEN "ok"
     ELSE IF ~Marked(l, m) THEN "hard"
     ELSE IF delta <= 0 \/ skip THEN "ok"
     ELSE IF ~CrossReadable(l, a) THEN "hard"
     ELSE IF GetAvailableUsdcCollateral(l, a) < delta THEN err
     ELSE "ok"

-----------------------------------------------------------------------------
(* A fill. f has the fields of perp.Fill. *)

\* liquidationImprovementFee and the two fees; NoFee waives them all.
MakerFeeOf(f) == IF f.noFee THEN 0 ELSE FeeOf(f.base * f.price, f.makerFee)
TakerFeeOf(f) == IF f.noFee THEN 0 ELSE FeeOf(f.base * f.price, f.takerFee)
LiqFeeOf(f) == IF f.noFee THEN 0 ELSE liquidationImprovementFee(f)

\* Mutant: open interest counts the volume of the taker only.
openInterestOfTaker(c, d, old, peer) == Abs(d.size) - Abs(peer.size)

\* Half of what the two sides add to the sum of |size|.
OIDelta(c, d, old, peer) ==
  Quo((Abs(c.size) - Abs(old.size)) + (Abs(d.size) - Abs(peer.size)), 2)

\* UpdateOpenInterest accepts the new value.
OpenInterestFits(n) == n >= 0 /\ (OpenInterestLimit > 0 => n <= OpenInterestLimit)

\* The ledger after each stage of Engine.Apply, and the changes of both sides.
Stages(l, f) ==
  LET m == f.market
      makerDelta == IF f.takerAsk THEN f.base ELSE -f.base
      settled == SettlePositionFunding(SettlePositionFunding(l, f.maker, m), f.taker, m)
      makerOld == settled.pos[f.maker][m]
      takerOld == settled.pos[f.taker][m]
      makerRes == ApplyFill(makerOld, makerDelta, f.price)
      takerRes == ApplyFill(takerOld, -makerDelta, f.price)
      booked == applyPositionChange(applyPositionChange(settled, f.maker, m, makerRes),
                                    f.taker, m, takerRes)
      takerDone == applyAccount(booked, f.taker, m, takerOld, takerRes, TakerFeeOf(f), 0)
      makerDone == applyAccount(takerDone, f.maker, m, makerOld, makerRes, MakerFeeOf(f), LiqFeeOf(f))
      treasury == AddCollateral(makerDone, Treasury, TakerFeeOf(f) + MakerFeeOf(f))
      \* Recipient 0 is unset; 0 is also the index of the treasury.
      recipient == IF f.recipient = Treasury THEN InsuranceFund ELSE f.recipient
      credited == AddCollateral(treasury, recipient, LiqFeeOf(f))
      interest == l.oi[m] + OIDelta(makerRes, takerRes, makerOld, takerOld)
  IN [settled |-> settled, makerOld |-> makerOld, takerOld |-> takerOld,
      makerRes |-> makerRes, takerRes |-> takerRes,
      booked |-> booked, takerDone |-> takerDone,
      done |-> [credited EXCEPT !.oi[m] = interest]]

\* What Engine.Apply returns ("ok", a maker or taker error, or any other error, "hard",
\* the first that occurs) and what it has written by then; s is Stages(l, f).
Outcome(l, f, s) ==
  LET m == f.market
      checkMaker == ~f.noRiskCheck /\ ~f.skipMaker
      checkTaker == ~f.noRiskCheck /\ ~f.skipTaker
      takerRebalance == Rebalances(s.booked, f.taker, m, s.takerOld, s.takerRes,
                                   TakerFeeOf(f), 0, f.noRiskCheck, "taker")
      makerRebalance == Rebalances(s.takerDone, f.maker, m, s.makerOld, s.makerRes,
                                   MakerFeeOf(f), LiqFeeOf(f), ~checkMaker, "maker")
      \* Only an isolated row can fail to rebalance; profit and fees are in it by then.
      Unbalanced(b, a, c, cost) == [b EXCEPT !.pos[a][m] = IsolatedRow(b, a, m, c, cost)]
      Returns(result, b) == [result |-> result, ledger |-> b]
  IN IF \/ checkMaker /\ ~RiskReadable(s.settled, f.maker)
        \/ checkTaker /\ ~RiskReadable(s.settled, f.taker) THEN Returns("hard", s.settled)
     ELSE IF ~isWithinPositionBounds(s.makerRes) THEN Returns("maker", s.settled)
     ELSE IF ~isWithinPositionBounds(s.takerRes) THEN
       Returns("taker", applyPositionChange(s.settled, f.maker, m, s.makerRes))
     ELSE IF takerRebalance # "ok" THEN
       Returns(takerRebalance, Unbalanced(s.booked, f.taker, s.takerRes, TakerFeeOf(f)))
     ELSE IF makerRebalance # "ok" THEN
       Returns(makerRebalance, Unbalanced(s.takerDone, f.maker, s.makerRes, MakerFeeOf(f) + LiqFeeOf(f)))
     ELSE IF ~OpenInterestFits(s.done.oi[m]) THEN Returns("hard", [s.done EXCEPT !.oi = l.oi])
     ELSE IF checkTaker /\ ~RiskReadable(s.done, f.taker) THEN Returns("hard", s.done)
     ELSE IF checkTaker /\ ~IsValidRiskChangeFrom(s.settled, s.done, f.taker) THEN Returns("taker", s.done)
     ELSE IF checkMaker /\ ~RiskReadable(s.done, f.maker) THEN Returns("hard", s.done)
     ELSE IF checkMaker /\ ~IsValidRiskChangeFrom(s.settled, s.done, f.maker) THEN Returns("maker", s.done)
     ELSE Returns("ok", s.done)

ApplyResult(l, f) == Outcome(l, f, Stages(l, f)).result

\* The ledger after a fill that succeeds. One that fails changes nothing when its caller
\* gives it a cache context or reverts the message.
Apply(l, f) == Stages(l, f).done

\* A fill on the block context: what a failing one has written stays.
Applied(l, f) == Outcome(l, f, Stages(l, f))
=============================================================================
