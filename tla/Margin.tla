------------------------------- MODULE Margin -------------------------------
(***************************************************************************)
(* Collateral, positions and open interest under user trades, the account  *)
(* messages of x/account, and the mark prices and funding rounds of        *)
(* x/funding. A message that fails leaves no trace, so only successes are  *)
(* steps.                                                                  *)
(***************************************************************************)
EXTENDS PerpTrade

CONSTANTS
  Traders,              \* accounts of users
  Fills,                \* the fills the matching engine may ask for
  Amounts,              \* amounts of deposits, withdrawals and margin updates
  Marks, Rates,         \* mark prices and funding rates of a round
  ExtensionMultiplier,  \* internal units of collateral per coin
  Funds,                \* coins each trader deposits at first
  MaxSteps              \* bound on the steps of a behaviour

ASSUME MarginAssumption ==
  /\ Traders \subseteq Accounts \ {Treasury, InsuranceFund}
  /\ \A f \in Fills :
       /\ {f.maker, f.taker} \subseteq Traders /\ f.maker # f.taker /\ f.market \in Markets
       /\ f.price \in Nat \ {0} /\ f.base \in Nat \ {0} /\ f.takerAsk \in BOOLEAN
       /\ f.makerFee \in Int /\ f.takerFee \in Int
  /\ Amounts \subseteq Nat \ {0} /\ Marks \subseteq Nat \ {0} /\ Rates \subseteq Int
  /\ ExtensionMultiplier \in Nat \ {0} /\ Funds \in Nat /\ MaxSteps \in Nat

VARIABLES
  ledger,
  vault,     \* coins of the module account, in the bank module
  steps,     \* steps taken, up to MaxSteps
  roundings  \* history: settlements and decreases so far that did not divide evenly

vars == <<ledger, vault, steps, roundings>>

Init ==
  /\ ledger = [pos |-> [a \in Accounts |-> [m \in Markets |-> NoPosition]],
               collateral |-> [a \in Accounts |->
                 IF a \in Traders THEN Funds * ExtensionMultiplier ELSE 0],
               oi |-> [m \in Markets |-> 0],
               mark |-> [m \in Markets |-> 0],
               prefix |-> [m \in Markets |-> 0],
               gated |-> {}]
  /\ vault = Funds * Cardinality(Traders)
  /\ steps = 0
  /\ roundings = 0

\* A counted step in which n divisions of an amount had a remainder.
Took(n) == steps < MaxSteps /\ steps' = steps + 1 /\ roundings' = roundings + n

Uneven(n, d) == IF n % d = 0 THEN 0 ELSE 1

\* Of the settlement of one position, of all positions of an account, and of a
\* decrease in a fill.
FundingUneven(l, a, m) == Uneven(l.pos[a][m].size * (l.prefix[m] - l.pos[a][m].last), FundingRateTick)
AllFundingUneven(l, a) == LET At(m) == FundingUneven(l, a, m) IN MapThenSumSet(At, Markets)
EntryUneven(old, new) ==
  IF old.size # 0 /\ Abs(new.size) < Abs(old.size) THEN Uneven(old.entry * new.size, Abs(old.size)) ELSE 0
FillUneven(l, f) ==
  LET s == Stages(l, f)
  IN FundingUneven(l, f.maker, f.market) + FundingUneven(l, f.taker, f.market)
       + EntryUneven(s.makerOld, s.makerRes) + EntryUneven(s.takerOld, s.takerRes)

\* A fill of two user orders: fees, and the risk check of both sides.
UserFill(f) ==
  [maker |-> f.maker, taker |-> f.taker, market |-> f.market, price |-> f.price,
   base |-> f.base, takerAsk |-> f.takerAsk, makerFee |-> f.makerFee, takerFee |-> f.takerFee,
   noFee |-> FALSE, noRiskCheck |-> FALSE, skipMaker |-> FALSE, skipTaker |-> FALSE,
   zeroPrice |-> 0, liquidationFeeBps |-> 0, recipient |-> Treasury]

Trade(f) ==
  /\ Took(FillUneven(ledger, UserFill(f)))
  /\ ApplyResult(ledger, UserFill(f)) = "ok"
  /\ ledger' = Apply(ledger, UserFill(f))
  /\ UNCHANGED vault

\* SnapshotRisk on pre and IsValidRiskChangeFrom on post succeed.
requireRiskOKFrom(pre, post, a) ==
  RiskReadable(pre, a) /\ RiskReadable(post, a) /\ IsValidRiskChangeFrom(pre, post, a)

Deposit(a, amount) ==
  /\ Took(0)
  /\ ledger' = AddCollateral(ledger, a, amount * ExtensionMultiplier)
  /\ vault' = vault + amount

\* SendCoinsFromModuleToAccount succeeds.
SendCoinsFromModule(amount) == amount <= vault

Withdraw(a, amount) ==
  LET pre == settleAllPositionFunding(ledger, a)
      post == AddCollateral(pre, a, -(amount * ExtensionMultiplier))
  IN /\ Took(AllFundingUneven(ledger, a))
     /\ requireRiskOKFrom(pre, post, a)
     /\ SendCoinsFromModule(amount)
     /\ ledger' = post
     /\ vault' = vault - amount

\* Transfer of a margin-enabled asset.
Transfer(a, b, amount) ==
  LET pre == settleAllPositionFunding(ledger, a)
      delta == amount * ExtensionMultiplier
      post == AddCollateral(AddCollateral(pre, a, -delta), b, delta)
  IN /\ Took(AllFundingUneven(ledger, a))
     /\ requireRiskOKFrom(pre, post, a)
     /\ ledger' = post
     /\ UNCHANGED vault

\* AddMargin, or RemoveMargin with a negative amount.
UpdateMargin(a, m, amount) ==
  LET pre == SettlePositionFunding(ledger, a, m)
      post == [AddCollateral(pre, a, -amount) EXCEPT !.pos[a][m].alloc = @ + amount]
  IN /\ Took(FundingUneven(ledger, a, m))
     /\ ledger.pos[a][m].isolated
     /\ amount < 0 => pre.pos[a][m].alloc >= -amount
     /\ requireRiskOKFrom(pre, post, a)
     /\ ledger' = post
     /\ UNCHANGED vault

\* The margin mode of an empty position.
UpdateLeverage(a, m, isolated) ==
  /\ Took(0)
  /\ ledger.pos[a][m].size = 0
  /\ ledger' = [ledger EXCEPT !.pos[a][m].isolated = isolated]
  /\ UNCHANGED vault

\* refreshMarkPrice: a new mark price, or none for so long that it is stale.
RefreshMarkPrice(m) ==
  /\ \/ \E price \in Marks :
          ledger' = [ledger EXCEPT !.mark[m] = price, !.gated = @ \ {m}]
     \/ ledger' = [ledger EXCEPT !.gated = @ \cup {m}]
  /\ UNCHANGED <<vault, steps, roundings>>

\* settleMarket closes a funding round at a rate; it has premium samples, and so a
\* mark price.
SettleMarket(m, rate) ==
  /\ Took(0)
  /\ ledger.mark[m] # 0
  /\ ledger' = [ledger EXCEPT !.prefix[m] = @ + ledger.mark[m] * rate]
  /\ UNCHANGED vault

Next ==
  \/ \E f \in Fills : Trade(f)
  \/ \E a \in Traders, amount \in Amounts : Deposit(a, amount) \/ Withdraw(a, amount)
  \/ \E a, b \in Traders, amount \in Amounts : a # b /\ Transfer(a, b, amount)
  \/ \E a \in Traders, m \in Markets, amount \in Amounts :
       UpdateMargin(a, m, amount) \/ UpdateMargin(a, m, -amount)
  \/ \E a \in Traders, m \in Markets, isolated \in BOOLEAN : UpdateLeverage(a, m, isolated)
  \/ \E m \in Markets : RefreshMarkPrice(m)
  \/ \E m \in Markets, rate \in Rates : SettleMarket(m, rate)

Spec == Init /\ [][Next]_vars

-----------------------------------------------------------------------------
(* Properties. *)

\* Over all accounts.
Total(f(_)) == MapThenSumSet(f, Accounts)

\* The positions of a market cancel out, and its open interest is the size of
\* either side: UpdateOpenInterest gets half of the change of the sum of |size|
\* and never truncates it.
OpenInterestExact ==
  \A m \in Markets :
    LET Size(a) == ledger.pos[a][m].size
        Magnitude(a) == Abs(ledger.pos[a][m].size)
    IN Total(Size) = 0 /\ Total(Magnitude) = 2 * ledger.oi[m]

\* A position that is closed leaves no entry quote behind, whatever funding and
\* fills went through it: the next open overwrites the entry quote, and what it
\* overwrote would be lost.
FlatRowsEmpty == \A a \in Accounts, m \in Markets : FlatIsEmpty(ledger.pos[a][m])

\* Collateral, allocated margin and entry quotes add up to the coins of the module
\* account, up to one unit for each division with a remainder; funding owed and not
\* yet settled cancels out. So when all positions are closed, traders and treasury
\* own what is in the vault: no fill, fee, margin move or funding payment creates or
\* loses collateral beyond rounding. (An entry quote counts as ApplyFill's
\* realized profit counts it; FillsRealizeProfit is about that sign.)
MoneyConserved ==
  LET Held(a) ==
        LET Row(m) == ledger.pos[a][m].alloc + ledger.pos[a][m].entry
        IN ledger.collateral[a] + MapThenSumSet(Row, Markets)
      Owed(a) ==
        LET Row(m) == ledger.pos[a][m].size * (ledger.prefix[m] - ledger.pos[a][m].last)
        IN MapThenSumSet(Row, Markets)
      drift == FundingRateTick * (Total(Held) - vault * ExtensionMultiplier) + Total(Owed)
  IN Abs(drift) <= FundingRateTick * roundings

\* The health an account has once its funding is settled.
Settled(l, a) == [l EXCEPT !.pos[a] = [m \in Markets |-> SettlePositionFunding(l, a, m).pos[a][m]]]
CrossHealth(l, a) == HealthStatus(ComputeCrossRisk(Settled(l, a), a))
IsolatedHealth(l, a, m) == HealthStatus(ComputeIsolatedRisk(Settled(l, a), a, m))

\* No user message makes anybody's health worse at unchanged prices, the cross
\* account or any isolated position, with pending funding counted in: the trade
\* engine and the account handlers settle funding before the snapshot they compare
\* with, and an isolated position opened by the step is healthy.
HealthKept ==
  [][ledger'.mark = ledger.mark /\ ledger'.prefix = ledger.prefix =>
       \A a \in Traders :
         /\ CrossHealth(ledger', a) <= CrossHealth(ledger, a)
         /\ \A m \in Open(ledger', a, TRUE) :
              IsolatedHealth(ledger', a, m) <= IsolatedHealth(ledger, a, m)]_vars

\* What an account owns in collateral and margin.
Wealth(l, a) ==
  LET Alloc(m) == l.pos[a][m].alloc
  IN l.collateral[a] + MapThenSumSet(Alloc, Markets)

SizesKept == \A a \in Traders, m \in Markets : ledger'.pos[a][m].size = ledger.pos[a][m].size

\* An account that pays out, by Withdraw or Transfer, keeps its health with the
\* pending funding of all its markets counted in.
PayoutsSeeFunding ==
  [][SizesKept =>
       \A a \in Traders : Wealth(ledger', a) < Wealth(ledger, a) =>
         CrossHealth(ledger', a) <= CrossHealth(ledger, a)]_vars

\* At the price of the fill, what an account owns plus its unrealized profit only
\* changes by the fee, and by rounding: what UnrealizedPnL reported is what closing
\* the position pays.
FillsRealizeProfit ==
  [][\A f \in Fills : Trade(f) =>
       \A a \in {f.maker, f.taker} :
         LET Equity(l) == Wealth(l, a) + UnrealizedPnL(l.pos[a][f.market], f.price)
             fee == IF a = f.maker THEN MakerFeeOf(UserFill(f)) ELSE TakerFeeOf(UserFill(f))
         IN Abs(Equity(ledger') + fee - Equity(SettlePositionFunding(ledger, a, f.market))) <= 1]_vars

\* A fill in an isolated position never overdraws the cross collateral: the
\* rebalance draws at most what GetAvailableUsdcCollateral reports, and losses stay
\* in the position.
IsolatedFenced ==
  [][\A a \in Traders, m \in Markets :
       /\ ledger.pos[a][m].isolated
       /\ ledger'.pos[a][m].size # ledger.pos[a][m].size
       /\ ledger.collateral[a] >= 0
       => ledger'.collateral[a] >= 0]_vars
=============================================================================
