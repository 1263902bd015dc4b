----------------------------- MODULE PublicPool -----------------------------
(***************************************************************************)
(* Public pools and the insurance fund: shares of a trading account, minted *)
(* and burned at its net asset value (x/account). What an account's         *)
(* positions are worth, the margin they need and the funding they owe come  *)
(* from the environment. A message that fails leaves no trace, so only      *)
(* successes are steps.                                                     *)
(***************************************************************************)
EXTENDS Integers, FiniteSets, FiniteSetsExt

CONSTANTS
  Users,                  \* master accounts, Gov's among them
  Gov,                    \* the master account of the governance authority
  Pools, InsuranceFund,   \* pool accounts; the fund is the one of genesis
  NoPool,                 \* Params.LiquidityPoolIndex when no pool is named
  Multiplier,             \* USDCToCollateralMultiplier
  InitialPoolShareValue, ShareTick, FeeTick, SharesListSize,
  Strategies,             \* the buckets of the fund
  InitialBuckets,         \* their contents at genesis
  Moves,                  \* what trading may do: an account, its book then, collateral gained
  Seeds, Principals,      \* shares of a new pool, USDC of a mint
  Fees, Rates, Cooldowns, \* values of OperatorFee, MinOperatorShareRate and the cooldown
  Funds,                  \* collateral of each account at first
  MaxTime, MaxMsgs, MaxMoves

Accounts == Users \cup Pools

ASSUME PublicPoolAssumption ==
  /\ Users \cap Pools = {} /\ NoPool \notin Accounts /\ Gov \in Users /\ InsuranceFund \in Pools
  /\ {Multiplier, InitialPoolShareValue, ShareTick, FeeTick} \subseteq Nat \ {0}
  /\ SharesListSize \in Nat /\ InitialBuckets \in [Strategies -> Nat]
  /\ Moves \subseteq [account : Accounts, book : [upnl : Int, imr : Nat, owed : Int], gain : Int]
  /\ Seeds \subseteq Nat \ {0} /\ Principals \subseteq Nat \ {0}
  /\ Fees \subseteq 0..(FeeTick - 1) /\ Rates \subseteq 0..ShareTick /\ Cooldowns \subseteq Nat
  /\ Funds \in [Accounts -> Nat] /\ {MaxTime, MaxMsgs, MaxMoves} \subseteq Nat

VARIABLES
  info,        \* PublicPoolInfo of each pool, and who operates it
  row,         \* PublicPoolShares of each master, by pool
  collateral,
  book,        \* per account: unrealised PnL, initial margin, funding owed
  params,      \* LiquidityPoolIndex and its cooldown
  now, msgs, moves

vars == <<info, row, collateral, book, params, now, msgs, moves>>

-----------------------------------------------------------------------------
(* Valuation. Quotients are of naturals. *)

NoShares == [shares |-> 0, principal |-> 0, entry |-> 0]
Flat == [upnl |-> 0, imr |-> 0, owed |-> 0]

\* Funding that is owed but not settled is not part of it.
GetTotalAccountValue(a) == collateral[a] + book[a].upnl
GetAvailableCollateral(a) == GetTotalAccountValue(a) - book[a].imr

\* Mutant: the deposit is rounded up to whole shares.
USDCValueToSharesUp(total, tav, usdc) ==
  IF total = 0 THEN usdc \div InitialPoolShareValue
  ELSE IF tav <= 0 THEN 0
  ELSE (usdc * total * Multiplier + tav - 1) \div tav

\* USDCValueToShares; 0 where the mint is refused.
USDCValueToShares(total, tav, usdc) ==
  IF total = 0 THEN usdc \div InitialPoolShareValue
  ELSE IF tav <= 0 THEN 0
  ELSE (usdc * total * Multiplier) \div tav

SharesToUSDCValue(total, tav, shares) ==
  IF total = 0 THEN shares * InitialPoolShareValue
  ELSE IF tav <= 0 THEN 0
  ELSE (shares * tav) \div (total * Multiplier)

\* Mutant: the cap is taken from the account value, not from what is available.
AvailableSharesToBurnAll(total, tav, avail) == IF tav <= 0 THEN 0 ELSE total

AvailableSharesToBurn(total, tav, avail) ==
  IF total = 0 \/ tav <= 0 \/ avail <= 0 THEN 0 ELSE (avail * total) \div tav

CheckMinOperatorShareRate(i) == i.total = 0 \/ i.total * i.rate <= i.operatorShares * ShareTick

\* What the burner paid for the shares, in proportion of the row.
PaidFor(r, shares) == (r.principal * shares) \div r.shares

\* Mutant: the fee is charged on all that is redeemed.
FeeOnRedemption(i, r, tav, shares) ==
  (SharesToUSDCValue(i.total, tav, shares) * i.fee * i.total * Multiplier) \div (FeeTick * tav)

\* The operator's part of the realised profit, in shares.
OperatorFeeShares(i, r, tav, shares) ==
  LET profit == SharesToUSDCValue(i.total, tav, shares) - PaidFor(r, shares)
      fee == (profit * i.fee * i.total * Multiplier) \div (FeeTick * tav)
  IN IF profit <= 0 THEN 0 ELSE IF fee > shares THEN shares ELSE fee

-----------------------------------------------------------------------------
(* The accounts and the messages. *)

Init ==
  /\ info = [p \in Pools |->
       [status |-> IF p = InsuranceFund THEN "active" ELSE "none", operator |-> Gov,
        fee |-> 0, rate |-> 0, total |-> 0, operatorShares |-> 0,
        buckets |-> IF p = InsuranceFund THEN InitialBuckets ELSE [s \in Strategies |-> 0]]]
  /\ row = [u \in Users |-> [p \in Pools |-> NoShares]]
  /\ collateral = Funds
  /\ book = [a \in Accounts |-> Flat]
  /\ params \in [llp : {InsuranceFund}, cooldown : Cooldowns]
  /\ now = 0 /\ msgs = 0 /\ moves = 0

Message == msgs < MaxMsgs /\ msgs' = msgs + 1 /\ UNCHANGED <<now, moves>>

\* settleAllPositionFunding: what is owed is folded into the entry quotes.
settleAllPositionFunding(u) ==
  [upnl |-> book[u].upnl - book[u].owed, imr |-> book[u].imr, owed |-> 0]

\* A payer's collateral covers the amount, and requireRiskOKFrom: with the same
\* positions and less collateral only a healthy account is not worse off.
Pays(u, amount) ==
  /\ collateral[u] >= amount
  /\ book' = [book EXCEPT ![u] = settleAllPositionFunding(u)]
  /\ collateral[u] - amount + book'[u].upnl >= book'[u].imr

CreatePublicPool(u, p, seed, fee, rate) ==
  /\ Message /\ info[p].status = "none"
  /\ LET amount == seed * InitialPoolShareValue * Multiplier
     IN /\ Pays(u, amount)
        /\ collateral' = [collateral EXCEPT ![u] = @ - amount, ![p] = @ + amount]
  /\ info' = [info EXCEPT ![p] =
       [status |-> "active", operator |-> u, fee |-> fee, rate |-> rate,
        total |-> seed, operatorShares |-> seed, buckets |-> @.buckets]]
  /\ UNCHANGED <<row, params>>

\* Mutant: a pool is frozen with its positions open.
assertPoolEmptyOrHealthy(p) == GetAvailableCollateral(p) >= 0

\* assertPoolEmpty: healthy and without positions; pools have no orders.
assertPoolEmpty(p) == GetAvailableCollateral(p) >= 0 /\ book[p] = Flat

\* Freezing the liquidity pool clears the system's pointer to it.
llpAfter(p, status) == IF status = "frozen" /\ params.llp = p THEN NoPool ELSE params.llp

UpdatePublicPool(u, p, status, fee, rate) ==
  /\ Message /\ info[p].status = "active" /\ info[p].operator = u
  /\ fee <= info[p].fee
  /\ CheckMinOperatorShareRate([info[p] EXCEPT !.rate = rate])
  /\ status = "frozen" => assertPoolEmpty(p)
  /\ info' = [info EXCEPT ![p] = [@ EXCEPT !.status = status, !.fee = fee, !.rate = rate]]
  /\ params' = [params EXCEPT !.llp = llpAfter(p, status)]
  /\ UNCHANGED <<row, collateral, book>>

isPoolOperator(p, u) == info[p].operator = u

\* UpsertPublicPoolShare: a mint restarts the cooldown of the whole row.
UpsertPublicPoolShare(r, shares, usdc) ==
  [shares |-> r.shares + shares, principal |-> r.principal + usdc, entry |-> now]

ListFull(u, p) ==
  row[u][p] = NoShares /\ Cardinality({q \in Pools : row[u][q] # NoShares}) >= SharesListSize

MintShares(u, p, usdc) ==
  /\ Message /\ info[p].status = "active"
  /\ Pays(u, usdc * Multiplier)
  /\ \E shares \in {USDCValueToShares(info[p].total, GetTotalAccountValue(p), usdc)} :
       /\ shares > 0
       /\ \/ /\ isPoolOperator(p, u)
             /\ info' = [info EXCEPT ![p].total = @ + shares, ![p].operatorShares = @ + shares]
             /\ UNCHANGED row
          \/ /\ ~ isPoolOperator(p, u)
             /\ info' = [info EXCEPT ![p].total = @ + shares]
             /\ CheckMinOperatorShareRate(info'[p])
             /\ ~ ListFull(u, p)
             /\ row' = [row EXCEPT ![u][p] = UpsertPublicPoolShare(@, shares, usdc)]
  /\ collateral' = [collateral EXCEPT ![u] = @ - usdc * Multiplier, ![p] = @ + usdc * Multiplier]
  /\ UNCHANGED params

\* ReducePublicPoolShare: an entry without shares is removed.
ReducePublicPoolShare(r, shares) ==
  IF shares = r.shares THEN NoShares
  ELSE [r EXCEPT !.shares = @ - shares, !.principal = @ - PaidFor(r, shares)]

CooldownOver(u, p) ==
  params.llp = p /\ params.cooldown > 0 => now >= row[u][p].entry + params.cooldown

\* What burnSharesCore asks of a redemption before any money moves.
Redeemable(u, p, isOperator, shares, skipCooldown) ==
  LET i == info[p]
      tav == GetTotalAccountValue(p)
  IN /\ i.status \in {"active", "frozen"}
     /\ shares <= AvailableSharesToBurn(i.total, tav, GetAvailableCollateral(p))
     /\ shares <= IF isOperator THEN i.operatorShares ELSE row[u][p].shares
     /\ isOperator \/ skipCooldown \/ CooldownOver(u, p)
     /\ SharesToUSDCValue(i.total, tav, shares) > 0

\* Mutant: what the operator burns is not checked against the floor.
KeepsFloorOfOthers(i, isOperator) == isOperator \/ i.status = "frozen" \/ CheckMinOperatorShareRate(i)

\* The operator's floor, after the burn, of a pool that is not frozen.
KeepsFloor(i, isOperator) == i.status = "frozen" \/ CheckMinOperatorShareRate(i)

\* Mutant: the fee is taken from the redeemer but not given to the operator.
PoolAfterBurnFeeLost(i, isOperator, shares, feeShares) ==
  [i EXCEPT !.total = @ - (shares - feeShares),
            !.operatorShares = IF isOperator THEN @ - shares ELSE @]

\* Fee shares are not burned: they become the operator's.
PoolAfterBurn(i, isOperator, shares, feeShares) ==
  [i EXCEPT !.total = @ - (shares - feeShares),
            !.operatorShares = IF isOperator THEN @ - shares ELSE @ + feeShares]

\* USDC paid out: the quote for all the shares, less the part of the fee.
Delivered(i, tav, shares, feeShares) ==
  (SharesToUSDCValue(i.total, tav, shares) * (shares - feeShares)) \div shares

burnSharesCore(u, p, isOperator, shares, skipCooldown) ==
  /\ Redeemable(u, p, isOperator, shares, skipCooldown)
  /\ \E feeShares \in {IF isOperator THEN 0
                       ELSE OperatorFeeShares(info[p], row[u][p], GetTotalAccountValue(p), shares)} :
       /\ info' = [info EXCEPT ![p] = PoolAfterBurn(@, isOperator, shares, feeShares)]
       /\ KeepsFloor(info'[p], isOperator)
       /\ LET paid == Delivered(info[p], GetTotalAccountValue(p), shares, feeShares) * Multiplier
          IN collateral' = [collateral EXCEPT ![p] = @ - paid, ![u] = @ + paid]
  /\ row' = IF isOperator THEN row
            ELSE [row EXCEPT ![u][p] = ReducePublicPoolShare(@, shares)]
  /\ UNCHANGED <<book, params>>

BurnShares(u, p, shares) ==
  Message /\ burnSharesCore(u, p, isPoolOperator(p, u), shares, FALSE)

\* Sent by the authority, for the canonical liquidity pool only.
ForceBurnShares(u, shares) ==
  Message /\ params.llp = InsuranceFund /\ burnSharesCore(u, InsuranceFund, FALSE, shares, TRUE)

Reallocated(b, from, to, amount) == [b EXCEPT ![from] = @ - amount, ![to] = @ + amount]

StrategyTransfer(from, to, amount) ==
  /\ Message /\ info[InsuranceFund].status # "frozen"
  /\ from # to /\ info[InsuranceFund].buckets[from] >= amount
  /\ info' = [info EXCEPT ![InsuranceFund].buckets = Reallocated(@, from, to, amount)]
  /\ UNCHANGED <<row, collateral, book, params>>

UpdateParams(llp, cooldown) ==
  /\ Message /\ params' = [llp |-> llp, cooldown |-> cooldown]
  /\ UNCHANGED <<info, row, collateral, book>>

\* Trading, mark prices and funding rounds move an account. A frozen pool takes
\* no position (NoStrandedPositions of Liquidation); a pool that does not exist, nothing.
Trade(m) ==
  /\ moves < MaxMoves /\ moves' = moves + 1
  /\ m.account \in Pools => \/ info[m.account].status = "active"
                            \/ info[m.account].status = "frozen" /\ m.book = Flat /\ m.gain >= 0
  /\ book' = [book EXCEPT ![m.account] = m.book]
  /\ collateral' = [collateral EXCEPT ![m.account] = @ + m.gain]
  /\ UNCHANGED <<info, row, params, now, msgs>>

Tick ==
  /\ now < MaxTime /\ now' = now + 1
  /\ UNCHANGED <<info, row, collateral, book, params, msgs, moves>>

Next ==
  \/ \E u \in Users, p \in Pools :
       \/ \E seed \in Seeds, fee \in Fees, rate \in Rates : CreatePublicPool(u, p, seed, fee, rate)
       \/ \E status \in {"active", "frozen"}, fee \in Fees, rate \in Rates :
            UpdatePublicPool(u, p, status, fee, rate)
       \/ \E usdc \in Principals : MintShares(u, p, usdc)
       \/ \E shares \in 1..info[p].total : BurnShares(u, p, shares)
  \/ \E u \in Users, shares \in 1..info[InsuranceFund].total : ForceBurnShares(u, shares)
  \/ \E from, to \in Strategies : \E amount \in 1..info[InsuranceFund].buckets[from] :
       StrategyTransfer(from, to, amount)
  \/ \E llp \in Pools \cup {NoPool}, cooldown \in Cooldowns : UpdateParams(llp, cooldown)
  \/ \E m \in Moves : Trade(m)
  \/ Tick

Spec == Init /\ [][Next]_vars

-----------------------------------------------------------------------------
(* Properties. *)

\* Types, and the shares of the operator are some of all shares.
TypeOK ==
  /\ info \in [Pools -> [status : {"none", "active", "frozen"}, operator : Users,
                         fee : 0..(FeeTick - 1), rate : 0..ShareTick, total : Nat,
                         operatorShares : Nat, buckets : [Strategies -> Nat]]]
  /\ row \in [Users -> [Pools -> [shares : Nat, principal : Nat, entry : Nat]]]
  /\ collateral \in [Accounts -> Int]
  /\ book \in [Accounts -> [upnl : Int, imr : Nat, owed : Int]]
  /\ params \in [llp : Pools \cup {NoPool}, cooldown : Nat]
  /\ now \in Nat /\ msgs \in Nat /\ moves \in Nat

\* Every share of a pool belongs to its operator or to one row: the three places where
\* MintShares and burnSharesCore keep them agree, fee shares included.
SharesAccountedFor ==
  \A p \in Pools :
    info[p].total = info[p].operatorShares + MapThenSumSet(LAMBDA u : row[u][p].shares, Users)

\* An active pool's operator holds at least the floor the pool advertises, whatever the
\* order of mints, burns, forced burns and changes of the rate.
OperatorFloor ==
  \A p \in Pools : info[p].status = "active" => CheckMinOperatorShareRate(info[p])

\* "FROZEN is the wind-down state and LPs MUST be able to exit" (BurnAllowed): a row of a
\* frozen pool that is worth something can be redeemed in full, at once.
FrozenPoolsPayOut ==
  \A p \in Pools, u \in Users :
    LET s == row[u][p].shares
    IN info[p].status = "frozen" /\ params.llp # p /\ s > 0
       /\ SharesToUSDCValue(info[p].total, GetTotalAccountValue(p), s) > 0
       => Redeemable(u, p, FALSE, s, FALSE)

Worth(p) == collateral[p] + book[p].upnl

KeepsShareValue ==
  \A p \in Pools : msgs' # msgs /\ info[p].total > 0 /\ Worth(p) > 0
    => Worth(p)' * info[p].total >= Worth(p) * info'[p].total

\* A mint or a burn never lowers what each remaining share is worth: rounding is always
\* in favour of those who stay.
NoDilution == [][KeepsShareValue]_vars

KeepsPoolMargin ==
  \A p \in Pools : msgs' # msgs /\ collateral'[p] < collateral[p] => Worth(p)' >= book'[p].imr

\* A redemption leaves the pool with its initial margin.
RedemptionsKeepMargin == [][KeepsPoolMargin]_vars

\* The fee is on profit only: whoever redeems a part of a row receives at least what was
\* paid for that part, or all the part is worth if that is less.
FeeOnlyOnProfit ==
  [][\A u \in Users, p \in Pools :
       LET s == row[u][p].shares - row'[u][p].shares
           worth == SharesToUSDCValue(info[p].total, Worth(p), s)
           paid == PaidFor(row[u][p], s)
           got == collateral'[u] - collateral[u]
       IN s > 0 => got >= worth * Multiplier \/ got >= paid * Multiplier]_vars
=============================================================================
