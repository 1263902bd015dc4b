-------------------------- MODULE PublicPoolProofs --------------------------
(* The operator's floor, the value of a share and the margin of a pool, for *)
(* every number of pools and masters and every amount.                      *)
EXTENDS PublicPool, TLAPS

\* Euclid: the quotient of naturals.
LEMMA DivRange ==
  ASSUME NEW x \in Nat, NEW n \in Nat, n # 0
  PROVE  x \div n \in Nat /\ (x \div n) * n <= x
  OBVIOUS

\* Multiplying by a natural keeps the order.
LEMMA TimesMonotone ==
  ASSUME NEW x \in Int, NEW y \in Int, NEW n \in Nat, x <= y
  PROVE  x * n <= y * n
  OBVIOUS

\* A positive factor cancels.
LEMMA TimesCancel ==
  ASSUME NEW x \in Int, NEW y \in Int, NEW n \in Nat, n # 0, x * n <= y * n
  PROVE  x <= y
  OBVIOUS

\* A quotient of no more than n parts of n is no more than the whole.
LEMMA PartOf ==
  ASSUME NEW x \in Nat, NEW d \in Nat, NEW n \in Nat, n # 0, d <= n
  PROVE  (x * d) \div n \in Nat /\ (x * d) \div n <= x
<1> DEFINE q == (x * d) \div n
<1>1. x * d \in Nat
  OBVIOUS
<1>2. q \in Nat /\ q * n <= x * d
  BY <1>1, DivRange
<1>3. d * x <= n * x
  BY TimesMonotone
<1>4. q * n <= x * n
  BY <1>1, <1>2, <1>3
<1> HIDE DEF q
<1>5. q <= x
  BY <1>2, <1>4, TimesCancel
<1> QED BY <1>2, <1>5 DEF q

-----------------------------------------------------------------------------
(* What the valuation promises. *)

\* Shares minted for usdc are worth no more than usdc.
LEMMA MintedWorth ==
  ASSUME NEW total \in Nat, NEW tav \in Int, NEW usdc \in Nat
  PROVE  LET s == USDCValueToShares(total, tav, usdc)
         IN s \in Nat /\ (total > 0 /\ tav > 0 => s * tav <= usdc * total * Multiplier)
<1>1. Multiplier \in Nat /\ InitialPoolShareValue \in Nat \ {0}
  BY PublicPoolAssumption
<1>2. CASE total = 0
  BY <1>1, <1>2, DivRange DEF USDCValueToShares
<1>3. CASE total # 0 /\ tav <= 0
  BY <1>3 DEF USDCValueToShares
<1>4. CASE total # 0 /\ tav > 0
  <2> DEFINE x == usdc * total * Multiplier
  <2>1. x \in Nat
    BY <1>1
  <2>2. USDCValueToShares(total, tav, usdc) = x \div tav
    BY <1>4 DEF USDCValueToShares
  <2> HIDE DEF x
  <2>3. x \div tav \in Nat /\ (x \div tav) * tav <= x
    BY <1>4, <2>1, DivRange
  <2> QED BY <2>2, <2>3 DEF x
<1> QED BY <1>2, <1>3, <1>4

\* The quote for shares is no more than their part of the account value.
LEMMA QuotedWorth ==
  ASSUME NEW total \in Nat, NEW tav \in Int, NEW s \in Nat
  PROVE  LET v == SharesToUSDCValue(total, tav, s)
         IN v \in Nat /\ (total > 0 /\ tav > 0 => v * (total * Multiplier) <= s * tav)
<1>1. Multiplier \in Nat \ {0} /\ InitialPoolShareValue \in Nat
  BY PublicPoolAssumption
<1>2. CASE total = 0
  BY <1>1, <1>2 DEF SharesToUSDCValue
<1>3. CASE total # 0 /\ tav <= 0
  BY <1>3 DEF SharesToUSDCValue
<1>4. CASE total # 0 /\ tav > 0
  <2> DEFINE x == s * tav
             n == total * Multiplier
  <2>1. x \in Nat /\ n \in Nat /\ n # 0
    BY <1>1, <1>4
  <2>2. SharesToUSDCValue(total, tav, s) = x \div n
    BY <1>4 DEF SharesToUSDCValue
  <2> HIDE DEF x, n
  <2>3. x \div n \in Nat /\ (x \div n) * n <= x
    BY <2>1, DivRange
  <2> QED BY <2>2, <2>3 DEF x, n
<1> QED BY <1>2, <1>3, <1>4

\* The cap is at most all shares, and worth at most what is available.
LEMMA CapWorth ==
  ASSUME NEW total \in Nat, NEW tav \in Int, NEW avail \in Int, avail <= tav
  PROVE  LET cap == AvailableSharesToBurn(total, tav, avail)
         IN /\ cap \in Nat /\ cap <= total
            /\ cap > 0 => total > 0 /\ tav > 0 /\ cap * tav <= avail * total
<1>1. CASE total = 0 \/ tav <= 0 \/ avail <= 0
  BY <1>1 DEF AvailableSharesToBurn
<1>2. CASE ~ (total = 0 \/ tav <= 0 \/ avail <= 0)
  <2>1. AvailableSharesToBurn(total, tav, avail) = (avail * total) \div tav
    BY <1>2 DEF AvailableSharesToBurn
  <2>2. avail * total = total * avail
    OBVIOUS
  <2>3. (total * avail) \div tav \in Nat /\ (total * avail) \div tav <= total
    BY <1>2, PartOf
  <2> DEFINE x == avail * total
  <2>4. x \in Nat
    BY <1>2
  <2>5. (x \div tav) * tav <= x
    <3> HIDE DEF x
    <3> QED BY <1>2, <2>4, DivRange
  <2> QED BY <1>2, <2>1, <2>2, <2>3, <2>5
<1> QED BY <1>1, <1>2

\* The fee is some of the shares burned.
LEMMA FeeWithinShares ==
  ASSUME NEW i, i.total \in Nat, i.fee \in Nat, NEW r, r.principal \in Nat, r.shares \in Nat,
         NEW tav \in Int, tav > 0, NEW s \in Nat, s > 0, s <= r.shares
  PROVE  LET f == OperatorFeeShares(i, r, tav, s) IN f \in Nat /\ f <= s
<1> DEFINE v == SharesToUSDCValue(i.total, tav, s)
           paid == PaidFor(r, s)
           fee == ((v - paid) * i.fee * i.total * Multiplier) \div (FeeTick * tav)
<1>1. Multiplier \in Nat /\ FeeTick \in Nat \ {0}
  BY PublicPoolAssumption
<1>2. v \in Nat
  BY QuotedWorth
<1>3. paid \in Nat
  BY PartOf DEF PaidFor
<1>4. OperatorFeeShares(i, r, tav, s)
      = IF v - paid <= 0 THEN 0 ELSE IF fee > s THEN s ELSE fee
  BY DEF OperatorFeeShares
<1>5. CASE v - paid > 0
  <2> DEFINE x == (v - paid) * i.fee * i.total * Multiplier
             n == FeeTick * tav
  <2> HIDE DEF v, paid
  <2>1. (v - paid) * i.fee \in Nat
    BY <1>2, <1>3, <1>5
  <2>2. (v - paid) * i.fee * i.total \in Nat
    BY <2>1
  <2>3. x \in Nat
    BY <1>1, <2>2
  <2>4. n \in Nat /\ n # 0
    BY <1>1
  <2>5. x \div n \in Nat
    <3> HIDE DEF x, n
    <3> QED BY <2>3, <2>4, DivRange
  <2>6. fee \in Nat
    BY <2>5
  <2> HIDE DEF fee
  <2> QED BY <1>4, <1>5, <2>6
<1>6. CASE v - paid <= 0
  BY <1>4, <1>6
<1> HIDE DEF v, paid, fee
<1> QED BY <1>2, <1>3, <1>5, <1>6

\* The payout is no more than the burned shares' part of the account value.
LEMMA DeliveredWorth ==
  ASSUME NEW i, i.total \in Nat, i.total > 0, NEW tav \in Int, tav > 0,
         NEW s \in Nat, s > 0, NEW f \in Nat, f <= s
  PROVE  LET d == Delivered(i, tav, s, f)
         IN d \in Nat /\ d * Multiplier * i.total <= (s - f) * tav
<1> DEFINE v == SharesToUSDCValue(i.total, tav, s)
           b == s - f
           d == (v * b) \div s
           n == i.total * Multiplier
<1>1. Multiplier \in Nat
  BY PublicPoolAssumption
<1>2. v \in Nat /\ v * n <= s * tav
  BY QuotedWorth
<1>3. b \in Nat /\ n \in Nat
  BY <1>1
<1>4. Delivered(i, tav, s, f) = d
  BY DEF Delivered
<1> HIDE DEF v
<1>5. v * b \in Nat
  BY <1>2, <1>3
<1>6. d \in Nat /\ d * s <= v * b
  <2> HIDE DEF b
  <2> DEFINE x == v * b
  <2>1. x \in Nat
    BY <1>5
  <2> HIDE DEF x
  <2>2. x \div s \in Nat /\ (x \div s) * s <= x
    BY <2>1, DivRange
  <2> QED BY <2>2 DEF x
<1> HIDE DEF d, b, n
<1>7. (d * s) * n <= (v * b) * n
  BY <1>3, <1>5, <1>6, TimesMonotone
<1>8. (v * n) * b <= (s * tav) * b
  BY <1>2, <1>3, TimesMonotone
<1>9. (d * s) * n = (d * n) * s /\ (v * b) * n = (v * n) * b /\ (s * tav) * b = (b * tav) * s
  BY <1>2, <1>3, <1>6
<1>10. (d * n) * s <= (b * tav) * s
  BY <1>2, <1>3, <1>5, <1>6, <1>7, <1>8, <1>9
<1>11. d * n <= b * tav
  BY <1>3, <1>6, <1>10, TimesCancel
<1>12. d * n = d * Multiplier * i.total
  BY <1>1, <1>6 DEF n
<1> QED BY <1>4, <1>6, <1>11, <1>12 DEF b

-----------------------------------------------------------------------------
(* One step. The messages that move shares are described once, by the pool  *)
(* they touch, and the theorems read the description.                       *)

\* A pool account that is not there yet has no shares.
UnusedPoolsEmpty == \A p \in Pools : info[p].status = "none" => info[p].total = 0

IInv == TypeOK /\ OperatorFloor /\ UnusedPoolsEmpty

PoolInfo == [status : {"none", "active", "frozen"}, operator : Users, fee : 0..(FeeTick - 1),
             rate : 0..ShareTick, total : Nat, operatorShares : Nat, buckets : [Strategies -> Nat]]
Row == [shares : Nat, principal : Nat, entry : Nat]
Book == [upnl : Int, imr : Nat, owed : Int]

\* An operator's own mint keeps the floor: it adds as many shares to both sides.
LEMMA OperatorMintKeepsFloor ==
  ASSUME NEW i \in PoolInfo, CheckMinOperatorShareRate(i), NEW s \in Nat
  PROVE  CheckMinOperatorShareRate([i EXCEPT !.total = @ + s, !.operatorShares = @ + s])
<1>1. ShareTick \in Nat
  BY PublicPoolAssumption
<1> DEFINE t == i.total
           o == i.operatorShares
           k == i.rate
<1>2. t \in Nat /\ o \in Nat /\ k \in Nat /\ k <= ShareTick
  BY <1>1 DEF PoolInfo
<1>3. t = 0 \/ t * k <= o * ShareTick
  BY DEF CheckMinOperatorShareRate
<1>4. CheckMinOperatorShareRate([i EXCEPT !.total = @ + s, !.operatorShares = @ + s])
      <=> t + s = 0 \/ (t + s) * k <= (o + s) * ShareTick
  BY DEF CheckMinOperatorShareRate, PoolInfo
<1> HIDE DEF t, o, k
<1>5. t * k <= o * ShareTick
  <2>1. t = 0 => t * k = 0 /\ o * ShareTick >= 0
    BY <1>1, <1>2
  <2> QED BY <1>3, <2>1
<1>6. k * s <= ShareTick * s
  BY <1>1, <1>2, TimesMonotone
<1>7. (t + s) * k = t * k + k * s /\ (o + s) * ShareTick = o * ShareTick + ShareTick * s
  BY <1>1, <1>2
<1>8. t * k \in Int /\ k * s \in Int /\ o * ShareTick \in Int /\ ShareTick * s \in Int
  BY <1>1, <1>2
<1>9. (t + s) * k <= (o + s) * ShareTick
  BY <1>5, <1>6, <1>7, <1>8
<1> QED BY <1>4, <1>9

\* What a redemption does to a pool of value v: fee shares f, payout d.
Redemption(u, p, isOperator, s, f, d) ==
  LET i == info[p]
      v == Worth(p)
  IN /\ f <= s /\ s <= i.total /\ s <= IF isOperator THEN i.operatorShares ELSE row[u][p].shares
     /\ i.total > 0 /\ v > 0
     /\ s * v <= (v - book[p].imr) * i.total
     /\ d * Multiplier * i.total <= (s - f) * v
     /\ info' = [info EXCEPT ![p] = PoolAfterBurn(i, isOperator, s, f)]
     /\ KeepsFloor(PoolAfterBurn(i, isOperator, s, f), isOperator)
     /\ collateral' = [[collateral EXCEPT ![p] = collateral[p] - d * Multiplier]
                         EXCEPT ![u] = collateral[u] + d * Multiplier]

\* burnSharesCore, forced or not, is such a redemption.
LEMMA BurnIsRedemption ==
  ASSUME TypeOK, NEW u \in Users, NEW p \in Pools, NEW isOperator \in BOOLEAN,
         NEW s \in Nat, s > 0, NEW skip \in BOOLEAN, burnSharesCore(u, p, isOperator, s, skip)
  PROVE  \E f, d \in Nat : Redemption(u, p, isOperator, s, f, d)
<1> DEFINE i == info[p]
           r == row[u][p]
           v == collateral[p] + book[p].upnl
           a == v - book[p].imr
<1>1. i \in PoolInfo /\ r \in Row /\ book[p] \in Book /\ collateral[p] \in Int /\ p \in Accounts /\ u \in Accounts /\ u # p
  BY PublicPoolAssumption DEF TypeOK, PoolInfo, Row, Book, Accounts
<1>2. v \in Int /\ a \in Int /\ a <= v /\ i.total \in Nat /\ i.fee \in Nat /\ r.principal \in Nat /\ r.shares \in Nat
  BY <1>1 DEF PoolInfo, Row, Book
<1>3. /\ s <= AvailableSharesToBurn(i.total, v, a)
      /\ s <= IF isOperator THEN i.operatorShares ELSE r.shares
  BY DEF burnSharesCore, Redeemable, GetTotalAccountValue, GetAvailableCollateral
<1> DEFINE f == IF isOperator THEN 0 ELSE OperatorFeeShares(i, r, v, s)
           d == Delivered(i, v, s, f)
<1>4. /\ info' = [info EXCEPT ![p] = PoolAfterBurn(i, isOperator, s, f)]
      /\ KeepsFloor(info'[p], isOperator)
      /\ collateral' = [collateral EXCEPT ![p] = @ - d * Multiplier, ![u] = @ + d * Multiplier]
  BY DEF burnSharesCore, GetTotalAccountValue
<1>5. info'[p] = PoolAfterBurn(i, isOperator, s, f)
  BY <1>4 DEF TypeOK
<1> HIDE DEF i, r, v, a
<1> DEFINE cap == AvailableSharesToBurn(i.total, v, a)
<1>6. cap \in Nat /\ cap <= i.total /\ (cap > 0 => i.total > 0 /\ v > 0 /\ cap * v <= a * i.total)
  BY <1>2, CapWorth
<1> HIDE DEF cap
<1>7. s <= cap
  BY <1>3 DEF cap
<1>8. s <= i.total /\ i.total > 0 /\ v > 0 /\ cap * v <= a * i.total
  BY <1>2, <1>6, <1>7
<1>9. s * v <= cap * v
  BY <1>2, <1>6, <1>7, <1>8, TimesMonotone
<1>10. s * v <= a * i.total
  <2>1. s * v \in Int /\ cap * v \in Int /\ a * i.total \in Int
    BY <1>2, <1>6
  <2> QED BY <1>8, <1>9, <2>1
<1>11. f \in Nat /\ f <= s
  <2>1. CASE isOperator
    BY <2>1
  <2>2. CASE ~ isOperator
    <3>1. s <= r.shares
      BY <1>3, <2>2
    <3>2. LET g == OperatorFeeShares(i, r, v, s) IN g \in Nat /\ g <= s
      BY <1>2, <1>8, <3>1, FeeWithinShares
    <3> QED BY <2>2, <3>2
  <2> QED BY <2>1, <2>2
<1> HIDE DEF f
<1>12. d \in Nat /\ d * Multiplier * i.total <= (s - f) * v
  BY <1>2, <1>8, <1>11, DeliveredWorth
<1> HIDE DEF d
<1>13. [collateral EXCEPT ![p] = @ - d * Multiplier, ![u] = @ + d * Multiplier]
       = [[collateral EXCEPT ![p] = collateral[p] - d * Multiplier]
            EXCEPT ![u] = collateral[u] + d * Multiplier]
  BY <1>1
<1>14. Redemption(u, p, isOperator, s, f, d)
  <2>1. a = v - book[p].imr /\ v = Worth(p)
    BY DEF a, v, Worth
  <2> QED BY <1>3, <1>4, <1>5, <1>8, <1>10, <1>11, <1>12, <1>13, <2>1 DEF Redemption, i, r
<1> QED BY <1>11, <1>12, <1>14

\* A mint, by the shares s it creates.
Minted(u, p, usdc, s) ==
  LET i == info[p]
  IN /\ s > 0 /\ i.status = "active"
     /\ i.total > 0 /\ Worth(p) > 0 => s * Worth(p) <= usdc * i.total * Multiplier
     /\ \/ info' = [info EXCEPT ![p] = [i EXCEPT !.total = @ + s, !.operatorShares = @ + s]]
        \/ /\ info' = [info EXCEPT ![p] = [i EXCEPT !.total = @ + s]]
           /\ CheckMinOperatorShareRate([i EXCEPT !.total = @ + s])
     /\ row' = row \/ row' = [row EXCEPT ![u] = [row[u] EXCEPT ![p] =
                        UpsertPublicPoolShare(row[u][p], s, usdc)]]
     /\ collateral' = [[collateral EXCEPT ![u] = collateral[u] - usdc * Multiplier]
                         EXCEPT ![p] = collateral[p] + usdc * Multiplier]
     /\ book' = [book EXCEPT ![u] = settleAllPositionFunding(u)]

\* MintShares is such a mint.
LEMMA MintIsMinted ==
  ASSUME TypeOK, NEW u \in Users, NEW p \in Pools, NEW usdc \in Principals, MintShares(u, p, usdc)
  PROVE  \E s \in Nat : Minted(u, p, usdc, s)
<1> DEFINE i == info[p]
           v == collateral[p] + book[p].upnl
           s == USDCValueToShares(i.total, v, usdc)
<1>1. /\ i \in PoolInfo /\ book[p] \in Book /\ collateral[p] \in Int /\ usdc \in Nat
      /\ p \in Accounts /\ u \in Accounts /\ u # p
  BY PublicPoolAssumption DEF TypeOK, PoolInfo, Book, Accounts
<1>2. v \in Int /\ i.total \in Nat
  BY <1>1 DEF PoolInfo, Book
<1>3. s \in Nat /\ (i.total > 0 /\ v > 0 => s * v <= usdc * i.total * Multiplier)
  <2> HIDE DEF i, v
  <2> QED BY <1>1, <1>2, MintedWorth
<1>4. /\ s > 0 /\ i.status = "active"
      /\ \/ info' = [info EXCEPT ![p].total = @ + s, ![p].operatorShares = @ + s] /\ row' = row
         \/ /\ info' = [info EXCEPT ![p].total = @ + s] /\ CheckMinOperatorShareRate(info'[p])
            /\ row' = [row EXCEPT ![u][p] = UpsertPublicPoolShare(@, s, usdc)]
      /\ collateral' = [collateral EXCEPT ![u] = @ - usdc * Multiplier, ![p] = @ + usdc * Multiplier]
      /\ book' = [book EXCEPT ![u] = settleAllPositionFunding(u)]
  BY DEF MintShares, Pays, GetTotalAccountValue
<1> HIDE DEF s
<1>5. [info EXCEPT ![p].total = @ + s, ![p].operatorShares = @ + s]
      = [info EXCEPT ![p] = [i EXCEPT !.total = @ + s, !.operatorShares = @ + s]]
  BY <1>1 DEF TypeOK, PoolInfo
<1>6. [info EXCEPT ![p].total = @ + s] = [info EXCEPT ![p] = [i EXCEPT !.total = @ + s]]
  BY <1>1 DEF TypeOK
<1>7. [info EXCEPT ![p] = [i EXCEPT !.total = @ + s]][p] = [i EXCEPT !.total = @ + s]
  BY DEF TypeOK
<1>8. [row EXCEPT ![u][p] = UpsertPublicPoolShare(@, s, usdc)]
      = [row EXCEPT ![u] = [row[u] EXCEPT ![p] = UpsertPublicPoolShare(row[u][p], s, usdc)]]
  BY DEF TypeOK
<1>9. [collateral EXCEPT ![u] = @ - usdc * Multiplier, ![p] = @ + usdc * Multiplier]
      = [[collateral EXCEPT ![u] = collateral[u] - usdc * Multiplier]
           EXCEPT ![p] = collateral[p] + usdc * Multiplier]
  BY <1>1
<1>10. v = Worth(p)
  BY DEF Worth
<1> HIDE DEF v
<1>11. Minted(u, p, usdc, s)
  BY <1>3, <1>4, <1>5, <1>6, <1>7, <1>8, <1>9, <1>10 DEF Minted, i
<1> QED BY <1>3, <1>11

-----------------------------------------------------------------------------
(* The inductive invariant. *)

\* The conjuncts of IInv that speak of the pools, for one pool.
PoolOK(i) ==
  /\ i \in PoolInfo
  /\ i.status = "active" => CheckMinOperatorShareRate(i)
  /\ i.status = "none" => i.total = 0

\* IInv, read for one pool.
LEMMA PoolsOK ==
  ASSUME IInv, NEW p \in Pools
  PROVE  PoolOK(info[p])
  BY DEF IInv, TypeOK, OperatorFloor, UnusedPoolsEmpty, PoolOK, PoolInfo

\* What is left to show of a step: the one pool it changes, and the types.
LEMMA OnePool ==
  ASSUME IInv, NEW p \in Pools, NEW i, PoolOK(i), info' = [info EXCEPT ![p] = i],
         row' \in [Users -> [Pools -> Row]], collateral' \in [Accounts -> Int],
         book' \in [Accounts -> Book], params' \in [llp : Pools \cup {NoPool}, cooldown : Nat],
         now' \in Nat, msgs' \in Nat, moves' \in Nat
  PROVE  IInv'
<1>1. info' \in [Pools -> PoolInfo]
  BY DEF IInv, TypeOK, PoolOK, PoolInfo
<1>2. \A q \in Pools : PoolOK(info'[q])
  BY PoolsOK DEF IInv, TypeOK
<1>3. TypeOK'
  BY <1>1 DEF TypeOK, PoolInfo, Row, Book
<1>4. OperatorFloor' /\ UnusedPoolsEmpty'
  BY <1>2 DEF OperatorFloor, UnusedPoolsEmpty, PoolOK, CheckMinOperatorShareRate
<1> QED BY <1>3, <1>4 DEF IInv

\* The genesis state satisfies the invariant: no pool has shares.
LEMMA InitOK ==
  Init => IInv
<1> SUFFICES ASSUME Init
             PROVE  IInv
  OBVIOUS
<1>1. FeeTick \in Nat \ {0} /\ ShareTick \in Nat \ {0} /\ InitialBuckets \in [Strategies -> Nat]
      /\ Gov \in Users /\ InsuranceFund \in Pools /\ Cooldowns \subseteq Nat /\ Funds \in [Accounts -> Nat]
  BY PublicPoolAssumption
<1>2. TypeOK
  <2>1. \A p \in Pools : info[p] \in PoolInfo
    <3> SUFFICES ASSUME NEW p \in Pools
                 PROVE  info[p] \in PoolInfo
      OBVIOUS
    <3> DEFINE b == IF p = InsuranceFund THEN InitialBuckets ELSE [s \in Strategies |-> 0]
               t == IF p = InsuranceFund THEN "active" ELSE "none"
    <3>1. b \in [Strategies -> Nat] /\ t \in {"none", "active", "frozen"}
      BY <1>1
    <3>2. info[p] = [status |-> t, operator |-> Gov, fee |-> 0, rate |-> 0, total |-> 0,
                     operatorShares |-> 0, buckets |-> b]
      BY DEF Init
    <3> HIDE DEF b, t
    <3> QED BY <1>1, <3>1, <3>2 DEF PoolInfo
  <2>2. info \in [Pools -> PoolInfo]
    BY <2>1 DEF Init
  <2>3. row \in [Users -> [Pools -> Row]]
    BY DEF Init, NoShares, Row
  <2>4. book \in [Accounts -> Book]
    BY DEF Init, Flat, Book
  <2>5. collateral \in [Accounts -> Int]
    BY <1>1 DEF Init
  <2>6. params \in [llp : Pools \cup {NoPool}, cooldown : Nat]
    BY <1>1 DEF Init
  <2>7. now \in Nat /\ msgs \in Nat /\ moves \in Nat
    BY DEF Init
  <2> QED BY <2>2, <2>3, <2>4, <2>5, <2>6, <2>7 DEF TypeOK, PoolInfo, Row, Book
<1>3. \A p \in Pools : info[p].total = 0
  BY DEF Init
<1> QED BY <1>2, <1>3 DEF IInv, OperatorFloor, UnusedPoolsEmpty, CheckMinOperatorShareRate

\* A payer's collateral and book keep their types.
LEMMA PaymentTypes ==
  ASSUME TypeOK, NEW u \in Users, NEW p \in Pools, NEW x \in Int, NEW y \in Int
  PROVE  /\ [[collateral EXCEPT ![u] = collateral[u] - x] EXCEPT ![p] = collateral[p] + y]
              \in [Accounts -> Int]
         /\ [book EXCEPT ![u] = settleAllPositionFunding(u)] \in [Accounts -> Book]
<1>1. u \in Accounts /\ p \in Accounts
  BY DEF Accounts
<1>2. collateral[u] - x \in Int /\ collateral[p] + y \in Int
  BY <1>1 DEF TypeOK
<1>3. book[u] \in Book
  BY <1>1 DEF TypeOK, Book
<1>4. settleAllPositionFunding(u) \in Book
  <2>1. settleAllPositionFunding(u)
        = [upnl |-> book[u].upnl - book[u].owed, imr |-> book[u].imr, owed |-> 0]
    BY DEF settleAllPositionFunding
  <2>2. book[u].upnl \in Int /\ book[u].owed \in Int /\ book[u].imr \in Nat
    BY <1>3 DEF Book
  <2> QED BY <2>1, <2>2 DEF Book
<1> QED BY <1>1, <1>2, <1>4 DEF TypeOK, Book

\* The counters of a message.
LEMMA MessageTypes ==
  ASSUME TypeOK, Message
  PROVE  now' \in Nat /\ msgs' \in Nat /\ moves' \in Nat
  BY DEF TypeOK, Message

\* CreatePublicPool: all shares of a new pool are its operator's.
LEMMA CreateOK ==
  ASSUME IInv, NEW u \in Users, NEW p \in Pools, NEW seed \in Seeds, NEW fee \in Fees, NEW rate \in Rates,
         CreatePublicPool(u, p, seed, fee, rate)
  PROVE  IInv'
<1> DEFINE i == [status |-> "active", operator |-> u, fee |-> fee, rate |-> rate,
                 total |-> seed, operatorShares |-> seed, buckets |-> info[p].buckets]
           amount == seed * InitialPoolShareValue * Multiplier
<1>1. /\ seed \in Nat \ {0} /\ InitialPoolShareValue \in Nat /\ Multiplier \in Nat
      /\ fee \in 0..(FeeTick - 1) /\ rate \in 0..ShareTick /\ ShareTick \in Nat /\ u # p
  BY PublicPoolAssumption
<1>2. TypeOK /\ Message
  BY DEF IInv, CreatePublicPool
<1>3. info[p] \in PoolInfo
  BY <1>2 DEF TypeOK, PoolInfo
<1>4. i \in PoolInfo
  BY <1>1, <1>3 DEF PoolInfo
<1>5. rate * seed <= ShareTick * seed
  BY <1>1, TimesMonotone
<1>6. CheckMinOperatorShareRate(i)
  <2>1. seed * rate <= seed * ShareTick
    BY <1>1, <1>5
  <2> QED BY <2>1 DEF CheckMinOperatorShareRate
<1>7. PoolOK(i)
  BY <1>4, <1>6 DEF PoolOK
<1>8. amount \in Int
  BY <1>1
<1>9. /\ collateral' = [collateral EXCEPT ![u] = @ - amount, ![p] = @ + amount]
      /\ book' = [book EXCEPT ![u] = settleAllPositionFunding(u)]
      /\ info' = [info EXCEPT ![p] = i] /\ row' = row /\ params' = params
  BY DEF CreatePublicPool, Pays
<1> HIDE DEF amount, i
<1>10. collateral' = [[collateral EXCEPT ![u] = collateral[u] - amount] EXCEPT ![p] = collateral[p] + amount]
  BY <1>1, <1>2, <1>9 DEF TypeOK
<1>11. collateral' \in [Accounts -> Int] /\ book' \in [Accounts -> Book]
  <2>1. /\ [[collateral EXCEPT ![u] = collateral[u] - amount] EXCEPT ![p] = collateral[p] + amount]
             \in [Accounts -> Int]
        /\ [book EXCEPT ![u] = settleAllPositionFunding(u)] \in [Accounts -> Book]
    BY <1>2, <1>8, PaymentTypes
  <2> QED BY <1>9, <1>10, <2>1
<1>12. row' \in [Users -> [Pools -> Row]] /\ params' \in [llp : Pools \cup {NoPool}, cooldown : Nat]
  BY <1>2, <1>9 DEF TypeOK, Row
<1>13. now' \in Nat /\ msgs' \in Nat /\ moves' \in Nat
  BY <1>2, MessageTypes
<1> QED BY <1>7, <1>9, <1>11, <1>12, <1>13, OnePool

\* UpdatePublicPool checks the floor at the new rate.
LEMMA UpdateOK ==
  ASSUME IInv, NEW u \in Users, NEW p \in Pools, NEW status \in {"active", "frozen"},
         NEW fee \in Fees, NEW rate \in Rates, UpdatePublicPool(u, p, status, fee, rate)
  PROVE  IInv'
<1> DEFINE i == [info[p] EXCEPT !.status = status, !.fee = fee, !.rate = rate]
<1>1. fee \in 0..(FeeTick - 1) /\ rate \in 0..ShareTick
  BY PublicPoolAssumption
<1>2. TypeOK /\ Message
  BY DEF IInv, UpdatePublicPool
<1>3. info[p] \in PoolInfo
  BY <1>2 DEF TypeOK, PoolInfo
<1>4. /\ CheckMinOperatorShareRate([info[p] EXCEPT !.rate = rate])
      /\ info' = [info EXCEPT ![p] = i] /\ params' = [params EXCEPT !.llp = llpAfter(p, status)]
      /\ row' = row /\ collateral' = collateral /\ book' = book
  BY <1>2 DEF UpdatePublicPool, TypeOK
<1>5. i \in PoolInfo
  BY <1>1, <1>3 DEF PoolInfo
<1>6. i.total = info[p].total /\ i.operatorShares = info[p].operatorShares /\ i.rate = rate /\ i.status = status
  BY <1>3 DEF PoolInfo
<1>7. CheckMinOperatorShareRate(i)
  <2> HIDE DEF i
  <2> QED BY <1>3, <1>4, <1>6 DEF CheckMinOperatorShareRate, PoolInfo
<1> HIDE DEF i
<1>8. PoolOK(i)
  BY <1>5, <1>6, <1>7 DEF PoolOK
<1>9. params' \in [llp : Pools \cup {NoPool}, cooldown : Nat]
  <2>1. llpAfter(p, status) \in Pools \cup {NoPool}
    BY <1>2 DEF llpAfter, TypeOK
  <2> QED BY <1>2, <1>4, <2>1 DEF TypeOK
<1>10. now' \in Nat /\ msgs' \in Nat /\ moves' \in Nat
  BY <1>2, MessageTypes
<1>11. row' \in [Users -> [Pools -> Row]] /\ collateral' \in [Accounts -> Int] /\ book' \in [Accounts -> Book]
  BY <1>2, <1>4 DEF TypeOK, Row, Book
<1> QED BY <1>4, <1>8, <1>9, <1>10, <1>11, OnePool

\* MintShares: an investor's mint is checked, the operator's own needs no check.
LEMMA MintOK ==
  ASSUME IInv, NEW u \in Users, NEW p \in Pools, NEW usdc \in Principals, MintShares(u, p, usdc)
  PROVE  IInv'
<1>1. TypeOK /\ Message /\ params' = params /\ usdc \in Nat /\ Multiplier \in Nat
  BY PublicPoolAssumption DEF IInv, MintShares
<1>2. PICK s \in Nat : Minted(u, p, usdc, s)
  BY <1>1, MintIsMinted
<1> DEFINE i == info[p]
           j == [i EXCEPT !.total = @ + s, !.operatorShares = @ + s]
           k == [i EXCEPT !.total = @ + s]
<1>3. PoolOK(i) /\ i.status = "active"
  BY <1>2, PoolsOK DEF Minted
<1>4. i \in PoolInfo /\ CheckMinOperatorShareRate(i)
  BY <1>3 DEF PoolOK
<1>5. PoolOK(j)
  <2>1. j \in PoolInfo /\ j.status = "active"
    <3> DEFINE t == i.total + s
               o == i.operatorShares + s
    <3>1. t \in Nat /\ o \in Nat
      BY <1>4 DEF PoolInfo
    <3>2. j = [i EXCEPT !.total = t, !.operatorShares = o]
      OBVIOUS
    <3> HIDE DEF t, o, j, i
    <3> QED BY <1>3, <1>4, <3>1, <3>2 DEF PoolInfo
  <2>2. CheckMinOperatorShareRate(j)
    BY <1>4, OperatorMintKeepsFloor
  <2> HIDE DEF j
  <2> QED BY <2>1, <2>2 DEF PoolOK
<1>6. k \in PoolInfo /\ k.status = "active"
  BY <1>3, <1>4 DEF PoolInfo
<1>7. CheckMinOperatorShareRate(k) => PoolOK(k)
  <2> HIDE DEF k
  <2> QED BY <1>6 DEF PoolOK
<1>8. \/ info' = [info EXCEPT ![p] = j]
      \/ info' = [info EXCEPT ![p] = k] /\ CheckMinOperatorShareRate(k)
  BY <1>2 DEF Minted
<1>9. row' \in [Users -> [Pools -> Row]]
  <2>1. row[u][p] \in Row /\ row \in [Users -> [Pools -> Row]] /\ now \in Nat
    BY <1>1 DEF TypeOK, Row
  <2>2. UpsertPublicPoolShare(row[u][p], s, usdc) \in Row
    BY <1>1, <2>1 DEF UpsertPublicPoolShare, Row
  <2> QED BY <1>2, <2>1, <2>2 DEF Minted
<1>10. collateral' \in [Accounts -> Int] /\ book' \in [Accounts -> Book]
  <2> DEFINE x == usdc * Multiplier
  <2>1. x \in Int
    BY <1>1
  <2>2. /\ collateral' = [[collateral EXCEPT ![u] = collateral[u] - x] EXCEPT ![p] = collateral[p] + x]
        /\ book' = [book EXCEPT ![u] = settleAllPositionFunding(u)]
    BY <1>2 DEF Minted
  <2> HIDE DEF x
  <2>3. /\ [[collateral EXCEPT ![u] = collateral[u] - x] EXCEPT ![p] = collateral[p] + x]
             \in [Accounts -> Int]
        /\ [book EXCEPT ![u] = settleAllPositionFunding(u)] \in [Accounts -> Book]
    BY <1>1, <2>1, PaymentTypes
  <2> QED BY <2>2, <2>3
<1>11. params' \in [llp : Pools \cup {NoPool}, cooldown : Nat] /\ now' \in Nat /\ msgs' \in Nat /\ moves' \in Nat
  <2>1. now' \in Nat /\ msgs' \in Nat /\ moves' \in Nat
    BY <1>1, MessageTypes
  <2> QED BY <1>1, <2>1 DEF TypeOK
<1> HIDE DEF i, j, k
<1> QED BY <1>5, <1>7, <1>8, <1>9, <1>10, <1>11, OnePool

\* burnSharesCore: the cap bounds the shares burned by all shares.
LEMMA BurnOK ==
  ASSUME IInv, NEW u \in Users, NEW p \in Pools, NEW isOperator \in BOOLEAN, NEW skip \in BOOLEAN,
         NEW s \in Nat, s > 0, Message, burnSharesCore(u, p, isOperator, s, skip)
  PROVE  IInv'
<1>1. TypeOK /\ Multiplier \in Nat /\ book' = book /\ params' = params
  BY PublicPoolAssumption DEF IInv, burnSharesCore
<1>2. PICK f \in Nat, d \in Nat : Redemption(u, p, isOperator, s, f, d)
  BY <1>1, BurnIsRedemption
<1> DEFINE i == info[p]
           j == PoolAfterBurn(i, isOperator, s, f)
<1>3. PoolOK(i)
  BY PoolsOK
<1>4. /\ i \in PoolInfo /\ f <= s /\ s <= i.total /\ (isOperator => s <= i.operatorShares) /\ i.total > 0
      /\ info' = [info EXCEPT ![p] = j] /\ KeepsFloor(j, isOperator)
      /\ ~ isOperator => s <= row[u][p].shares
  BY <1>2, <1>3 DEF Redemption, PoolOK
<1>5. j \in PoolInfo /\ j.status = i.status
  <2> DEFINE t == i.total - (s - f)
             o == IF isOperator THEN i.operatorShares - s ELSE i.operatorShares + f
  <2>1. t \in Nat
    BY <1>4 DEF PoolInfo
  <2>2. o \in Nat
    BY <1>4 DEF PoolInfo
  <2>3. j = [i EXCEPT !.total = t, !.operatorShares = o]
    BY <1>4 DEF PoolAfterBurn, PoolInfo
  <2> HIDE DEF t, o, j
  <2> QED BY <1>4, <2>1, <2>2, <2>3 DEF PoolInfo
<1> HIDE DEF j
<1>6. PoolOK(j)
  BY <1>3, <1>4, <1>5 DEF PoolOK, KeepsFloor
<1>7. row' \in [Users -> [Pools -> Row]]
  <2> DEFINE r == row[u][p]
  <2>1. r \in Row /\ row \in [Users -> [Pools -> Row]]
    BY <1>1 DEF TypeOK, Row
  <2>2. CASE isOperator
    BY <2>1, <2>2 DEF burnSharesCore
  <2>3. CASE ~ isOperator
    <3>1. r.shares \in Nat /\ r.principal \in Nat /\ s <= r.shares
      BY <1>4, <2>1, <2>3 DEF Row
    <3>2. PaidFor(r, s) \in Nat /\ PaidFor(r, s) <= r.principal
      <4> HIDE DEF r
      <4> QED BY <3>1, PartOf DEF PaidFor
    <3>3. ReducePublicPoolShare(r, s) \in Row
      <4> DEFINE q == PaidFor(r, s)
      <4>1. ReducePublicPoolShare(r, s)
            = IF s = r.shares THEN NoShares ELSE [r EXCEPT !.shares = r.shares - s, !.principal = r.principal - q]
        BY <2>1 DEF ReducePublicPoolShare, Row
      <4>2. q \in Nat /\ q <= r.principal
        BY <3>2
      <4> HIDE DEF q, r
      <4>3. r.shares - s \in Nat /\ r.principal - q \in Nat
        BY <3>1, <4>2
      <4> DEFINE x == r.shares - s
                 y == r.principal - q
      <4>4. x \in Nat /\ y \in Nat
        BY <4>3
      <4> HIDE DEF x, y
      <4>5. [r EXCEPT !.shares = x, !.principal = y] \in Row
        BY <2>1, <4>4 DEF Row
      <4>6. NoShares \in Row
        BY DEF NoShares, Row
      <4> QED BY <4>1, <4>5, <4>6 DEF x, y
    <3>4. row' = [row EXCEPT ![u] = [row[u] EXCEPT ![p] = ReducePublicPoolShare(r, s)]]
      BY <2>1, <2>3 DEF burnSharesCore
    <3> HIDE DEF r
    <3> QED BY <2>1, <3>3, <3>4
  <2> QED BY <2>2, <2>3
<1>8. collateral' \in [Accounts -> Int]
  <2> DEFINE x == d * Multiplier
  <2>1. x \in Int /\ u \in Accounts /\ p \in Accounts
    BY <1>1 DEF Accounts
  <2>2. collateral' = [[collateral EXCEPT ![p] = collateral[p] - x] EXCEPT ![u] = collateral[u] + x]
    BY <1>2 DEF Redemption
  <2> HIDE DEF x
  <2>3. collateral[p] - x \in Int /\ collateral[u] + x \in Int /\ collateral \in [Accounts -> Int]
    BY <1>1, <2>1 DEF TypeOK
  <2> QED BY <2>1, <2>2, <2>3
<1>9. now' \in Nat /\ msgs' \in Nat /\ moves' \in Nat
  BY <1>1, MessageTypes
<1>10. book' \in [Accounts -> Book] /\ params' \in [llp : Pools \cup {NoPool}, cooldown : Nat]
  BY <1>1 DEF TypeOK, Book
<1> QED BY <1>4, <1>6, <1>7, <1>8, <1>9, <1>10, OnePool

\* StrategyTransfer touches the buckets only.
LEMMA TransferOK ==
  ASSUME IInv, NEW from \in Strategies, NEW to \in Strategies,
         NEW amount \in 1..info[InsuranceFund].buckets[from], StrategyTransfer(from, to, amount)
  PROVE  IInv'
<1> DEFINE p == InsuranceFund
           b == info[p].buckets
           c == Reallocated(b, from, to, amount)
           i == [info[p] EXCEPT !.buckets = c]
<1>1. p \in Pools /\ TypeOK /\ Message /\ row' = row /\ collateral' = collateral /\ book' = book /\ params' = params
  BY PublicPoolAssumption DEF IInv, StrategyTransfer
<1>2. PoolOK(info[p])
  BY <1>1, PoolsOK
<1>3. info[p] \in PoolInfo
  BY <1>2 DEF PoolOK
<1>4. b \in [Strategies -> Nat]
  BY <1>3 DEF PoolInfo
<1>5. from # to /\ b[from] >= amount /\ amount \in Nat /\ info' = [info EXCEPT ![p].buckets = c]
  <2>1. from # to /\ b[from] >= amount /\ info' = [info EXCEPT ![p].buckets = c]
    BY DEF StrategyTransfer
  <2>2. amount \in Nat
    BY <1>4
  <2> QED BY <2>1, <2>2
<1>6. b[from] - amount \in Nat /\ b[to] + amount \in Nat
  BY <1>4, <1>5
<1>7. c \in [Strategies -> Nat]
  <2> HIDE DEF b
  <2> QED BY <1>4, <1>5, <1>6 DEF Reallocated
<1> HIDE DEF c, b
<1>8. info' = [info EXCEPT ![p] = i]
  BY <1>1, <1>5 DEF TypeOK
<1>9. i \in PoolInfo /\ i.status = info[p].status /\ i.total = info[p].total /\ i.rate = info[p].rate
      /\ i.operatorShares = info[p].operatorShares
  BY <1>3, <1>7 DEF PoolInfo
<1> HIDE DEF i
<1>10. PoolOK(i)
  BY <1>2, <1>9 DEF PoolOK, CheckMinOperatorShareRate
<1>11. now' \in Nat /\ msgs' \in Nat /\ moves' \in Nat
  BY <1>1, MessageTypes
<1>12. /\ row' \in [Users -> [Pools -> Row]] /\ collateral' \in [Accounts -> Int]
       /\ book' \in [Accounts -> Book] /\ params' \in [llp : Pools \cup {NoPool}, cooldown : Nat]
  BY <1>1 DEF TypeOK, Row, Book
<1> QED BY <1>1, <1>8, <1>10, <1>11, <1>12, OnePool

\* Steps that leave the pools' shares alone.
LEMMA QuietOK ==
  ASSUME IInv, \/ \E llp \in Pools \cup {NoPool}, cooldown \in Cooldowns : UpdateParams(llp, cooldown)
               \/ \E m \in Moves : Trade(m)
               \/ Tick
               \/ UNCHANGED vars
  PROVE  IInv'
<1>1. TypeOK /\ OperatorFloor /\ UnusedPoolsEmpty
  BY DEF IInv
<1>2. CASE \E llp \in Pools \cup {NoPool}, cooldown \in Cooldowns : UpdateParams(llp, cooldown)
  <2>1. Cooldowns \subseteq Nat
    BY PublicPoolAssumption
  <2>2. params' \in [llp : Pools \cup {NoPool}, cooldown : Nat] /\ Message /\ UNCHANGED <<info, row, collateral, book>>
    BY <1>2, <2>1 DEF UpdateParams
  <2>3. now' \in Nat /\ msgs' \in Nat /\ moves' \in Nat
    BY <1>1, <2>2, MessageTypes
  <2> QED BY <1>1, <2>2, <2>3 DEF IInv, TypeOK, OperatorFloor, UnusedPoolsEmpty, CheckMinOperatorShareRate
<1>3. CASE \E m \in Moves : Trade(m)
  <2>1. PICK m \in Moves : Trade(m)
    BY <1>3
  <2>2. m.account \in Accounts /\ m.book \in Book /\ m.gain \in Int
    BY PublicPoolAssumption DEF Book
  <2>3. /\ book' = [book EXCEPT ![m.account] = m.book]
        /\ collateral' = [collateral EXCEPT ![m.account] = collateral[m.account] + m.gain]
        /\ moves' = moves + 1 /\ UNCHANGED <<info, row, params, now, msgs>>
    BY <2>1 DEF Trade
  <2>4. book' \in [Accounts -> Book]
    BY <1>1, <2>2, <2>3 DEF TypeOK, Book
  <2>5. collateral' \in [Accounts -> Int]
    <3>1. collateral[m.account] + m.gain \in Int
      BY <1>1, <2>2 DEF TypeOK
    <3> QED BY <1>1, <2>3, <3>1 DEF TypeOK
  <2> QED BY <1>1, <2>3, <2>4, <2>5
          DEF IInv, TypeOK, OperatorFloor, UnusedPoolsEmpty, CheckMinOperatorShareRate, Book
<1>4. CASE Tick
  BY <1>1, <1>4 DEF Tick, IInv, TypeOK, OperatorFloor, UnusedPoolsEmpty, CheckMinOperatorShareRate
<1>5. CASE UNCHANGED vars
  BY <1>1, <1>5 DEF vars, IInv, TypeOK, OperatorFloor, UnusedPoolsEmpty, CheckMinOperatorShareRate
<1> QED BY <1>2, <1>3, <1>4, <1>5

\* IInv is inductive.
LEMMA NextOK ==
  IInv /\ [Next]_vars => IInv'
<1> SUFFICES ASSUME IInv, [Next]_vars
             PROVE  IInv'
  OBVIOUS
<1>1. \A p \in Pools : info[p].total \in Nat
  BY DEF IInv, TypeOK
<1>2. ASSUME NEW u \in Users, NEW p \in Pools, NEW seed \in Seeds, NEW fee \in Fees, NEW rate \in Rates,
             CreatePublicPool(u, p, seed, fee, rate)
      PROVE  IInv'
  BY <1>2, CreateOK
<1>3. ASSUME NEW u \in Users, NEW p \in Pools, NEW status \in {"active", "frozen"},
             NEW fee \in Fees, NEW rate \in Rates, UpdatePublicPool(u, p, status, fee, rate)
      PROVE  IInv'
  BY <1>3, UpdateOK
<1>4. ASSUME NEW u \in Users, NEW p \in Pools, NEW usdc \in Principals, MintShares(u, p, usdc)
      PROVE  IInv'
  BY <1>4, MintOK
<1>5. ASSUME NEW u \in Users, NEW p \in Pools, NEW s \in 1..info[p].total, BurnShares(u, p, s)
      PROVE  IInv'
  <2>1. s \in Nat /\ s > 0
    BY <1>1
  <2>2. Message /\ burnSharesCore(u, p, isPoolOperator(p, u), s, FALSE) /\ isPoolOperator(p, u) \in BOOLEAN
    BY <1>5 DEF BurnShares, isPoolOperator
  <2> QED BY <2>1, <2>2, BurnOK
<1>6. ASSUME NEW u \in Users, NEW s \in 1..info[InsuranceFund].total, ForceBurnShares(u, s)
      PROVE  IInv'
  <2>1. InsuranceFund \in Pools
    BY PublicPoolAssumption
  <2>2. s \in Nat /\ s > 0
    BY <1>1, <2>1
  <2>3. Message /\ burnSharesCore(u, InsuranceFund, FALSE, s, TRUE)
    BY <1>6 DEF ForceBurnShares
  <2> QED BY <2>1, <2>2, <2>3, BurnOK
<1>7. ASSUME NEW from \in Strategies, NEW to \in Strategies,
             NEW amount \in 1..info[InsuranceFund].buckets[from], StrategyTransfer(from, to, amount)
      PROVE  IInv'
  BY <1>7, TransferOK
<1>8. ASSUME \/ \E llp \in Pools \cup {NoPool}, cooldown \in Cooldowns : UpdateParams(llp, cooldown)
             \/ \E m \in Moves : Trade(m)
             \/ Tick
             \/ UNCHANGED vars
      PROVE  IInv'
  BY <1>8, QuietOK
<1> QED BY <1>2, <1>3, <1>4, <1>5, <1>6, <1>7, <1>8 DEF Next

\* The operator of an active pool always holds the floor the pool advertises: every mint,
\* burn, forced burn and change of the rate keeps it, for every rate and every amount.
THEOREM OperatorFloorHolds ==
  Spec => []OperatorFloor
<1>1. IInv => OperatorFloor
  BY DEF IInv
<1> QED BY InitOK, NextOK, <1>1, PTL DEF Spec

-----------------------------------------------------------------------------
(* What a step does to one pool's shares and value. *)

\* The value of a share after a mint of s shares for usdc.
LEMMA MintKeepsValue ==
  ASSUME NEW t \in Nat, NEW v \in Int, NEW s \in Nat, NEW usdc \in Nat, NEW m \in Nat,
         s * v <= usdc * t * m
  PROVE  (v + usdc * m) * t >= v * (t + s)
<1>1. (v + usdc * m) * t = v * t + usdc * t * m /\ v * (t + s) = v * t + s * v
  OBVIOUS
<1>2. v * t \in Int /\ s * v \in Int /\ usdc * t * m \in Int
  OBVIOUS
<1> QED BY <1>1, <1>2

\* The value of a share after b shares leave with x.
LEMMA BurnKeepsValue ==
  ASSUME NEW t \in Nat, NEW v \in Int, NEW b \in Int, NEW x \in Int, x * t <= b * v
  PROVE  (v - x) * t >= v * (t - b)
<1>1. (v - x) * t = v * t - x * t /\ v * (t - b) = v * t - b * v
  OBVIOUS
<1>2. v * t \in Int /\ x * t \in Int /\ b * v \in Int
  OBVIOUS
<1> QED BY <1>1, <1>2

\* The payout is at most what is available when the shares burned are.
LEMMA BurnKeepsMargin ==
  ASSUME NEW t \in Nat, t > 0, NEW v \in Int, v > 0, NEW s \in Nat, NEW f \in Nat, f <= s,
         NEW x \in Int, NEW a \in Int, x * t <= (s - f) * v, s * v <= a * t
  PROVE  x <= a
<1>1. (s - f) * v <= s * v
  BY TimesMonotone
<1>2. x * t \in Int /\ (s - f) * v \in Int /\ s * v \in Int /\ a * t \in Int
  OBVIOUS
<1>3. x * t <= a * t
  BY <1>1, <1>2
<1> QED BY <1>3, TimesCancel

\* A step that leaves a pool's shares, collateral and book alone.
LEMMA Untouched ==
  ASSUME IInv, NEW p \in Pools, info'[p].total = info[p].total,
         collateral'[p] = collateral[p], book'[p] = book[p]
  PROVE  /\ Worth(p)' * info[p].total >= Worth(p) * info'[p].total
         /\ ~ (collateral'[p] < collateral[p])
<1>1. collateral[p] \in Int /\ Worth(p) \in Int /\ Worth(p)' = Worth(p) /\ info[p].total \in Nat
  <2>1. p \in Accounts
    BY DEF Accounts
  <2>2. collateral[p] \in Int /\ book[p] \in Book /\ info[p] \in PoolInfo
    BY <2>1 DEF IInv, TypeOK, Book, PoolInfo
  <2> QED BY <2>2 DEF Worth, Book, PoolInfo
<1>2. Worth(p) * info[p].total \in Int
  BY <1>1
<1> QED BY <1>1, <1>2

\* What both action properties ask of a message, for one pool.
Sound(p) ==
  /\ info[p].total > 0 /\ Worth(p) > 0 => Worth(p)' * info[p].total >= Worth(p) * info'[p].total
  /\ collateral'[p] < collateral[p] => Worth(p)' >= book'[p].imr

\* CreatePublicPool: the new pool had no holders.
LEMMA CreateSound ==
  ASSUME IInv, NEW u \in Users, NEW q \in Pools, NEW seed \in Seeds, NEW fee \in Fees, NEW rate \in Rates,
         CreatePublicPool(u, q, seed, fee, rate), NEW p \in Pools
  PROVE  Sound(p)
<1> DEFINE amount == seed * InitialPoolShareValue * Multiplier
<1>1. amount \in Nat /\ u # q /\ u # p /\ p \in Accounts /\ q \in Accounts /\ TypeOK
  <2>1. seed \in Nat /\ InitialPoolShareValue \in Nat /\ Multiplier \in Nat
    BY PublicPoolAssumption
  <2>2. seed * InitialPoolShareValue \in Nat
    BY <2>1
  <2>3. amount \in Nat
    BY <2>1, <2>2
  <2> QED BY <2>3, PublicPoolAssumption DEF Accounts, IInv
<1>2. /\ info[q].status = "none" /\ \A r \in Pools \ {q} : info'[r] = info[r]
      /\ collateral' = [collateral EXCEPT ![u] = @ - amount, ![q] = @ + amount]
      /\ book' = [book EXCEPT ![u] = settleAllPositionFunding(u)]
  BY DEF CreatePublicPool, Pays, IInv, TypeOK
<1> HIDE DEF amount
<1>3. book'[p] = book[p]
  BY <1>1, <1>2 DEF TypeOK
<1>4. CASE p = q
  <2>1. info[p].total = 0
    BY <1>2, <1>4 DEF IInv, UnusedPoolsEmpty
  <2>2. collateral[p] \in Int /\ collateral'[p] = collateral[p] + amount
    BY <1>1, <1>2, <1>4 DEF TypeOK
  <2> QED BY <1>1, <2>1, <2>2 DEF Sound
<1>5. CASE p # q
  <2>1. collateral'[p] = collateral[p] /\ info'[p] = info[p]
    BY <1>1, <1>2, <1>5 DEF TypeOK
  <2> QED BY <1>3, <2>1, Untouched DEF Sound
<1> QED BY <1>4, <1>5

\* MintShares.
LEMMA MintSound ==
  ASSUME IInv, NEW u \in Users, NEW q \in Pools, NEW usdc \in Principals,
         MintShares(u, q, usdc), NEW p \in Pools
  PROVE  Sound(p)
<1>1. TypeOK /\ usdc \in Nat /\ Multiplier \in Nat /\ u # q /\ u # p /\ p \in Accounts /\ q \in Accounts
  BY PublicPoolAssumption DEF IInv, Accounts
<1>2. PICK s \in Nat : Minted(u, q, usdc, s)
  BY <1>1, MintIsMinted
<1> DEFINE x == usdc * Multiplier
<1>3. /\ collateral' = [[collateral EXCEPT ![u] = collateral[u] - x] EXCEPT ![q] = collateral[q] + x]
      /\ book' = [book EXCEPT ![u] = settleAllPositionFunding(u)]
  BY <1>2 DEF Minted
<1>4. x \in Nat
  BY <1>1
<1> HIDE DEF x
<1>5. book'[p] = book[p]
  BY <1>1, <1>3 DEF TypeOK
<1>6. CASE p = q
  <2> DEFINE t == info[p].total
             v == Worth(p)
  <2>1. t \in Nat /\ v \in Int /\ collateral[p] \in Int
    <3>1. info[p] \in PoolInfo /\ collateral[p] \in Int /\ book[p] \in Book
      BY <1>1 DEF TypeOK, PoolInfo, Book
    <3> QED BY <3>1 DEF PoolInfo, Book, Worth
  <2>2. collateral'[p] = collateral[p] + x
    BY <1>1, <1>3, <1>6 DEF TypeOK
  <2>3. Worth(p)' = v + x
    <3>1. book[p].upnl \in Int
      BY <1>1 DEF TypeOK
    <3> QED BY <1>4, <1>5, <2>1, <2>2, <3>1 DEF Worth
  <2>4. info'[p].total = t + s
    <3> DEFINE j == [info[p] EXCEPT !.total = @ + s, !.operatorShares = @ + s]
               k == [info[p] EXCEPT !.total = @ + s]
    <3>1. info[p] \in PoolInfo
      BY <1>1 DEF TypeOK, PoolInfo
    <3>2. j.total = t + s
      BY <3>1 DEF PoolInfo
    <3>3. k.total = t + s
      BY <3>1 DEF PoolInfo
    <3>4. info' = [info EXCEPT ![p] = j] \/ info' = [info EXCEPT ![p] = k]
      BY <1>2, <1>6 DEF Minted
    <3> HIDE DEF j, k, t
    <3> QED BY <1>1, <3>2, <3>3, <3>4 DEF TypeOK
  <2>5. t > 0 /\ v > 0 => s * v <= usdc * t * Multiplier
    BY <1>2, <1>6 DEF Minted
  <2> HIDE DEF t, v
  <2>6. t > 0 /\ v > 0 => (v + x) * t >= v * (t + s)
    BY <1>1, <2>1, <2>5, MintKeepsValue DEF x
  <2> QED BY <1>4, <2>1, <2>2, <2>3, <2>4, <2>6 DEF Sound, t, v
<1>7. CASE p # q
  <2>1. collateral'[p] = collateral[p]
    BY <1>1, <1>3, <1>7 DEF TypeOK
  <2>2. info'[p] = info[p]
    BY <1>1, <1>2, <1>7 DEF Minted, TypeOK
  <2> QED BY <1>5, <2>1, <2>2, Untouched DEF Sound
<1> QED BY <1>6, <1>7

\* burnSharesCore.
LEMMA BurnSound ==
  ASSUME IInv, NEW u \in Users, NEW q \in Pools, NEW isOperator \in BOOLEAN, NEW skip \in BOOLEAN,
         NEW s \in Nat, s > 0, burnSharesCore(u, q, isOperator, s, skip), NEW p \in Pools
  PROVE  Sound(p)
<1>1. TypeOK /\ Multiplier \in Nat /\ u # q /\ u # p /\ p \in Accounts /\ q \in Accounts /\ book' = book
  BY PublicPoolAssumption DEF IInv, Accounts, burnSharesCore
<1>2. PICK f \in Nat, d \in Nat : Redemption(u, q, isOperator, s, f, d)
  BY <1>1, BurnIsRedemption
<1> DEFINE x == d * Multiplier
<1>3. collateral' = [[collateral EXCEPT ![q] = collateral[q] - x] EXCEPT ![u] = collateral[u] + x]
  BY <1>2 DEF Redemption
<1>4. x \in Int
  BY <1>1
<1>5. CASE p = q
  <2> DEFINE t == info[p].total
             v == Worth(p)
             m == book[p].imr
             a == v - m
  <2>1. info[p] \in PoolInfo /\ collateral[p] \in Int /\ book[p] \in Book
    BY <1>1 DEF TypeOK, PoolInfo, Book
  <2>2. t \in Nat /\ v \in Int /\ m \in Int /\ book[p].upnl \in Int
    BY <2>1 DEF PoolInfo, Book, Worth
  <2>3. f <= s /\ t > 0 /\ v > 0 /\ s * v <= a * t /\ x * t <= (s - f) * v
    BY <1>2, <1>5 DEF Redemption
  <2> HIDE DEF x
  <2>4. collateral'[p] = collateral[p] - x
    BY <1>1, <1>3, <1>5 DEF TypeOK
  <2>5. Worth(p)' = v - x
    BY <1>1, <1>4, <2>1, <2>2, <2>4 DEF Worth
  <2>6. info'[p].total = t - (s - f)
    <3> DEFINE j == PoolAfterBurn(info[p], isOperator, s, f)
    <3>1. j.total = t - (s - f)
      BY <2>1 DEF PoolAfterBurn, PoolInfo
    <3>2. info' = [info EXCEPT ![p] = j]
      BY <1>2, <1>5 DEF Redemption
    <3> HIDE DEF j, t
    <3> QED BY <1>1, <3>1, <3>2 DEF TypeOK
  <2> HIDE DEF t, v, m
  <2>7. a \in Int /\ s - f \in Int
    BY <2>2
  <2>8. (v - x) * t >= v * (t - (s - f))
    BY <1>4, <2>2, <2>3, <2>7, BurnKeepsValue
  <2>9. x <= a
    <3> HIDE DEF a
    <3> QED BY <1>4, <2>2, <2>3, <2>7, BurnKeepsMargin
  <2>10. v - x >= m
    BY <1>4, <2>2, <2>9
  <2> QED BY <1>1, <2>5, <2>6, <2>8, <2>10 DEF Sound, t, v, m
<1>6. CASE p # q
  <2> HIDE DEF x
  <2>1. collateral'[p] = collateral[p]
    BY <1>1, <1>3, <1>6 DEF TypeOK
  <2>2. info'[p] = info[p]
    BY <1>1, <1>2, <1>6 DEF Redemption, TypeOK
  <2> QED BY <1>1, <2>1, <2>2, Untouched DEF Sound
<1> QED BY <1>5, <1>6

\* Every message is sound for every pool; the other steps are no messages.
LEMMA NextSound ==
  IInv /\ [Next]_vars => [KeepsShareValue /\ KeepsPoolMargin]_vars
<1> SUFFICES ASSUME IInv, Next, msgs' # msgs, NEW p \in Pools
             PROVE  Sound(p)
  BY DEF Sound, KeepsShareValue, KeepsPoolMargin, vars
<1>1. TypeOK /\ (\A q \in Pools : info[q].total \in Nat) /\ InsuranceFund \in Pools
  BY PublicPoolAssumption DEF IInv, TypeOK
<1>2. ASSUME NEW u \in Users, NEW q \in Pools, NEW seed \in Seeds, NEW fee \in Fees, NEW rate \in Rates,
             CreatePublicPool(u, q, seed, fee, rate)
      PROVE  Sound(p)
  BY <1>2, CreateSound
<1>3. ASSUME NEW u \in Users, NEW q \in Pools, NEW usdc \in Principals, MintShares(u, q, usdc)
      PROVE  Sound(p)
  BY <1>3, MintSound
<1>4. ASSUME NEW u \in Users, NEW q \in Pools, NEW s \in 1..info[q].total, BurnShares(u, q, s)
      PROVE  Sound(p)
  <2>1. s \in Nat /\ s > 0
    BY <1>1
  <2>2. burnSharesCore(u, q, isPoolOperator(q, u), s, FALSE) /\ isPoolOperator(q, u) \in BOOLEAN
    BY <1>4 DEF BurnShares, isPoolOperator
  <2> QED BY <2>1, <2>2, BurnSound
<1>5. ASSUME NEW u \in Users, NEW s \in 1..info[InsuranceFund].total, ForceBurnShares(u, s)
      PROVE  Sound(p)
  <2>1. s \in Nat /\ s > 0
    BY <1>1
  <2>2. burnSharesCore(u, InsuranceFund, FALSE, s, TRUE)
    BY <1>5 DEF ForceBurnShares
  <2> QED BY <1>1, <2>1, <2>2, BurnSound
<1>6. ASSUME NEW u \in Users, NEW q \in Pools, NEW status \in {"active", "frozen"},
             NEW fee \in Fees, NEW rate \in Rates, UpdatePublicPool(u, q, status, fee, rate)
      PROVE  Sound(p)
  <2> DEFINE i == [info[q] EXCEPT !.status = status, !.fee = fee, !.rate = rate]
  <2>1. info' = [info EXCEPT ![q] = i] /\ collateral' = collateral /\ book' = book
    BY <1>1, <1>6 DEF UpdatePublicPool, TypeOK
  <2>2. i.total = info[q].total
    BY <1>1 DEF TypeOK
  <2> HIDE DEF i
  <2>3. info'[p].total = info[p].total
    BY <1>1, <2>1, <2>2 DEF TypeOK
  <2> QED BY <2>1, <2>3, Untouched DEF Sound
<1>7. ASSUME NEW from \in Strategies, NEW to \in Strategies,
             NEW amount \in 1..info[InsuranceFund].buckets[from], StrategyTransfer(from, to, amount)
      PROVE  Sound(p)
  <2> DEFINE c == Reallocated(info[InsuranceFund].buckets, from, to, amount)
             i == [info[InsuranceFund] EXCEPT !.buckets = c]
  <2>1. info' = [info EXCEPT ![InsuranceFund].buckets = c] /\ collateral' = collateral /\ book' = book
    BY <1>7 DEF StrategyTransfer
  <2> HIDE DEF c
  <2>2. info' = [info EXCEPT ![InsuranceFund] = i] /\ i.total = info[InsuranceFund].total
    BY <1>1, <2>1 DEF TypeOK
  <2> HIDE DEF i
  <2>3. info'[p].total = info[p].total
    BY <1>1, <2>2 DEF TypeOK
  <2> QED BY <2>1, <2>3, Untouched DEF Sound
<1>8. ASSUME NEW llp \in Pools \cup {NoPool}, NEW cooldown \in Cooldowns, UpdateParams(llp, cooldown)
      PROVE  Sound(p)
  <2>1. info' = info /\ collateral' = collateral /\ book' = book
    BY <1>8 DEF UpdateParams
  <2> QED BY <2>1, Untouched DEF Sound
<1>9. ~ (\E m \in Moves : Trade(m)) /\ ~ Tick
  BY DEF Trade, Tick
<1> QED BY <1>2, <1>3, <1>4, <1>5, <1>6, <1>7, <1>8, <1>9 DEF Next

\* No message lowers what a share of any pool is worth to those who keep theirs, for every
\* amount, price and multiplier: the quotients of USDCValueToShares, SharesToUSDCValue and
\* burnSharesCore all round in favour of the pool.
THEOREM NoDilutionHolds ==
  Spec => NoDilution
<1>1. IInv /\ [Next]_vars => [KeepsShareValue]_vars
  BY NextSound
<1> QED BY InitOK, NextOK, <1>1, PTL DEF Spec, NoDilution

\* The cap of AvailableSharesToBurn is enough: no burn, forced or not, takes a pool below its
\* initial margin, though burnSharesCore never looks at the pool's health again.
THEOREM RedemptionsKeepMarginHolds ==
  Spec => RedemptionsKeepMargin
<1>1. IInv /\ [Next]_vars => [KeepsPoolMargin]_vars
  BY NextSound
<1> QED BY InitOK, NextOK, <1>1, PTL DEF Spec, RedemptionsKeepMargin
=============================================================================
