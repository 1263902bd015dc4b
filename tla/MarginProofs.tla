---------------------------- MODULE MarginProofs ----------------------------
(* The ledger under user messages, for every set of accounts, markets, fills *)
(* and amounts, and every number of steps.                                  *)
EXTENDS Margin, TradeProofs, FiniteSetTheorems

\* The inductive invariant: well-typed rows, no entry quote in a flat one.
LedgerSafe == ledger \in LedgerType /\ vault \in Nat /\ FlatRowsEmpty

\* Fills of users are fills ApplyKeepsMoney is about.
LEMMA UserFillPlain ==
  ASSUME NEW f \in Fills
  PROVE  PlainFill(UserFill(f)) /\ f.market \in Markets
<1>1. /\ {f.maker, f.taker} \subseteq Traders /\ f.maker # f.taker /\ f.market \in Markets
      /\ f.price \in Nat /\ f.base \in Nat /\ f.takerAsk \in BOOLEAN
      /\ f.makerFee \in Int /\ f.takerFee \in Int
      /\ Traders \subseteq Accounts \ {Treasury, InsuranceFund}
  BY MarginAssumption
<1> QED BY <1>1 DEF PlainFill, UserFill

\* A write that touches only a row keeps the invariant if that row stays flat or
\* is not flat.
LEMMA RowKeepsFlat ==
  ASSUME NEW l \in LedgerType, NEW n, NEW a \in Accounts, NEW m \in Markets, OnlyRow(l, n, a, m),
         \A x \in Accounts, y \in Markets : FlatIsEmpty(l.pos[x][y]),
         FlatIsEmpty(n.pos[a][m])
  PROVE  n \in LedgerType /\ \A x \in Accounts, y \in Markets : FlatIsEmpty(n.pos[x][y])
<1>1. n \in LedgerType /\ \A x \in Accounts, y \in Markets : x # a \/ y # m => n.pos[x][y] = l.pos[x][y]
  BY DEF OnlyRow
<1> QED BY <1>1

\* settleAllPositionFunding keeps types and flat rows, and moves no collateral.
LEMMA SettleAllFacts ==
  ASSUME NEW l \in LedgerType, NEW a \in Accounts,
         \A x \in Accounts, y \in Markets : FlatIsEmpty(l.pos[x][y])
  PROVE  LET n == settleAllPositionFunding(l, a)
         IN n \in LedgerType /\ \A x \in Accounts, y \in Markets : FlatIsEmpty(n.pos[x][y])
<1> DEFINE rows == [m \in Markets |-> IF l.pos[a][m].size = 0 THEN l.pos[a][m]
                                       ELSE SettlePositionFunding(l, a, m).pos[a][m]]
           q == [l.pos EXCEPT ![a] = rows]
           n == [l EXCEPT !.pos = q]
<1>1. settleAllPositionFunding(l, a) = n
  BY DEF settleAllPositionFunding
<1>2. ASSUME NEW m \in Markets PROVE rows[m] \in Position /\ FlatIsEmpty(rows[m])
  <2> DEFINE w == SettlePositionFunding(l, a, m)
  <2>1. OnlyRow(l, w, a, m) /\ FlatIsEmpty(w.pos[a][m])
    BY SettleFacts
  <2> HIDE DEF w
  <2>2. w \in LedgerType
    BY <2>1 DEF OnlyRow
  <2>3. w.pos[a][m] \in Position /\ l.pos[a][m] \in Position
    BY <2>2, LedgerFields
  <2>4. rows[m] = IF l.pos[a][m].size = 0 THEN l.pos[a][m] ELSE w.pos[a][m]
    BY DEF w
  <2> HIDE DEF rows
  <2>5. CASE l.pos[a][m].size = 0
    BY <2>3, <2>4, <2>5
  <2>6. CASE l.pos[a][m].size # 0
    BY <2>1, <2>3, <2>4, <2>6
  <2> QED BY <2>5, <2>6
<1>3. rows \in [Markets -> Position]
  <2>1. rows = [m \in Markets |-> rows[m]]
    OBVIOUS
  <2> HIDE DEF rows
  <2> QED BY <1>2, <2>1
<1> HIDE DEF rows
<1>4. l.pos \in [Accounts -> [Markets -> Position]]
  BY DEF LedgerType
<1>5. q \in [Accounts -> [Markets -> Position]]
      /\ \A x \in Accounts : q[x] = IF x = a THEN rows ELSE l.pos[x]
  BY <1>3, <1>4
<1> HIDE DEF q
<1>6. n \in LedgerType /\ n.pos = q
  BY <1>5 DEF LedgerType
<1> HIDE DEF n
<1>7. \A x \in Accounts, y \in Markets : FlatIsEmpty(n.pos[x][y])
  BY <1>2, <1>5, <1>6
<1> QED BY <1>1, <1>6, <1>7

\* Every fill of the engine keeps the invariant.
LEMMA TradeKeeps ==
  ASSUME NEW f \in Fills, Trade(f), LedgerSafe
  PROVE  LedgerSafe'
<1> DEFINE u == UserFill(f)
           s == Stages(ledger, u)
<1>1. PlainFill(u) /\ f.market \in Markets
  BY UserFillPlain
<1>2. u.market = f.market /\ u.maker \in Accounts /\ u.taker \in Accounts
  BY <1>1 DEF UserFill, PlainFill
<1> HIDE DEF u
<1>3. OpenInterestFits(s.done.oi[u.market])
  <2>1. ApplyResult(ledger, u) = "ok"
    BY DEF Trade, u
  <2>2. CASE ~OpenInterestFits(s.done.oi[u.market])
    <3>1. ApplyResult(ledger, u) # "ok"
      BY <2>2 DEF ApplyResult, Outcome
    <3> QED BY <2>1, <3>1
  <2> QED BY <2>2
<1>4. ledger' = s.done
  BY DEF Trade, Apply, u
<1>5. ledger \in LedgerType /\ FlatIsEmpty(ledger.pos[u.maker][u.market])
      /\ FlatIsEmpty(ledger.pos[u.taker][u.market])
      /\ \A x \in Accounts, y \in Markets : FlatIsEmpty(ledger.pos[x][y])
  BY <1>1, <1>2 DEF LedgerSafe, FlatRowsEmpty
<1>6. /\ s.done \in LedgerType
      /\ \A a \in Accounts \ {u.maker, u.taker} : s.done.pos[a] = ledger.pos[a]
      /\ FlatIsEmpty(s.done.pos[u.maker][u.market]) /\ FlatIsEmpty(s.done.pos[u.taker][u.market])
      /\ \A a \in Accounts, y \in Markets \ {u.market} : s.done.pos[a][y] = ledger.pos[a][y]
  BY <1>1, <1>3, <1>5, ApplyKeepsMoney
<1> HIDE DEF s
<1>7. \A x \in Accounts, y \in Markets : FlatIsEmpty(s.done.pos[x][y])
  BY <1>5, <1>6
<1>8. vault' \in Nat
  BY DEF Trade, LedgerSafe
<1> QED BY <1>4, <1>6, <1>7, <1>8 DEF LedgerSafe, FlatRowsEmpty

\* AddCollateral does not touch positions.
LEMMA CollateralKeeps ==
  ASSUME NEW l \in LedgerType, NEW a \in Accounts, NEW delta \in Int,
         \A x \in Accounts, y \in Markets : FlatIsEmpty(l.pos[x][y])
  PROVE  LET n == AddCollateral(l, a, delta)
         IN n \in LedgerType /\ \A x \in Accounts, y \in Markets : FlatIsEmpty(n.pos[x][y])
<1>1. AddCollateral(l, a, delta) \in LedgerType /\ AddCollateral(l, a, delta).pos = l.pos
  BY AddCollateralFacts
<1> QED BY <1>1

\* The account messages.
LEMMA MessageKeeps ==
  ASSUME NEW a \in Traders, NEW b \in Traders, NEW amount \in Amounts, LedgerSafe,
         Deposit(a, amount) \/ Withdraw(a, amount) \/ Transfer(a, b, amount)
  PROVE  LedgerSafe'
<1> DEFINE delta == amount * ExtensionMultiplier
           pre == settleAllPositionFunding(ledger, a)
           paid == AddCollateral(pre, a, -delta)
           sent == AddCollateral(paid, b, delta)
           put == AddCollateral(ledger, a, delta)
<1>1. a \in Accounts /\ b \in Accounts /\ amount \in Nat /\ vault \in Nat
  BY MarginAssumption DEF LedgerSafe
<1>2. delta \in Int /\ -delta \in Int
  BY <1>1, MarginAssumption
<1>3. ledger \in LedgerType /\ \A x \in Accounts, y \in Markets : FlatIsEmpty(ledger.pos[x][y])
  BY DEF LedgerSafe, FlatRowsEmpty
<1>4. CASE Deposit(a, amount)
  <2>1. ledger' = put /\ vault' = vault + amount
    BY <1>4 DEF Deposit
  <2> HIDE DEF delta
  <2>2. put \in LedgerType /\ \A x \in Accounts, y \in Markets : FlatIsEmpty(put.pos[x][y])
    BY <1>1, <1>2, <1>3, CollateralKeeps
  <2> HIDE DEF put
  <2> QED BY <1>1, <2>1, <2>2 DEF LedgerSafe, FlatRowsEmpty
<1>5. pre \in LedgerType /\ \A x \in Accounts, y \in Markets : FlatIsEmpty(pre.pos[x][y])
  BY <1>1, <1>3, SettleAllFacts
<1>6. CASE Withdraw(a, amount)
  <2>1. ledger' = paid /\ vault' = vault - amount /\ amount <= vault
    BY <1>6 DEF Withdraw, SendCoinsFromModule
  <2> HIDE DEF delta, pre
  <2>2. paid \in LedgerType /\ \A x \in Accounts, y \in Markets : FlatIsEmpty(paid.pos[x][y])
    BY <1>1, <1>2, <1>5, CollateralKeeps
  <2> HIDE DEF paid
  <2> QED BY <1>1, <2>1, <2>2 DEF LedgerSafe, FlatRowsEmpty
<1>7. CASE Transfer(a, b, amount)
  <2>1. ledger' = sent /\ vault' = vault
    BY <1>7 DEF Transfer
  <2> HIDE DEF delta, pre
  <2>2. paid \in LedgerType /\ \A x \in Accounts, y \in Markets : FlatIsEmpty(paid.pos[x][y])
    BY <1>1, <1>2, <1>5, CollateralKeeps
  <2> HIDE DEF paid
  <2>3. sent \in LedgerType /\ \A x \in Accounts, y \in Markets : FlatIsEmpty(sent.pos[x][y])
    BY <1>1, <1>2, <2>2, CollateralKeeps
  <2> HIDE DEF sent
  <2> QED BY <1>1, <2>1, <2>3 DEF LedgerSafe, FlatRowsEmpty
<1> QED BY <1>4, <1>6, <1>7

\* UpdateMargin settles one row, then moves collateral into its margin.
LEMMA MarginKeeps ==
  ASSUME NEW a \in Traders, NEW m \in Markets, NEW amount \in Int, LedgerSafe,
         UpdateMargin(a, m, amount)
  PROVE  LedgerSafe'
<1> DEFINE pre == SettlePositionFunding(ledger, a, m)
           w == AddCollateral(pre, a, -amount)
           p == w.pos[a][m]
           alloc == p.alloc + amount
           row == [p EXCEPT !.alloc = alloc]
           n == [w EXCEPT !.pos[a][m] = row]
<1>1. a \in Accounts /\ -amount \in Int
  BY MarginAssumption
<1>2. ledger \in LedgerType /\ \A x \in Accounts, y \in Markets : FlatIsEmpty(ledger.pos[x][y])
  BY DEF LedgerSafe, FlatRowsEmpty
<1>3. ledger' = [w EXCEPT !.pos[a][m].alloc = @ + amount] /\ vault' = vault
  BY DEF UpdateMargin
<1>4. OnlyRow(ledger, pre, a, m) /\ FlatIsEmpty(pre.pos[a][m])
  BY <1>1, <1>2, SettleFacts
<1> HIDE DEF pre
<1>5. pre \in LedgerType /\ \A x \in Accounts, y \in Markets : FlatIsEmpty(pre.pos[x][y])
  BY <1>1, <1>2, <1>4, RowKeepsFlat
<1>6. w \in LedgerType /\ \A x \in Accounts, y \in Markets : FlatIsEmpty(w.pos[x][y])
  BY <1>1, <1>5, CollateralKeeps
<1> HIDE DEF w
<1>7. [w EXCEPT !.pos[a][m].alloc = @ + amount] = n
  BY <1>6
<1>8. p \in Position /\ p.alloc \in Int /\ FlatIsEmpty(p)
  BY <1>1, <1>6, LedgerFields
<1> HIDE DEF p
<1>9. alloc \in Int
  BY <1>8
<1> HIDE DEF alloc
<1>10. row \in Position /\ row.size = p.size /\ row.entry = p.entry
  BY <1>8, <1>9 DEF Position
<1>11. FlatIsEmpty(row)
  BY <1>8, <1>10 DEF FlatIsEmpty
<1> HIDE DEF row
<1>12. OnlyRow(w, n, a, m) /\ n.pos[a][m] = row
  BY <1>1, <1>6, <1>10, SetRow
<1> HIDE DEF n
<1>13. n \in LedgerType /\ \A x \in Accounts, y \in Markets : FlatIsEmpty(n.pos[x][y])
  BY <1>1, <1>6, <1>11, <1>12, RowKeepsFlat
<1> QED BY <1>3, <1>7, <1>13 DEF LedgerSafe, FlatRowsEmpty

\* UpdateLeverage rewrites the mode of one row.
LEMMA LeverageKeeps ==
  ASSUME NEW a \in Traders, NEW m \in Markets, NEW isolated \in BOOLEAN, LedgerSafe,
         UpdateLeverage(a, m, isolated)
  PROVE  LedgerSafe'
<1> DEFINE p == ledger.pos[a][m]
           row == [p EXCEPT !.isolated = isolated]
           n == [ledger EXCEPT !.pos[a][m] = row]
<1>1. a \in Accounts
  BY MarginAssumption
<1>2. ledger \in LedgerType /\ \A x \in Accounts, y \in Markets : FlatIsEmpty(ledger.pos[x][y])
  BY DEF LedgerSafe, FlatRowsEmpty
<1>3. ledger' = n /\ vault' = vault
  BY <1>2 DEF UpdateLeverage
<1>4. p \in Position /\ FlatIsEmpty(p)
  BY <1>1, <1>2, LedgerFields
<1> HIDE DEF p
<1>5. row \in Position /\ row.size = p.size /\ row.entry = p.entry
  BY <1>4 DEF Position
<1>6. FlatIsEmpty(row)
  BY <1>4, <1>5 DEF FlatIsEmpty
<1> HIDE DEF row
<1>7. OnlyRow(ledger, n, a, m) /\ n.pos[a][m] = row
  BY <1>1, <1>2, <1>5, SetRow
<1> HIDE DEF n
<1>8. n \in LedgerType /\ \A x \in Accounts, y \in Markets : FlatIsEmpty(n.pos[x][y])
  BY <1>1, <1>2, <1>6, <1>7, RowKeepsFlat
<1> QED BY <1>3, <1>8 DEF LedgerSafe, FlatRowsEmpty

\* Mark prices and funding rounds do not touch positions.
LEMMA RoundKeeps ==
  ASSUME NEW m \in Markets, NEW rate \in Int, LedgerSafe,
         RefreshMarkPrice(m) \/ SettleMarket(m, rate)
  PROVE  LedgerSafe'
<1>1. ledger \in LedgerType /\ \A x \in Accounts, y \in Markets : FlatIsEmpty(ledger.pos[x][y])
  BY DEF LedgerSafe, FlatRowsEmpty
<1>2. ledger' \in LedgerType /\ ledger'.pos = ledger.pos
  <2>1. ASSUME NEW price \in Marks,
               ledger' = [ledger EXCEPT !.mark[m] = price, !.gated = @ \ {m}]
        PROVE  ledger' \in LedgerType /\ ledger'.pos = ledger.pos
    <3>1. price \in Nat
      BY MarginAssumption
    <3> QED BY <1>1, <2>1, <3>1 DEF LedgerType
  <2>2. CASE ledger' = [ledger EXCEPT !.gated = @ \cup {m}]
    BY <1>1, <2>2 DEF LedgerType
  <2>3. CASE SettleMarket(m, rate)
    <3> DEFINE inc == ledger.prefix[m] + ledger.mark[m] * rate
               prefix == [ledger.prefix EXCEPT ![m] = inc]
    <3>1. ledger' = [ledger EXCEPT !.prefix = prefix]
      BY <2>3 DEF SettleMarket
    <3>2. ledger.prefix \in [Markets -> Int] /\ ledger.mark[m] \in Nat /\ rate \in Int
      BY <1>1 DEF LedgerType
    <3>3. inc \in Int
      BY <3>2
    <3> HIDE DEF inc
    <3>4. prefix \in [Markets -> Int]
      BY <3>2, <3>3
    <3> HIDE DEF prefix
    <3> QED BY <1>1, <3>1, <3>4 DEF LedgerType
  <2> QED BY <2>1, <2>2, <2>3 DEF RefreshMarkPrice
<1>3. vault' \in Nat
  BY DEF LedgerSafe, RefreshMarkPrice, SettleMarket
<1> QED BY <1>1, <1>2, <1>3 DEF LedgerSafe, FlatRowsEmpty

LEMMA InitSafe ==
  ASSUME Init
  PROVE  LedgerSafe
<1> DEFINE pos == [a \in Accounts |-> [m \in Markets |-> NoPosition]]
           collateral == [a \in Accounts |-> IF a \in Traders THEN Funds * ExtensionMultiplier ELSE 0]
           zero == [m \in Markets |-> 0]
<1>1. NoPosition \in Position /\ FlatIsEmpty(NoPosition)
  BY DEF NoPosition, Position, FlatIsEmpty
<1>2. Funds * ExtensionMultiplier \in Int /\ Funds \in Nat
  BY MarginAssumption
<1>3. Funds * Cardinality(Traders) \in Nat
  <2>1. Traders \subseteq Accounts /\ IsFiniteSet(Accounts)
    BY MarginAssumption, TradeAssumption
  <2>2. IsFiniteSet(Traders)
    BY <2>1, FS_Subset
  <2>3. Cardinality(Traders) \in Nat
    BY <2>2, FS_CardinalityType
  <2> QED BY <1>2, <2>3
<1>4. pos \in [Accounts -> [Markets -> Position]] /\ collateral \in [Accounts -> Int]
      /\ zero \in [Markets -> Nat] /\ zero \in [Markets -> Int]
  BY <1>1, <1>2
<1>5. ledger = [pos |-> pos, collateral |-> collateral, oi |-> zero, mark |-> zero,
                prefix |-> zero, gated |-> {}]
  BY DEF Init
<1>6. \A a \in Accounts, m \in Markets : pos[a][m] = NoPosition
  OBVIOUS
<1> HIDE DEF pos, collateral, zero
<1>7. ledger \in LedgerType /\ ledger.pos = pos
  BY <1>4, <1>5 DEF LedgerType
<1>8. FlatRowsEmpty
  BY <1>1, <1>6, <1>7 DEF FlatRowsEmpty
<1> QED BY <1>3, <1>7, <1>8 DEF LedgerSafe, Init

LEMMA NextSafe ==
  ASSUME LedgerSafe, [Next]_vars
  PROVE  LedgerSafe'
<1>1. CASE UNCHANGED vars
  BY <1>1 DEF LedgerSafe, FlatRowsEmpty, vars
<1>2. ASSUME NEW f \in Fills, Trade(f) PROVE LedgerSafe'
  BY <1>2, TradeKeeps
<1>3. ASSUME NEW a \in Traders, NEW amount \in Amounts, Deposit(a, amount) \/ Withdraw(a, amount)
      PROVE  LedgerSafe'
  BY <1>3, MessageKeeps
<1>4. ASSUME NEW a \in Traders, NEW b \in Traders, NEW amount \in Amounts, Transfer(a, b, amount)
      PROVE  LedgerSafe'
  BY <1>4, MessageKeeps
<1>5. ASSUME NEW a \in Traders, NEW m \in Markets, NEW amount \in Amounts,
             UpdateMargin(a, m, amount) \/ UpdateMargin(a, m, -amount)
      PROVE  LedgerSafe'
  <2>1. amount \in Int /\ -amount \in Int
    BY MarginAssumption
  <2> QED BY <1>5, <2>1, MarginKeeps
<1>6. ASSUME NEW a \in Traders, NEW m \in Markets, NEW isolated \in BOOLEAN,
             UpdateLeverage(a, m, isolated)
      PROVE  LedgerSafe'
  BY <1>6, LeverageKeeps
<1>7. ASSUME NEW m \in Markets, RefreshMarkPrice(m) PROVE LedgerSafe'
  <2>1. 0 \in Int
    OBVIOUS
  <2> QED BY <1>7, <2>1, RoundKeeps
<1>8. ASSUME NEW m \in Markets, NEW rate \in Rates, SettleMarket(m, rate) PROVE LedgerSafe'
  <2>1. rate \in Int
    BY MarginAssumption
  <2> QED BY <1>8, <2>1, RoundKeeps
<1> QED BY <1>1, <1>2, <1>3, <1>4, <1>5, <1>6, <1>7, <1>8 DEF Next

\* For every set of accounts, markets, fills, amounts, prices and rates, and any
\* number of steps: rows keep their types, open interest is never negative, the
\* module account never pays out coins it does not have, and a position that is
\* closed leaves no entry quote behind for the next open to overwrite.
THEOREM LedgerStaysSafe == Spec => [](LedgerSafe /\ FlatRowsEmpty)
<1>1. Init => LedgerSafe
  BY InitSafe
<1>2. LedgerSafe /\ [Next]_vars => LedgerSafe'
  BY NextSafe
<1>3. LedgerSafe => FlatRowsEmpty
  BY DEF LedgerSafe
<1> QED BY <1>1, <1>2, <1>3, PTL DEF Spec

\* In every behaviour, a fill changes what its four accounts have together by at
\* most two units of rounding: Engine.Apply redistributes collateral and creates
\* none.
THEOREM TradesKeepMoney ==
  Spec => [][\A f \in Fills : Trade(f) =>
               Abs(Together(ledger', UserFill(f))
                     - Together(Stages(ledger, UserFill(f)).settled, UserFill(f))) <= 2]_vars
<1> DEFINE Kept == \A f \in Fills : Trade(f) =>
                     Abs(Together(ledger', UserFill(f))
                           - Together(Stages(ledger, UserFill(f)).settled, UserFill(f))) <= 2
<1>1. ASSUME LedgerSafe PROVE Kept
  <2> SUFFICES ASSUME NEW f \in Fills, Trade(f)
               PROVE  Abs(Together(ledger', UserFill(f))
                            - Together(Stages(ledger, UserFill(f)).settled, UserFill(f))) <= 2
    OBVIOUS
  <2> DEFINE u == UserFill(f)
  <2>1. PlainFill(u)
    BY UserFillPlain
  <2>2. ledger' = Stages(ledger, u).done
    BY DEF Trade, Apply
  <2> HIDE DEF u
  <2>3. u.market \in Markets /\ u.maker \in Accounts /\ u.taker \in Accounts
    BY <2>1 DEF PlainFill
  <2>4. ledger \in LedgerType /\ FlatIsEmpty(ledger.pos[u.maker][u.market])
        /\ FlatIsEmpty(ledger.pos[u.taker][u.market])
    BY <1>1, <2>3 DEF LedgerSafe, FlatRowsEmpty
  <2>5. Abs(Together(Stages(ledger, u).done, u) - Together(Stages(ledger, u).settled, u)) <= 2
    BY <2>1, <2>4, ApplyKeepsMoney
  <2> QED BY <2>2, <2>5 DEF u
<1>2. LedgerSafe => [Kept]_vars
  BY <1>1
<1> HIDE DEF Kept
<1>3. Init => LedgerSafe
  BY InitSafe
<1>4. LedgerSafe /\ [Next]_vars => LedgerSafe'
  BY NextSafe
<1>5. Spec => [][Kept]_vars
  BY <1>2, <1>3, <1>4, PTL DEF Spec
<1> QED BY <1>5 DEF Kept
=============================================================================
