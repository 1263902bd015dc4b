---------------------------- MODULE TradeProofs ----------------------------
(* ApplyFill and Engine.Apply neither create nor lose collateral, for every  *)
(* position, ledger and fill.                                               *)
EXTENDS PerpTrade, TLAPS

\* Euclid: the quotient of naturals and its remainder.
LEMMA DivRange ==
  ASSUME NEW x \in Nat, NEW n \in Nat, n # 0
  PROVE  x \div n \in Nat /\ (x \div n) * n <= x /\ x < (x \div n) * n + n
  OBVIOUS

\* Quo truncates toward zero.
LEMMA QuoRange ==
  ASSUME NEW x \in Int, NEW n \in Nat, n # 0
  PROVE  /\ Quo(x, n) \in Int
         /\ x >= 0 => Quo(x, n) >= 0 /\ Quo(x, n) * n <= x /\ x < Quo(x, n) * n + n
         /\ x <= 0 => Quo(x, n) <= 0 /\ Quo(x, n) * n >= x /\ x > Quo(x, n) * n - n
<1>1. CASE x >= 0
  <2>1. Quo(x, n) = x \div n
    BY <1>1 DEF Quo, Abs
  <2>2. x = 0 => x \div n = 0
    OBVIOUS
  <2> QED BY <1>1, <2>1, <2>2, DivRange
<1>2. CASE x < 0
  <2>1. Quo(x, n) = -((-x) \div n)
    BY <1>2 DEF Quo, Abs
  <2> DEFINE q == (-x) \div n
  <2>2. q \in Nat /\ q * n <= -x /\ -x < q * n + n
    BY <1>2, DivRange
  <2>3. Quo(x, n) = -q
    BY <2>1
  <2> HIDE DEF q
  <2>4. (-q) * n = -(q * n)
    BY <2>2
  <2> QED BY <1>2, <2>2, <2>3, <2>4
<1> QED BY <1>1, <1>2

\* Signs cancel.
LEMMA QuoNeg ==
  ASSUME NEW x \in Int, NEW n \in Nat, n # 0
  PROVE  Quo(-x, -n) = Quo(x, n)
<1>1. CASE x = 0
  <2>1. 0 \div n = 0
    OBVIOUS
  <2> QED BY <1>1, <2>1 DEF Quo, Abs
<1>2. CASE x > 0
  BY <1>2 DEF Quo, Abs
<1>3. CASE x < 0
  BY <1>3 DEF Quo, Abs
<1> QED BY <1>1, <1>2, <1>3

\* An amount e divided over d and the rest of n parts is off by at most one.
LEMMA QuoSplit ==
  ASSUME NEW e \in Int, NEW n \in Nat, NEW d \in Nat, n # 0, d <= n
  PROVE  /\ Quo(e * d, n) \in Int /\ Quo(e * (n - d), n) \in Int
         /\ Abs(Quo(e * d, n) + Quo(e * (n - d), n) - e) <= 1
<1> DEFINE x == e * d
           y == e * (n - d)
           q == Quo(x, n)
           r == Quo(y, n)
<1>1. x \in Int /\ y \in Int /\ x + y = e * n
  OBVIOUS
<1>2. (e >= 0 => x >= 0 /\ y >= 0) /\ (e < 0 => x <= 0 /\ y <= 0)
  OBVIOUS
<1> HIDE DEF x, y
<1>3. q \in Int /\ r \in Int
  BY <1>1, QuoRange
<1> HIDE DEF q, r
<1>6. CASE e >= 0
  <2>1. q * n <= x /\ x < q * n + n /\ r * n <= y /\ y < r * n + n
    BY <1>1, <1>2, <1>6, QuoRange DEF q, r
  <2>2. (q + r) * n <= e * n /\ e * n < (q + r + 2) * n
    BY <1>1, <1>3, <2>1
  <2>3. q + r <= e /\ e < q + r + 2
    BY <1>3, <2>2
  <2> QED BY <1>3, <2>3 DEF Abs, q, r, x, y
<1>7. CASE e < 0
  <2>1. q * n >= x /\ x > q * n - n /\ r * n >= y /\ y > r * n - n
    BY <1>1, <1>2, <1>7, QuoRange DEF q, r
  <2>2. (q + r) * n >= e * n /\ e * n > (q + r - 2) * n
    BY <1>1, <1>3, <2>1
  <2>3. q + r >= e /\ e > q + r - 2
    BY <1>3, <2>2
  <2> QED BY <1>3, <2>3 DEF Abs, q, r, x, y
<1> QED BY <1>6, <1>7

-----------------------------------------------------------------------------
(* The value of a position: its entry quote plus what it has paid out. *)

\* A decrease or a close, for either side: the released part of the entry quote
\* and what stays add up to it within one unit.
LEMMA DecreaseSplits ==
  ASSUME NEW e \in Int, NEW size \in Int, NEW delta \in Int, size # 0,
         ~IsSameSide(size, delta), size + delta = 0 \/ IsSameSide(size, size + delta)
  PROVE  /\ Quo(e * delta, -size) \in Int /\ Quo(e * (size + delta), size) \in Int
         /\ Abs(Quo(e * delta, -size) + Quo(e * (size + delta), size) - e) <= 1
         /\ size + delta = 0 => Quo(e * (size + delta), size) = 0
<1>1. CASE size > 0
  <2> DEFINE d == -delta
  <2>1. d \in Nat /\ d <= size /\ size \in Nat
    BY <1>1 DEF IsSameSide
  <2>2. e * delta = -(e * d) /\ size + delta = size - d /\ e * d \in Int
    OBVIOUS
  <2> HIDE DEF d
  <2>3. Quo(e * delta, -size) = Quo(e * d, size)
    BY <2>1, <2>2, QuoNeg
  <2>4. size + delta = 0 => Quo(e * (size + delta), size) = 0
    BY <2>1, QuoRange
  <2> QED BY <2>1, <2>2, <2>3, <2>4, QuoSplit
<1>2. CASE size < 0
  <2> DEFINE n == -size
  <2>1. delta \in Nat /\ n \in Nat /\ delta <= n /\ n # 0
    BY <1>2 DEF IsSameSide
  <2>2. e * (size + delta) = -(e * (n - delta)) /\ size = -n /\ e * (n - delta) \in Int
    OBVIOUS
  <2> HIDE DEF n
  <2>3. Quo(e * (size + delta), size) = Quo(e * (n - delta), n)
    BY <2>1, <2>2, QuoNeg
  <2>4. -size = n
    BY <2>1, <2>2
  <2>5. n - delta = 0 => Quo(e * (n - delta), n) = 0
    BY <2>1, QuoRange
  <2>6. size + delta = 0 => n - delta = 0
    BY <2>1, <2>2
  <2> QED BY <2>1, <2>3, <2>4, <2>5, <2>6, QuoSplit
<1> QED BY <1>1, <1>2

\* ApplyFill, for every position, size and price: the size moves by delta, and the
\* entry quote that is left plus the realized profit is the old entry quote plus the
\* notional, up to one unit. The four scenarios (open, increase, decrease, flip)
\* agree on this, and a position that ends flat has no entry quote left.
THEOREM FillKeepsValue ==
  ASSUME NEW p \in Position, NEW delta \in Int, NEW price \in Nat, FlatIsEmpty(p)
  PROVE  LET c == ApplyFill(p, delta, price)
         IN /\ c.size = p.size + delta /\ c.entry \in Int /\ c.pnl \in Int
            /\ Abs((c.entry + c.pnl) - (p.entry + delta * price)) <= 1
            /\ FlatIsEmpty(c)
<1> DEFINE c == ApplyFill(p, delta, price)
           e == p.entry
           size == p.size
           notional == delta * price
<1>1. size \in Int /\ e \in Int /\ notional \in Int
  BY DEF Position
<1>2. CASE size = 0
  <2>1. c.size = size + delta /\ c.entry = notional /\ c.pnl = 0
    BY <1>2 DEF ApplyFill
  <2>2. e = 0 /\ (delta = 0 => notional = 0)
    BY <1>2 DEF FlatIsEmpty
  <2> QED BY <1>1, <1>2, <2>1, <2>2 DEF Abs, FlatIsEmpty
<1>3. CASE size # 0 /\ IsSameSide(size, delta)
  <2>1. c.size = size + delta /\ c.entry = e + notional /\ c.pnl = 0
    BY <1>3 DEF ApplyFill
  <2>2. size + delta # 0
    BY <1>1, <1>3 DEF IsSameSide
  <2> QED BY <1>1, <2>1, <2>2 DEF Abs, FlatIsEmpty
<1>4. CASE /\ size # 0 /\ ~IsSameSide(size, delta)
           /\ size + delta = 0 \/ IsSameSide(size, size + delta)
  <2> DEFINE left == Quo(e * (size + delta), size)
             gone == Quo(e * delta, -size)
  <2>1. /\ c.size = size + delta /\ c.pnl = notional + gone
        /\ c.entry = IF size + delta = 0 THEN 0 ELSE left
    BY <1>4 DEF ApplyFill, EntryLeft
  <2>2. /\ gone \in Int /\ left \in Int /\ Abs(gone + left - e) <= 1
        /\ size + delta = 0 => left = 0
    BY <1>1, <1>4, DecreaseSplits
  <2> HIDE DEF left, gone
  <2>3. c.entry = left
    BY <2>1, <2>2
  <2>4. (left + (notional + gone)) - (e + notional) = gone + left - e
    BY <1>1, <2>2
  <2> HIDE DEF c, e, size, notional
  <2>5. Abs((c.entry + c.pnl) - (e + notional)) <= 1
    BY <2>1, <2>2, <2>3, <2>4
  <2>6. c.entry \in Int /\ c.pnl \in Int /\ FlatIsEmpty(c)
    BY <1>1, <2>1, <2>2, <2>3 DEF FlatIsEmpty
  <2> QED BY <2>1, <2>5, <2>6 DEF c, e, size, notional
<1>5. CASE /\ size # 0 /\ ~IsSameSide(size, delta)
           /\ ~(size + delta = 0 \/ IsSameSide(size, size + delta))
  <2>1. /\ c.size = size + delta /\ c.entry = (size + delta) * price
        /\ c.pnl = e - size * price
    BY <1>5 DEF ApplyFill
  <2>2. (size + delta) * price = size * price + notional /\ size * price \in Int
    BY <1>1
  <2>3. size + delta # 0
    BY <1>5
  <2> HIDE DEF c, e, size, notional
  <2>4. (c.entry + c.pnl) - (e + notional) = 0
    BY <1>1, <2>1, <2>2
  <2>5. c.entry \in Int /\ c.pnl \in Int /\ FlatIsEmpty(c)
    BY <1>1, <2>1, <2>2, <2>3 DEF FlatIsEmpty
  <2> QED BY <2>1, <2>4, <2>5 DEF c, e, size, notional, Abs
<1> QED BY <1>2, <1>3, <1>4, <1>5

-----------------------------------------------------------------------------
(* What the writes of the engine change. *)

\* n is l but for the row of a in m, the rows of a.
OnlyRow(l, n, a, m) ==
  /\ n \in LedgerType
  /\ n.mark = l.mark /\ n.prefix = l.prefix /\ n.oi = l.oi /\ n.gated = l.gated
  /\ \A x \in Accounts, y \in Markets : x # a \/ y # m => n.pos[x][y] = l.pos[x][y]
  /\ \A x \in Accounts : x # a => n.collateral[x] = l.collateral[x]

\* The fields of a ledger and of a row.
LEMMA LedgerFields ==
  ASSUME NEW l \in LedgerType, NEW a \in Accounts, NEW m \in Markets
  PROVE  /\ l.pos \in [Accounts -> [Markets -> Position]] /\ l.collateral \in [Accounts -> Int]
         /\ l.pos[a] \in [Markets -> Position] /\ l.pos[a][m] \in Position
         /\ l.collateral[a] \in Int /\ l.mark[m] \in Nat /\ l.prefix[m] \in Int /\ l.oi[m] \in Nat
         /\ l.pos[a][m].size \in Int /\ l.pos[a][m].entry \in Int /\ l.pos[a][m].alloc \in Int
         /\ l.pos[a][m].last \in Int /\ l.pos[a][m].isolated \in BOOLEAN
<1>1. l.pos \in [Accounts -> [Markets -> Position]] /\ l.collateral \in [Accounts -> Int]
      /\ l.mark[m] \in Nat /\ l.prefix[m] \in Int /\ l.oi[m] \in Nat
  BY DEF LedgerType
<1>2. l.pos[a][m] \in Position
  BY <1>1
<1>3. /\ l.pos[a][m].size \in Int /\ l.pos[a][m].entry \in Int /\ l.pos[a][m].alloc \in Int
      /\ l.pos[a][m].last \in Int /\ l.pos[a][m].isolated \in BOOLEAN
  BY <1>2 DEF Position
<1> QED BY <1>1, <1>2, <1>3

\* AddCollateral.
LEMMA AddCollateralFacts ==
  ASSUME NEW l \in LedgerType, NEW a \in Accounts, NEW delta \in Int
  PROVE  LET n == AddCollateral(l, a, delta)
         IN /\ n \in LedgerType /\ n.pos = l.pos
            /\ n.mark = l.mark /\ n.prefix = l.prefix /\ n.oi = l.oi /\ n.gated = l.gated
            /\ n.collateral[a] = l.collateral[a] + delta
            /\ \A x \in Accounts : x # a => n.collateral[x] = l.collateral[x]
<1> DEFINE c == [l.collateral EXCEPT ![a] = @ + delta]
           n == [l EXCEPT !.collateral = c]
<1>1. l.collateral \in [Accounts -> Int]
  BY DEF LedgerType
<1>2. c \in [Accounts -> Int] /\ c[a] = l.collateral[a] + delta
      /\ \A x \in Accounts : x # a => c[x] = l.collateral[x]
  BY <1>1
<1>3. AddCollateral(l, a, delta) = n
  BY DEF AddCollateral
<1> HIDE DEF c
<1>4. n \in LedgerType /\ n.collateral = c /\ n.pos = l.pos
      /\ n.mark = l.mark /\ n.prefix = l.prefix /\ n.oi = l.oi /\ n.gated = l.gated
  BY <1>2 DEF LedgerType
<1> QED BY <1>2, <1>3, <1>4

\* A write to one row.
LEMMA SetRow ==
  ASSUME NEW l \in LedgerType, NEW a \in Accounts, NEW m \in Markets, NEW row \in Position
  PROVE  LET n == [l EXCEPT !.pos[a][m] = row]
         IN OnlyRow(l, n, a, m) /\ n.pos[a][m] = row /\ n.collateral = l.collateral
<1> DEFINE q == [l.pos EXCEPT ![a] = [l.pos[a] EXCEPT ![m] = row]]
           n == [l EXCEPT !.pos = q]
<1>1. l.pos \in [Accounts -> [Markets -> Position]] /\ l.pos[a] \in [Markets -> Position]
  BY LedgerFields
<1>2. q \in [Accounts -> [Markets -> Position]] /\ q[a][m] = row
      /\ \A x \in Accounts, y \in Markets : x # a \/ y # m => q[x][y] = l.pos[x][y]
  BY <1>1
<1>3. [l EXCEPT !.pos[a][m] = row] = n
  OBVIOUS
<1> HIDE DEF q
<1>4. n \in LedgerType /\ n.pos = q /\ n.collateral = l.collateral
      /\ n.mark = l.mark /\ n.prefix = l.prefix /\ n.oi = l.oi /\ n.gated = l.gated
  BY <1>2 DEF LedgerType
<1> HIDE DEF n
<1>5. OnlyRow(l, n, a, m) /\ n.pos[a][m] = row
  BY <1>2, <1>4 DEF OnlyRow
<1> QED BY <1>3, <1>4, <1>5

\* SettlePositionFunding: only the entry quote and the prefix of one row.
LEMMA SettleFacts ==
  ASSUME NEW l \in LedgerType, NEW a \in Accounts, NEW m \in Markets
  PROVE  LET n == SettlePositionFunding(l, a, m)
         IN /\ OnlyRow(l, n, a, m) /\ n.collateral = l.collateral
            /\ n.pos[a][m].size = l.pos[a][m].size /\ n.pos[a][m].alloc = l.pos[a][m].alloc
            /\ n.pos[a][m].isolated = l.pos[a][m].isolated
            /\ FlatIsEmpty(l.pos[a][m]) => FlatIsEmpty(n.pos[a][m])
<1> DEFINE p == l.pos[a][m]
           x == p.size * (l.prefix[m] - p.last)
           pay == Quo(x, FundingRateTick)
           last == l.prefix[m]
           entry == p.entry + pay
           row == [p EXCEPT !.entry = entry, !.last = last]
<1>1. p \in Position /\ p.size \in Int /\ p.entry \in Int /\ x \in Int /\ last \in Int
      /\ (p.size = 0 => x = 0)
  BY LedgerFields
<1>2. FundingRateTick \in Nat /\ FundingRateTick # 0
  BY MathAssumption
<1> HIDE DEF x
<1>3. pay \in Int /\ (x = 0 => pay = 0)
  BY <1>1, <1>2, QuoRange
<1>4. SettlePositionFunding(l, a, m) = [l EXCEPT !.pos[a][m] = row]
  BY DEF SettlePositionFunding, x
<1> HIDE DEF pay, p, last
<1>5. row \in Position /\ row.size = p.size /\ row.alloc = p.alloc /\ row.isolated = p.isolated
      /\ row.entry = p.entry + pay
  <2>1. entry \in Int
    BY <1>1, <1>3
  <2> HIDE DEF entry
  <2>2. row \in Position /\ row.size = p.size /\ row.alloc = p.alloc /\ row.isolated = p.isolated
        /\ row.entry = entry
    BY <1>1, <2>1 DEF Position
  <2> QED BY <2>2 DEF entry
<1>6. FlatIsEmpty(p) => FlatIsEmpty(row)
  BY <1>1, <1>3, <1>5 DEF FlatIsEmpty
<1> HIDE DEF row
<1> QED BY <1>4, <1>5, <1>6, SetRow DEF p

\* applyPositionChange: only the size and the entry quote of one row.
LEMMA ChangeFacts ==
  ASSUME NEW l \in LedgerType, NEW a \in Accounts, NEW m \in Markets, NEW c,
         c.size \in Int, c.entry \in Int
  PROVE  LET n == applyPositionChange(l, a, m, c)
         IN /\ OnlyRow(l, n, a, m) /\ n.collateral = l.collateral
            /\ n.pos[a][m].size = c.size /\ n.pos[a][m].entry = c.entry
            /\ n.pos[a][m].alloc = l.pos[a][m].alloc
            /\ n.pos[a][m].isolated = l.pos[a][m].isolated
<1> DEFINE p == l.pos[a][m]
           i == c.size
           j == c.entry
           row == [[p EXCEPT !.size = i] EXCEPT !.entry = j]
<1>1. p \in Position /\ i \in Int /\ j \in Int
  BY LedgerFields
<1>2. applyPositionChange(l, a, m, c) = [l EXCEPT !.pos[a][m] = row]
  <2>1. l.pos \in [Accounts -> [Markets -> Position]] /\ l.pos[a] \in [Markets -> Position]
    BY LedgerFields
  <2> QED BY <2>1 DEF applyPositionChange, LedgerType
<1> HIDE DEF p, i, j
<1>3. row \in Position /\ row.size = i /\ row.entry = j /\ row.alloc = p.alloc
      /\ row.isolated = p.isolated
  BY <1>1 DEF Position
<1> HIDE DEF row
<1> QED BY <1>2, <1>3, SetRow DEF p, i, j

\* Margin requirements and values are integers.
LEMMA RequirementType ==
  ASSUME NEW size \in Int, NEW mark \in Nat
  PROVE  InitialMargin(size, mark) \in Int
<1> DEFINE x == Abs(size) * mark * InitialMarginFraction
<1>1. x \in Int /\ MarginTick \in Nat /\ MarginTick # 0
  BY MathAssumption DEF Abs
<1> HIDE DEF x
<1>2. Quo(x, MarginTick) \in Int
  BY <1>1, QuoRange
<1> QED BY <1>2 DEF InitialMargin, MarginRequirement, x

LEMMA ValueType ==
  ASSUME NEW p \in Position, NEW mark \in Nat
  PROVE  UnrealizedPnL(p, mark) \in Int /\ MarketValue(p, mark) \in Int
<1>1. p.size \in Int /\ p.entry \in Int /\ p.alloc \in Int
  BY DEF Position
<1> QED BY <1>1 DEF UnrealizedPnL, MarketValue

\* calculateIsolatedMarginDelta never divides by an empty position.
LEMMA MarginDeltaType ==
  ASSUME NEW old \in Position, NEW new \in Position, NEW flipped \in BOOLEAN,
         NEW mark \in Nat, NEW fee \in Int
  PROVE  calculateIsolatedMarginDelta(old, new, flipped, mark, fee) \in Int
<1> DEFINE o == Abs(old.size)
           k == Abs(new.size)
           posReq == InitialMargin(new.size, mark)
           oldMV == MarketValue(old, mark)
           newMV == MarketValue(new, mark)
           oldPnL == UnrealizedPnL(old, mark)
           newPnL == UnrealizedPnL(new, mark)
           num == oldMV * k
           scaled == ceilDivPositive(num, o)
           target == IF oldMV > 0 THEN Larger(scaled, posReq) ELSE posReq
           excess == Larger(newMV - target, 0)
           more == InitialMargin(k - o, mark)
<1>1. o \in Nat /\ k \in Nat /\ new.size \in Int /\ new.alloc \in Int
  BY DEF Position, Abs
<1>2. posReq \in Int /\ oldMV \in Int /\ newMV \in Int /\ oldPnL \in Int /\ newPnL \in Int
      /\ more \in Int
  <2>1. oldMV \in Int /\ newMV \in Int /\ oldPnL \in Int /\ newPnL \in Int
    BY ValueType
  <2>2. posReq \in Int
    BY <1>1, RequirementType
  <2> HIDE DEF o, k
  <2>3. k - o \in Int
    BY <1>1
  <2>4. more \in Int
    BY <2>3, RequirementType
  <2> QED BY <2>1, <2>2, <2>4
<1> HIDE DEF o, k, posReq, oldMV, newMV, oldPnL, newPnL, more
<1>3. num \in Int
  BY <1>1, <1>2
<1> HIDE DEF num
<1>4. o # 0 => scaled \in Int
  <2> SUFFICES ASSUME o # 0 PROVE scaled \in Int
    OBVIOUS
  <2>1. Quo(num, o) \in Int
    BY <1>1, <1>3, QuoRange
  <2> QED BY <2>1 DEF ceilDivPositive
<1> HIDE DEF scaled
<1>5. o # 0 => excess \in Int
  BY <1>2, <1>4 DEF Larger
<1> HIDE DEF target, excess
<1>6. calculateIsolatedMarginDelta(old, new, flipped, mark, fee) =
        IF new.size = 0 THEN -Larger(new.alloc, 0)
        ELSE IF flipped THEN posReq - newMV
        ELSE IF k - o < 0 THEN -Smaller(excess, Larger(new.alloc, 0))
        ELSE IF k - o > 0 THEN Larger(more - (newPnL - oldPnL - fee), 0)
        ELSE 0
  BY DEF calculateIsolatedMarginDelta, o, k, posReq, oldMV, newMV, oldPnL, newPnL, num, scaled,
         target, excess, more
<1>7. k - o < 0 => o # 0
  BY <1>1
<1> QED BY <1>1, <1>2, <1>5, <1>6, <1>7 DEF Larger, Smaller

\* applyAccount: collateral and allocated margin together change by profit less
\* fees, whatever the rebalance moves between them.
LEMMA AccountFacts ==
  ASSUME NEW l \in LedgerType, NEW a \in Accounts, NEW m \in Markets, NEW old \in Position,
         NEW c, c.pnl \in Int, c.flipped \in BOOLEAN, NEW fee \in Int, NEW liqFee \in Int
  PROVE  LET n == applyAccount(l, a, m, old, c, fee, liqFee)
         IN /\ OnlyRow(l, n, a, m)
            /\ n.pos[a][m].size = l.pos[a][m].size /\ n.pos[a][m].entry = l.pos[a][m].entry
            /\ n.collateral[a] + n.pos[a][m].alloc =
                 l.collateral[a] + l.pos[a][m].alloc + c.pnl - fee - liqFee
<1> DEFINE p == l.pos[a][m]
           gain == c.pnl - fee - liqFee
           alloc == p.alloc + c.pnl - (fee + liqFee)
           delta == MarginDelta(l, a, m, old, c, fee, liqFee)
<1>1. p \in Position /\ p.alloc \in Int /\ l.collateral[a] \in Int /\ l.mark[m] \in Nat
  BY LedgerFields
<1>2. gain \in Int /\ alloc \in Int
  BY <1>1
<1>3. delta \in Int
  <2> DEFINE new == IsolatedRow(l, a, m, c, fee + liqFee)
  <2> HIDE DEF alloc, p
  <2>1. new = [p EXCEPT !.alloc = alloc]
    BY DEF IsolatedRow, alloc, p
  <2>2. new \in Position
    BY <1>1, <1>2, <2>1 DEF Position
  <2> HIDE DEF new
  <2>3. calculateIsolatedMarginDelta(old, new, c.flipped, l.mark[m], fee) \in Int
    BY <1>1, <2>2, MarginDeltaType
  <2> QED BY <2>3 DEF MarginDelta, new
<1> HIDE DEF delta
<1>4. CASE ~old.isolated
  <2> DEFINE n == AddCollateral(l, a, gain)
  <2>1. applyAccount(l, a, m, old, c, fee, liqFee) = n
    BY <1>4 DEF applyAccount, applyCrossAccount
  <2> HIDE DEF gain
  <2>2. /\ n \in LedgerType /\ n.pos = l.pos
        /\ n.mark = l.mark /\ n.prefix = l.prefix /\ n.oi = l.oi /\ n.gated = l.gated
        /\ n.collateral[a] = l.collateral[a] + gain
        /\ \A x \in Accounts : x # a => n.collateral[x] = l.collateral[x]
    BY <1>2, AddCollateralFacts
  <2> HIDE DEF n
  <2>3. OnlyRow(l, n, a, m)
    BY <2>2 DEF OnlyRow
  <2>4. n.collateral[a] + n.pos[a][m].alloc = l.collateral[a] + p.alloc + c.pnl - fee - liqFee
    BY <1>1, <2>2 DEF gain
  <2> QED BY <2>1, <2>2, <2>3, <2>4
<1>5. CASE old.isolated
  <2> DEFINE w == AddCollateral(l, a, -delta)
             sum == p.alloc + c.pnl - fee - liqFee + delta
             row == [p EXCEPT !.alloc = sum]
             n == [w EXCEPT !.pos[a][m] = row]
  <2>1. /\ w \in LedgerType /\ w.pos = l.pos
        /\ w.mark = l.mark /\ w.prefix = l.prefix /\ w.oi = l.oi /\ w.gated = l.gated
        /\ w.collateral[a] = l.collateral[a] + (-delta)
        /\ \A x \in Accounts : x # a => w.collateral[x] = l.collateral[x]
    BY <1>3, AddCollateralFacts
  <2>2. applyAccount(l, a, m, old, c, fee, liqFee) =
          [w EXCEPT !.pos[a][m].alloc = @ + c.pnl - fee - liqFee + delta]
    BY <1>5 DEF applyAccount, applyIsolatedAccount, delta
  <2> HIDE DEF w
  <2>3. [w EXCEPT !.pos[a][m].alloc = @ + c.pnl - fee - liqFee + delta] = n
    BY <2>1
  <2>4. sum \in Int
    BY <1>1, <1>3
  <2>5. row \in Position /\ row.size = p.size /\ row.entry = p.entry /\ row.alloc = sum
    <3> HIDE DEF p, sum
    <3> QED BY <1>1, <2>4 DEF Position
  <2> HIDE DEF row
  <2>6. OnlyRow(w, n, a, m) /\ n.pos[a][m] = row /\ n.collateral = w.collateral
    <3>1. w \in LedgerType /\ row \in Position
      BY <2>1, <2>5
    <3> QED BY <3>1, SetRow
  <2> HIDE DEF n
  <2>7. OnlyRow(l, n, a, m)
    BY <2>1, <2>6 DEF OnlyRow
  <2>8. n.collateral[a] + n.pos[a][m].alloc = l.collateral[a] + p.alloc + c.pnl - fee - liqFee
    BY <1>1, <1>3, <2>1, <2>5, <2>6
  <2> QED BY <2>2, <2>3, <2>5, <2>6, <2>7, <2>8
<1> QED BY <1>4, <1>5

-----------------------------------------------------------------------------
(* A fill. *)

\* The fills the theorem is about: both sides are users, and the improvement fee
\* goes to the insurance fund (recipient 0, the treasury, stands for it).
PlainFill(f) ==
  /\ {f.maker, f.taker} \subseteq Accounts \ {Treasury, InsuranceFund} /\ f.maker # f.taker
  /\ f.market \in Markets /\ f.price \in Nat /\ f.base \in Nat /\ f.takerAsk \in BOOLEAN
  /\ f.makerFee \in Int /\ f.takerFee \in Int /\ f.noFee \in BOOLEAN
  /\ f.zeroPrice \in Int /\ f.liquidationFeeBps \in Nat
  /\ f.recipient \in {Treasury, InsuranceFund}

LEMMA FeeType ==
  ASSUME NEW f, PlainFill(f)
  PROVE  MakerFeeOf(f) \in Int /\ TakerFeeOf(f) \in Int /\ LiqFeeOf(f) \in Int
<1>1. FeeTick \in Nat /\ FeeTick # 0 /\ f.price \in Nat /\ f.base \in Nat
      /\ f.makerFee \in Int /\ f.takerFee \in Int /\ f.zeroPrice \in Int
      /\ f.liquidationFeeBps \in Nat
  BY MathAssumption DEF PlainFill
<1>2. ASSUME NEW bps \in Int PROVE FeeOf(f.base * f.price, bps) \in Int
  <2> DEFINE x == f.base * f.price * bps
  <2>1. x \in Int
    BY <1>1
  <2> HIDE DEF x
  <2>2. Quo(x, FeeTick) \in Int
    BY <1>1, <2>1, QuoRange
  <2> QED BY <2>2 DEF FeeOf, x
<1>3. liquidationImprovementFee(f) \in Int
  <2> DEFINE improvement == IF f.takerAsk THEN f.price - f.zeroPrice ELSE f.zeroPrice - f.price
             y == improvement * FeeTick
             rate == Smaller(f.liquidationFeeBps, Quo(y, f.price))
             x == f.base * f.price * rate
  <2>1. improvement \in Int
    BY <1>1
  <2> HIDE DEF improvement
  <2>2. y \in Int
    BY <1>1, <2>1
  <2> HIDE DEF y
  <2>3. f.price # 0 => Quo(y, f.price) \in Int
    BY <1>1, <2>2, QuoRange
  <2>4. f.price # 0 => rate \in Int
    BY <1>1, <2>3 DEF Smaller
  <2> HIDE DEF rate
  <2>5. f.price # 0 => x \in Int
    BY <1>1, <2>4
  <2> HIDE DEF x
  <2>6. f.price # 0 => Quo(x, FeeTick) \in Int
    BY <1>1, <2>5, QuoRange
  <2>7. liquidationImprovementFee(f) =
          IF f.liquidationFeeBps = 0 \/ f.base = 0 \/ f.price = 0 \/ improvement <= 0 THEN 0
          ELSE Quo(x, FeeTick)
    BY DEF liquidationImprovementFee, improvement, y, rate, x
  <2> QED BY <2>6, <2>7
<1>4. FeeOf(f.base * f.price, f.makerFee) \in Int /\ FeeOf(f.base * f.price, f.takerFee) \in Int
  BY <1>1, <1>2
<1> QED BY <1>3, <1>4 DEF MakerFeeOf, TakerFeeOf, LiqFeeOf

LEMMA FlippedType ==
  ASSUME NEW p, NEW delta, NEW price
  PROVE  ApplyFill(p, delta, price).flipped \in BOOLEAN
BY DEF ApplyFill

\* What an account has in a market: collateral, allocated margin and entry quote.
Share(l, a, m) == l.collateral[a] + l.pos[a][m].alloc + l.pos[a][m].entry

\* The accounts a fill touches, together.
Together(l, f) ==
  Share(l, f.maker, f.market) + Share(l, f.taker, f.market)
    + Share(l, Treasury, f.market) + Share(l, InsuranceFund, f.market)

\* Engine.Apply, for every ledger and every fill of two users: maker, taker, treasury
\* and insurance fund together keep what they had once funding was settled, up to one
\* unit of rounding for each side; nobody else is touched; the two positions move by
\* opposite amounts, and one that ends flat has no entry quote left. Fees, realized
\* profit and the rebalance of isolated margin only move collateral around.
THEOREM ApplyKeepsMoney ==
  ASSUME NEW l \in LedgerType, NEW f, PlainFill(f),
         FlatIsEmpty(l.pos[f.maker][f.market]), FlatIsEmpty(l.pos[f.taker][f.market])
  PROVE  LET s == Stages(l, f)
         IN /\ Abs(Together(s.done, f) - Together(s.settled, f)) <= 2
            /\ \A a \in Accounts \ {f.maker, f.taker} : s.done.pos[a] = l.pos[a]
            /\ \A a \in Accounts \ {f.maker, f.taker, Treasury, InsuranceFund} :
                 s.done.collateral[a] = l.collateral[a]
            /\ s.done.pos[f.maker][f.market].size + s.done.pos[f.taker][f.market].size =
                 l.pos[f.maker][f.market].size + l.pos[f.taker][f.market].size
            /\ FlatIsEmpty(s.done.pos[f.maker][f.market])
            /\ FlatIsEmpty(s.done.pos[f.taker][f.market])
            /\ \A a \in Accounts, y \in Markets \ {f.market} : s.done.pos[a][y] = l.pos[a][y]
            /\ OpenInterestFits(s.done.oi[f.market]) => s.done \in LedgerType
<1> DEFINE A == f.maker
           B == f.taker
           m == f.market
           d == IF f.takerAsk THEN f.base ELSE -f.base
           MF == MakerFeeOf(f)
           TF == TakerFeeOf(f)
           LF == LiqFeeOf(f)
           s1 == SettlePositionFunding(l, A, m)
           s2 == SettlePositionFunding(s1, B, m)
           pA == s2.pos[A][m]
           pB == s2.pos[B][m]
           cA == ApplyFill(pA, d, f.price)
           cB == ApplyFill(pB, -d, f.price)
           b1 == applyPositionChange(s2, A, m, cA)
           b2 == applyPositionChange(b1, B, m, cB)
           t == applyAccount(b2, B, m, pB, cB, TF, 0)
           k == applyAccount(t, A, m, pA, cA, MF, LF)
           u == AddCollateral(k, Treasury, TF + MF)
           v == AddCollateral(u, InsuranceFund, LF)
           interest == l.oi[m] + OIDelta(cA, cB, pA, pB)
           done == [v EXCEPT !.oi[m] = interest]
<1>1. /\ A \in Accounts /\ B \in Accounts /\ A # B /\ m \in Markets /\ d \in Int /\ f.price \in Nat
      /\ A \notin {Treasury, InsuranceFund} /\ B \notin {Treasury, InsuranceFund}
      /\ Treasury \in Accounts /\ InsuranceFund \in Accounts /\ Treasury # InsuranceFund
  BY TradeAssumption DEF PlainFill
<1>2. MF \in Int /\ TF \in Int /\ LF \in Int /\ TF + MF \in Int
  BY FeeType
<1>3. Stages(l, f).settled = s2 /\ Stages(l, f).done = done
  <2>1. (IF f.recipient = Treasury THEN InsuranceFund ELSE f.recipient) = InsuranceFund
    BY DEF PlainFill
  <2> QED BY <2>1 DEF Stages
<1>4. FlatIsEmpty(l.pos[A][m]) /\ FlatIsEmpty(l.pos[B][m])
  OBVIOUS
<1>5. A \in Accounts /\ B \in Accounts /\ m \in Markets /\ A # B
  BY <1>1
<1> HIDE DEF A, B, m, d, MF, TF, LF
<1>6. OnlyRow(l, s1, A, m) /\ s1.collateral = l.collateral /\ s1 \in LedgerType
      /\ s1.pos[A][m].size = l.pos[A][m].size /\ FlatIsEmpty(s1.pos[A][m])
  <2>1. OnlyRow(l, s1, A, m) /\ s1.collateral = l.collateral
        /\ s1.pos[A][m].size = l.pos[A][m].size /\ FlatIsEmpty(s1.pos[A][m])
    BY <1>4, <1>5, SettleFacts
  <2> QED BY <2>1 DEF OnlyRow
<1>7. s1.pos[B][m] = l.pos[B][m]
  BY <1>1, <1>6 DEF OnlyRow
<1> HIDE DEF s1
<1>8. OnlyRow(s1, s2, B, m) /\ s2.collateral = s1.collateral /\ s2 \in LedgerType
      /\ s2.pos[B][m].size = s1.pos[B][m].size /\ FlatIsEmpty(s2.pos[B][m])
  <2>1. s1 \in LedgerType /\ FlatIsEmpty(s1.pos[B][m])
    BY <1>4, <1>6, <1>7
  <2>2. OnlyRow(s1, s2, B, m) /\ s2.collateral = s1.collateral
        /\ s2.pos[B][m].size = s1.pos[B][m].size /\ FlatIsEmpty(s2.pos[B][m])
    BY <1>5, <2>1, SettleFacts
  <2> QED BY <2>2 DEF OnlyRow
<1>9. pA = s1.pos[A][m]
  BY <1>1, <1>8 DEF OnlyRow
<1> HIDE DEF s2
<1>10. pA \in Position /\ pB \in Position /\ pA.entry \in Int /\ pB.entry \in Int
      /\ pA.alloc \in Int /\ pB.alloc \in Int /\ pA.size \in Int /\ pB.size \in Int
  BY <1>1, <1>8, LedgerFields
<1>11. FlatIsEmpty(pA) /\ FlatIsEmpty(pB) /\ pA.size = l.pos[A][m].size /\ pB.size = l.pos[B][m].size
  BY <1>6, <1>7, <1>8, <1>9
<1> HIDE DEF pA, pB
<1>12. /\ cA.size = pA.size + d /\ cA.entry \in Int /\ cA.pnl \in Int /\ cA.flipped \in BOOLEAN
       /\ Abs((cA.entry + cA.pnl) - (pA.entry + d * f.price)) <= 1 /\ FlatIsEmpty(cA)
  BY <1>1, <1>10, <1>11, FillKeepsValue, FlippedType
<1>13. -d \in Int
  BY <1>1
<1>14. /\ cB.size = pB.size + (-d) /\ cB.entry \in Int /\ cB.pnl \in Int /\ cB.flipped \in BOOLEAN
       /\ Abs((cB.entry + cB.pnl) - (pB.entry + (-d) * f.price)) <= 1 /\ FlatIsEmpty(cB)
  BY <1>1, <1>10, <1>11, <1>13, FillKeepsValue, FlippedType
<1>15. cA.size \in Int /\ cB.size \in Int
  BY <1>1, <1>10, <1>12, <1>14
<1> HIDE DEF cA, cB
<1>16. OnlyRow(s2, b1, A, m) /\ b1.collateral = s2.collateral /\ b1 \in LedgerType
       /\ b1.pos[A][m].size = cA.size /\ b1.pos[A][m].entry = cA.entry
       /\ b1.pos[A][m].alloc = pA.alloc
  <2>1. s2 \in LedgerType /\ cA.size \in Int /\ cA.entry \in Int
    BY <1>8, <1>12, <1>15
  <2>2. OnlyRow(s2, b1, A, m) /\ b1.collateral = s2.collateral
        /\ b1.pos[A][m].size = cA.size /\ b1.pos[A][m].entry = cA.entry
        /\ b1.pos[A][m].alloc = s2.pos[A][m].alloc
    BY <1>5, <2>1, ChangeFacts
  <2> QED BY <2>2 DEF OnlyRow, pA
<1>17. b1.pos[B][m] = pB
  BY <1>1, <1>16 DEF OnlyRow, pB
<1> HIDE DEF b1
<1>18. OnlyRow(b1, b2, B, m) /\ b2.collateral = b1.collateral /\ b2 \in LedgerType
       /\ b2.pos[B][m].size = cB.size /\ b2.pos[B][m].entry = cB.entry
       /\ b2.pos[B][m].alloc = pB.alloc
  <2>1. b1 \in LedgerType /\ cB.size \in Int /\ cB.entry \in Int
    BY <1>14, <1>15, <1>16
  <2>2. OnlyRow(b1, b2, B, m) /\ b2.collateral = b1.collateral
        /\ b2.pos[B][m].size = cB.size /\ b2.pos[B][m].entry = cB.entry
        /\ b2.pos[B][m].alloc = b1.pos[B][m].alloc
    BY <1>5, <2>1, ChangeFacts
  <2> QED BY <1>17, <2>2 DEF OnlyRow
<1>19. b2.pos[A][m] = b1.pos[A][m]
  BY <1>1, <1>18 DEF OnlyRow
<1> HIDE DEF b2
<1>20. /\ OnlyRow(b2, t, B, m) /\ t \in LedgerType
       /\ t.pos[B][m].size = cB.size /\ t.pos[B][m].entry = cB.entry
       /\ t.collateral[B] + t.pos[B][m].alloc = s2.collateral[B] + pB.alloc + cB.pnl - TF - 0
  <2>1. b2 \in LedgerType /\ pB \in Position /\ cB.pnl \in Int /\ cB.flipped \in BOOLEAN
        /\ TF \in Int /\ 0 \in Int
    BY <1>2, <1>10, <1>14, <1>18
  <2>2. /\ OnlyRow(b2, t, B, m)
        /\ t.pos[B][m].size = b2.pos[B][m].size /\ t.pos[B][m].entry = b2.pos[B][m].entry
        /\ t.collateral[B] + t.pos[B][m].alloc =
             b2.collateral[B] + b2.pos[B][m].alloc + cB.pnl - TF - 0
    BY <1>5, <2>1, AccountFacts
  <2> HIDE DEF t
  <2> QED BY <1>16, <1>18, <2>2 DEF OnlyRow
<1>21. t.pos[A][m] = b1.pos[A][m] /\ t.collateral[A] = s2.collateral[A]
  BY <1>1, <1>16, <1>18, <1>19, <1>20 DEF OnlyRow
<1> HIDE DEF t
<1>22. /\ OnlyRow(t, k, A, m) /\ k \in LedgerType
       /\ k.pos[A][m].size = cA.size /\ k.pos[A][m].entry = cA.entry
       /\ k.collateral[A] + k.pos[A][m].alloc = s2.collateral[A] + pA.alloc + cA.pnl - MF - LF
  <2>1. t \in LedgerType /\ pA \in Position /\ cA.pnl \in Int /\ cA.flipped \in BOOLEAN
        /\ MF \in Int /\ LF \in Int
    BY <1>2, <1>10, <1>12, <1>20
  <2>2. /\ OnlyRow(t, k, A, m)
        /\ k.pos[A][m].size = t.pos[A][m].size /\ k.pos[A][m].entry = t.pos[A][m].entry
        /\ k.collateral[A] + k.pos[A][m].alloc =
             t.collateral[A] + t.pos[A][m].alloc + cA.pnl - MF - LF
    BY <1>5, <2>1, AccountFacts
  <2> HIDE DEF k
  <2> QED BY <1>16, <1>21, <2>2 DEF OnlyRow
<1>23. k.pos[B][m] = t.pos[B][m] /\ k.collateral[B] = t.collateral[B]
  BY <1>1, <1>22 DEF OnlyRow
<1> HIDE DEF k
<1>24. /\ u \in LedgerType /\ u.pos = k.pos /\ u.collateral[Treasury] = k.collateral[Treasury] + (TF + MF)
       /\ \A x \in Accounts : x # Treasury => u.collateral[x] = k.collateral[x]
  <2>1. k \in LedgerType /\ Treasury \in Accounts /\ TF + MF \in Int
    BY <1>1, <1>2, <1>22
  <2> QED BY <2>1, AddCollateralFacts
<1> HIDE DEF u
<1>25. /\ v \in LedgerType /\ v.pos = u.pos
       /\ v.collateral[InsuranceFund] = u.collateral[InsuranceFund] + LF
       /\ \A x \in Accounts : x # InsuranceFund => v.collateral[x] = u.collateral[x]
  <2>1. u \in LedgerType /\ InsuranceFund \in Accounts /\ LF \in Int
    BY <1>1, <1>2, <1>24
  <2> QED BY <2>1, AddCollateralFacts
<1> HIDE DEF v
<1>26. done.pos = k.pos /\ done.collateral = v.collateral
  BY <1>24, <1>25 DEF LedgerType
<1>27. OpenInterestFits(done.oi[m]) => done \in LedgerType
  <2>1. interest \in Int
    <3> DEFINE x == (Abs(cA.size) - Abs(pA.size)) + (Abs(cB.size) - Abs(pB.size))
    <3>1. x \in Int
      BY <1>10, <1>15 DEF Abs
    <3> HIDE DEF x
    <3>2. Quo(x, 2) \in Int
      BY <3>1, QuoRange
    <3>3. OIDelta(cA, cB, pA, pB) = Quo(x, 2)
      BY DEF OIDelta, x
    <3> QED BY <1>5, <3>2, <3>3, LedgerFields
  <2> HIDE DEF interest
  <2> DEFINE oi == [v.oi EXCEPT ![m] = interest]
  <2>2. done = [v EXCEPT !.oi = oi] /\ v.oi \in [Markets -> Nat]
    BY <1>25 DEF LedgerType
  <2>3. oi[m] = interest /\ (interest >= 0 => oi \in [Markets -> Nat])
    BY <1>5, <2>1, <2>2
  <2> HIDE DEF oi, done
  <2>4. done.oi = oi
    BY <1>25, <2>2 DEF LedgerType
  <2>5. oi \in [Markets -> Nat] => done \in LedgerType
    BY <1>25, <2>2 DEF LedgerType
  <2> QED BY <2>3, <2>4, <2>5 DEF OpenInterestFits
<1> HIDE DEF done
<1>28. \A a \in Accounts, y \in Markets \ {m} : done.pos[a][y] = l.pos[a][y]
  <2> SUFFICES ASSUME NEW x \in Accounts, NEW y \in Markets \ {m}
               PROVE  done.pos[x][y] = l.pos[x][y]
    OBVIOUS
  <2>1. /\ s1.pos[x][y] = l.pos[x][y] /\ s2.pos[x][y] = s1.pos[x][y]
        /\ b1.pos[x][y] = s2.pos[x][y] /\ b2.pos[x][y] = b1.pos[x][y]
        /\ t.pos[x][y] = b2.pos[x][y] /\ k.pos[x][y] = t.pos[x][y]
    BY <1>6, <1>8, <1>16, <1>18, <1>20, <1>22 DEF OnlyRow
  <2> QED BY <1>26, <2>1
<1>29. \A x \in Accounts \ {A, B} :
         /\ k.pos[x] = l.pos[x] /\ k.collateral[x] = s2.collateral[x]
         /\ s2.pos[x] = l.pos[x] /\ s2.collateral[x] = l.collateral[x]
  <2> SUFFICES ASSUME NEW x \in Accounts \ {A, B}
               PROVE  /\ k.pos[x] = l.pos[x] /\ k.collateral[x] = s2.collateral[x]
                      /\ s2.pos[x] = l.pos[x] /\ s2.collateral[x] = l.collateral[x]
    OBVIOUS
  <2>1. \A y \in Markets : /\ s1.pos[x][y] = l.pos[x][y] /\ s2.pos[x][y] = s1.pos[x][y]
                           /\ b1.pos[x][y] = s2.pos[x][y] /\ b2.pos[x][y] = b1.pos[x][y]
                           /\ t.pos[x][y] = b2.pos[x][y] /\ k.pos[x][y] = t.pos[x][y]
    BY <1>6, <1>8, <1>16, <1>18, <1>20, <1>22 DEF OnlyRow
  <2>2. /\ k.pos[x] \in [Markets -> Position] /\ l.pos[x] \in [Markets -> Position]
        /\ s2.pos[x] \in [Markets -> Position]
    BY <1>1, <1>8, <1>22, LedgerFields
  <2>3. k.collateral[x] = s2.collateral[x] /\ s2.collateral[x] = l.collateral[x]
    <3>1. k.collateral[x] = t.collateral[x] /\ t.collateral[x] = b2.collateral[x]
      BY <1>20, <1>22 DEF OnlyRow
    <3> QED BY <1>6, <1>8, <1>16, <1>18, <3>1
  <2>4. \A y \in Markets : k.pos[x][y] = l.pos[x][y] /\ s2.pos[x][y] = l.pos[x][y]
    BY <2>1
  <2> QED BY <2>2, <2>3, <2>4
<1>30. Share(done, A, m) = s2.collateral[A] + pA.alloc + cA.pnl - MF - LF + cA.entry
  BY <1>1, <1>22, <1>24, <1>25, <1>26 DEF Share
<1>31. Share(done, B, m) = s2.collateral[B] + pB.alloc + cB.pnl - TF + cB.entry
  <2>1. s2.collateral[B] \in Int
    BY <1>1, <1>8, LedgerFields
  <2>2. done.collateral[B] = t.collateral[B] /\ done.pos[B][m] = t.pos[B][m]
    BY <1>1, <1>23, <1>24, <1>25, <1>26
  <2> QED BY <1>2, <1>10, <1>14, <1>20, <2>1, <2>2 DEF Share
<1>32. Share(done, Treasury, m) = Share(s2, Treasury, m) + TF + MF
  <2>1. /\ done.pos[Treasury][m] = s2.pos[Treasury][m]
        /\ done.collateral[Treasury] = s2.collateral[Treasury] + (TF + MF)
    BY <1>1, <1>24, <1>25, <1>26, <1>29
  <2>2. s2.collateral[Treasury] \in Int /\ s2.pos[Treasury][m].alloc \in Int
        /\ s2.pos[Treasury][m].entry \in Int
    BY <1>1, <1>8, LedgerFields
  <2> QED BY <1>2, <2>1, <2>2 DEF Share
<1>33. Share(done, InsuranceFund, m) = Share(s2, InsuranceFund, m) + LF
  <2>1. /\ done.pos[InsuranceFund][m] = s2.pos[InsuranceFund][m]
        /\ done.collateral[InsuranceFund] = s2.collateral[InsuranceFund] + LF
    BY <1>1, <1>24, <1>25, <1>26, <1>29
  <2>2. s2.collateral[InsuranceFund] \in Int /\ s2.pos[InsuranceFund][m].alloc \in Int
        /\ s2.pos[InsuranceFund][m].entry \in Int
    BY <1>1, <1>8, LedgerFields
  <2> QED BY <1>2, <2>1, <2>2 DEF Share
<1>34. Abs(Together(done, f) - Together(s2, f)) <= 2
  <2>1. /\ s2.collateral[A] \in Int /\ s2.collateral[B] \in Int
        /\ Share(s2, Treasury, m) \in Int /\ Share(s2, InsuranceFund, m) \in Int
    BY <1>1, <1>8, LedgerFields DEF Share
  <2>2. Share(s2, A, m) = s2.collateral[A] + pA.alloc + pA.entry
        /\ Share(s2, B, m) = s2.collateral[B] + pB.alloc + pB.entry
    BY DEF Share, pA, pB
  <2> DEFINE x == d * f.price
  <2>3. x \in Int /\ (-d) * f.price = -x
    BY <1>1
  <2> HIDE DEF x
  <2>4. /\ -1 <= (cA.entry + cA.pnl) - (pA.entry + x) /\ (cA.entry + cA.pnl) - (pA.entry + x) <= 1
        /\ -1 <= (cB.entry + cB.pnl) - (pB.entry - x) /\ (cB.entry + cB.pnl) - (pB.entry - x) <= 1
    BY <1>10, <1>12, <1>14, <2>3 DEF Abs, x
  <2>5. Together(done, f) - Together(s2, f) =
          (cA.entry + cA.pnl - pA.entry) + (cB.entry + cB.pnl - pB.entry)
    BY <1>2, <1>10, <1>12, <1>14, <1>30, <1>31, <1>32, <1>33, <2>1, <2>2 DEF Together, A, B, m
  <2> QED BY <1>10, <1>12, <1>14, <2>3, <2>4, <2>5 DEF Abs
<1>35. \A a \in Accounts \ {A, B} : done.pos[a] = l.pos[a]
  BY <1>26, <1>29
<1>36. \A a \in Accounts \ {A, B, Treasury, InsuranceFund} : done.collateral[a] = l.collateral[a]
  BY <1>24, <1>25, <1>26, <1>29
<1>37. done.pos[A][m].size = pA.size + d /\ done.pos[B][m].size = pB.size + (-d)
  BY <1>12, <1>14, <1>20, <1>22, <1>23, <1>26
<1>38. FlatIsEmpty(done.pos[A][m]) /\ FlatIsEmpty(done.pos[B][m])
  BY <1>12, <1>14, <1>20, <1>22, <1>23, <1>26 DEF FlatIsEmpty
<1>39. done.pos[A][m].size + done.pos[B][m].size = l.pos[A][m].size + l.pos[B][m].size
  BY <1>1, <1>10, <1>11, <1>37
<1> QED BY <1>3, <1>34, <1>35, <1>36, <1>38, <1>39, <1>27, <1>28 DEF A, B, m
=============================================================================
