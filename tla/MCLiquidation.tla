--------------------------- MODULE MCLiquidation ---------------------------
(* Instances of Liquidation for TLC. *)
EXTENDS Liquidation

\* Positions opened at one price, sizes[m][a]; a market nobody trades has no mark yet. An
\* isolated position has the margin that the fill took for it, and the collateral is what
\* is left of the deposit.
Opened(price, sizes, isolated, deposits, fund) ==
  LET Side(a, m) == IF a = Treasury THEN 0 ELSE sizes[m][a]
      Held(a, m) == IF Side(a, m) # 0
                   THEN [size |-> Side(a, m), entry |-> Side(a, m) * price,
                         alloc |-> IF a \in isolated THEN InitialMargin(Side(a, m), price) ELSE 0,
                         last |-> 0, isolated |-> a \in isolated]
                   ELSE NoPosition
      Alloc(a) == LET At(m) == Held(a, m).alloc IN MapThenSumSet(At, Markets)
      Interest(m) == LET At(a) == Abs(Held(a, m).size) IN MapThenSumSet(At, Accounts) \div 2
  IN [pos |-> [a \in Accounts |-> [m \in Markets |-> Held(a, m)]],
      collateral |-> [a \in Accounts |-> IF a \in DOMAIN deposits THEN deposits[a] - Alloc(a)
                                         ELSE IF a = InsuranceFund THEN fund ELSE 0],
      oi |-> [m \in Markets |-> Interest(m)],
      mark |-> [m \in Markets |-> IF Interest(m) = 0 THEN 0 ELSE price], prefix |-> [m \in Markets |-> 0], gated |-> {}]

\* Sizes of the insurance fund and of the users 2 to 5, and deposits of the users.
Row(i, w, x, y, z) == <<i, w, x, y, z>>
Deposits == {[a \in 2..5 |-> IF a = 2 THEN 16 ELSE 26], [a \in 2..5 |-> IF a = 2 THEN 26 ELSE 16]}

\* One market: two on each side, one against two, the fund holding a position.
OneBooks ==
  {Opened(20, <<s, Row(0, 0, 0, 0, 0)>>, i, d, 8) :
     s \in {Row(0, 1, 1, -1, -1), Row(0, -1, -1, 1, 1), Row(0, -2, 1, 0, 1), Row(1, 1, -1, -1, 0)},
     i \in {{}, {2}}, d \in Deposits}

\* Two markets: user 2 holds both, users 3 and 4 the other sides.
TwoBooks ==
  {Opened(20, <<Row(0, 1, -1, 0, 0), Row(0, x, 0, -x, 0)>>, i, [a \in 2..5 |-> 18], 14) :
     x \in {-1, 1}, i \in {{}, {2}}}

\* A position that takes all attempts and leaves none for the second market; one that
\* recovers halfway; a victim in loss in both markets against a user in loss in one.
LastBooks ==
  {Opened(20, <<Row(0, 2, -1, -1, 0), Row(0, 1, 0, 0, -1)>>, {}, [a \in 2..5 |-> IF a = 2 THEN 27 ELSE 26], 0),
   Opened(20, <<Row(0, 2, -1, -1, 0), Row(0, -1, 0, 0, 1)>>, {}, [a \in 2..5 |-> IF a = 2 THEN 27 ELSE 16], 0),
   Opened(20, <<Row(0, 1, -1, 0, 0), Row(0, 1, 1, -1, -1)>>, {}, [a \in 2..5 |-> 16], 0)}

MCBooks == OneBooks \cup TwoBooks \cup LastBooks

Falls == {<<10, 20>>, <<13, 0>>, <<10, 10>>, <<0, 13>>, <<13, 2>>}
Rises == {<<30, 20>>, <<46, 20>>, <<13, 30>>, <<23, 41>>}
MCTicks == [price: Falls \cup Rises, rate: {<<0, 0>>}] \cup [price: {<<13, 20>>, <<30, 20>>}, rate: {<<1, 0>>}]

\* A rich book, one whose best order is poor, and one near the zero price of a short.
Offer(a, p) == [owner |-> a, price |-> p, base |-> 1]
MCOffers == {<<>>, <<Offer(3, 18), Offer(5, 16)>>, <<Offer(3, 18), Offer(5, 30)>>, <<Offer(3, 33), Offer(5, 33)>>}

\* One long against one short, without funding.
TakeoverBooks ==
  {Opened(20, <<Row(0, 1, -1, 0, 0), Row(0, 0, 0, 0, 0)>>, {}, [a \in 2..5 |-> 8], 8)}
TakeoverTicks == [price: {<<p, 20>> : p \in 5..19}, rate: {<<0, 0>>}]
=============================================================================
