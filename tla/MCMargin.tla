------------------------------ MODULE MCMargin ------------------------------
(* Instances of Margin for TLC. *)
EXTENDS Margin, TLC

CONSTANTS a1, a2, a3, treasuryAccount, insuranceAccount

MCAccounts == {a1, a2, a3, treasuryAccount, insuranceAccount}

\* Fills between two given traders.
FillsOf(pairs, markets, prices, bases) ==
  {[maker |-> p[1], taker |-> p[2], market |-> m, price |-> x, base |-> b, takerAsk |-> t,
    makerFee |-> 1, takerFee |-> 2] : p \in pairs, m \in markets, x \in prices, b \in bases, t \in BOOLEAN}

\* Three traders, one market: positions are closed against a third party.
RingFills == FillsOf({<<a1, a2>>, <<a2, a3>>, <<a3, a1>>}, {1}, {1, 3}, {1, 2})

\* Two traders, two markets: isolated beside cross positions.
PairFills == FillsOf({<<a1, a2>>}, {1, 2}, {2}, {1, 2})
=============================================================================
