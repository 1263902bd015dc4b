----------------------------- MODULE SpotTrade -----------------------------
(* Settlement of one spot fill (x/trade/keeper/spot.go): four debits in a  *)
(* row, the first that fails decides the error.  The maker's debits drain  *)
(* its locked balance first, the taker's only touch what is available.     *)
EXTENDS AccountAssets

CONSTANTS Treasury,  \* TreasuryAccountIndex
          FeeTick,   \* denominator of a fee rate
          TakerFee, MakerFee

ASSUME FeeAssumption ==
  /\ Treasury \in Accounts
  /\ FeeTick \in Nat \ {0}
  /\ TakerFee \in Nat
  /\ MakerFee \in Nat

\* FeeOf: truncated toward zero.
FeeOf(notional, rate) == (notional * rate) \div FeeTick

\* A settlement in progress: the sheet so far, and who could not pay.
spotMakerDebit(r, from, to, s, amount) ==
  IF r.err # "none" THEN r ELSE
  IF CanTransfer(r.bank, from, s, amount, TRUE)
    THEN [r EXCEPT !.bank = TransferAccountAssetBalance(@, from, to, s, amount, TRUE)]
    ELSE [r EXCEPT !.err = "maker"]

spotTakerDebit(r, from, to, s, amount) ==
  IF r.err # "none" THEN r ELSE
  IF CanTransfer(r.bank, from, s, amount, FALSE)
    THEN [r EXCEPT !.bank = TransferAccountAssetBalance(@, from, to, s, amount, FALSE)]
    ELSE [r EXCEPT !.err = "taker"]

\* ApplySpotMatching of f = [maker, taker, isTakerAsk, price, base, baseAsset,
\* quoteAsset]: the maker leg, the taker leg, then the two fees.
ApplySpotMatching(k, f) ==
  LET notional == f.base * f.price
      r0 == [err |-> "none", bank |-> k]
      r1 == IF f.isTakerAsk
              THEN spotMakerDebit(r0, f.maker, f.taker, f.quoteAsset, notional)
              ELSE spotMakerDebit(r0, f.maker, f.taker, f.baseAsset, f.base)
      r2 == IF f.isTakerAsk
              THEN spotTakerDebit(r1, f.taker, f.maker, f.baseAsset, f.base)
              ELSE spotTakerDebit(r1, f.taker, f.maker, f.quoteAsset, notional)
      r3 == spotTakerDebit(r2, f.taker, Treasury, f.quoteAsset, FeeOf(notional, TakerFee))
  IN spotMakerDebit(r3, f.maker, Treasury, f.quoteAsset, FeeOf(notional, MakerFee))
=============================================================================
