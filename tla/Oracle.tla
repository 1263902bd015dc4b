------------------------------- MODULE Oracle -------------------------------
(***************************************************************************)
(* Vote extensions and their aggregation (x/oracle).  Prices of different   *)
(* markets never meet, so one market is followed: a vote is whether the     *)
(* validator committed and the prices its extension carries, zero for an    *)
(* empty or undecodable extension or one without this market.               *)
(***************************************************************************)
EXTENDS Integers, FiniteSets, FiniteSetsExt

CONSTANTS
  Validators, Power,      \* the validator set and its voting power
  Bps,                    \* the denominator of the three ratios below
  MinVotingPowerRatio, DeviationThresholdBps, MarkPriceEmaAlpha,
  MaxAgeMs,               \* how old a price may be
  MaxUint32               \* the largest price

ASSUME OracleAssumption ==
  /\ Power \in [Validators -> Nat] /\ Bps \in Nat \ {0}
  /\ {MinVotingPowerRatio, MarkPriceEmaAlpha} \subseteq 0..Bps
  /\ DeviationThresholdBps \in Nat /\ MaxAgeMs \in Nat \ {0} /\ MaxUint32 \in Nat

Vote == [committed : BOOLEAN, index : 0..MaxUint32, mark : 0..MaxUint32]

OraclePrice == [index : 0..MaxUint32, mark : 0..MaxUint32, time : Nat]

\* No price: what a failing GetPrice stands for.
NoPrice == [index |-> 0, mark |-> 0, time |-> 0]

-----------------------------------------------------------------------------
(* The proposal. *)

\* A peer's extension is empty or carries two non-zero prices.
VerifyVoteExtension(v) == (v.index = 0) <=> (v.mark = 0)

PowerOf(vs) == MapThenSumSet(LAMBDA v : Power[v], vs)

Committed(c) == {v \in Validators : c[v].committed}

\* Strictly more than two thirds of the power committed.
ValidateExtendedCommit(c) ==
  LET total == PowerOf(Validators)
  IN total = 0 \/ 3 * PowerOf(Committed(c)) > 2 * total

-----------------------------------------------------------------------------
(* The aggregation. *)

Crosses(vs, price, p) ==
  LET cum   == PowerOf({v \in vs : price[v] <= p})
      total == PowerOf(vs)
  IN 2 * cum >= total /\ cum > total \div 2

\* The first price whose cumulative power crosses half of the total, or the
\* last price.
WeightedMedian(vs, price) ==
  LET prices == {price[v] : v \in vs}
      first  == {p \in prices : /\ Crosses(vs, price, p)
                                /\ \A q \in prices : Crosses(vs, price, q) => p <= q}
      last   == {p \in prices : \A q \in prices : q <= p}
  IN IF first # {} THEN CHOOSE p \in first : TRUE
     ELSE IF last # {} THEN CHOOSE p \in last : TRUE
     ELSE 0

withinBps(value, reference) ==
  reference = 0 \/ IF value > reference
                     THEN (value - reference) * Bps <= reference * DeviationThresholdBps
                     ELSE (reference - value) * Bps <= reference * DeviationThresholdBps

\* The committed votes that carry a price.
Samples(c) == {v \in Committed(c) : Power[v] # 0 /\ c[v].index # 0 /\ c[v].mark # 0}

Quorum(c) == PowerOf(Samples(c)) * Bps >= PowerOf(Committed(c)) * MinVotingPowerRatio

\* Mutant: only the mark is compared with the band.
NearMark(c, vs, idx, mk) == {v \in vs : withinBps(c[v].mark, mk)}

\* The samples within the deviation band of both first medians.
Near(c, vs, idx, mk) == {v \in vs : withinBps(c[v].index, idx) /\ withinBps(c[v].mark, mk)}

\* The medians of the samples near the first medians, or the first medians.
aggregateFromExtInfo(c) ==
  LET all  == Samples(c)
      idxs == [v \in all |-> c[v].index]
      mks  == [v \in all |-> c[v].mark]
      near == Near(c, all, WeightedMedian(all, idxs), WeightedMedian(all, mks))
      kept == IF DeviationThresholdBps > 0 /\ near # {} THEN near ELSE all
      idx  == WeightedMedian(kept, idxs)
      mk   == WeightedMedian(kept, mks)
  IN IF all # {} /\ Quorum(c) /\ idx # 0 /\ mk # 0
       THEN [index |-> idx, mark |-> mk, time |-> 0] ELSE NoPrice

\* The mark is averaged with the stored one, however old that is.
applyMarkSmoothing(stored, mark) ==
  IF MarkPriceEmaAlpha \in {0, Bps} \/ stored.mark = 0 THEN mark
  ELSE LET smoothed == (MarkPriceEmaAlpha * mark + (Bps - MarkPriceEmaAlpha) * stored.mark)
                         \div Bps
       IN IF smoothed = 0 THEN 1 ELSE smoothed

\* PreBlocker on a bundle: SetPrice when the votes make a price.
SetPrice(stored, agg, now) ==
  IF agg = NoPrice THEN stored
  ELSE [index |-> agg.index, mark |-> applyMarkSmoothing(stored, agg.mark), time |-> now]

\* Mutant: the price is used however old it is.
GetStoredPrice(stored, now) == stored

\* The price, unless it was never set or is too old.
GetPrice(stored, now) ==
  IF stored.time = 0 \/ now - stored.time > MaxAgeMs THEN NoPrice ELSE stored
=============================================================================
