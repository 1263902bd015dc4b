------------------------------ MODULE MCPrices ------------------------------
(* An instance of Prices for TLC. *)
EXTENDS Prices, TLC

CONSTANTS v1, v2, v3

MCPower == (v1 :> 2) @@ (v2 :> 3) @@ (v3 :> 2)

Absent == [committed |-> FALSE, index |-> 0, mark |-> 0]
Says(i, m) == [committed |-> TRUE, index |-> i, mark |-> m]

\* v3 is the faulty one; without v2 nobody has a supermajority.
MCCommits ==
  {(v1 :> a) @@ (v2 :> b) @@ (v3 :> c) :
     a \in {Absent, Says(4, 4)}, b \in {Says(0, 0), Says(4, 4), Says(8, 8)},
     c \in {Absent, Says(16, 4)}}

Level(p, b) == [price |-> p, base |-> b]

\* No asks; around 4; above 8, and a side of two levels.
MCBooks ==
  {[bids |-> <<Level(4, 3)>>, asks |-> <<>>],
   [bids |-> <<Level(4, 1), Level(3, 2)>>, asks |-> <<Level(5, 3)>>],
   [bids |-> <<Level(10, 1)>>, asks |-> <<Level(11, 1)>>]}

\* With markets, and without.
MCGenesis ==
  LET listed == [status |-> "active", expiry |-> 2]
      none   == [status |-> "none", expiry |-> 0]
  IN {<<[listed EXCEPT !.expiry = 4], listed>>, <<none, none>>}

\* A fresh market, and one whose record came with an average and a time ahead.
MCSeeds == {[ema |-> 0, refreshed |-> 0], [ema |-> 5, refreshed |-> 3]}

MCTerms == {[small |-> 1, big |-> 3, rate |-> 1], [small |-> 0, big |-> 1, rate |-> 2]}

MCParamSets ==
  {[budget |-> 1, staleness |-> 1, enabled |-> TRUE],
   [budget |-> 0, staleness |-> 2, enabled |-> FALSE]}
=============================================================================
