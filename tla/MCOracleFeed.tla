---------------------------- MODULE MCOracleFeed ----------------------------
(* An instance of OracleFeed for TLC. *)
EXTENDS OracleFeed, TLC

CONSTANTS p1, p2, btc

\* The second provider quotes too little for the chain's decimals.
MCQuotes == (p1 :> {4}) @@ (p2 :> {1})

MCPairOf == 1 :> btc
=============================================================================
