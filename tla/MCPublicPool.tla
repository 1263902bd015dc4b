---------------------------- MODULE MCPublicPool ----------------------------
(* Instances of PublicPool for TLC. *)
EXTENDS PublicPool

CONSTANTS gov, lp, fund, pool, noPool

MCUsers == {gov, lp}
MCPools == {fund, pool}
MCFunds == [a \in MCUsers \cup MCPools |-> IF a \in MCUsers THEN 12 ELSE 0]
Move(a, upnl, imr, owed, gain) ==
  [account |-> a, book |-> [upnl |-> upnl, imr |-> imr, owed |-> owed], gain |-> gain]
\* A margined investor that owes funding; a fund that earns; a pool that gains, loses and realises.
MCMoves ==
  {Move(lp, -3, 2, 4, 0), Move(fund, 0, 0, 0, 3), Move(fund, -1, 2, 0, 0),
   Move(pool, 5, 3, 0, 0), Move(pool, -3, 2, 4, 0), Move(pool, 0, 0, 0, 3)}
MCBuckets == [s \in {1, 2} |-> IF s = 1 THEN 1 ELSE 0]
=============================================================================
