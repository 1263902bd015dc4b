----------------------------- MODULE PlainBook -----------------------------
(* What the order book promises its users, without indexes, entries or      *)
(* sweeps: a list of orders, each of which is accepted once, loses residue  *)
(* by trading, and ends filled or cancelled for good; an account has at     *)
(* most one live order per client id and market.                            *)
EXTENDS Integers

CONSTANT Ids

VARIABLE orders

None == [status |-> "none"]

Executing == {"open", "partial"}
Alive     == Executing \cup {"pending"}

\* Two orders that claim the same client id.
Clash(o, p) ==
  /\ o.client # 0
  /\ o.client = p.client /\ o.owner = p.owner /\ o.market = p.market

\* The status of an order tells what happened to its residue.
Sound(o) ==
  \/ o.status \in {"pending", "open"} /\ o.rem = o.init
  \/ o.status = "partial" /\ 0 < o.rem /\ o.rem < o.init
  \/ o.status = "filled" /\ o.rem = 0
  \/ o.status = "cancelled" /\ 0 < o.rem /\ o.rem <= o.init

\* The order with another residue and status.
Updated(o, left, status) ==
  [owner |-> o.owner, market |-> o.market, client |-> o.client,
   init |-> o.init, rem |-> left, status |-> status]

Only(id) == \A j \in Ids \ {id} : orders'[j] = orders[j]

Init == orders = [i \in Ids |-> None]

Accept(id) ==
  /\ orders[id] = None
  /\ Only(id)
  /\ Sound(orders'[id])
  /\ \A j \in Ids : orders[j].status \in Alive => ~Clash(orders'[id], orders[j])

Activate(id) ==
  /\ orders[id].status = "pending"
  /\ Only(id)
  /\ orders'[id] = Updated(orders[id], orders[id].rem, "open")

Trade(id) ==
  LET left == orders'[id].rem IN
  /\ orders[id].status \in Executing
  /\ Only(id)
  /\ 0 <= left /\ left < orders[id].rem
  /\ orders'[id] = Updated(orders[id], left, IF left = 0 THEN "filled" ELSE "partial")

\* A cancelled order may have traded on the way: an IOC residue.
Cancel(id) ==
  LET left == orders'[id].rem IN
  /\ orders[id].status \in Alive
  /\ Only(id)
  /\ 0 < left /\ left <= orders[id].rem
  /\ orders'[id] = Updated(orders[id], left, "cancelled")

Next == \E id \in Ids : Accept(id) \/ Activate(id) \/ Trade(id) \/ Cancel(id)

Spec == Init /\ [][Next]_orders
=============================================================================
