-------------------------- MODULE OrderBookGenesis --------------------------
(* Export and import of the order book (x/orderbook/keeper/genesis.go).     *)
(* The export carries the Order records and the next order index only; the  *)
(* import rebuilds every other table from them, one order at a time in the  *)
(* order of the export.  The nonces travel with the markets of x/market.    *)
EXTENDS OrderBook, SequencesExt

ExportGenesis(b) ==
  [next   |-> b.nextOrder,
   orders |-> SelectSeq(b.orders, LAMBDA o : o # NoOrder),
   nonces |-> b.nonces]

\* Mutant: parked trigger orders are not indexed again.
restoreRestingOnly(b, o) ==
  setOrder(IF o.status \in Resting THEN Indexed(insertEntry(b, o), o) ELSE b, o)

\* restoreGenesisOrderIndexes followed by setOrder; no lock is taken, the
\* locked balances come with the genesis of x/account.
restoreGenesisOrder(b, o) ==
  setOrder(CASE o.status \in Resting  -> Indexed(insertEntry(b, o), o)
             [] o.status = "pending" -> Indexed(addTrigger(b, o), o)
             [] OTHER                -> b, o)

InitGenesis(gs) ==
  FoldLeft(restoreGenesisOrder,
           [EmptyBook EXCEPT !.nextOrder = IF gs.next < 1 THEN 1 ELSE gs.next,
                             !.nonces = gs.nonces],
           gs.orders)

\* A chain restarted from an export has the book it exported: every entry,
\* price level, counter and index row, although only the orders travel.
RestartKeepsTheBook == active = 0 => InitGenesis(ExportGenesis(book)) = book
=============================================================================
