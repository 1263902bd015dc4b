----------------------------- MODULE OrderBook -----------------------------
(* The order book keeper as a state machine: x/matching, its only caller,  *)
(* may place orders that matched in any way, fill, evict or cancel any     *)
(* resting order, and activate triggers and hand them back.  Which of them *)
(* it chooses is left open, so what holds here holds for every matching    *)
(* policy.                                                                 *)
EXTENDS OrderBookTables

CONSTANTS Requests,  \* the CreateOrder requests the callers make
          InitBal    \* the balances at genesis

ASSUME CallerAssumption ==
  /\ Requests \subseteq Request
  /\ InitBal \in [Rows -> Nat]

VARIABLES book,   \* the tables of x/orderbook
          bank,   \* the balance sheet of x/account
          active  \* the trigger order between ActivateTrigger and OpenOrder; 0: none

vars == <<book, bank, active>>

Init ==
  /\ book = EmptyBook
  /\ bank = [bal |-> InitBal, locked |-> [r \in Rows |-> 0]]
  /\ active = 0

\* What a matching pass may leave of an order: any residue, with the status
\* MatchOrder and its callers give it; an IOC residue never rests.
Outcomes(o) ==
  {x \in [rem : 0 .. o.init, status : Resting \cup Terminal] :
     \/ x.status = "filled" /\ x.rem = 0
     \/ x.status = "cancelled" /\ x.rem > 0
     \/ x.status = "open" /\ x.rem = o.init /\ o.tif # "IOC"
     \/ x.status = "partial" /\ x.rem \in 1 .. o.init - 1 /\ o.tif # "IOC"}

Matched(o) == {[o EXCEPT !.rem = x.rem, !.status = x.status] : x \in Outcomes(o)}

\* CreateOrder, plain order: allocate, match, OpenOrder; an error reverts all.
Place(r) ==
  /\ active = 0
  /\ r.type \notin Trigger
  /\ ~HasOpenClientOrder(book, r.market, r.owner, r.client)
  /\ CanAllocate(book, r)
  /\ \E o \in Matched(NewOrder(book, r, "open")) :
       /\ OpenOrderLocks(bank, o)
       /\ OpenOrderFits(o)
       /\ book' = OpenOrder(Allocated(book, r), o)
       /\ bank' = OpenOrderBank(bank, o)
  /\ UNCHANGED active

\* CreateOrder, trigger order: parked without a lock.
PlaceTrigger(r) ==
  /\ active = 0
  /\ r.type \in Trigger
  /\ ~HasOpenClientOrder(book, r.market, r.owner, r.client)
  /\ CanAllocate(book, r)
  /\ book' = OpenTriggerOrder(Allocated(book, r), NewOrder(book, r, "pending"))
  /\ UNCHANGED <<bank, active>>

Activate(id) ==
  /\ active = 0
  /\ book.orders[id].status = "pending"
  /\ book' = ActivateTrigger(book, id)
  /\ active' = id
  /\ UNCHANGED bank

\* The trigger sweep hands the activated order back with its match result.
Reopen ==
  /\ active # 0
  /\ \E o \in Matched(Executable(book.orders[active])) :
       /\ OpenOrderLocks(bank, o)
       /\ OpenOrderFits(o)
       /\ book' = OpenOrder(book, o)
       /\ bank' = OpenOrderBank(bank, o)
  /\ active' = 0

\* The trigger sweep cleans up after an error: MatchOrder failed or OpenOrder
\* could not take the lock, or OpenOrder failed in insertEntry and left its
\* lock behind (an EndBlocker write is not reverted).
Abandon ==
  /\ active # 0
  /\ Cancelable(book, active)
  /\ book' = CancelOrder(book, active)
  /\ \/ bank' = CancelOrderBank(book, bank, active)
     \/ \E o \in Matched(Executable(book.orders[active])) :
          /\ o.status \in Resting
          /\ OpenOrderLocks(bank, o)
          /\ ~OpenOrderFits(o)
          /\ bank' = CancelOrderBank(book, OpenOrderBank(bank, o), active)
  /\ active' = 0

Fill(id, base) ==
  /\ FillAgrees(book, id, base)
  /\ book' = FillMakerOrder(book, id, base)
  /\ UNCHANGED <<bank, active>>

Evict(id) ==
  /\ book.entries[id] # 0
  /\ book' = EvictMakerOrder(book, id)
  /\ bank' = releaseSpotLockOnClose(bank, book.orders[id])
  /\ UNCHANGED active

\* User cancel, cancel-all and the GTT expiry sweep.
Cancel(id) ==
  /\ active = 0
  /\ Cancelable(book, id)
  /\ book' = CancelOrder(book, id)
  /\ bank' = CancelOrderBank(book, bank, id)
  /\ UNCHANGED active

Next ==
  \/ \E r \in Requests : Place(r) \/ PlaceTrigger(r)
  \/ \E id \in OrderIds :
       Activate(id) \/ Evict(id) \/ Cancel(id) \/ \E base \in 1 .. MaxBase : Fill(id, base)
  \/ Reopen
  \/ Abandon

Spec == Init /\ [][Next]_vars

----------------------------------------------------------------------------
\* Every table holds what its schema says.
TypeOK ==
  /\ book \in BookType
  /\ bank \in BankType
  /\ active \in OrderIds \cup {0}

\* Lock-step residues (lifecycle.go, "entry_drained iff order_drained"): the
\* entry of a resting order has the order's residue, no other order has one.
EntriesAgree == EntriesAgreeIn(book, {active})

\* The account-open index and its counter (orders.go) name exactly the live
\* orders, so cancel-all and the open-order cap see all of them.
OpenOrdersAgree == OpenOrdersAgreeIn(book)

\* The client-order index leads from a client id to its one live order, even
\* when ids are reused and FillMakerOrder removes the row unconditionally.
ClientsAgree == ClientsAgreeIn(book)

\* The trigger and expiry sweeps reach every order they are responsible for
\* and no other, whatever happened to the order's TIF on the way.
SweepsAgree == SweepsAgreeIn(book, {active})

\* The five tables that lifecycle.go keeps beside the Order records (entries,
\* account-open index with its counter, client index, trigger and expiry
\* indexes) all follow from those records, between any two lifecycle calls.
IndexesAgree == EntriesAgree /\ OpenOrdersAgree /\ ClientsAgree /\ SweepsAgree

\* PeekBest returns the oldest order at the best price of its side.
PriceTime == PriceTimeIn(book)

\* No operation takes more out of a lock than it holds or locks funds the
\* account does not have: available balances never go negative.
LocksCovered == \A r \in Rows : bank.locked[r] <= bank.bal[r]

\* The residue assertion of FillMakerOrder never fires.
FillNeverDesyncs ==
  \A id \in OrderIds, base \in 1 .. MaxBase :
    book.entries[id] # 0 => FillAgrees(book, id, base)

\* What a user sees of an order.
Visible(o) ==
  IF o = NoOrder THEN NoOrder ELSE
  [owner |-> o.owner, market |-> o.market, client |-> o.client,
   init |-> o.init, rem |-> o.rem, status |-> o.status]

Plain == INSTANCE PlainBook
           WITH Ids <- OrderIds, orders <- [i \in OrderIds |-> Visible(book.orders[i])]

\* The indexed tables implement the plain list of orders: guards that look
\* into an index decide what a scan of all orders would, no order is revived
\* or gets residue back, and its status always tells what became of it.
ImplementsPlainBook == Plain!Spec
=============================================================================
