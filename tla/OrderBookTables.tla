-------------------------- MODULE OrderBookTables --------------------------
(* The order book keeper (x/orderbook/keeper).  One order is recorded in   *)
(* several tables that the code keeps in step by hand: the Order record,   *)
(* the resting entry with its residue, the price-level aggregates, the     *)
(* client-order, account-open (with a counter), trigger and expiry indexes *)
(* and, on a spot market, the owner's locked balance in x/account.         *)
(*                                                                         *)
(* The keeper functions are operators from the tables `b' (and from the    *)
(* balance sheet `k', for the spot locks) to the next ones.                *)
EXTENDS AccountAssets, FiniteSets, FiniteSetsExt

CONSTANTS Traders,             \* accounts that place orders
          Markets,             \* market indexes
          SpotMarkets,         \* the markets whose MarketType is spot
          BaseAsset,           \* BaseAssetId of a market
          QuoteAsset,          \* QuoteAssetId of a market
          ClientIds,           \* client_order_index values; 0 means none
          MaxOrders,           \* bound: orders ever created
          MaxPrice,            \* bound: limit prices
          MaxBase,             \* bound: base amounts
          MaxExpiry,           \* bound: expiry times
          MaxOrderQuoteAmount, \* cap on base * price of a resting order
          FirstBidNonce        \* bid nonces count down from here, ask nonces up from 1

ASSUME BookAssumption ==
  /\ Traders \subseteq Accounts
  /\ SpotMarkets \subseteq Markets
  /\ BaseAsset \in [Markets -> Assets]
  /\ QuoteAsset \in [Markets -> Assets]
  /\ ClientIds \subseteq Nat \ {0}
  /\ MaxOrders \in Nat
  /\ MaxPrice \in Nat
  /\ MaxBase \in Nat
  /\ MaxExpiry \in Nat
  /\ MaxOrderQuoteAmount \in Nat
  /\ FirstBidNonce \in Nat

OrderIds == 1 .. MaxOrders
Prices   == 0 .. MaxPrice

Trigger  == {"stopLoss", "stopLossLimit", "takeProfit", "takeProfitLimit"}
Resting  == {"open", "partial"}               \* OrderStatusOpen / PartiallyFilled
Live     == Resting \cup {"pending"}          \* ... / TriggeredPending
Terminal == {"filled", "cancelled"}

Order ==
  [id : OrderIds, owner : Traders, market : Markets, isAsk : BOOLEAN,
   type : Trigger \cup {"limit", "market"}, tif : {"GTT", "IOC", "PostOnly"},
   reduceOnly : BOOLEAN, price : Prices, nonce : Int, init : 1 .. MaxBase,
   rem : 0 .. MaxBase, trig : Prices, expiry : 0 .. MaxExpiry,
   client : ClientIds \cup {0}, status : Live \cup Terminal]

NoOrder == [status |-> "none"]

LevelKeys  == Markets \X BOOLEAN \X Prices
ClientKeys == Markets \X Traders \X ClientIds
CountKeys  == Traders \X Markets

\* An entry is its residue: the other fields of an OrderBookEntry are copied
\* from the Order when it is inserted and never rewritten; 0 means no entry.
BookType ==
  [orders      : [OrderIds -> Order \cup {NoOrder}],
   entries     : [OrderIds -> 0 .. MaxBase],
   levels      : [LevelKeys -> [base : Int, quote : Int, count : Int]],
   clientIndex : [ClientKeys -> OrderIds \cup {0}],
   accountOpen : SUBSET OrderIds,
   openCount   : [CountKeys -> Int],
   triggers    : SUBSET OrderIds,
   expiryIndex : SUBSET OrderIds,
   nextOrder   : 1 .. MaxOrders + 1,
   nonces      : [Markets -> [ask : Int, bid : Int]]]

EmptyBook ==
  [orders      |-> [i \in OrderIds |-> NoOrder],
   entries     |-> [i \in OrderIds |-> 0],
   levels      |-> [l \in LevelKeys |-> [base |-> 0, quote |-> 0, count |-> 0]],
   clientIndex |-> [c \in ClientKeys |-> 0],
   accountOpen |-> {},
   openCount   |-> [c \in CountKeys |-> 0],
   triggers    |-> {},
   expiryIndex |-> {},
   nextOrder   |-> 1,
   nonces      |-> [m \in Markets |-> [ask |-> 1, bid |-> FirstBidNonce]]]

----------------------------------------------------------------------------
(* What a CreateOrder message asks for, and the Order record built from it. *)

Request ==
  [owner : Traders, market : Markets, isAsk : BOOLEAN,
   type : Trigger \cup {"limit", "market"}, tif : {"GTT", "IOC", "PostOnly"},
   reduceOnly : BOOLEAN, price : Prices, base : 1 .. MaxBase, trig : Prices,
   expiry : 0 .. MaxExpiry, client : ClientIds \cup {0}]

\* AllocateOrderIndex and AllocateNonce; the latter returns ErrNonceExhausted
\* when the two counters of the market are about to meet.
CanAllocate(b, r) ==
  /\ b.nextOrder <= MaxOrders
  /\ b.nonces[r.market].ask + 1 < b.nonces[r.market].bid

Allocated(b, r) ==
  LET n == b.nonces[r.market]
  IN [b EXCEPT !.nextOrder = @ + 1,
               !.nonces[r.market] = IF r.isAsk THEN [n EXCEPT !.ask = n.ask + 1]
                                               ELSE [n EXCEPT !.bid = n.bid - 1]]

NewOrder(b, r, status) ==
  [id |-> b.nextOrder, owner |-> r.owner, market |-> r.market, isAsk |-> r.isAsk,
   type |-> r.type, tif |-> r.tif, reduceOnly |-> r.reduceOnly, price |-> r.price,
   nonce |-> IF r.isAsk THEN b.nonces[r.market].ask ELSE b.nonces[r.market].bid,
   init |-> r.base, rem |-> r.base, trig |-> r.trig, expiry |-> r.expiry,
   client |-> r.client, status |-> status]

\* The executable twin of an activated trigger order.
Executable(o) ==
  IF o.type \in {"stopLossLimit", "takeProfitLimit"}
    THEN [o EXCEPT !.type = "limit"]
    ELSE [o EXCEPT !.type = "market", !.tif = "IOC", !.price = 0]

----------------------------------------------------------------------------
(* orders.go: the record and its indexes.                                   *)

LevelKey(o)  == <<o.market, o.isAsk, o.price>>
ClientKey(o) == <<o.market, o.owner, o.client>>
CountKey(o)  == <<o.owner, o.market>>

setOrder(b, o) == [b EXCEPT !.orders[o.id] = o]

indexClientOrder(b, o) ==
  IF o.client = 0 THEN b ELSE [b EXCEPT !.clientIndex[ClientKey(o)] = o.id]

unindexClientOrder(b, o) ==
  IF o.client = 0 THEN b ELSE [b EXCEPT !.clientIndex[ClientKey(o)] = 0]

unindexClientOrderIfMatches(b, o) ==
  IF o.client # 0 /\ b.clientIndex[ClientKey(o)] = o.id
    THEN unindexClientOrder(b, o)
    ELSE b

\* Mutant: a parked trigger order does not hold its client id.
HasRestingClientOrder(b, market, owner, client) ==
  /\ client # 0
  /\ b.clientIndex[<<market, owner, client>>] # 0
  /\ b.orders[b.clientIndex[<<market, owner, client>>]].status \in Resting

\* HasOpenClientOrder: the tuple maps to an order that is not terminal.
HasOpenClientOrder(b, market, owner, client) ==
  /\ client # 0
  /\ b.clientIndex[<<market, owner, client>>] # 0
  /\ b.orders[b.clientIndex[<<market, owner, client>>]].status \in Live

\* The counter is bumped only when the keyset really changes.
indexAccountOpenOrder(b, o) ==
  IF o.id \in b.accountOpen THEN b ELSE
  [b EXCEPT !.accountOpen = @ \cup {o.id}, !.openCount[CountKey(o)] = @ + 1]

unindexAccountOpenOrder(b, o) ==
  IF o.id \notin b.accountOpen THEN b ELSE
  [b EXCEPT !.accountOpen = @ \ {o.id}, !.openCount[CountKey(o)] = @ - 1]

addTrigger(b, o)    == [b EXCEPT !.triggers = @ \cup {o.id}]
removeTrigger(b, o) == [b EXCEPT !.triggers = @ \ {o.id}]

indexExpiry(o) == o.tif = "GTT" /\ o.expiry > 0

addExpiryIndex(b, o) ==
  IF indexExpiry(o) THEN [b EXCEPT !.expiryIndex = @ \cup {o.id}] ELSE b

\* The gate is weaker than indexExpiry: the TIF may have been rewritten.
removeExpiryIndex(b, o) ==
  IF o.expiry = 0 THEN b ELSE [b EXCEPT !.expiryIndex = @ \ {o.id}]

\* computeSpotLock: what a resting spot order keeps locked.
LockAsset(o)  == IF o.isAsk THEN BaseAsset[o.market] ELSE QuoteAsset[o.market]
LockAmount(o) == IF o.isAsk THEN o.rem ELSE o.rem * o.price

CanLockSpot(k, o) ==
  o.market \in SpotMarkets => CanLock(k, o.owner, LockAsset(o), LockAmount(o))

applySpotLockOnOpen(k, o) ==
  IF o.market \in SpotMarkets
    THEN IncreaseLockedBalance(k, o.owner, LockAsset(o), LockAmount(o))
    ELSE k

releaseSpotLockOnClose(k, o) ==
  IF o.market \in SpotMarkets
    THEN DecreaseLockedBalance(k, o.owner, LockAsset(o), LockAmount(o))
    ELSE k

----------------------------------------------------------------------------
(* entries.go: the resting entry and the price-level aggregates.            *)

\* CheckedQuote returns ErrQuoteOverflow above the cap.
QuoteFits(base, price) == base * price <= MaxOrderQuoteAmount

adjustPriceLevel(b, o, base, count) ==
  [b EXCEPT !.levels[LevelKey(o)] =
     [base |-> @.base + base, quote |-> @.quote + base * o.price,
      count |-> @.count + count]]

insertEntry(b, o) ==
  adjustPriceLevel([b EXCEPT !.entries[o.id] = o.rem], o, o.rem, 1)

\* Idempotent: nothing happens when the entry is already gone.
removeEntry(b, o) ==
  IF b.entries[o.id] = 0 THEN b ELSE
  adjustPriceLevel([b EXCEPT !.entries[o.id] = 0], o, -b.entries[o.id], -1)

\* The residue left by shrinkEntryResidue, whose delta is clamped to it.
EntryResidue(b, id, delta) == b.entries[id] - LesserOf(delta, b.entries[id])

shrinkEntryResidue(b, o, delta) ==
  LET left == EntryResidue(b, o.id, delta)
  IN adjustPriceLevel([b EXCEPT !.entries[o.id] = left], o,
                      left - b.entries[o.id], IF left = 0 THEN -1 ELSE 0)

\* Mutant: the nonce of a bid is stored without its complement.
KeyBeforePlainNonce(x, y) ==
  IF x.isAsk
    THEN x.price < y.price \/ (x.price = y.price /\ x.nonce < y.nonce)
    ELSE x.price > y.price \/ (x.price = y.price /\ x.nonce < y.nonce)

\* SortableKey: the byte-wise order of the keys of one market and side.  A
\* bid stores the complement of its price and of its nonce.
KeyBefore(x, y) ==
  IF x.isAsk
    THEN x.price < y.price \/ (x.price = y.price /\ x.nonce < y.nonce)
    ELSE x.price > y.price \/ (x.price = y.price /\ x.nonce > y.nonce)

Side(b, market, isAsk) ==
  {i \in OrderIds : /\ b.entries[i] # 0
                    /\ b.orders[i].market = market
                    /\ b.orders[i].isAsk = isAsk}

\* PeekBest: the entry with the smallest key; 0 when the side is empty.
PeekBest(b, market, isAsk) ==
  LET side == Side(b, market, isAsk)
  IN IF side = {} THEN 0 ELSE
     CHOOSE i \in side : \A j \in side \ {i} : KeyBefore(b.orders[i], b.orders[j])

WouldCross(b, market, isAsk, price) ==
  LET best == PeekBest(b, market, ~isAsk)
  IN best # 0 /\ IF isAsk THEN price <= b.orders[best].price
                          ELSE price >= b.orders[best].price

----------------------------------------------------------------------------
(* lifecycle.go: the only functions other modules call.                     *)

Indexed(b, o) ==
  addExpiryIndex(indexAccountOpenOrder(indexClientOrder(b, o), o), o)

Unindexed(b, o) ==
  removeExpiryIndex(unindexAccountOpenOrder(unindexClientOrderIfMatches(b, o), o), o)

\* OpenOrder, its two error returns, and the lock it takes: the lock is
\* acquired before insertEntry can fail.
OpenOrderLocks(k, o) == o.status \in Resting => CanLockSpot(k, o)
OpenOrderFits(o)     == o.status \in Resting => QuoteFits(o.rem, o.price)

OpenOrder(b, o) ==
  IF o.status \in Resting
    THEN setOrder(Indexed(insertEntry(b, o), o), o)
    ELSE setOrder(Unindexed(b, o), o)

OpenOrderBank(k, o) == IF o.status \in Resting THEN applySpotLockOnOpen(k, o) ELSE k

OpenTriggerOrder(b, o) == setOrder(Indexed(addTrigger(b, o), o), o)

\* Mutant: the trigger row outlives the activation.
ActivateKeepsTrigger(b, id) ==
  setOrder(removeExpiryIndex(b, b.orders[id]), [b.orders[id] EXCEPT !.status = "open"])

ActivateTrigger(b, id) ==
  LET o == b.orders[id]
  IN setOrder(removeExpiryIndex(removeTrigger(b, o), o), [o EXCEPT !.status = "open"])

\* FillMakerOrder, and the residue agreement it asserts.
FillAgrees(b, id, base) ==
  LET left == b.orders[id].rem - LesserOf(base, b.orders[id].rem)
  IN /\ b.entries[id] # 0
     /\ (EntryResidue(b, id, LesserOf(base, b.orders[id].rem)) = 0) <=> (left = 0)

FillMakerOrder(b, id, base) ==
  LET o    == b.orders[id]
      fill == LesserOf(base, o.rem)
      b1   == shrinkEntryResidue(b, o, fill)
      left == o.rem - fill
  IN IF left = 0
       THEN setOrder(removeExpiryIndex(unindexAccountOpenOrder(
                       unindexClientOrder(b1, o), o), o),
                     [o EXCEPT !.rem = 0, !.status = "filled"])
       ELSE setOrder(b1, [o EXCEPT !.rem = left, !.status = "partial"])

EvictMakerOrder(b, id) ==
  LET o == b.orders[id]
  IN setOrder(Unindexed(removeEntry(b, o), o), [o EXCEPT !.status = "cancelled"])

\* Mutant: a finished order can be cancelled again.
CancelableAgain(b, id) == b.orders[id].status # "none"

\* CancelOrder and its ErrOrderNotCancelable guard.
Cancelable(b, id) ==
  /\ b.orders[id].status \in Live
  /\ b.orders[id].status \in Resting => b.orders[id].rem # 0

CancelOrder(b, id) ==
  LET o  == b.orders[id]
      b1 == IF o.status \in Resting THEN removeEntry(b, o) ELSE removeTrigger(b, o)
  IN setOrder(Unindexed(b1, o), [o EXCEPT !.status = "cancelled"])

\* Mutant: what the order locked when it was new is given back.
CancelReleasesInitial(b, k, id) ==
  IF b.orders[id].status \in Resting
    THEN releaseSpotLockOnClose(k, [b.orders[id] EXCEPT !.rem = b.orders[id].init])
    ELSE k

CancelOrderBank(b, k, id) ==
  IF b.orders[id].status \in Resting THEN releaseSpotLockOnClose(k, b.orders[id]) ELSE k

----------------------------------------------------------------------------
(* How the tables must agree.  `act' holds the order that a trigger sweep   *)
(* has activated and not yet handed back to OpenOrder: it is recorded as    *)
(* open but has neither an entry nor an expiry row.                         *)

StatusIn(b, S) == {i \in OrderIds : b.orders[i].status \in S}

\* The residue of an entry is the residue of its order, and only resting
\* orders have an entry.
EntriesAgreeIn(b, act) ==
  \A i \in OrderIds :
    IF i \in StatusIn(b, Resting) \ act
      THEN b.orders[i].rem > 0 /\ b.entries[i] = b.orders[i].rem
      ELSE b.entries[i] = 0

\* The account-open keyset holds the live orders and the counter counts them.
OpenOrdersAgreeIn(b) ==
  /\ b.accountOpen = StatusIn(b, Live)
  /\ \A c \in CountKeys :
       b.openCount[c] = Cardinality({i \in b.accountOpen : CountKey(b.orders[i]) = c})

\* Each live order with a client id is found under it, and a row of the index
\* leads to a live order that carries the key.
ClientsAgreeIn(b) ==
  /\ \A i \in StatusIn(b, Live) :
       b.orders[i].client # 0 => b.clientIndex[ClientKey(b.orders[i])] = i
  /\ \A c \in ClientKeys : b.clientIndex[c] # 0 =>
       LET i == b.clientIndex[c]
       IN i \in StatusIn(b, Live) /\ ClientKey(b.orders[i]) = c

\* The sweeps see what they must: the pending triggers and the live GTT orders.
SweepsAgreeIn(b, act) ==
  /\ b.triggers = StatusIn(b, {"pending"})
  /\ b.expiryIndex = {i \in StatusIn(b, Live) \ act : indexExpiry(b.orders[i])}

\* A price level is the sum of its entries.
LevelsAgreeIn(b) ==
  \A l \in LevelKeys :
    LET here == {i \in OrderIds : b.entries[i] # 0 /\ LevelKey(b.orders[i]) = l}
        base == MapThenSumSet(LAMBDA i : b.entries[i], here)
    IN b.levels[l] = [base |-> base, quote |-> base * l[3], count |-> Cardinality(here)]

\* The head of each side is the oldest order at its best price, age being the
\* order index.
PriceTimeIn(b) ==
  \A m \in Markets, isAsk \in BOOLEAN :
    LET best == PeekBest(b, m, isAsk)
    IN \A i \in Side(b, m, isAsk) \ {best} :
         \/ IF isAsk THEN b.orders[best].price < b.orders[i].price
                     ELSE b.orders[best].price > b.orders[i].price
         \/ b.orders[best].price = b.orders[i].price /\ best < i
=============================================================================
