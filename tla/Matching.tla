------------------------------ MODULE Matching ------------------------------
(* The matching engine (x/matching/keeper) over the order book, the spot    *)
(* balances and the perp positions, block by block.                         *)
(*                                                                          *)
(* A message runs to its end before the next one starts and is reverted as  *)
(* a whole when it fails; the loops inside it are steps of `job', and       *)
(* `saved' is the state the revert goes back to.  An EndBlocker runs the    *)
(* same steps on the live store: nothing it wrote is reverted.  One fill    *)
(* (trade plus maker book update) is a cache context of its own and is one  *)
(* step.                                                                    *)
(*                                                                          *)
(* Whether x/trade accepts a perp fill is decided by risk state that is not *)
(* part of this module: the outcome is a free choice.  The health gate of   *)
(* CreateOrder, a pure rejection, is left open in the same way.             *)
EXTENDS OrderBookTables, SpotTrade

CONSTANTS Requests,                \* CreateOrder requests
          Changes,                 \* the [price, base] a ModifyOrder asks for
          InitBal, InitPos,        \* balances and positions at genesis
          Marks,                   \* mark prices a block may see; 0: unavailable
          MaxFillsPerMsg,
          MaxCancelsPerMsg,
          MaxOpenOrdersPerAccount, \* 0: no cap
          MinBaseAmount, MinQuoteAmount, OrderQuoteLimit  \* 0: none

ASSUME MatchingAssumption ==
  /\ Requests \subseteq Request
  /\ Changes \subseteq [price : Prices, base : 1 .. MaxBase]
  /\ InitBal \in [Rows -> Nat]
  /\ InitPos \in [CountKeys -> Int]
  /\ Marks \subseteq Nat /\ Marks # {}
  /\ MaxFillsPerMsg \in Nat
  /\ MaxCancelsPerMsg \in Nat \ {0}
  /\ {MaxOpenOrdersPerAccount, MinBaseAmount, MinQuoteAmount, OrderQuoteLimit} \subseteq Nat
  /\ Treasury \notin Traders

VARIABLES book,   \* the tables of x/orderbook
          bank,   \* the spot balance sheet of x/account
          pos,    \* perp position of each trader in each market
          now,    \* block time
          mark,   \* mark price of each perp market in this block
          job,    \* the handler in progress
          saved   \* what a failing message reverts to

vars == <<book, bank, pos, now, mark, job, saved>>

Idle == [kind |-> "idle"]

\* match: the loop for `taker', `fills' done so far; rest: the loop is over,
\* `taker' goes to OpenOrder; cancel: orders still to be cancelled; triggers:
\* due trigger orders not yet activated.  `src' tells a message from an
\* EndBlocker, `todo' is what the handler does afterwards.
Job(kind, src, taker, fills, todo) ==
  [kind |-> kind, src |-> src, taker |-> taker, fills |-> fills, todo |-> todo]

Snapshot == [book |-> book, bank |-> bank, pos |-> pos]
NoSnapshot == <<>>

Init ==
  /\ book = EmptyBook
  /\ bank = [bal |-> InitBal, locked |-> [r \in Rows |-> 0]]
  /\ pos = InitPos
  /\ now = 0
  /\ mark \in [Markets \ SpotMarkets -> Marks]
  /\ job = Idle
  /\ saved = NoSnapshot

IsPerp(o) == o.market \notin SpotMarkets

PosOf(o) == pos[CountKey(o)]

Magnitude(x) == IF x < 0 THEN -x ELSE x

----------------------------------------------------------------------------
(* msg_server.go: the messages.                                             *)

ValidateBasic(r) ==
  /\ r.type \in {"limit", "stopLossLimit", "takeProfitLimit"} => r.price > 0
  /\ r.type \in Trigger => r.trig > 0
  /\ r.tif = "PostOnly" => r.type = "limit"
  /\ r.tif = "GTT" => r.expiry > 0

QuoteExceedsLimit(base, price) == OrderQuoteLimit > 0 /\ base * price > OrderQuoteLimit

\* An order without a price has no notional to compare.
InMarketBounds(r) ==
  /\ r.base >= MinBaseAmount
  /\ r.price > 0 => r.price * r.base >= MinQuoteAmount
  /\ ~QuoteExceedsLimit(r.base, r.price)

willConsumeOpenSlot(r) == r.type \in Trigger \/ r.tif # "IOC"

UnderOpenOrderCap(b, r) ==
  (MaxOpenOrdersPerAccount > 0 /\ willConsumeOpenSlot(r))
    => b.openCount[CountKey(r)] < MaxOpenOrdersPerAccount

\* A seller must be long, a buyer short.
reduceOnlyCompatible(r) == IF r.isAsk THEN PosOf(r) > 0 ELSE PosOf(r) < 0

CreateGate(b, r) ==
  /\ ValidateBasic(r)
  /\ InMarketBounds(r)
  /\ ~HasOpenClientOrder(b, r.market, r.owner, r.client)
  /\ UnderOpenOrderCap(b, r)
  /\ r.tif = "PostOnly" => ~WouldCross(b, r.market, r.isAsk, r.price)
  /\ r.reduceOnly => reduceOnlyCompatible(r)
  /\ CanAllocate(b, r)

\* CreateOrder after the gates: a trigger order is parked and the message is
\* done, any other order enters the match loop.
BeginOrder(b, r) ==
  IF r.type \in Trigger
    THEN /\ book' = OpenTriggerOrder(Allocated(b, r), NewOrder(b, r, "pending"))
         /\ UNCHANGED <<job, saved>>
    ELSE /\ book' = Allocated(b, r)
         /\ job' = Job("match", "msg", NewOrder(b, r, "open"), 0, {})
         /\ saved' = Snapshot

CreateOrder(r) ==
  /\ job = Idle
  /\ CreateGate(book, r)
  /\ BeginOrder(book, r)
  /\ UNCHANGED <<bank, pos, now, mark>>

CancelMsg(id) ==
  /\ job = Idle
  /\ Cancelable(book, id)
  /\ book' = CancelOrder(book, id)
  /\ bank' = CancelOrderBank(book, bank, id)
  /\ UNCHANGED <<pos, now, mark, job, saved>>

\* ModifyOrder: cancel, then create with the new price, size and trigger price.
ModifyOrder(id, c) ==
  LET o == book.orders[id]
      b == CancelOrder(book, id)
      r == [owner |-> o.owner, market |-> o.market, isAsk |-> o.isAsk,
            type |-> o.type, tif |-> o.tif, reduceOnly |-> o.reduceOnly,
            price |-> c.price, base |-> c.base, trig |-> c.price,
            expiry |-> o.expiry, client |-> o.client]
  IN /\ job = Idle
     /\ o.status \in Resting
     /\ Cancelable(book, id)
     /\ CreateGate(b, r)
     /\ BeginOrder(b, r)
     /\ bank' = CancelOrderBank(book, bank, id)
     /\ UNCHANGED <<pos, now, mark>>

\* CancelAllOrders: the first MaxCancelsPerMsg of the account's open orders in
\* (market, order index) order, optionally of one market.
OpenBefore(i, j) ==
  LET p == book.orders[i]
      q == book.orders[j]
  IN p.market < q.market \/ (p.market = q.market /\ i < j)

CancelAllOrders(a, markets) ==
  LET mine == {i \in book.accountOpen :
                 book.orders[i].owner = a /\ book.orders[i].market \in markets}
  IN /\ job = Idle
     /\ mine # {}
     /\ job' = Job("cancel", "msg", NoOrder, 0,
                   {i \in mine : Cardinality({j \in mine : OpenBefore(j, i)})
                                   < MaxCancelsPerMsg})
     /\ UNCHANGED <<book, bank, pos, now, mark, saved>>

\* Transfer of a spot-only asset between two accounts (x/account): debits
\* what is available, so a lock cannot be moved away.
SpotTransfer(a, to, s, amount) ==
  /\ job = Idle
  /\ a # to
  /\ CanDebit(bank, a, s, amount)
  /\ bank' = AddAccountAssetBalance(AddAccountAssetBalance(bank, a, s, -amount),
                                    to, s, amount)
  /\ UNCHANGED <<book, pos, now, mark, job, saved>>

----------------------------------------------------------------------------
(* match_core.go and match_order.go: one iteration of the loop.             *)

Best(t) == PeekBest(book, t.market, ~t.isAsk)

\* A market order has no limit price.
Unreachable(t, m) ==
  t.type # "market" /\ IF t.isAsk THEN t.price > m.price ELSE t.price < m.price

MakerExpired(m) == m.expiry > 0 /\ now >= m.expiry

\* Reduce-only: an ask must close a long, a bid a short.
CannotReduce(o) ==
  /\ IsPerp(o)
  /\ o.reduceOnly
  /\ IF o.isAsk THEN PosOf(o) <= 0 ELSE PosOf(o) >= 0

\* The three verdicts of nextMaker on the head of the opposite side.
NoMaker(t) ==
  Best(t) # 0 =>
    LET m == book.orders[Best(t)]
    IN \/ Unreachable(t, m)
       \/ m.owner = t.owner
       \/ ~MakerExpired(m) /\ CannotReduce(t)

MustEvict(t) ==
  LET m == book.orders[Best(t)]
  IN ~NoMaker(t) /\ (MakerExpired(m) \/ CannotReduce(m))

Tradable(t) == ~NoMaker(t) /\ ~MustEvict(t)

\* Mutant: the reduce-only position does not cap the fill.
Uncapped(o, base) == base

\* matchSize: the smaller residue, capped by both reduce-only positions.
Capped(o, base) ==
  IF IsPerp(o) /\ o.reduceOnly THEN LesserOf(base, Magnitude(PosOf(o))) ELSE base

matchSize(t, m) == Capped(m, Capped(t, LesserOf(t.rem, book.entries[m.id])))

\* The loop goes on: residue left and fills left.
Looping == job.kind = "match" /\ job.taker.rem > 0 /\ job.fills < MaxFillsPerMsg

SpotFill(t, m) ==
  ApplySpotMatching(bank,
    [maker |-> m.owner, taker |-> t.owner, isTakerAsk |-> t.isAsk,
     price |-> m.price, base |-> matchSize(t, m),
     baseAsset |-> BaseAsset[t.market], quoteAsset |-> QuoteAsset[t.market]])

\* The outcomes x/trade can have for the pair; only a spot fill is computed.
TradeOutcomes(t, m) ==
  IF IsPerp(t) THEN {"none", "maker", "taker", "hard"} ELSE {SpotFill(t, m).err}

EvictMaker(id) ==
  /\ book' = EvictMakerOrder(book, id)
  /\ bank' = releaseSpotLockOnClose(bank, book.orders[id])

\* Mutant: nextMaker looks again without evicting the maker it rejected.
MatchEvictForgotten ==
  /\ Looping
  /\ MustEvict(job.taker)
  /\ UNCHANGED vars

\* nextMaker evicts an expired or reduce-only-invalid maker and looks again.
MatchEvict ==
  /\ Looping
  /\ MustEvict(job.taker)
  /\ EvictMaker(Best(job.taker))
  /\ UNCHANGED <<pos, now, mark, job, saved>>

\* A fill: the trade and FillMakerOrder are committed together.
MatchFill ==
  LET t    == job.taker
      m    == book.orders[Best(t)]
      base == matchSize(t, m)
      sign == IF t.isAsk THEN -1 ELSE 1
  IN /\ Looping
     /\ Tradable(t)
     /\ "none" \in TradeOutcomes(t, m)
     /\ FillAgrees(book, m.id, base)
     /\ book' = FillMakerOrder(book, m.id, base)
     /\ IF IsPerp(t)
          THEN /\ pos' = [pos EXCEPT ![CountKey(t)] = @ + sign * base,
                                     ![CountKey(m)] = @ - sign * base]
               /\ UNCHANGED bank
          ELSE bank' = SpotFill(t, m).bank /\ UNCHANGED pos
     /\ job' = [job EXCEPT !.taker.rem = @ - base, !.fills = @ + 1]
     /\ UNCHANGED <<now, mark, saved>>

\* A recoverable maker error evicts the maker on the outer context.
MatchMakerRejected ==
  LET t == job.taker
  IN /\ Looping
     /\ Tradable(t)
     /\ "maker" \in TradeOutcomes(t, book.orders[Best(t)])
     /\ EvictMaker(Best(t))
     /\ UNCHANGED <<pos, now, mark, job, saved>>

\* A recoverable taker error keeps the fills and cancels the residue.
MatchTakerRejected ==
  LET t == job.taker
  IN /\ Looping
     /\ Tradable(t)
     /\ "taker" \in TradeOutcomes(t, book.orders[Best(t)])
     /\ job' = [job EXCEPT !.kind = "rest", !.taker.status = "cancelled"]
     /\ UNCHANGED <<book, bank, pos, now, mark, saved>>

\* The loop is over; MatchOrder reports filled, partial or open.
MatchStop ==
  LET t == job.taker
  IN /\ job.kind = "match"
     /\ Looping => NoMaker(t)
     /\ job' = [job EXCEPT !.kind = "rest",
                           !.taker.status = IF t.rem = 0 THEN "filled" ELSE
                                            IF t.rem < t.init THEN "partial" ELSE "open"]
     /\ UNCHANGED <<book, bank, pos, now, mark, saved>>

\* What follows a handler that ends here: a message returns, the trigger sweep
\* goes on with the next due order.
AfterJob == IF job.src = "msg" THEN Idle ELSE Job("triggers", "block", NoOrder, 0, job.todo)

Revert ==
  /\ book' = saved.book
  /\ bank' = saved.bank
  /\ pos' = saved.pos

\* The sweep's cleanup: CancelOrder on the order as it was stored.
CancelActivated(k) ==
  /\ Cancelable(book, job.taker.id)
  /\ book' = CancelOrder(book, job.taker.id)
  /\ bank' = CancelOrderBank(book, k, job.taker.id)
  /\ UNCHANGED pos

\* Any other error: a message is reverted, the sweep cancels the order.
MatchHardError ==
  LET t == job.taker
  IN /\ Looping
     /\ Tradable(t)
     /\ "hard" \in TradeOutcomes(t, book.orders[Best(t)])
     /\ IF job.src = "msg" THEN Revert ELSE CancelActivated(bank)
     /\ job' = AfterJob
     /\ saved' = NoSnapshot
     /\ UNCHANGED <<now, mark>>

\* Mutant: a cancelled residue is recorded as if nothing had traded.
ToRestForgetful ==
  LET t == job.taker
  IN IF t.rem > 0 /\ t.tif = "IOC" THEN [t EXCEPT !.status = "cancelled", !.rem = t.init]
                                   ELSE t

\* The order OpenOrder gets: an IOC residue is cancelled and, for a message,
\* so is a spot residue that cannot be locked.
ToRest ==
  LET t == job.taker
      unlockable == /\ job.src = "msg"
                    /\ t.market \in SpotMarkets
                    /\ AvailableBalance(bank, t.owner, LockAsset(t)) < LockAmount(t)
  IN IF t.rem > 0 /\ (t.tif = "IOC" \/ (t.status \in Resting /\ unlockable))
       THEN [t EXCEPT !.status = "cancelled"]
       ELSE t

Rest ==
  LET o == ToRest
  IN /\ job.kind = "rest"
     /\ \/ /\ OpenOrderLocks(bank, o)
           /\ OpenOrderFits(o)
           /\ book' = OpenOrder(book, o)
           /\ bank' = OpenOrderBank(bank, o)
           /\ UNCHANGED pos
        \/ /\ ~(OpenOrderLocks(bank, o) /\ OpenOrderFits(o))
           /\ IF job.src = "msg"
                THEN Revert
                ELSE CancelActivated(IF OpenOrderLocks(bank, o)
                                       THEN OpenOrderBank(bank, o) ELSE bank)
     /\ job' = AfterJob
     /\ saved' = NoSnapshot
     /\ UNCHANGED <<now, mark>>

----------------------------------------------------------------------------
(* The block: messages, then x/orderbook's GTT sweep, then x/matching's     *)
(* trigger sweep.                                                           *)

\* Mutant: an order that expires in this very block is left for the next.
EndBlockStrict ==
  /\ job = Idle
  /\ job' = Job("cancel", "block", NoOrder, 0,
                {i \in book.expiryIndex : book.orders[i].expiry < now})
  /\ UNCHANGED <<book, bank, pos, now, mark, saved>>

EndBlock ==
  /\ job = Idle
  /\ job' = Job("cancel", "block", NoOrder, 0,
                {i \in book.expiryIndex : book.orders[i].expiry <= now})
  /\ UNCHANGED <<book, bank, pos, now, mark, saved>>

\* One CancelOrder of a cancel-all or of the GTT sweep; an order that is not
\* cancelable any more is skipped.  Cancellations commute, so the smallest
\* index stands for the key order of either scan.
CancelNext ==
  /\ job.kind = "cancel"
  /\ \E i \in job.todo :
       /\ \A j \in job.todo : i <= j
       /\ IF Cancelable(book, i)
            THEN book' = CancelOrder(book, i) /\ bank' = CancelOrderBank(book, bank, i)
            ELSE UNCHANGED <<book, bank>>
       /\ job' = [job EXCEPT !.todo = @ \ {i}]
  /\ UNCHANGED <<pos, now, mark, saved>>

\* The trigger condition at the block's mark price; a spot market never has
\* one, and an unavailable mark fires nothing.
Fires(o) ==
  /\ IsPerp(o)
  /\ mark[o.market] # 0
  /\ IF (o.type \in {"stopLoss", "stopLossLimit"}) <=> o.isAsk
       THEN mark[o.market] <= o.trig
       ELSE mark[o.market] >= o.trig

CancelDone ==
  /\ job.kind = "cancel"
  /\ job.todo = {}
  /\ job' = IF job.src = "msg" THEN Idle ELSE
            Job("triggers", "block", NoOrder, 0,
                {i \in book.triggers : Fires(book.orders[i])})
  /\ UNCHANGED <<book, bank, pos, now, mark, saved>>

\* IterateTriggers order: market, trigger price, order index.
TriggerBefore(i, j) ==
  LET p == book.orders[i]
      q == book.orders[j]
  IN \/ p.market < q.market
     \/ p.market = q.market /\ p.trig < q.trig
     \/ p.market = q.market /\ p.trig = q.trig /\ i < j

ActivateNext ==
  /\ job.kind = "triggers"
  /\ \E i \in job.todo :
       /\ \A j \in job.todo \ {i} : TriggerBefore(i, j)
       /\ book' = ActivateTrigger(book, i)
       /\ job' = Job("match", "block",
                     Executable([book.orders[i] EXCEPT !.status = "open"]), 0,
                     job.todo \ {i})
  /\ UNCHANGED <<bank, pos, now, mark, saved>>

\* The next block.  The clock saturates at the last expiry: the code only
\* compares it with expiries.
NextBlock ==
  /\ job.kind = "triggers"
  /\ job.todo = {}
  /\ now' = LesserOf(now + 1, MaxExpiry)
  /\ mark' \in [Markets \ SpotMarkets -> Marks]
  /\ job' = Idle
  /\ UNCHANGED <<book, bank, pos, saved>>

Message ==
  \/ \E r \in Requests : CreateOrder(r)
  \/ \E id \in OrderIds : CancelMsg(id) \/ \E c \in Changes : ModifyOrder(id, c)
  \/ \E a \in Traders : CancelAllOrders(a, Markets) \/ \E m \in Markets : CancelAllOrders(a, {m})
  \/ \E a, to \in Traders, m \in SpotMarkets : SpotTransfer(a, to, BaseAsset[m], 1)

Step ==
  \/ MatchEvict \/ MatchFill \/ MatchMakerRejected \/ MatchTakerRejected
  \/ MatchStop \/ MatchHardError \/ Rest
  \/ CancelNext \/ CancelDone \/ ActivateNext \/ NextBlock

Next == Message \/ EndBlock \/ Step

\* A handler that started runs on, and the messages of a block come to an end:
\* the block gas limit bounds them.
Fairness == WF_vars(Step) /\ SF_vars(EndBlock)

Spec == Init /\ [][Next]_vars

FairSpec == Spec /\ Fairness

----------------------------------------------------------------------------
\* The order a trigger sweep has activated and not yet handed to OpenOrder.
Activated ==
  IF job.kind \in {"match", "rest"} /\ job.src = "block" THEN {job.taker.id} ELSE {}

\* All tables of the order book agree between any two steps of any handler.
BookAgrees ==
  /\ EntriesAgreeIn(book, Activated)
  /\ OpenOrdersAgreeIn(book)
  /\ ClientsAgreeIn(book)
  /\ SweepsAgreeIn(book, Activated)
  /\ LevelsAgreeIn(book)

\* What is locked of an asset is exactly what the account's resting spot
\* orders need: nothing is locked twice, lost or released early.
LocksExact ==
  \A r \in Rows :
    bank.locked[r] = MapThenSumSet(LAMBDA i : LockAmount(book.orders[i]),
      {i \in OrderIds : /\ book.entries[i] # 0
                        /\ book.orders[i].market \in SpotMarkets
                        /\ <<book.orders[i].owner, LockAsset(book.orders[i])>> = r})

\* IncreaseLockedBalance: "so the matching engine can guarantee a resting spot
\* order has the resources to settle": no fill fails for lack of maker funds.
MakersCanSettle ==
  (Looping /\ Tradable(job.taker) /\ ~IsPerp(job.taker))
    => SpotFill(job.taker, book.orders[Best(job.taker)]).err # "maker"

\* Trading, fees and transfers move assets between accounts and neither
\* create nor destroy them.
AssetsConserved ==
  \A s \in Assets :
    MapThenSumSet(LAMBDA a : bank.bal[<<a, s>>], Accounts)
      = MapThenSumSet(LAMBDA a : InitBal[<<a, s>>], Accounts)

\* What one side of a market bought the other side sold, order by order.
FilledOf(o) == IF o.status = "none" THEN 0 ELSE o.init - o.rem

FillsBalance ==
  job = Idle => \A m \in Markets :
    LET side(isAsk) == {i \in OrderIds : /\ book.orders[i].status # "none"
                                         /\ book.orders[i].market = m
                                         /\ book.orders[i].isAsk = isAsk}
    IN MapThenSumSet(LAMBDA i : FilledOf(book.orders[i]), side(TRUE))
         = MapThenSumSet(LAMBDA i : FilledOf(book.orders[i]), side(FALSE))

\* A reduce-only order never grows or flips its owner's position, whichever
\* side of the fill it is on and whatever happened since it was placed.
ReduceOnlyReduces ==
  [][(job.kind = "match" /\ job'.kind = "match" /\ job'.fills # job.fills) =>
       \A o \in {job.taker, book.orders[Best(job.taker)]} :
         o.reduceOnly =>
           /\ Magnitude(pos'[CountKey(o)]) < Magnitude(pos[CountKey(o)])
           /\ pos'[CountKey(o)] * pos[CountKey(o)] >= 0]_vars

\* When a block ends no live GTT order is past its expiry and no trigger
\* order whose condition its mark price met is still parked.
BlockEndsClean ==
  [][(job.kind = "triggers" /\ job' = Idle) =>
       \A i \in StatusIn(book, Live) :
         /\ indexExpiry(book.orders[i]) => book.orders[i].expiry > now
         /\ book.orders[i].status = "pending" => ~Fires(book.orders[i])]_vars

\* Every GTT order leaves the book in the end.
GTTOrdersEnd ==
  \A i \in OrderIds :
    (book.orders[i].status \in Live /\ indexExpiry(book.orders[i]))
      ~> (book.orders[i].status \in Terminal \cup {"none"})
=============================================================================
