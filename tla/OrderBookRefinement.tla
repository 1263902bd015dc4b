------------------------ MODULE OrderBookRefinement ------------------------
(* The indexed order book implements the plain list of orders.              *)
EXTENDS OrderBookProofs

\* Besides IInv the step simulation needs that an order which never traded
\* still has the size it was placed with.
Untraded ==
  \A i \in OrderIds : book.orders[i].status \in {"pending", "open"}
                        => book.orders[i].rem = book.orders[i].init

\* The record of one order changes and all others stay.
Rewrites(id, p) ==
  /\ id \in OrderIds
  /\ p \in Order
  /\ book'.orders = [book.orders EXCEPT ![id] = p]

----------------------------------------------------------------------------
(* What each action does to the order records.                              *)

\* OpenOrder records the order it is given.
LEMMA OpenOrders ==
  ASSUME NEW b \in BookType, NEW o \in Order, o.status \in Resting \/ o.status \in Terminal
  PROVE  OpenOrder(b, o).orders = [b.orders EXCEPT ![o.id] = o]
BY OpenRestingFields, OpenTerminalFields DEF Entered, Closed

\* A stored order that is not NoOrder, with the facts the invariant has on it.
LEMMA LiveOrder ==
  ASSUME IInv, NEW id \in OrderIds, book.orders[id].status \in Live
  PROVE  /\ book \in BookType
         /\ book.orders[id] \in Order /\ book.orders[id].id = id
         /\ book.orders[id] # NoOrder
         /\ book.orders[id].init \in Nat /\ book.orders[id].init > 0
         /\ book.orders[id].rem \in Nat
<1>1. book \in BookType /\ book.orders[id] # NoOrder
  BY DEF IInv, TablesAgree, NoOrder, Live, Resting
<1>2. book.orders[id] \in Order /\ book.orders[id].id = id
  BY <1>1, StoredOrder DEF IInv, TablesAgree, Numbered
<1>3. \A o \in Order : o.init \in Nat /\ o.init > 0 /\ o.rem \in Nat
  BY BookAssumption DEF Order
<1> QED BY <1>1, <1>2, <1>3

\* Activate.
LEMMA ActivateRewrites ==
  ASSUME IInv, NEW id \in OrderIds, Activate(id)
  PROVE  Rewrites(id, [book.orders[id] EXCEPT !.status = "open"])
<1> DEFINE o == book.orders[id]
           p == [o EXCEPT !.status = "open"]
           b == removeExpiryIndex(removeTrigger(book, o), o)
<1>1. book \in BookType /\ o \in Order /\ o.id = id
  BY LiveOrder DEF Activate, Live
<1>2. p \in Order /\ p.id = id
  BY <1>1 DEF Order, Live, Resting
<1>3. b \in BookType /\ b.orders = book.orders
  <2>1. book.triggers \ {o.id} \in SUBSET OrderIds /\ book.expiryIndex \ {o.id} \in SUBSET OrderIds
    BY <1>1 DEF BookType
  <2> QED BY <1>1, <2>1 DEF removeExpiryIndex, removeTrigger, BookType
<1>4. book' = setOrder(b, p)
  BY DEF Activate, ActivateTrigger
<1> HIDE DEF b, p
<1>5. book'.orders = [book.orders EXCEPT ![id] = p]
  BY <1>2, <1>3, <1>4, SetOrderFields
<1> QED BY <1>2, <1>5 DEF Rewrites, p

\* Evict.
LEMMA EvictRewrites ==
  ASSUME IInv, NEW id \in OrderIds, Evict(id)
  PROVE  /\ book.orders[id].status \in Resting /\ book.orders[id].rem > 0
         /\ Rewrites(id, [book.orders[id] EXCEPT !.status = "cancelled"])
<1> DEFINE o == book.orders[id]
           p == [o EXCEPT !.status = "cancelled"]
           b == removeEntry(book, o)
<1>1. o.status \in Resting /\ o.rem > 0
  BY DEF Evict, IInv, TablesAgree, EntriesAgreeIn, StatusIn
<1>2. book \in BookType /\ o \in Order /\ o.id = id
  BY <1>1, LiveOrder DEF Live
<1>3. p \in Order /\ p.id = id
  BY <1>2 DEF Order, Terminal
<1>4. b \in BookType /\ b.orders = book.orders
  BY <1>2, RemoveFields DEF SameIndexes
<1>5. book' = setOrder(Unindexed(b, o), p)
  BY DEF Evict, EvictMakerOrder
<1>6. o.id = p.id
  BY <1>2, <1>3
<1> HIDE DEF b, p, o
<1>7. book'.orders = [book.orders EXCEPT ![id] = p]
  BY <1>2, <1>3, <1>4, <1>5, <1>6, CloseFields DEF Closed
<1>8. Rewrites(id, p)
  BY <1>3, <1>7 DEF Rewrites
<1> QED BY <1>1, <1>8 DEF p, o

\* CancelOrder, as called by Cancel and Abandon.
LEMMA CancelRewrites ==
  ASSUME IInv, NEW id \in OrderIds, Cancelable(book, id), book' = CancelOrder(book, id)
  PROVE  Rewrites(id, [book.orders[id] EXCEPT !.status = "cancelled"])
<1> DEFINE o == book.orders[id]
           p == [o EXCEPT !.status = "cancelled"]
           b == IF o.status \in Resting THEN removeEntry(book, o) ELSE removeTrigger(book, o)
<1>1. o.status \in Live
  BY DEF Cancelable
<1>2. book \in BookType /\ o \in Order /\ o.id = id
  BY <1>1, LiveOrder
<1>3. p \in Order /\ p.id = id
  BY <1>2 DEF Order, Terminal
<1>4. b \in BookType /\ b.orders = book.orders
  <2>1. removeEntry(book, o) \in BookType /\ removeEntry(book, o).orders = book.orders
    BY <1>2, RemoveFields DEF SameIndexes
  <2>2. book.triggers \ {o.id} \in SUBSET OrderIds
    BY <1>2 DEF BookType
  <2>3. removeTrigger(book, o) \in BookType /\ removeTrigger(book, o).orders = book.orders
    BY <1>2, <2>2 DEF removeTrigger, BookType
  <2> QED BY <2>1, <2>3
<1>5. book' = setOrder(Unindexed(b, o), p)
  BY DEF CancelOrder
<1>6. o.id = p.id
  BY <1>2, <1>3
<1> HIDE DEF b, p, o
<1>7. book'.orders = [book.orders EXCEPT ![id] = p]
  BY <1>2, <1>3, <1>4, <1>5, <1>6, CloseFields DEF Closed
<1>8. Rewrites(id, p)
  BY <1>3, <1>7 DEF Rewrites
<1> QED BY <1>8 DEF p, o

\* Fill.
LEMMA FillRewrites ==
  ASSUME IInv, NEW id \in OrderIds, NEW base \in 1 .. MaxBase, Fill(id, base)
  PROVE  \E left \in Nat :
           /\ book.orders[id].status \in Resting
           /\ left < book.orders[id].rem
           /\ Rewrites(id, [book.orders[id] EXCEPT !.rem = left,
                              !.status = IF left = 0 THEN "filled" ELSE "partial"])
<1> DEFINE o == book.orders[id]
           fill == LesserOf(base, o.rem)
           left == o.rem - fill
           p == [o EXCEPT !.rem = left, !.status = IF left = 0 THEN "filled" ELSE "partial"]
           b == shrinkEntryResidue(book, o, fill)
           c == removeExpiryIndex(unindexAccountOpenOrder(unindexClientOrder(b, o), o), o)
<1>1. o.status \in Resting /\ o.rem > 0
  BY DEF Fill, FillAgrees, IInv, TablesAgree, EntriesAgreeIn, StatusIn
<1>2. book \in BookType /\ o \in Order /\ o.id = id
  BY <1>1, LiveOrder DEF Live
<1>3. base \in Nat /\ base > 0 /\ o.rem \in Nat /\ o.rem <= MaxBase
  BY <1>2, ResidueType, BookAssumption
<1>4. fill \in Nat /\ left \in Nat /\ left < o.rem /\ left \in 0 .. MaxBase
  BY <1>1, <1>3, BookAssumption DEF LesserOf
<1>5. book' = IF left = 0 THEN setOrder(c, [o EXCEPT !.rem = 0, !.status = "filled"])
                          ELSE setOrder(b, [o EXCEPT !.rem = left, !.status = "partial"])
  BY DEF Fill, FillMakerOrder
<1>6. book' = IF left = 0 THEN setOrder(c, p) ELSE setOrder(b, p)
  BY <1>5
<1> HIDE DEF fill, left
<1>7. p \in Order /\ p.id = id
  BY <1>2, <1>4 DEF Order, Live, Resting, Terminal
<1>8. b \in BookType /\ b.orders = book.orders
  BY <1>2, <1>4, ShrinkFields DEF SameIndexes
<1> HIDE DEF b, p, o
<1>9. c \in BookType /\ c.orders = book.orders
  <2> DEFINE c1 == unindexClientOrder(b, o)
             c2 == unindexAccountOpenOrder(c1, o)
  <2>1. c1 \in BookType /\ c1.orders = b.orders
    BY <1>2, <1>8, OrderKeys DEF unindexClientOrder, BookType
  <2> HIDE DEF c1
  <2>2. c2 \in BookType /\ c2.orders = c1.orders
    <3>1. c2 \in BookType
      BY <1>2, <2>1, UnindexAccountType
    <3> QED BY <1>2, <2>1, <3>1 DEF unindexAccountOpenOrder, BookType
  <2> HIDE DEF c2
  <2>3. c2.expiryIndex \ {o.id} \in SUBSET OrderIds
    BY <2>2 DEF BookType
  <2>4. removeExpiryIndex(c2, o) \in BookType /\ removeExpiryIndex(c2, o).orders = c2.orders
    BY <2>2, <2>3 DEF removeExpiryIndex, BookType
  <2> QED BY <1>8, <2>1, <2>2, <2>4 DEF c1, c2
<1> HIDE DEF c
<1>10. book'.orders = [book.orders EXCEPT ![id] = p]
  BY <1>6, <1>7, <1>8, <1>9, SetOrderFields
<1>11. Rewrites(id, p)
  BY <1>7, <1>10 DEF Rewrites
<1> QED BY <1>1, <1>4, <1>11 DEF p, o

----------------------------------------------------------------------------
(* New orders.                                                              *)

\* No live order holds the client id of o.
ClientFree(o) ==
  \A j \in OrderIds :
    book.orders[j].status \in Live /\ o.client # 0
      => ~(/\ o.client = book.orders[j].client
           /\ o.owner = book.orders[j].owner
           /\ o.market = book.orders[j].market)

\* The index lookup of CreateOrder finds every live order with the client id.
LEMMA LookupIsScan ==
  ASSUME IInv, NEW r \in Request, ~HasOpenClientOrder(book, r.market, r.owner, r.client),
         NEW o \in Order, o.client = r.client, o.owner = r.owner, o.market = r.market
  PROVE  ClientFree(o)
<1> SUFFICES ASSUME NEW j \in OrderIds, book.orders[j].status \in Live, o.client # 0,
                    o.client = book.orders[j].client, o.owner = book.orders[j].owner,
                    o.market = book.orders[j].market
             PROVE  FALSE
  BY DEF ClientFree
<1>1. book.clientIndex[ClientKey(book.orders[j])] = j
  BY DEF IInv, TablesAgree, ClientsAgreeIn, StatusIn
<1>2. ClientKey(book.orders[j]) = <<r.market, r.owner, r.client>>
  BY DEF ClientKey
<1>3. j # 0
  BY DEF OrderIds
<1> QED BY <1>1, <1>2, <1>3 DEF HasOpenClientOrder

\* What is visible of an order.
LEMMA VisibleFields ==
  ASSUME NEW o \in Order
  PROVE  /\ Visible(o) = [owner |-> o.owner, market |-> o.market, client |-> o.client,
                          init |-> o.init, rem |-> o.rem, status |-> o.status]
         /\ o.status # "none"
<1>1. o.status # "none"
  BY DEF Order, Live, Resting, Terminal
<1>2. o # NoOrder
  BY <1>1 DEF NoOrder
<1> QED BY <1>1, <1>2 DEF Visible

\* A rewritten record with the same identity is an update of what was visible.
LEMMA VisibleUpdate ==
  ASSUME NEW o \in Order, NEW p \in Order,
         p.owner = o.owner, p.market = o.market, p.client = o.client, p.init = o.init
  PROVE  Visible(p) = Plain!Updated(Visible(o), p.rem, p.status)
<1>1. /\ Visible(o).owner = o.owner /\ Visible(o).market = o.market
      /\ Visible(o).client = o.client /\ Visible(o).init = o.init
  BY VisibleFields
<1>2. Visible(p) = [owner |-> p.owner, market |-> p.market, client |-> p.client,
                    init |-> p.init, rem |-> p.rem, status |-> p.status]
  BY VisibleFields
<1> QED BY <1>1, <1>2 DEF Plain!Updated

\* An order that a new request leads to: recorded under a fresh index, sound,
\* and with a free client id.
Accepted(o) ==
  /\ o \in Order
  /\ book.orders[o.id] = NoOrder
  /\ Rewrites(o.id, o)
  /\ Plain!Sound(Visible(o))
  /\ ClientFree(o)

\* A CreateOrder that ends in OpenOrder accepts one new order of the plain list.
LEMMA PlaceAccepts ==
  ASSUME IInv, NEW r \in Requests, Place(r)
  PROVE  \E o \in Order : Accepted(o)
<1> DEFINE n == NewOrder(book, r, "open")
           b == Allocated(book, r)
<1>1. r \in Request /\ "open" \in Live \cup Terminal /\ book \in BookType
      /\ TablesAgree(book, {active})
  BY CallerAssumption DEF Live, Resting, IInv, TablesAgree
<1>2. CanAllocate(book, r) /\ ~HasOpenClientOrder(book, r.market, r.owner, r.client)
  BY DEF Place
<1>3. /\ b \in BookType /\ b.orders = book.orders
      /\ n \in Order /\ n.init = r.base
      /\ book.orders[n.id] = NoOrder
  <2>1. TablesAgree(b, {active}) => b \in BookType
    BY DEF TablesAgree
  <2> QED BY <1>1, <1>2, <2>1, AllocateAgrees
<1>4. n.client = r.client /\ n.owner = r.owner /\ n.market = r.market
  BY DEF NewOrder
<1> HIDE DEF b
<1>5. PICK o \in Matched(n) : book' = OpenOrder(b, o)
  BY DEF Place, b
<1> HIDE DEF n
<1>6. /\ o \in Order /\ SameKeys(o, n)
      /\ o.status \in Resting \/ o.status \in Terminal
  BY <1>3, MatchedFacts
<1>7. book'.orders = [book.orders EXCEPT ![o.id] = o]
  BY <1>3, <1>5, <1>6, OpenOrders
<1>8. Plain!Sound(Visible(o))
  <2>1. PICK x \in Outcomes(n) : o = [n EXCEPT !.rem = x.rem, !.status = x.status]
    BY DEF Matched
  <2>2. o.rem = x.rem /\ o.status = x.status /\ o.init = n.init
    BY <1>3, <2>1 DEF Order
  <2>3. n.init \in Nat /\ x.rem \in Nat /\ x.rem <= n.init
    <3>1. n.init \in Nat
      BY <1>3, BookAssumption DEF Order
    <3>2. x.rem \in 0 .. n.init
      BY DEF Outcomes
    <3> QED BY <3>1, <3>2
  <2>4. \/ x.status = "filled" /\ x.rem = 0
        \/ x.status = "cancelled" /\ x.rem > 0
        \/ x.status = "open" /\ x.rem = n.init
        \/ x.status = "partial" /\ x.rem \in 1 .. n.init - 1
    BY DEF Outcomes
  <2>5. Visible(o).status = x.status /\ Visible(o).rem = x.rem /\ Visible(o).init = n.init
    BY <1>6, <2>2, VisibleFields
  <2> QED BY <2>3, <2>4, <2>5 DEF Plain!Sound
<1>9. ClientFree(o)
  BY <1>1, <1>2, <1>4, <1>6, LookupIsScan DEF SameKeys
<1>10. book.orders[o.id] = NoOrder /\ o.id \in OrderIds
  BY <1>3, <1>6, OrderKeys DEF SameKeys
<1> QED BY <1>6, <1>7, <1>8, <1>9, <1>10 DEF Accepted, Rewrites

\* A CreateOrder that parks a trigger accepts one new order of the plain list.
LEMMA PlaceTriggerAccepts ==
  ASSUME IInv, NEW r \in Requests, PlaceTrigger(r)
  PROVE  \E o \in Order : Accepted(o)
<1> DEFINE o == NewOrder(book, r, "pending")
           b == Allocated(book, r)
<1>1. r \in Request /\ "pending" \in Live \cup Terminal /\ TablesAgree(book, {active})
  BY CallerAssumption DEF Live, IInv
<1>2. CanAllocate(book, r) /\ ~HasOpenClientOrder(book, r.market, r.owner, r.client)
  BY DEF PlaceTrigger
<1>3. /\ b \in BookType /\ b.orders = book.orders
      /\ o \in Order /\ o.init = r.base /\ o.rem = r.base /\ o.status = "pending"
      /\ book.orders[o.id] = NoOrder
  <2>1. TablesAgree(b, {active}) => b \in BookType
    BY DEF TablesAgree
  <2> QED BY <1>1, <1>2, <2>1, AllocateAgrees
<1>4. o.client = r.client /\ o.owner = r.owner /\ o.market = r.market
  BY DEF NewOrder
<1>5. book' = OpenTriggerOrder(b, o)
  BY DEF PlaceTrigger
<1> HIDE DEF b, o
<1>6. book'.orders = [book.orders EXCEPT ![o.id] = o]
  BY <1>3, <1>5, OpenTriggerFields DEF Entered
<1>7. Plain!Sound(Visible(o))
  BY <1>3, VisibleFields DEF Plain!Sound
<1>8. ClientFree(o)
  BY <1>1, <1>2, <1>3, <1>4, LookupIsScan
<1> QED BY <1>3, <1>6, <1>7, <1>8, OrderKeys DEF Accepted, Rewrites

\* Reopen: the order in transit gets a match result.
LEMMA ReopenRewrites ==
  ASSUME IInv, Reopen
  PROVE  /\ active \in OrderIds /\ book.orders[active].status = "open"
         /\ \E p \in Order, x \in Outcomes(Executable(book.orders[active])) :
              /\ Rewrites(active, p)
              /\ Visible(p) = Plain!Updated(Visible(book.orders[active]), x.rem, x.status)
              /\ p.rem = x.rem /\ p.status = x.status /\ p.init = book.orders[active].init
<1> DEFINE a == book.orders[active]
           n == Executable(a)
<1>1. active \in OrderIds /\ a.status = "open"
  BY DEF IInv, Reopen, TablesAgree
<1>2. book \in BookType /\ a \in Order /\ a.id = active
  BY <1>1, LiveOrder DEF Live, Resting
<1>3. n \in Order /\ SameKeys(n, a) /\ n.init = a.init
  BY <1>2, ExecutableFacts DEF Executable, Order
<1>4. PICK p \in Matched(n) : book' = OpenOrder(book, p)
  BY DEF Reopen
<1>5. PICK x \in Outcomes(n) : p = [n EXCEPT !.rem = x.rem, !.status = x.status]
  BY <1>4 DEF Matched
<1>6. x \in Outcomes(Executable(book.orders[active]))
  BY <1>5
<1> HIDE DEF n, a
<1>7. /\ p \in Order /\ SameKeys(p, n)
      /\ p.status \in Resting \/ p.status \in Terminal
  BY <1>3, <1>4, MatchedFacts
<1>8. /\ p.rem = x.rem /\ p.status = x.status /\ p.init = a.init /\ p.id = active
      /\ p.owner = a.owner /\ p.market = a.market /\ p.client = a.client
  <2>1. p.rem = x.rem /\ p.status = x.status /\ p.init = n.init
    BY <1>3, <1>5 DEF Order
  <2> QED BY <1>2, <1>3, <1>7, <2>1 DEF SameKeys
<1>9. Rewrites(active, p)
  BY <1>1, <1>2, <1>4, <1>7, <1>8, OpenOrders DEF Rewrites
<1>10. Visible(p) = Plain!Updated(Visible(a), x.rem, x.status)
  BY <1>2, <1>7, <1>8, VisibleUpdate
<1> QED BY <1>1, <1>6, <1>7, <1>8, <1>9, <1>10 DEF a

----------------------------------------------------------------------------
(* The simulation.                                                          *)

\* Rewriting one record changes one visible order and keeps Untraded.
LEMMA RewriteVisible ==
  ASSUME book \in BookType, NEW id, NEW p, Rewrites(id, p)
  PROVE  /\ Plain!Only(id)
         /\ Visible(book.orders[id])' = Visible(p)
         /\ Untraded /\ (p.status \in {"pending", "open"} => p.rem = p.init) => Untraded'
<1>1. id \in OrderIds /\ book'.orders = [i \in OrderIds |-> IF i = id THEN p ELSE book.orders[i]]
  BY DEF Rewrites, BookType
<1>2. Plain!Only(id)
  BY <1>1 DEF Plain!Only, Visible
<1>3. Visible(book.orders[id])' = Visible(p)
  BY <1>1 DEF Visible
<1>4. Untraded /\ (p.status \in {"pending", "open"} => p.rem = p.init) => Untraded'
  BY <1>1 DEF Untraded
<1> QED BY <1>2, <1>3, <1>4

\* An accepted order is an Accept of the plain book.
LEMMA AcceptStep ==
  ASSUME IInv, Untraded, NEW o \in Order, Accepted(o)
  PROVE  Plain!Next /\ Untraded'
<1>1. /\ book \in BookType /\ o.id \in OrderIds /\ Rewrites(o.id, o)
      /\ book.orders[o.id] = NoOrder
  BY OrderKeys DEF IInv, TablesAgree, Accepted
<1>2. Plain!Only(o.id) /\ Visible(book.orders[o.id])' = Visible(o)
  BY <1>1, RewriteVisible
<1>3. /\ Visible(o).client = o.client /\ Visible(o).owner = o.owner
      /\ Visible(o).market = o.market /\ Visible(o).status = o.status
      /\ Visible(o).rem = o.rem /\ Visible(o).init = o.init
  BY VisibleFields
<1>4. Untraded'
  <2>1. o.status \in {"pending", "open"} => o.rem = o.init
    BY <1>3 DEF Accepted, Plain!Sound
  <2> QED BY <1>1, <2>1, RewriteVisible
<1>5. ASSUME NEW j \in OrderIds, Visible(book.orders[j]).status \in Plain!Alive
      PROVE  ~Plain!Clash(Visible(o), Visible(book.orders[j]))
  <2>1. book.orders[j] \in Order
    BY <1>1, <1>5, StoredOrder DEF Visible, NoOrder, Plain!Alive, Plain!Executing
  <2>2. /\ Visible(book.orders[j]).client = book.orders[j].client
        /\ Visible(book.orders[j]).owner = book.orders[j].owner
        /\ Visible(book.orders[j]).market = book.orders[j].market
        /\ Visible(book.orders[j]).status = book.orders[j].status
    BY <2>1, VisibleFields
  <2>3. book.orders[j].status \in Live
    BY <1>5, <2>2 DEF Plain!Alive, Plain!Executing, Live, Resting
  <2> QED BY <1>3, <2>2, <2>3 DEF Accepted, ClientFree, Plain!Clash
<1>6. Visible(book.orders[o.id]) = Plain!None
  BY <1>1 DEF Visible, NoOrder, Plain!None
<1>7. Plain!Sound(Visible(book.orders[o.id])')
  BY <1>2 DEF Accepted
<1>8. Plain!Accept(o.id)
  BY <1>1, <1>2, <1>5, <1>6, <1>7 DEF Plain!Accept
<1> QED BY <1>1, <1>4, <1>8 DEF Plain!Next

\* A live order that is cancelled, with the residue it had or less.
LEMMA CancelStep ==
  ASSUME IInv, Untraded, NEW id \in OrderIds, NEW p \in Order,
         Rewrites(id, p), book.orders[id].status \in Live,
         p.status = "cancelled", p.rem > 0, p.rem <= book.orders[id].rem,
         Visible(p) = Plain!Updated(Visible(book.orders[id]), p.rem, "cancelled")
  PROVE  Plain!Next /\ Untraded'
<1>1. book \in BookType /\ book.orders[id] \in Order
  BY LiveOrder
<1>2. Plain!Only(id) /\ Visible(book.orders[id])' = Visible(p) /\ Untraded'
  BY <1>1, RewriteVisible
<1>3. /\ Visible(book.orders[id]).status = book.orders[id].status
      /\ Visible(book.orders[id]).rem = book.orders[id].rem
      /\ Visible(p).rem = p.rem
  BY <1>1, VisibleFields
<1>4. Visible(book.orders[id]).status \in Plain!Alive
  BY <1>3 DEF Plain!Alive, Plain!Executing, Live, Resting
<1>5. Plain!Cancel(id)
  BY <1>2, <1>3, <1>4 DEF Plain!Cancel
<1> QED BY <1>2, <1>5 DEF Plain!Next

\* An executable order that trades and is not cancelled.
LEMMA TradeStep ==
  ASSUME IInv, Untraded, NEW id \in OrderIds, NEW p \in Order,
         Rewrites(id, p), book.orders[id].status \in Resting,
         p.rem < book.orders[id].rem,
         p.status = IF p.rem = 0 THEN "filled" ELSE "partial",
         Visible(p) = Plain!Updated(Visible(book.orders[id]), p.rem, p.status)
  PROVE  Plain!Next /\ Untraded'
<1>1. book \in BookType /\ book.orders[id] \in Order
  BY LiveOrder DEF Live
<1>2. Plain!Only(id) /\ Visible(book.orders[id])' = Visible(p) /\ Untraded'
  BY <1>1, RewriteVisible
<1>3. /\ Visible(book.orders[id]).status = book.orders[id].status
      /\ Visible(book.orders[id]).rem = book.orders[id].rem
      /\ Visible(p).rem = p.rem /\ p.rem \in Nat
  BY <1>1, VisibleFields, ResidueType
<1>4. Visible(book.orders[id]).status \in Plain!Executing
  BY <1>3 DEF Plain!Executing, Resting
<1>5. Plain!Trade(id)
  BY <1>2, <1>3, <1>4 DEF Plain!Trade
<1> QED BY <1>2, <1>5 DEF Plain!Next

\* The visible part of the records, the state of the plain book.
VisibleOrders == [i \in OrderIds |-> Visible(book.orders[i])]

\* Every step of the book is a step of the plain book or changes nothing
\* visible.
LEMMA StepSimulation ==
  ASSUME IInv, Untraded, [Next]_vars
  PROVE  (Plain!Next \/ UNCHANGED VisibleOrders) /\ Untraded'
<1>0. book \in BookType
  BY DEF IInv, TablesAgree
<1>1. ASSUME NEW r \in Requests, Place(r) PROVE Plain!Next /\ Untraded'
  BY <1>1, PlaceAccepts, AcceptStep
<1>2. ASSUME NEW r \in Requests, PlaceTrigger(r) PROVE Plain!Next /\ Untraded'
  BY <1>2, PlaceTriggerAccepts, AcceptStep
<1>3. ASSUME NEW id \in OrderIds, Activate(id) PROVE Plain!Next /\ Untraded'
  <2> DEFINE o == book.orders[id]
             p == [o EXCEPT !.status = "open"]
  <2>1. o.status = "pending" /\ o \in Order /\ o.rem = o.init
    BY <1>3, LiveOrder DEF Activate, Live, Untraded
  <2>2. Rewrites(id, p)
    BY <1>3, ActivateRewrites
  <2>3. /\ p \in Order /\ p.status = "open" /\ p.rem = o.rem /\ p.init = o.init
        /\ p.owner = o.owner /\ p.market = o.market /\ p.client = o.client
    BY <2>1, <2>2 DEF Rewrites, Order
  <2> HIDE DEF p, o
  <2>4. Visible(p) = Plain!Updated(Visible(o), o.rem, "open")
    BY <2>1, <2>3, VisibleUpdate
  <2>5. Plain!Only(id) /\ Visible(book.orders[id])' = Visible(p) /\ Untraded'
    BY <1>0, <2>1, <2>2, <2>3, RewriteVisible
  <2>6. Visible(o).status = "pending" /\ Visible(o).rem = o.rem
    BY <2>1, VisibleFields
  <2>7. Plain!Activate(id)
    BY <2>4, <2>5, <2>6 DEF Plain!Activate, o
  <2> QED BY <2>5, <2>7 DEF Plain!Next
<1>4. ASSUME NEW id \in OrderIds, Evict(id) PROVE Plain!Next /\ Untraded'
  <2> DEFINE o == book.orders[id]
             p == [o EXCEPT !.status = "cancelled"]
  <2>1. o.status \in Resting /\ o.rem > 0 /\ Rewrites(id, p)
    BY <1>4, EvictRewrites
  <2>2. o.status \in Live /\ o \in Order /\ o.rem \in Nat
    BY <2>1, LiveOrder DEF Live
  <2>3. /\ p \in Order /\ p.status = "cancelled" /\ p.rem = o.rem /\ p.init = o.init
        /\ p.owner = o.owner /\ p.market = o.market /\ p.client = o.client
    BY <2>1, <2>2 DEF Rewrites, Order
  <2> HIDE DEF p
  <2>4. Visible(p) = Plain!Updated(Visible(o), p.rem, "cancelled")
    BY <2>2, <2>3, VisibleUpdate
  <2> QED BY <2>1, <2>2, <2>3, <2>4, CancelStep
<1>5. ASSUME NEW id \in OrderIds, Cancelable(book, id), book' = CancelOrder(book, id)
      PROVE  Plain!Next /\ Untraded'
  <2> DEFINE o == book.orders[id]
             p == [o EXCEPT !.status = "cancelled"]
  <2>1. o.status \in Live /\ (o.status \in Resting => o.rem # 0)
    BY <1>5 DEF Cancelable
  <2>2. o \in Order /\ o.rem \in Nat /\ o.init > 0
    BY <2>1, LiveOrder
  <2>3. o.rem > 0
    BY <2>1, <2>2 DEF Untraded, Live
  <2>4. Rewrites(id, p)
    BY <1>5, CancelRewrites
  <2>5. /\ p \in Order /\ p.status = "cancelled" /\ p.rem = o.rem /\ p.init = o.init
        /\ p.owner = o.owner /\ p.market = o.market /\ p.client = o.client
    BY <2>2, <2>4 DEF Rewrites, Order
  <2> HIDE DEF p
  <2>6. Visible(p) = Plain!Updated(Visible(o), p.rem, "cancelled")
    BY <2>2, <2>5, VisibleUpdate
  <2> QED BY <2>1, <2>2, <2>3, <2>4, <2>5, <2>6, CancelStep
<1>6. ASSUME NEW id \in OrderIds, NEW base \in 1 .. MaxBase, Fill(id, base)
      PROVE  Plain!Next /\ Untraded'
  <2> DEFINE o == book.orders[id]
  <2>1. PICK left \in Nat :
          /\ o.status \in Resting
          /\ left < o.rem
          /\ Rewrites(id, [o EXCEPT !.rem = left,
                             !.status = IF left = 0 THEN "filled" ELSE "partial"])
    BY <1>6, FillRewrites
  <2> DEFINE p == [o EXCEPT !.rem = left, !.status = IF left = 0 THEN "filled" ELSE "partial"]
  <2>2. o \in Order
    BY <2>1, LiveOrder DEF Live
  <2>3. /\ p \in Order /\ p.rem = left /\ p.init = o.init
        /\ p.status = IF left = 0 THEN "filled" ELSE "partial"
        /\ p.owner = o.owner /\ p.market = o.market /\ p.client = o.client
    BY <2>1, <2>2 DEF Rewrites, Order
  <2>4. Rewrites(id, p)
    BY <2>1
  <2> HIDE DEF p
  <2>5. Visible(p) = Plain!Updated(Visible(o), p.rem, p.status)
    BY <2>2, <2>3, VisibleUpdate
  <2> QED BY <2>1, <2>2, <2>3, <2>4, <2>5, TradeStep
<1>7. ASSUME Reopen PROVE (Plain!Next \/ UNCHANGED VisibleOrders) /\ Untraded'
  <2>0. PICK a \in OrderIds : a = active
    BY <1>7, ReopenRewrites
  <2> DEFINE o == book.orders[a]
  <2>1. o.status = "open"
    BY <1>7, <2>0, ReopenRewrites
  <2>2. PICK p \in Order, x \in Outcomes(Executable(o)) :
          /\ Rewrites(a, p)
          /\ Visible(p) = Plain!Updated(Visible(o), x.rem, x.status)
          /\ p.rem = x.rem /\ p.status = x.status /\ p.init = o.init
    BY <1>7, <2>0, ReopenRewrites
  <2>3. /\ o \in Order /\ o.status \in Live /\ o.status \in Resting
        /\ o.rem = o.init /\ o.init \in Nat /\ o.init > 0
    BY <2>1, LiveOrder DEF Live, Resting, Untraded
  <2>4. Executable(o).init = o.init
    BY <2>3 DEF Executable, Order
  <2>5. \/ x.status = "filled" /\ x.rem = 0
        \/ x.status = "cancelled" /\ x.rem > 0 /\ x.rem \in 0 .. o.init
        \/ x.status = "open" /\ x.rem = o.init
        \/ x.status = "partial" /\ x.rem \in 1 .. o.init - 1
    BY <2>4 DEF Outcomes
  <2>6. CASE x.status \in {"filled", "partial"}
    <3>1. p.rem < o.rem /\ p.status = IF p.rem = 0 THEN "filled" ELSE "partial"
      BY <2>2, <2>3, <2>5, <2>6
    <3> QED BY <2>1, <2>2, <2>3, <3>1, TradeStep
  <2>7. CASE x.status = "cancelled"
    <3>1. p.rem > 0 /\ p.rem <= o.rem /\ p.status = "cancelled"
      BY <2>2, <2>3, <2>5, <2>7
    <3> QED BY <2>1, <2>2, <2>3, <2>7, <3>1, CancelStep
  <2>8. CASE x.status = "open"
    <3>1. x.rem = o.rem /\ p.rem = p.init
      BY <2>2, <2>3, <2>5, <2>8
    <3>2. Visible(p) = Visible(o)
      <4>1. Visible(o) = Plain!Updated(Visible(o), o.rem, o.status)
        BY <2>3, VisibleUpdate
      <4> QED BY <2>1, <2>2, <2>8, <3>1, <4>1
    <3>3. Untraded'
      BY <1>0, <2>2, <3>1, RewriteVisible
    <3>4. ASSUME NEW i \in OrderIds PROVE Visible(book'.orders[i]) = Visible(book.orders[i])
      <4>1. book'.orders[i] = IF i = a THEN p ELSE book.orders[i]
        BY <1>0, <2>2 DEF Rewrites, BookType
      <4> QED BY <3>2, <4>1
    <3>5. UNCHANGED VisibleOrders
      BY <3>4 DEF VisibleOrders, Visible
    <3> QED BY <3>3, <3>5
  <2> QED BY <2>5, <2>6, <2>7, <2>8
<1>8. ASSUME Abandon PROVE Plain!Next /\ Untraded'
  <2>1. PICK a \in OrderIds : a = active
    BY <1>8 DEF Abandon, IInv
  <2>2. Cancelable(book, a) /\ book' = CancelOrder(book, a)
    BY <1>8, <2>1 DEF Abandon
  <2> QED BY <1>5, <2>2
<1>9. CASE UNCHANGED vars
  BY <1>9 DEF vars, VisibleOrders, Untraded, Visible
<1>10. ASSUME NEW id \in OrderIds, Cancel(id) PROVE Plain!Next /\ Untraded'
  BY <1>5, <1>10 DEF Cancel
<1> QED BY <1>1, <1>2, <1>3, <1>4, <1>6, <1>7, <1>8, <1>9, <1>10 DEF Next

\* The order book keeper, with all its indexes, implements the plain list of
\* orders: what CreateOrder finds in the client index is what a scan of all
\* orders would find, residue only shrinks, and a terminal order stays as it is.
THEOREM Refinement == Spec => ImplementsPlainBook
<1>1. Init => Plain!Init /\ Untraded
  BY DEF Init, EmptyBook, Plain!Init, Plain!None, Visible, NoOrder, Untraded
<1>2. IInv /\ Untraded /\ [Next]_vars => [Plain!Next]_VisibleOrders /\ Untraded'
  BY StepSimulation
<1> QED BY <1>1, <1>2, Invariance, PTL DEF Spec, ImplementsPlainBook, Plain!Spec, VisibleOrders
=============================================================================
