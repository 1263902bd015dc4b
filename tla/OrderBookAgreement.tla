------------------------- MODULE OrderBookAgreement -------------------------
(* Recording a live order and closing one keep the redundant tables of the  *)
(* order book in agreement, whoever the caller is.                          *)
EXTENDS OrderBookLemmas

\* The fields that the index keys are made of never change.
SameKeys(o, p) ==
  /\ o.id = p.id
  /\ o.owner = p.owner
  /\ o.market = p.market
  /\ o.client = p.client

\* Every record is stored under its own index, below the next one.
Numbered(b) ==
  \A i \in OrderIds : b.orders[i] # NoOrder => b.orders[i].id = i /\ i < b.nextOrder

\* The orders counted in one cell of openCount.
OpenOf(b, c) == {i \in b.accountOpen : CountKey(b.orders[i]) = c}

\* Sets of order indexes are finite.
LEMMA OrdersFinite ==
  ASSUME NEW S \in SUBSET OrderIds
  PROVE  IsFiniteSet(S)
<1>1. 1 \in Int /\ MaxOrders \in Int
  BY BookAssumption
<1>2. IsFiniteSet(OrderIds)
  BY <1>1, FS_Interval DEF OrderIds
<1> QED BY <1>2, FS_Subset

\* Recording a live order, new or with the keys it had, keeps the account-open
\* keyset and its counter exact.
LEMMA EnteredOpenOrders ==
  ASSUME NEW b \in BookType, NEW r \in BookType, NEW o \in Order,
         Entered(r, b, o), OpenOrdersAgreeIn(b), o.status \in Live,
         \/ b.orders[o.id] = NoOrder
         \/ b.orders[o.id].status \in Live /\ SameKeys(o, b.orders[o.id])
  PROVE  OpenOrdersAgreeIn(r)
<1>0. o.id \in OrderIds /\ CountKey(o) \in CountKeys
  BY OrderKeys
<1>1. r.orders = [i \in OrderIds |-> IF i = o.id THEN o ELSE b.orders[i]]
  BY <1>0 DEF Entered, BookType
<1>2. r.accountOpen = StatusIn(r, Live)
  <2>1. b.accountOpen = StatusIn(b, Live)
    BY DEF OpenOrdersAgreeIn
  <2> QED BY <1>0, <1>1, <2>1 DEF Entered, StatusIn
<1>3. ASSUME NEW c \in CountKeys
      PROVE  r.openCount[c] = Cardinality(OpenOf(r, c))
  <2>1. /\ b.openCount[c] = Cardinality(OpenOf(b, c))
        /\ OpenOf(b, c) \in SUBSET OrderIds
    BY <1>3 DEF OpenOrdersAgreeIn, OpenOf, BookType
  <2>2. IsFiniteSet(OpenOf(b, c))
    BY <2>1, OrdersFinite
  <2>3. CASE o.id \in b.accountOpen
    <3>1. SameKeys(o, b.orders[o.id])
      BY <2>3, <1>0 DEF OpenOrdersAgreeIn, StatusIn, NoOrder, Live, Resting
    <3>2. OpenOf(r, c) = OpenOf(b, c)
      BY <1>1, <2>3, <3>1 DEF OpenOf, Entered, SameKeys, CountKey, BookType
    <3> QED BY <2>1, <2>3, <3>2 DEF Entered, CountPut
  <2>4. CASE o.id \notin b.accountOpen /\ c = CountKey(o)
    <3>1. OpenOf(r, c) = OpenOf(b, c) \cup {o.id} /\ o.id \notin OpenOf(b, c)
      BY <1>0, <1>1, <2>4 DEF OpenOf, Entered, BookType
    <3>2. Cardinality(OpenOf(r, c)) = Cardinality(OpenOf(b, c)) + 1
      BY <2>2, <3>1, FS_AddElement
    <3> QED BY <1>0, <2>1, <2>4, <3>2 DEF Entered, CountPut, BookType
  <2>5. CASE o.id \notin b.accountOpen /\ c # CountKey(o)
    <3>1. OpenOf(r, c) = OpenOf(b, c)
      BY <1>0, <1>1, <2>5 DEF OpenOf, Entered, BookType
    <3> QED BY <1>0, <2>1, <2>5, <3>1 DEF Entered, CountPut, BookType
  <2> QED BY <2>3, <2>4, <2>5
<1> QED BY <1>2, <1>3 DEF OpenOrdersAgreeIn, OpenOf

\* Closing an order, one that was live or one that was never recorded, keeps
\* them exact as well.
LEMMA ClosedOpenOrders ==
  ASSUME NEW b \in BookType, NEW r \in BookType, NEW o \in Order, NEW p \in Order,
         Closed(r, b, o, p), OpenOrdersAgreeIn(b), p.status \in Terminal,
         \/ b.orders[o.id] = NoOrder
         \/ b.orders[o.id].status \in Live /\ SameKeys(o, b.orders[o.id])
  PROVE  OpenOrdersAgreeIn(r)
<1>0. o.id \in OrderIds /\ CountKey(o) \in CountKeys
  BY OrderKeys
<1>1. r.orders = [i \in OrderIds |-> IF i = o.id THEN p ELSE b.orders[i]]
  BY <1>0 DEF Closed, BookType
<1>2. r.accountOpen = StatusIn(r, Live)
  <2>1. b.accountOpen = StatusIn(b, Live)
    BY DEF OpenOrdersAgreeIn
  <2> QED BY <1>0, <1>1, <2>1 DEF Closed, StatusIn, Live, Resting, Terminal
<1>3. ASSUME NEW c \in CountKeys
      PROVE  r.openCount[c] = Cardinality(OpenOf(r, c))
  <2>1. /\ b.openCount[c] = Cardinality(OpenOf(b, c))
        /\ OpenOf(b, c) \in SUBSET OrderIds
    BY <1>3 DEF OpenOrdersAgreeIn, OpenOf, BookType
  <2>2. IsFiniteSet(OpenOf(b, c))
    BY <2>1, OrdersFinite
  <2>3. CASE o.id \notin b.accountOpen
    <3>1. OpenOf(r, c) = OpenOf(b, c)
      BY <1>1, <2>3 DEF OpenOf, Closed, BookType
    <3> QED BY <2>1, <2>3, <3>1 DEF Closed, CountCut
  <2>4. CASE o.id \in b.accountOpen /\ c = CountKey(o)
    <3>1. SameKeys(o, b.orders[o.id])
      BY <2>4, <1>0 DEF OpenOrdersAgreeIn, StatusIn, NoOrder, Live, Resting
    <3>2. OpenOf(r, c) = OpenOf(b, c) \ {o.id} /\ o.id \in OpenOf(b, c)
      BY <1>0, <1>1, <2>4, <3>1 DEF OpenOf, Closed, BookType, SameKeys, CountKey
    <3>3. Cardinality(OpenOf(r, c)) = Cardinality(OpenOf(b, c)) - 1
      BY <2>2, <3>2, FS_RemoveElement
    <3> QED BY <1>0, <2>1, <2>4, <3>3 DEF Closed, CountCut, BookType
  <2>5. CASE o.id \in b.accountOpen /\ c # CountKey(o)
    <3>1. SameKeys(o, b.orders[o.id])
      BY <2>5, <1>0 DEF OpenOrdersAgreeIn, StatusIn, NoOrder, Live, Resting
    <3>2. OpenOf(r, c) = OpenOf(b, c)
      BY <1>0, <1>1, <2>5, <3>1 DEF OpenOf, Closed, BookType, SameKeys, CountKey
    <3> QED BY <1>0, <2>1, <2>5, <3>2 DEF Closed, CountCut, BookType
  <2> QED BY <2>3, <2>4, <2>5
<1> QED BY <1>2, <1>3 DEF OpenOrdersAgreeIn, OpenOf

\* Two orders under one client key have the same client id, and a key of the
\* index never has client id 0.
LEMMA ClientKeyFacts ==
  ASSUME NEW o \in Order
  PROVE  /\ \A p \in Order : ClientKey(o) = ClientKey(p) => o.client = p.client
         /\ \A p \in Order : SameKeys(o, p) => ClientKey(o) = ClientKey(p)
         /\ ClientKey(o) \in ClientKeys => o.client # 0
         /\ o.client # 0 => ClientKey(o) \in ClientKeys
<1>1. 0 \notin ClientIds
  BY BookAssumption
<1> QED BY <1>1 DEF ClientKey, ClientKeys, SameKeys, Order

\* Recording a live order whose client id is free, or already its own, keeps
\* the client index exact.
LEMMA EnteredClients ==
  ASSUME NEW b \in BookType, NEW r \in BookType, NEW o \in Order,
         Entered(r, b, o), ClientsAgreeIn(b), o.status \in Live,
         \/ b.orders[o.id] = NoOrder
         \/ b.orders[o.id].status \in Live /\ SameKeys(o, b.orders[o.id]),
         o.client # 0 => b.clientIndex[ClientKey(o)] \in {0, o.id}
  PROVE  ClientsAgreeIn(r)
<1>0. o.id \in OrderIds /\ 0 \notin OrderIds
  BY OrderKeys DEF OrderIds
<1>1. r.orders = [i \in OrderIds |-> IF i = o.id THEN o ELSE b.orders[i]]
  BY <1>0 DEF Entered, BookType
<1>2. r.clientIndex = IF o.client = 0 THEN b.clientIndex
                      ELSE [b.clientIndex EXCEPT ![ClientKey(o)] = o.id]
  BY DEF Entered, ClientPut
<1>3. b.clientIndex \in [ClientKeys -> OrderIds \cup {0}]
  BY DEF BookType
<1>4. ASSUME NEW i \in StatusIn(r, Live), r.orders[i].client # 0
      PROVE  r.clientIndex[ClientKey(r.orders[i])] = i
  <2>1. CASE i = o.id
    BY <1>0, <1>1, <1>2, <1>3, <1>4, <2>1, OrderKeys
  <2>2. CASE i # o.id
    <3>1. i \in OrderIds /\ r.orders[i] = b.orders[i] /\ i \in StatusIn(b, Live)
      BY <1>1, <2>2 DEF StatusIn
    <3>2. b.orders[i] \in Order
      BY <3>1, StoredOrder DEF StatusIn, NoOrder, Live, Resting
    <3>3. b.clientIndex[ClientKey(b.orders[i])] = i
      BY <1>4, <3>1 DEF ClientsAgreeIn
    <3>4. ClientKey(b.orders[i]) \in ClientKeys
      BY <1>4, <3>1, <3>2, OrderKeys
    <3>5. ClientKey(b.orders[i]) # ClientKey(o)
      BY <1>0, <1>4, <2>2, <3>1, <3>2, <3>3, ClientKeyFacts
    <3> QED BY <1>2, <1>3, <3>1, <3>3, <3>4, <3>5
  <2> QED BY <2>1, <2>2
<1>5. ASSUME NEW c \in ClientKeys, r.clientIndex[c] # 0
      PROVE  /\ r.clientIndex[c] \in StatusIn(r, Live)
             /\ ClientKey(r.orders[r.clientIndex[c]]) = c
  <2>1. CASE o.client # 0 /\ c = ClientKey(o)
    BY <1>0, <1>1, <1>2, <1>3, <2>1 DEF StatusIn
  <2>2. CASE ~(o.client # 0 /\ c = ClientKey(o))
    <3>1. r.clientIndex[c] = b.clientIndex[c]
      BY <1>2, <1>3, <2>2
    <3>2. /\ b.clientIndex[c] \in StatusIn(b, Live)
          /\ ClientKey(b.orders[b.clientIndex[c]]) = c
      BY <1>5, <3>1 DEF ClientsAgreeIn
    <3>3. b.clientIndex[c] # o.id
      <4>1. SUFFICES ASSUME b.clientIndex[c] = o.id PROVE FALSE
        OBVIOUS
      <4>2. b.orders[o.id] \in Order /\ b.orders[o.id].status \in Live
        BY <1>0, <3>2, <4>1, StoredOrder DEF StatusIn, NoOrder, Live, Resting
      <4>3. SameKeys(o, b.orders[o.id])
        BY <4>2 DEF NoOrder, Live, Resting
      <4>4. ClientKey(o) = c
        BY <3>2, <4>1, <4>2, <4>3, ClientKeyFacts
      <4> QED BY <2>2, <4>4, ClientKeyFacts
    <3> QED BY <1>1, <3>1, <3>2, <3>3 DEF StatusIn
  <2> QED BY <2>1, <2>2
<1> QED BY <1>4, <1>5 DEF ClientsAgreeIn

\* Closing an order removes its own client row and no other.
LEMMA ClosedClients ==
  ASSUME NEW b \in BookType, NEW r \in BookType, NEW o \in Order, NEW p \in Order,
         Closed(r, b, o, p), ClientsAgreeIn(b), p.status \in Terminal,
         \/ b.orders[o.id] = NoOrder
         \/ b.orders[o.id].status \in Live /\ SameKeys(o, b.orders[o.id])
  PROVE  ClientsAgreeIn(r)
<1>0. o.id \in OrderIds /\ 0 \notin OrderIds
  BY OrderKeys DEF OrderIds
<1>1. r.orders = [i \in OrderIds |-> IF i = o.id THEN p ELSE b.orders[i]]
  BY <1>0 DEF Closed, BookType
<1>2. r.clientIndex = IF o.client # 0 /\ b.clientIndex[ClientKey(o)] = o.id
                        THEN [b.clientIndex EXCEPT ![ClientKey(o)] = 0]
                        ELSE b.clientIndex
  BY DEF Closed, ClientCut
<1>3. b.clientIndex \in [ClientKeys -> OrderIds \cup {0}]
  BY DEF BookType
<1>4. ASSUME NEW i \in StatusIn(r, Live), r.orders[i].client # 0
      PROVE  r.clientIndex[ClientKey(r.orders[i])] = i
  <2>1. i # o.id
    BY <1>1 DEF StatusIn, Live, Resting, Terminal
  <2>2. i \in OrderIds /\ r.orders[i] = b.orders[i] /\ i \in StatusIn(b, Live)
    BY <1>1, <2>1 DEF StatusIn
  <2>3. b.clientIndex[ClientKey(b.orders[i])] = i
    BY <1>4, <2>2 DEF ClientsAgreeIn
  <2> QED BY <1>2, <1>3, <2>1, <2>2, <2>3
<1>5. ASSUME NEW c \in ClientKeys, r.clientIndex[c] # 0
      PROVE  /\ r.clientIndex[c] \in StatusIn(r, Live)
             /\ ClientKey(r.orders[r.clientIndex[c]]) = c
  <2>1. r.clientIndex[c] = b.clientIndex[c]
    BY <1>2, <1>3, <1>5
  <2>2. /\ b.clientIndex[c] \in StatusIn(b, Live)
        /\ ClientKey(b.orders[b.clientIndex[c]]) = c
    BY <1>5, <2>1 DEF ClientsAgreeIn
  <2>3. b.clientIndex[c] # o.id
    <3>1. SUFFICES ASSUME b.clientIndex[c] = o.id PROVE FALSE
      OBVIOUS
    <3>2. b.orders[o.id] \in Order /\ b.orders[o.id].status \in Live
      BY <1>0, <2>2, <3>1, StoredOrder DEF StatusIn, NoOrder, Live, Resting
    <3>3. SameKeys(o, b.orders[o.id])
      BY <3>2 DEF NoOrder, Live, Resting
    <3>4. ClientKey(o) = c
      BY <2>2, <3>1, <3>2, <3>3, ClientKeyFacts
    <3>5. o.client # 0
      BY <3>4, ClientKeyFacts
    <3> QED BY <1>2, <1>3, <1>5, <3>1, <3>4, <3>5
  <2> QED BY <1>1, <2>1, <2>2, <2>3 DEF StatusIn
<1> QED BY <1>4, <1>5 DEF ClientsAgreeIn

----------------------------------------------------------------------------
(* The lifecycle functions keep all tables in agreement.  `act' holds the   *)
(* order in transit between ActivateTrigger and OpenOrder.                  *)

\* The inductive part: the agreements that the properties state, that records
\* sit under their own index, and that an order in transit is recorded open.
TablesAgree(b, act) ==
  /\ b \in BookType
  /\ Numbered(b)
  /\ \A i \in OrderIds : i \in act => b.orders[i].status = "open"
  /\ EntriesAgreeIn(b, act)
  /\ OpenOrdersAgreeIn(b)
  /\ ClientsAgreeIn(b)
  /\ SweepsAgreeIn(b, act)

\* An order that OpenOrder may be given: a new one, or the one in transit
\* with the keys it has always had.
MayOpen(b, act, o) ==
  /\ o.id < b.nextOrder
  /\ \/ b.orders[o.id] = NoOrder
     \/ o.id \in act /\ SameKeys(o, b.orders[o.id])
  /\ o.client # 0 => b.clientIndex[ClientKey(o)] \in {0, o.id}

\* OpenOrder of a resting order.
LEMMA OpenRestingAgrees ==
  ASSUME NEW b, NEW act, NEW act2, NEW o \in Order, TablesAgree(b, act),
         MayOpen(b, act, o), o.status \in Resting, o.rem > 0,
         \A i \in OrderIds : i \in act2 <=> i \in act /\ i # o.id
  PROVE  TablesAgree(OpenOrder(b, o), act2)
<1> DEFINE r == OpenOrder(b, o)
<1>1. b \in BookType /\ o.id \in OrderIds
  BY OrderKeys DEF TablesAgree
<1>2. /\ r \in BookType /\ Entered(r, b, o)
      /\ r.entries = [b.entries EXCEPT ![o.id] = o.rem]
      /\ r.triggers = b.triggers
  BY <1>1, OpenRestingFields
<1> HIDE DEF r
<1>3. r.orders = [i \in OrderIds |-> IF i = o.id THEN o ELSE b.orders[i]]
  BY <1>1, <1>2 DEF Entered, BookType
<1>4. o.status \in Live /\ o.status # "pending"
  BY DEF Live, Resting
<1>5. \/ b.orders[o.id] = NoOrder
      \/ b.orders[o.id].status \in Live /\ SameKeys(o, b.orders[o.id])
  BY <1>1 DEF TablesAgree, MayOpen, Live, Resting
<1>6. OpenOrdersAgreeIn(r) /\ ClientsAgreeIn(r)
  BY <1>1, <1>2, <1>4, <1>5, EnteredOpenOrders, EnteredClients DEF TablesAgree, MayOpen
<1>7. Numbered(r)
  BY <1>1, <1>2, <1>3 DEF Numbered, TablesAgree, MayOpen, Entered
<1>8. \A i \in OrderIds : i \in act2 => r.orders[i].status = "open"
  BY <1>3 DEF TablesAgree
<1>9. EntriesAgreeIn(r, act2)
  BY <1>1, <1>2, <1>3 DEF EntriesAgreeIn, TablesAgree, StatusIn, BookType
<1>10. SweepsAgreeIn(r, act2)
  <2>1. o.id \notin StatusIn(b, {"pending"})
    BY <1>1 DEF StatusIn, TablesAgree, MayOpen, NoOrder
  <2>2. o.id \notin StatusIn(b, Live) \ act
    BY DEF StatusIn, MayOpen, NoOrder, Live, Resting
  <2>3. r.triggers = StatusIn(r, {"pending"})
    BY <1>1, <1>2, <1>3, <1>4, <2>1 DEF SweepsAgreeIn, TablesAgree, StatusIn
  <2>4. r.expiryIndex = {i \in StatusIn(r, Live) \ act2 : indexExpiry(r.orders[i])}
    <3>1. b.expiryIndex = {i \in StatusIn(b, Live) \ act : indexExpiry(b.orders[i])}
      BY DEF SweepsAgreeIn, TablesAgree
    <3> QED BY <1>1, <1>2, <1>3, <1>4, <2>2, <3>1 DEF StatusIn, Entered, ExpiryPut
  <2> QED BY <2>3, <2>4 DEF SweepsAgreeIn
<1>11. TablesAgree(r, act2)
  BY <1>2, <1>6, <1>7, <1>8, <1>9, <1>10 DEF TablesAgree
<1> QED BY <1>11 DEF r

\* A closed order: recorded terminal, without an entry, a trigger or an index
\* row.
LEMMA CloseAgrees ==
  ASSUME NEW b, NEW r \in BookType, NEW act, NEW act2, NEW o \in Order, NEW p \in Order,
         TablesAgree(b, act), Closed(r, b, o, p), p.status \in Terminal, p.id = o.id,
         o.id < b.nextOrder,
         \/ b.orders[o.id] = NoOrder
         \/ /\ b.orders[o.id].status \in Live /\ SameKeys(o, b.orders[o.id])
            /\ o.id \in act \/ o.expiry = b.orders[o.id].expiry,
         r.entries = [b.entries EXCEPT ![o.id] = 0],
         r.triggers = b.triggers \ {o.id},
         \A i \in OrderIds : i \in act2 <=> i \in act /\ i # o.id
  PROVE  TablesAgree(r, act2)
<1>1. b \in BookType /\ o.id \in OrderIds
  BY OrderKeys DEF TablesAgree
<1>3. r.orders = [i \in OrderIds |-> IF i = o.id THEN p ELSE b.orders[i]]
  BY <1>1 DEF Closed, BookType
<1>4. p.status \notin Live
  BY DEF Live, Resting, Terminal
<1>5. \/ b.orders[o.id] = NoOrder
      \/ b.orders[o.id].status \in Live /\ SameKeys(o, b.orders[o.id])
  OBVIOUS
<1>6. OpenOrdersAgreeIn(r) /\ ClientsAgreeIn(r)
  BY <1>1, <1>5, ClosedOpenOrders, ClosedClients DEF TablesAgree
<1>7. Numbered(r)
  BY <1>1, <1>3 DEF Numbered, TablesAgree, Closed
<1>8. \A i \in OrderIds : i \in act2 => r.orders[i].status = "open"
  BY <1>3 DEF TablesAgree
<1>9. EntriesAgreeIn(r, act2)
  BY <1>1, <1>3, <1>4 DEF EntriesAgreeIn, TablesAgree, StatusIn, BookType, Live
<1>10. SweepsAgreeIn(r, act2)
  <2>1. r.triggers = StatusIn(r, {"pending"})
    BY <1>1, <1>3, <1>4 DEF SweepsAgreeIn, TablesAgree, StatusIn, Live
  <2>2. o.id \in b.expiryIndex => o.expiry # 0
    <3>1. SUFFICES ASSUME o.id \in b.expiryIndex PROVE o.expiry # 0
      OBVIOUS
    <3>2. /\ b.orders[o.id].status \in Live /\ o.id \notin act
          /\ indexExpiry(b.orders[o.id])
      BY <3>1 DEF SweepsAgreeIn, TablesAgree, StatusIn
    <3>3. o.expiry = b.orders[o.id].expiry
      BY <3>2 DEF NoOrder, Live, Resting
    <3> QED BY <3>2, <3>3 DEF indexExpiry
  <2>3. r.expiryIndex = b.expiryIndex \ {o.id}
    BY <2>2 DEF Closed, ExpiryCut
  <2>4. b.expiryIndex = {i \in StatusIn(b, Live) \ act : indexExpiry(b.orders[i])}
    BY DEF SweepsAgreeIn, TablesAgree
  <2>5. r.expiryIndex = {i \in StatusIn(r, Live) \ act2 : indexExpiry(r.orders[i])}
    BY <1>1, <1>3, <1>4, <2>3, <2>4 DEF StatusIn
  <2> QED BY <2>1, <2>5 DEF SweepsAgreeIn
<1> QED BY <1>6, <1>7, <1>8, <1>9, <1>10 DEF TablesAgree

\* OpenOrder of an order that is already terminal.
LEMMA OpenTerminalAgrees ==
  ASSUME NEW b, NEW act, NEW act2, NEW o \in Order, TablesAgree(b, act),
         MayOpen(b, act, o), o.status \in Terminal,
         \A i \in OrderIds : i \in act2 <=> i \in act /\ i # o.id
  PROVE  TablesAgree(OpenOrder(b, o), act2)
<1> DEFINE r == OpenOrder(b, o)
<1>1. b \in BookType /\ o.id \in OrderIds
  BY OrderKeys DEF TablesAgree
<1>2. /\ r \in BookType /\ Closed(r, b, o, o)
      /\ r.entries = b.entries /\ r.triggers = b.triggers
  BY <1>1, OpenTerminalFields
<1> HIDE DEF r
<1>3. \/ b.orders[o.id] = NoOrder
      \/ b.orders[o.id].status = "open" /\ o.id \in act /\ SameKeys(o, b.orders[o.id])
  BY <1>1 DEF TablesAgree, MayOpen
<1>4. b.entries[o.id] = 0
  BY <1>1, <1>3 DEF TablesAgree, EntriesAgreeIn, StatusIn, NoOrder, Resting
<1>5. r.entries = [b.entries EXCEPT ![o.id] = 0]
  <2>1. b.entries \in [OrderIds -> 0 .. MaxBase]
    BY <1>1 DEF BookType
  <2> QED BY <1>1, <1>2, <1>4, <2>1
<1>6. r.triggers = b.triggers \ {o.id}
  <2>1. o.id \notin b.triggers
    BY <1>3 DEF TablesAgree, SweepsAgreeIn, StatusIn, NoOrder
  <2> QED BY <1>2, <2>1
<1>7. \/ b.orders[o.id] = NoOrder
      \/ /\ b.orders[o.id].status \in Live /\ SameKeys(o, b.orders[o.id])
         /\ o.id \in act \/ o.expiry = b.orders[o.id].expiry
  BY <1>3 DEF Live, Resting
<1>8. TablesAgree(r, act2)
  BY <1>2, <1>5, <1>6, <1>7, CloseAgrees DEF MayOpen
<1> QED BY <1>8 DEF r

\* OpenTriggerOrder of a new order.
LEMMA OpenTriggerAgrees ==
  ASSUME NEW b, NEW act, NEW o \in Order, TablesAgree(b, act),
         MayOpen(b, act, o), b.orders[o.id] = NoOrder, o.status = "pending"
  PROVE  TablesAgree(OpenTriggerOrder(b, o), act)
<1> DEFINE r == OpenTriggerOrder(b, o)
<1>1. b \in BookType /\ o.id \in OrderIds
  BY OrderKeys DEF TablesAgree
<1>2. /\ r \in BookType /\ Entered(r, b, o)
      /\ r.entries = b.entries
      /\ r.triggers = b.triggers \cup {o.id}
  BY <1>1, OpenTriggerFields
<1> HIDE DEF r
<1>3. r.orders = [i \in OrderIds |-> IF i = o.id THEN o ELSE b.orders[i]]
  BY <1>1, <1>2 DEF Entered, BookType
<1>4. o.status \in Live /\ o.status \notin Resting
  BY DEF Live, Resting
<1>5. OpenOrdersAgreeIn(r) /\ ClientsAgreeIn(r)
  BY <1>1, <1>2, <1>4, EnteredOpenOrders, EnteredClients DEF TablesAgree, MayOpen
<1>6. Numbered(r)
  BY <1>1, <1>2, <1>3 DEF Numbered, TablesAgree, MayOpen, Entered
<1>7. o.id \notin act
  BY <1>1 DEF TablesAgree, NoOrder
<1>8. \A i \in OrderIds : i \in act => r.orders[i].status = "open"
  BY <1>3, <1>7 DEF TablesAgree
<1>9. EntriesAgreeIn(r, act)
  <2>1. b.entries[o.id] = 0
    BY <1>1 DEF TablesAgree, EntriesAgreeIn, StatusIn, NoOrder, Resting
  <2> QED BY <1>1, <1>2, <1>3, <1>4, <2>1 DEF EntriesAgreeIn, TablesAgree, StatusIn
<1>10. SweepsAgreeIn(r, act)
  <2>1. r.triggers = StatusIn(r, {"pending"})
    BY <1>1, <1>2, <1>3 DEF SweepsAgreeIn, TablesAgree, StatusIn
  <2>2. o.id \notin StatusIn(b, Live)
    BY DEF StatusIn, NoOrder, Live, Resting
  <2>3. b.expiryIndex = {i \in StatusIn(b, Live) \ act : indexExpiry(b.orders[i])}
    BY DEF SweepsAgreeIn, TablesAgree
  <2>4. r.expiryIndex = {i \in StatusIn(r, Live) \ act : indexExpiry(r.orders[i])}
    BY <1>1, <1>2, <1>3, <1>4, <1>7, <2>2, <2>3 DEF StatusIn, Entered, ExpiryPut
  <2> QED BY <2>1, <2>4 DEF SweepsAgreeIn
<1>11. TablesAgree(r, act)
  BY <1>2, <1>5, <1>6, <1>8, <1>9, <1>10 DEF TablesAgree
<1> QED BY <1>11 DEF r

\* EvictMakerOrder of an order with an entry.
LEMMA EvictAgrees ==
  ASSUME NEW b, NEW act, NEW id \in OrderIds, TablesAgree(b, act), b.entries[id] # 0
  PROVE  TablesAgree(EvictMakerOrder(b, id), act)
<1> DEFINE o == b.orders[id]
           p == [o EXCEPT !.status = "cancelled"]
           b1 == removeEntry(b, o)
           r == setOrder(Unindexed(b1, o), p)
<1>1. b \in BookType /\ o.status \in Resting /\ id \notin act
  BY DEF TablesAgree, EntriesAgreeIn, StatusIn
<1>2. o \in Order /\ o.id = id /\ id < b.nextOrder
  <2>1. o # NoOrder
    BY <1>1 DEF NoOrder, Resting
  <2> QED BY <1>1, <2>1, StoredOrder DEF TablesAgree, Numbered
<1>3. p \in Order /\ p.id = id /\ p.status \in Terminal
  BY <1>2 DEF Order, Terminal
<1>4. EvictMakerOrder(b, id) = r
  BY DEF EvictMakerOrder
<1>5. o.id \notin b.triggers
  BY <1>1, <1>2 DEF TablesAgree, SweepsAgreeIn, StatusIn, Resting
<1> HIDE DEF o, p
<1>6. /\ b1 \in BookType /\ SameIndexes(b1, b)
      /\ b1.entries = [b.entries EXCEPT ![o.id] = 0]
  BY <1>1, <1>2, RemoveFields
<1> HIDE DEF b1
<1>7. r \in BookType /\ Closed(r, b1, o, p) /\ r.entries = b1.entries /\ r.triggers = b1.triggers
  BY <1>2, <1>3, <1>6, CloseFields
<1> HIDE DEF r
<1>8. Closed(r, b, o, p) /\ r.entries = [b.entries EXCEPT ![o.id] = 0]
  BY <1>6, <1>7 DEF Closed, SameIndexes, ClientCut, CountCut, ExpiryCut
<1>9. r.triggers = b.triggers \ {o.id}
  BY <1>5, <1>6, <1>7 DEF SameIndexes
<1>10. b.orders[o.id].status \in Live /\ SameKeys(o, b.orders[o.id]) /\ o.expiry = b.orders[o.id].expiry
  BY <1>1, <1>2 DEF o, SameKeys, Live
<1>11. \A i \in OrderIds : i \in act <=> i \in act /\ i # o.id
  BY <1>1, <1>2
<1> QED BY <1>2, <1>3, <1>4, <1>7, <1>8, <1>9, <1>10, <1>11, CloseAgrees

\* CancelOrder of a resting, parked or in-transit order.
LEMMA CancelAgrees ==
  ASSUME NEW b, NEW act, NEW act2, NEW id \in OrderIds, TablesAgree(b, act),
         Cancelable(b, id),
         \A i \in OrderIds : i \in act2 <=> i \in act /\ i # id
  PROVE  TablesAgree(CancelOrder(b, id), act2)
<1> DEFINE o == b.orders[id]
           p == [o EXCEPT !.status = "cancelled"]
           b1 == IF o.status \in Resting THEN removeEntry(b, o) ELSE removeTrigger(b, o)
           r == setOrder(Unindexed(b1, o), p)
<1>1. b \in BookType /\ o.status \in Live
  BY DEF TablesAgree, Cancelable
<1>2. o \in Order /\ o.id = id /\ id < b.nextOrder
  <2>1. o # NoOrder
    BY <1>1 DEF NoOrder, Live, Resting
  <2> QED BY <1>1, <2>1, StoredOrder DEF TablesAgree, Numbered
<1>3. p \in Order /\ p.id = id /\ p.status \in Terminal
  BY <1>2 DEF Order, Terminal
<1>4. CancelOrder(b, id) = r
  BY DEF CancelOrder
<1>5. o.status \in Resting => o.id \notin b.triggers
  BY <1>1, <1>2 DEF TablesAgree, SweepsAgreeIn, StatusIn, Resting
<1>6. o.status \notin Resting => b.entries[o.id] = 0
  BY <1>1, <1>2 DEF TablesAgree, EntriesAgreeIn, StatusIn
<1>7. b.orders[o.id].status \in Live /\ SameKeys(o, b.orders[o.id]) /\ o.expiry = b.orders[o.id].expiry
  BY <1>1, <1>2 DEF SameKeys
<1> HIDE DEF o, p
<1>8. /\ b1 \in BookType
      /\ b1.orders = b.orders /\ b1.clientIndex = b.clientIndex
      /\ b1.accountOpen = b.accountOpen /\ b1.openCount = b.openCount
      /\ b1.expiryIndex = b.expiryIndex /\ b1.nextOrder = b.nextOrder
      /\ b1.entries = [b.entries EXCEPT ![o.id] = 0]
      /\ b1.triggers = b.triggers \ {o.id}
  <2>1. CASE o.status \in Resting
    <3>1. b.triggers \ {o.id} = b.triggers
      BY <1>5, <2>1
    <3> QED BY <1>1, <1>2, <2>1, <3>1, RemoveFields DEF SameIndexes
  <2>2. CASE o.status \notin Resting
    <3>1. b.entries \in [OrderIds -> 0 .. MaxBase]
      BY <1>1 DEF BookType
    <3>2. [b.entries EXCEPT ![o.id] = 0] = b.entries
      BY <1>2, <1>6, <2>2, <3>1
    <3>3. b1 = removeTrigger(b, o)
      BY <2>2
    <3>4. b.triggers \ {o.id} \in SUBSET OrderIds
      BY <1>1 DEF BookType
    <3> QED BY <1>1, <3>2, <3>3, <3>4 DEF removeTrigger, BookType
  <2> QED BY <2>1, <2>2
<1> HIDE DEF b1
<1>9. r \in BookType /\ Closed(r, b1, o, p) /\ r.entries = b1.entries /\ r.triggers = b1.triggers
  BY <1>2, <1>3, <1>8, CloseFields
<1> HIDE DEF r
<1>10. Closed(r, b, o, p)
  BY <1>8, <1>9 DEF Closed, ClientCut, CountCut, ExpiryCut
<1>11. \A i \in OrderIds : i \in act2 <=> i \in act /\ i # o.id
  BY <1>2
<1> QED BY <1>2, <1>3, <1>4, <1>7, <1>8, <1>9, <1>10, <1>11, CloseAgrees

\* Rewriting a record that stays live, keeps its keys and changes no index.
LEMMA RewriteAgrees ==
  ASSUME NEW b \in BookType, NEW r \in BookType, NEW p \in Order,
         r.orders = [b.orders EXCEPT ![p.id] = p],
         r.clientIndex = b.clientIndex, r.accountOpen = b.accountOpen,
         r.openCount = b.openCount, r.nextOrder = b.nextOrder,
         b.orders[p.id].status \in Live, p.status \in Live, SameKeys(p, b.orders[p.id]),
         Numbered(b), OpenOrdersAgreeIn(b), ClientsAgreeIn(b)
  PROVE  Numbered(r) /\ OpenOrdersAgreeIn(r) /\ ClientsAgreeIn(r)
<1>1. p.id \in OrderIds /\ b.orders[p.id] \in Order
  BY OrderKeys, StoredOrder DEF NoOrder, Live, Resting
<1>2. r.orders = [i \in OrderIds |-> IF i = p.id THEN p ELSE b.orders[i]]
  BY <1>1 DEF BookType
<1>3. StatusIn(r, Live) = StatusIn(b, Live)
  BY <1>1, <1>2 DEF StatusIn
<1>4. Numbered(r)
  <2>1. b.orders[p.id] # NoOrder
    BY DEF NoOrder, Live, Resting
  <2> QED BY <1>1, <1>2, <2>1 DEF Numbered
<1>5. \A i \in OrderIds : CountKey(r.orders[i]) = CountKey(b.orders[i])
  BY <1>2 DEF SameKeys, CountKey
<1>6. \A i \in OrderIds : ClientKey(r.orders[i]) = ClientKey(b.orders[i])
  BY <1>2 DEF SameKeys, ClientKey
<1>7. \A i \in OrderIds : r.orders[i].client = b.orders[i].client
  BY <1>2 DEF SameKeys
<1>8. OpenOrdersAgreeIn(r)
  <2>1. r.accountOpen = StatusIn(r, Live) /\ r.accountOpen \subseteq OrderIds
    BY <1>3 DEF OpenOrdersAgreeIn, BookType
  <2>2. ASSUME NEW c \in CountKeys
        PROVE  r.openCount[c] = Cardinality({i \in r.accountOpen : CountKey(r.orders[i]) = c})
    <3>1. {i \in r.accountOpen : CountKey(r.orders[i]) = c}
            = {i \in b.accountOpen : CountKey(b.orders[i]) = c}
      BY <1>5, <2>1
    <3> QED BY <3>1 DEF OpenOrdersAgreeIn
  <2> QED BY <2>1, <2>2 DEF OpenOrdersAgreeIn
<1>9. ClientsAgreeIn(r)
  <2>1. \A i \in StatusIn(b, Live) : i \in OrderIds
    BY DEF StatusIn
  <2> QED BY <1>3, <1>6, <1>7, <2>1 DEF ClientsAgreeIn
<1> QED BY <1>4, <1>8, <1>9

\* ActivateTrigger moves a parked order into transit.
LEMMA ActivateAgrees ==
  ASSUME NEW b, NEW act, NEW act2, NEW id \in OrderIds, TablesAgree(b, act),
         b.orders[id].status = "pending",
         \A i \in OrderIds : i \in act2 <=> i \in act \/ i = id
  PROVE  TablesAgree(ActivateTrigger(b, id), act2)
<1> DEFINE o == b.orders[id]
           p == [o EXCEPT !.status = "open"]
           b1 == removeTrigger(b, o)
           b2 == removeExpiryIndex(b1, o)
           r == setOrder(b2, p)
<1>1. b \in BookType /\ o \in Order /\ o.id = id
  <2>1. b \in BookType /\ o # NoOrder
    BY DEF TablesAgree, NoOrder
  <2> QED BY <2>1, StoredOrder DEF TablesAgree, Numbered
<1>2. p \in Order /\ p.id = id /\ p.status = "open" /\ SameKeys(p, o)
  BY <1>1 DEF Order, SameKeys, Live, Resting
<1>3. ActivateTrigger(b, id) = r
  BY DEF ActivateTrigger
<1>4. o.status \in Live /\ o.status = "pending"
  BY DEF Live
<1> HIDE DEF p
<1>5. /\ b1 \in BookType
      /\ b1.orders = b.orders /\ b1.clientIndex = b.clientIndex
      /\ b1.accountOpen = b.accountOpen /\ b1.openCount = b.openCount
      /\ b1.expiryIndex = b.expiryIndex /\ b1.nextOrder = b.nextOrder
      /\ b1.entries = b.entries
      /\ b1.triggers = b.triggers \ {id}
  <2>1. b.triggers \ {id} \in SUBSET OrderIds
    BY <1>1 DEF BookType
  <2> QED BY <1>1, <2>1 DEF removeTrigger, BookType
<1> HIDE DEF b1
<1>6. /\ b2 \in BookType
      /\ b2.orders = b1.orders /\ b2.clientIndex = b1.clientIndex
      /\ b2.accountOpen = b1.accountOpen /\ b2.openCount = b1.openCount
      /\ b2.expiryIndex = ExpiryCut(b1, o) /\ b2.nextOrder = b1.nextOrder
      /\ b2.entries = b1.entries
      /\ b2.triggers = b1.triggers
  BY <1>5 DEF removeExpiryIndex, BookType, ExpiryCut
<1> HIDE DEF b2
<1>7. /\ r \in BookType
      /\ r.orders = [b.orders EXCEPT ![id] = p] /\ r.clientIndex = b.clientIndex
      /\ r.accountOpen = b.accountOpen /\ r.openCount = b.openCount
      /\ r.expiryIndex = ExpiryCut(b, o) /\ r.nextOrder = b.nextOrder
      /\ r.entries = b.entries
      /\ r.triggers = b.triggers \ {id}
  BY <1>2, <1>5, <1>6, SetOrderFields DEF ExpiryCut
<1> HIDE DEF r
<1>8. Numbered(r) /\ OpenOrdersAgreeIn(r) /\ ClientsAgreeIn(r)
  <2>1. p.status \in Live
    BY <1>2 DEF Live, Resting
  <2> QED BY <1>1, <1>2, <1>4, <1>7, <2>1, RewriteAgrees DEF TablesAgree
<1>9. r.orders = [i \in OrderIds |-> IF i = id THEN p ELSE b.orders[i]]
  BY <1>1, <1>7 DEF BookType
<1>10. \A i \in OrderIds : i \in act2 => r.orders[i].status = "open"
  BY <1>2, <1>9 DEF TablesAgree
<1>11. EntriesAgreeIn(r, act2)
  <2>1. b.entries[id] = 0
    BY DEF TablesAgree, EntriesAgreeIn, StatusIn, Resting
  <2> QED BY <1>7, <1>9, <2>1 DEF EntriesAgreeIn, TablesAgree, StatusIn
<1>12. SweepsAgreeIn(r, act2)
  <2>1. r.triggers = StatusIn(r, {"pending"})
    BY <1>2, <1>7, <1>9 DEF SweepsAgreeIn, TablesAgree, StatusIn
  <2>2. b.expiryIndex = {i \in StatusIn(b, Live) \ act : indexExpiry(b.orders[i])}
    BY DEF SweepsAgreeIn, TablesAgree
  <2>3. id \in b.expiryIndex => o.expiry # 0
    BY <2>2 DEF indexExpiry
  <2>4. r.expiryIndex = b.expiryIndex \ {id}
    BY <1>1, <1>7, <2>3 DEF ExpiryCut
  <2>5. r.expiryIndex = {i \in StatusIn(r, Live) \ act2 : indexExpiry(r.orders[i])}
    BY <1>9, <2>2, <2>4 DEF StatusIn
  <2> QED BY <2>1, <2>5 DEF SweepsAgreeIn
<1> QED BY <1>3, <1>7, <1>8, <1>10, <1>11, <1>12 DEF TablesAgree

\* FillMakerOrder of an order with an entry: the entry and the order shrink
\* together, and the unconditional unindexClientOrder of a full fill removes
\* the order's own row because the index is exact.
LEMMA FillKeepsAgreement ==
  ASSUME NEW b, NEW act, NEW id \in OrderIds, NEW base \in Nat, TablesAgree(b, act),
         b.entries[id] # 0
  PROVE  /\ FillAgrees(b, id, base)
         /\ TablesAgree(FillMakerOrder(b, id, base), act)
<1> DEFINE o == b.orders[id]
           fill == LesserOf(base, o.rem)
           left == o.rem - fill
           b1 == shrinkEntryResidue(b, o, fill)
<1>1. /\ b \in BookType /\ o.status \in Resting /\ id \notin act
      /\ o.rem > 0 /\ b.entries[id] = o.rem
  BY DEF TablesAgree, EntriesAgreeIn, StatusIn
<1>2. o \in Order /\ o.id = id /\ id < b.nextOrder
  <2>1. o # NoOrder
    BY <1>1 DEF NoOrder, Resting
  <2> QED BY <1>1, <2>1, StoredOrder DEF TablesAgree, Numbered
<1>3. o.rem \in 0 .. MaxBase /\ o.rem \in Nat
  BY <1>1, <1>2, ResidueType
<1>4. fill \in Nat /\ left \in 0 .. MaxBase /\ left \in Nat /\ EntryResidue(b, id, fill) = left
  BY <1>1, <1>3, BookAssumption DEF LesserOf, EntryResidue
<1>5. FillAgrees(b, id, base)
  BY <1>4 DEF FillAgrees
<1>6. o.status \in Live /\ SameKeys(o, o) /\ id \in StatusIn(b, Live)
  BY <1>1 DEF Live, SameKeys, StatusIn
<1>7. o.id \notin b.triggers
  BY <1>1, <1>2 DEF TablesAgree, SweepsAgreeIn, StatusIn, Resting
<1>8. FillMakerOrder(b, id, base)
        = IF left = 0
            THEN setOrder(removeExpiryIndex(unindexAccountOpenOrder(
                            unindexClientOrder(b1, o), o), o),
                          [o EXCEPT !.rem = 0, !.status = "filled"])
            ELSE setOrder(b1, [o EXCEPT !.rem = left, !.status = "partial"])
  BY DEF FillMakerOrder
<1> HIDE DEF fill, left
<1>9. /\ b1 \in BookType /\ SameIndexes(b1, b)
      /\ b1.entries = [b.entries EXCEPT ![id] = left]
  BY <1>1, <1>2, <1>4, ShrinkFields
<1> HIDE DEF b1
<1>10. CASE left = 0
  <2> DEFINE p == [o EXCEPT !.rem = 0, !.status = "filled"]
             r == setOrder(Unindexed(b1, o), p)
  <2>1. p \in Order /\ p.id = id /\ p.status \in Terminal
    <3>1. 0 \in 0 .. MaxBase
      BY BookAssumption
    <3> QED BY <1>2, <3>1 DEF Order, Terminal
  <2>2. unindexClientOrder(b1, o) = unindexClientOrderIfMatches(b1, o)
    <3>1. o.client # 0 => b1.clientIndex[ClientKey(o)] = o.id
      BY <1>2, <1>6, <1>9 DEF TablesAgree, ClientsAgreeIn, SameIndexes
    <3> QED BY <3>1 DEF unindexClientOrder, unindexClientOrderIfMatches
  <2>3. FillMakerOrder(b, id, base) = r
    BY <1>8, <1>10, <2>2 DEF Unindexed
  <2> HIDE DEF p
  <2>4. r \in BookType /\ Closed(r, b1, o, p) /\ r.entries = b1.entries /\ r.triggers = b1.triggers
    BY <1>2, <1>9, <2>1, CloseFields
  <2> HIDE DEF r
  <2>5. Closed(r, b, o, p) /\ r.entries = [b.entries EXCEPT ![o.id] = 0]
    BY <1>2, <1>9, <1>10, <2>4 DEF Closed, SameIndexes, ClientCut, CountCut, ExpiryCut
  <2>6. r.triggers = b.triggers \ {o.id}
    BY <1>7, <1>9, <2>4 DEF SameIndexes
  <2>7. b.orders[o.id].status \in Live /\ SameKeys(o, b.orders[o.id]) /\ o.expiry = b.orders[o.id].expiry
    BY <1>2, <1>6
  <2>8. \A i \in OrderIds : i \in act <=> i \in act /\ i # o.id
    BY <1>1, <1>2
  <2> HIDE DEF o
  <2>9. TablesAgree(r, act)
    BY <1>2, <2>1, <2>4, <2>5, <2>6, <2>7, <2>8, CloseAgrees
  <2> QED BY <1>5, <2>3, <2>9
<1>11. CASE left # 0
  <2> DEFINE p == [o EXCEPT !.rem = left, !.status = "partial"]
             r == setOrder(b1, p)
  <2>1. /\ p \in Order /\ p.id = id /\ p.status \in Resting /\ p.rem = left
        /\ SameKeys(p, o) /\ p.expiry = o.expiry /\ p.tif = o.tif
    BY <1>2, <1>4 DEF Order, Live, Resting, SameKeys
  <2>2. FillMakerOrder(b, id, base) = r
    BY <1>8, <1>11
  <2> HIDE DEF p
  <2>3. /\ r \in BookType
        /\ r.orders = [b.orders EXCEPT ![id] = p] /\ r.clientIndex = b.clientIndex
        /\ r.accountOpen = b.accountOpen /\ r.openCount = b.openCount
        /\ r.expiryIndex = b.expiryIndex /\ r.nextOrder = b.nextOrder
        /\ r.entries = [b.entries EXCEPT ![id] = left]
        /\ r.triggers = b.triggers
    BY <1>9, <2>1, SetOrderFields DEF SameIndexes
  <2> HIDE DEF r
  <2>4. Numbered(r) /\ OpenOrdersAgreeIn(r) /\ ClientsAgreeIn(r)
    <3>1. p.status \in Live
      BY <2>1 DEF Live
    <3> QED BY <1>1, <1>6, <2>1, <2>3, <3>1, RewriteAgrees DEF TablesAgree
  <2>5. r.orders = [i \in OrderIds |-> IF i = id THEN p ELSE b.orders[i]]
    BY <1>1, <2>3 DEF BookType
  <2>6. \A i \in OrderIds : i \in act => r.orders[i].status = "open"
    BY <1>1, <2>5 DEF TablesAgree
  <2>7. EntriesAgreeIn(r, act)
    <3>1. r.entries = [i \in OrderIds |-> IF i = id THEN left ELSE b.entries[i]]
      BY <1>1, <2>3 DEF BookType
    <3> QED BY <1>1, <1>4, <1>11, <2>1, <2>5, <3>1 DEF EntriesAgreeIn, TablesAgree, StatusIn
  <2>8. SweepsAgreeIn(r, act)
    <3>1. indexExpiry(p) <=> indexExpiry(o)
      BY <2>1 DEF indexExpiry
    <3>2. o.status # "pending" /\ p.status # "pending" /\ p.status \in Live
      BY <1>1, <2>1 DEF Live, Resting
    <3>3. r.triggers = StatusIn(r, {"pending"})
      BY <2>3, <2>5, <3>2 DEF SweepsAgreeIn, TablesAgree, StatusIn
    <3>4. b.expiryIndex = {i \in StatusIn(b, Live) \ act : indexExpiry(b.orders[i])}
      BY DEF SweepsAgreeIn, TablesAgree
    <3>5. r.expiryIndex = {i \in StatusIn(r, Live) \ act : indexExpiry(r.orders[i])}
      BY <1>6, <2>3, <2>5, <3>1, <3>2, <3>4 DEF StatusIn
    <3> QED BY <3>3, <3>5 DEF SweepsAgreeIn
  <2>9. TablesAgree(r, act)
    BY <2>3, <2>4, <2>6, <2>7, <2>8 DEF TablesAgree
  <2> QED BY <1>5, <2>2, <2>9
<1> QED BY <1>10, <1>11

\* The next index is fresh: allocating it changes no agreement, and the order
\* built from a request whose client id is not in use may be opened.
LEMMA AllocateAgrees ==
  ASSUME NEW b, NEW act, NEW q \in Request, TablesAgree(b, act), CanAllocate(b, q),
         ~HasOpenClientOrder(b, q.market, q.owner, q.client), NEW s \in Live \cup Terminal
  PROVE  /\ TablesAgree(Allocated(b, q), act)
         /\ NewOrder(b, q, s) \in Order
         /\ NewOrder(b, q, s).rem = q.base
         /\ NewOrder(b, q, s).init = q.base
         /\ NewOrder(b, q, s).status = s
         /\ Allocated(b, q).orders = b.orders
         /\ Allocated(b, q).entries = b.entries
         /\ b.orders[NewOrder(b, q, s).id] = NoOrder
         /\ MayOpen(Allocated(b, q), act, NewOrder(b, q, s))
<1> DEFINE r == Allocated(b, q)
           n == b.nonces[q.market]
           n2 == IF q.isAsk THEN [n EXCEPT !.ask = n.ask + 1] ELSE [n EXCEPT !.bid = n.bid - 1]
           N == [b.nonces EXCEPT ![q.market] = n2]
           o == NewOrder(b, q, s)
<1>1. b \in BookType /\ b.nextOrder \in OrderIds /\ b.nextOrder \in Int /\ q.market \in Markets
  <2>1. b \in BookType /\ b.nextOrder <= MaxOrders /\ q.market \in Markets
    BY DEF TablesAgree, CanAllocate, Request
  <2>2. b.nextOrder \in 1 .. MaxOrders + 1 /\ MaxOrders \in Nat
    BY <2>1, BookAssumption DEF BookType
  <2> QED BY <2>1, <2>2 DEF OrderIds
<1>2. n \in [ask : Int, bid : Int]
  BY <1>1 DEF BookType
<1>3. n2 \in [ask : Int, bid : Int]
  <2>1. n.ask + 1 \in Int /\ n.bid - 1 \in Int
    BY <1>2
  <2> HIDE DEF n
  <2> QED BY <1>2, <2>1
<1>4. N \in [Markets -> [ask : Int, bid : Int]]
  BY <1>1, <1>3 DEF BookType
<1>5. r = [b EXCEPT !.nextOrder = b.nextOrder + 1, !.nonces = N]
  BY DEF Allocated
<1>6. b.nextOrder + 1 \in 1 .. MaxOrders + 1
  <2>1. MaxOrders \in Nat
    BY BookAssumption
  <2> QED BY <1>1, <2>1 DEF OrderIds
<1>7. /\ o.id = b.nextOrder /\ o.rem = q.base /\ o.init = q.base /\ o.status = s
      /\ o.client = q.client /\ o.market = q.market /\ o.owner = q.owner
  BY DEF NewOrder
<1>8. o \in Order
  <2> DEFINE k == IF q.isAsk THEN n.ask ELSE n.bid
  <2>1. k \in Int
    BY <1>2
  <2>2. q.base \in 0 .. MaxBase /\ q.base \in 1 .. MaxBase
    BY BookAssumption DEF Request
  <2>3. /\ q.owner \in Traders /\ q.isAsk \in BOOLEAN /\ q.reduceOnly \in BOOLEAN
        /\ q.type \in Trigger \cup {"limit", "market"}
        /\ q.tif \in {"GTT", "IOC", "PostOnly"}
        /\ q.price \in Prices /\ q.trig \in Prices
        /\ q.expiry \in 0 .. MaxExpiry /\ q.client \in ClientIds \cup {0}
    BY DEF Request
  <2>4. o = [id |-> b.nextOrder, owner |-> q.owner, market |-> q.market, isAsk |-> q.isAsk,
             type |-> q.type, tif |-> q.tif, reduceOnly |-> q.reduceOnly, price |-> q.price,
             nonce |-> k, init |-> q.base, rem |-> q.base, trig |-> q.trig,
             expiry |-> q.expiry, client |-> q.client, status |-> s]
    BY DEF NewOrder
  <2> HIDE DEF k, o, n
  <2> QED BY <1>1, <2>1, <2>2, <2>3, <2>4 DEF Order
<1> HIDE DEF N
<1>9. /\ r \in BookType
      /\ r.orders = b.orders /\ r.entries = b.entries
      /\ r.clientIndex = b.clientIndex /\ r.accountOpen = b.accountOpen
      /\ r.openCount = b.openCount /\ r.triggers = b.triggers
      /\ r.expiryIndex = b.expiryIndex /\ r.nextOrder = b.nextOrder + 1
  BY <1>1, <1>4, <1>5, <1>6 DEF BookType
<1>10. b.orders[o.id] = NoOrder
  BY <1>1, <1>7 DEF TablesAgree, Numbered
<1> HIDE DEF r, o
<1>11. TablesAgree(r, act)
  <2>1. Numbered(r)
    BY <1>1, <1>9 DEF TablesAgree, Numbered, OrderIds
  <2>2. EntriesAgreeIn(r, act) /\ SweepsAgreeIn(r, act)
    BY <1>9 DEF TablesAgree, EntriesAgreeIn, SweepsAgreeIn, StatusIn
  <2>3. OpenOrdersAgreeIn(r) /\ ClientsAgreeIn(r)
    BY <1>9 DEF TablesAgree, OpenOrdersAgreeIn, ClientsAgreeIn, StatusIn
  <2> QED BY <1>9, <2>1, <2>2, <2>3 DEF TablesAgree
<1>12. MayOpen(r, act, o)
  <2>1. o.id < r.nextOrder
    BY <1>1, <1>7, <1>9
  <2>2. ASSUME o.client # 0
        PROVE  b.clientIndex[ClientKey(o)] = 0
    <3>1. ClientKey(o) \in ClientKeys
      BY <1>8, <2>2, OrderKeys
    <3>2. ClientKey(o) = <<q.market, q.owner, q.client>>
      BY <1>7 DEF ClientKey
    <3>3. b.clientIndex[ClientKey(o)] # 0 => b.clientIndex[ClientKey(o)] \in StatusIn(b, Live)
      BY <3>1 DEF TablesAgree, ClientsAgreeIn
    <3> QED BY <1>7, <2>2, <3>2, <3>3 DEF HasOpenClientOrder, StatusIn
  <2> QED BY <1>9, <1>10, <2>1, <2>2 DEF MayOpen
<1> QED BY <1>7, <1>8, <1>9, <1>10, <1>11, <1>12 DEF r, o
=============================================================================
