-------------------------- MODULE OrderBookLemmas --------------------------
(* What each keeper function of OrderBookTables does to the tables, proved  *)
(* once so that the proofs about its callers need not open the definitions  *)
(* again.                                                                   *)
EXTENDS OrderBookTables, FiniteSetTheorems, TLAPS

\* An order has a row in every table it may be recorded in.
LEMMA OrderKeys ==
  ASSUME NEW o \in Order
  PROVE  /\ o.id \in OrderIds
         /\ LevelKey(o) \in LevelKeys
         /\ CountKey(o) \in CountKeys
         /\ o.client # 0 => ClientKey(o) \in ClientKeys
BY DEF Order, LevelKey, CountKey, ClientKey, LevelKeys, CountKeys, ClientKeys

\* A record that is not NoOrder is an Order, and its status tells them apart.
LEMMA StoredOrder ==
  ASSUME NEW b \in BookType, NEW i \in OrderIds
  PROVE  /\ b.orders[i] \in Order \/ b.orders[i] = NoOrder
         /\ b.orders[i] = NoOrder <=> b.orders[i].status = "none"
         /\ b.orders[i].status \in Live \cup Terminal \cup {"none"}
BY DEF BookType, Order, NoOrder, Live, Resting, Terminal

\* setOrder writes the record and nothing else.
LEMMA SetOrderFields ==
  ASSUME NEW b \in BookType, NEW o \in Order
  PROVE  /\ setOrder(b, o) \in BookType
         /\ setOrder(b, o).orders = [b.orders EXCEPT ![o.id] = o]
         /\ setOrder(b, o).entries = b.entries
         /\ setOrder(b, o).clientIndex = b.clientIndex
         /\ setOrder(b, o).accountOpen = b.accountOpen
         /\ setOrder(b, o).openCount = b.openCount
         /\ setOrder(b, o).triggers = b.triggers
         /\ setOrder(b, o).expiryIndex = b.expiryIndex
         /\ setOrder(b, o).nextOrder = b.nextOrder
BY OrderKeys DEF setOrder, BookType

----------------------------------------------------------------------------
(* The indexes of orders.go.                                                *)

\* The tables that the index functions leave alone.
SameRecords(r, b) ==
  /\ r.orders = b.orders
  /\ r.entries = b.entries
  /\ r.triggers = b.triggers
  /\ r.nextOrder = b.nextOrder

ClientPut(b, o) ==
  IF o.client = 0 THEN b.clientIndex ELSE [b.clientIndex EXCEPT ![ClientKey(o)] = o.id]

ClientCut(b, o) ==
  IF o.client # 0 /\ b.clientIndex[ClientKey(o)] = o.id
    THEN [b.clientIndex EXCEPT ![ClientKey(o)] = 0]
    ELSE b.clientIndex

CountPut(b, o) ==
  IF o.id \in b.accountOpen THEN b.openCount
  ELSE [b.openCount EXCEPT ![CountKey(o)] = @ + 1]

CountCut(b, o) ==
  IF o.id \notin b.accountOpen THEN b.openCount
  ELSE [b.openCount EXCEPT ![CountKey(o)] = @ - 1]

ExpiryPut(b, o) == IF indexExpiry(o) THEN b.expiryIndex \cup {o.id} ELSE b.expiryIndex
ExpiryCut(b, o) == IF o.expiry = 0 THEN b.expiryIndex ELSE b.expiryIndex \ {o.id}

\* indexAccountOpenOrder keeps the schema.
LEMMA IndexAccountType ==
  ASSUME NEW b \in BookType, NEW o \in Order
  PROVE  indexAccountOpenOrder(b, o) \in BookType
<1> DEFINE A == b.accountOpen \cup {o.id}
           C == [b.openCount EXCEPT ![CountKey(o)] = @ + 1]
<1>1. A \in SUBSET OrderIds /\ C \in [CountKeys -> Int]
  BY OrderKeys DEF BookType
<1>2. indexAccountOpenOrder(b, o)
        = IF o.id \in b.accountOpen THEN b ELSE [b EXCEPT !.accountOpen = A, !.openCount = C]
  BY DEF indexAccountOpenOrder
<1> HIDE DEF A, C
<1> QED BY <1>1, <1>2 DEF BookType

\* unindexAccountOpenOrder keeps the schema.
LEMMA UnindexAccountType ==
  ASSUME NEW b \in BookType, NEW o \in Order
  PROVE  unindexAccountOpenOrder(b, o) \in BookType
<1> DEFINE A == b.accountOpen \ {o.id}
           C == [b.openCount EXCEPT ![CountKey(o)] = @ - 1]
<1>1. A \in SUBSET OrderIds /\ C \in [CountKeys -> Int]
  BY OrderKeys DEF BookType
<1>2. unindexAccountOpenOrder(b, o)
        = IF o.id \notin b.accountOpen THEN b ELSE [b EXCEPT !.accountOpen = A, !.openCount = C]
  BY DEF unindexAccountOpenOrder
<1> HIDE DEF A, C
<1> QED BY <1>1, <1>2 DEF BookType

\* Indexed puts the order into the client, account and expiry indexes.
LEMMA IndexedFields ==
  ASSUME NEW b \in BookType, NEW o \in Order
  PROVE  /\ Indexed(b, o) \in BookType
         /\ SameRecords(Indexed(b, o), b)
         /\ Indexed(b, o).clientIndex = ClientPut(b, o)
         /\ Indexed(b, o).accountOpen = b.accountOpen \cup {o.id}
         /\ Indexed(b, o).openCount = CountPut(b, o)
         /\ Indexed(b, o).expiryIndex = ExpiryPut(b, o)
<1> DEFINE b1 == indexClientOrder(b, o)
           b2 == indexAccountOpenOrder(b1, o)
           b3 == addExpiryIndex(b2, o)
<1>1. /\ b1 \in BookType /\ SameRecords(b1, b)
      /\ b1.clientIndex = ClientPut(b, o)
      /\ b1.accountOpen = b.accountOpen /\ b1.openCount = b.openCount
      /\ b1.expiryIndex = b.expiryIndex
  BY OrderKeys DEF indexClientOrder, BookType, SameRecords, ClientPut
<1> HIDE DEF b1
<1>2. /\ b2 \in BookType /\ SameRecords(b2, b1)
      /\ b2.clientIndex = b1.clientIndex
      /\ b2.accountOpen = b1.accountOpen \cup {o.id}
      /\ b2.openCount = CountPut(b1, o)
      /\ b2.expiryIndex = b1.expiryIndex
  <2>1. b2 \in BookType
    BY <1>1, IndexAccountType
  <2> QED BY <1>1, <2>1, OrderKeys
          DEF indexAccountOpenOrder, BookType, SameRecords, CountPut
<1> HIDE DEF b2
<1>3. /\ b3 \in BookType /\ SameRecords(b3, b2)
      /\ b3.clientIndex = b2.clientIndex
      /\ b3.accountOpen = b2.accountOpen
      /\ b3.openCount = b2.openCount
      /\ b3.expiryIndex = ExpiryPut(b2, o)
  BY <1>2, OrderKeys DEF addExpiryIndex, BookType, SameRecords, ExpiryPut
<1>4. Indexed(b, o) = b3
  BY DEF Indexed, b1, b2
<1> HIDE DEF b3
<1> QED BY <1>1, <1>2, <1>3, <1>4 DEF SameRecords, CountPut, ExpiryPut

\* Unindexed takes the order out of them; the client row goes only when it
\* still names this order.
LEMMA UnindexedFields ==
  ASSUME NEW b \in BookType, NEW o \in Order
  PROVE  /\ Unindexed(b, o) \in BookType
         /\ SameRecords(Unindexed(b, o), b)
         /\ Unindexed(b, o).clientIndex = ClientCut(b, o)
         /\ Unindexed(b, o).accountOpen = b.accountOpen \ {o.id}
         /\ Unindexed(b, o).openCount = CountCut(b, o)
         /\ Unindexed(b, o).expiryIndex = ExpiryCut(b, o)
<1> DEFINE b1 == unindexClientOrderIfMatches(b, o)
           b2 == unindexAccountOpenOrder(b1, o)
           b3 == removeExpiryIndex(b2, o)
<1>1. /\ b1 \in BookType /\ SameRecords(b1, b)
      /\ b1.clientIndex = ClientCut(b, o)
      /\ b1.accountOpen = b.accountOpen /\ b1.openCount = b.openCount
      /\ b1.expiryIndex = b.expiryIndex
  BY OrderKeys DEF unindexClientOrderIfMatches, unindexClientOrder, BookType,
                   SameRecords, ClientCut
<1> HIDE DEF b1
<1>2. /\ b2 \in BookType /\ SameRecords(b2, b1)
      /\ b2.clientIndex = b1.clientIndex
      /\ b2.accountOpen = b1.accountOpen \ {o.id}
      /\ b2.openCount = CountCut(b1, o)
      /\ b2.expiryIndex = b1.expiryIndex
  <2>1. b2 \in BookType
    BY <1>1, UnindexAccountType
  <2> QED BY <1>1, <2>1, OrderKeys
          DEF unindexAccountOpenOrder, BookType, SameRecords, CountCut
<1> HIDE DEF b2
<1>3. /\ b3 \in BookType /\ SameRecords(b3, b2)
      /\ b3.clientIndex = b2.clientIndex
      /\ b3.accountOpen = b2.accountOpen
      /\ b3.openCount = b2.openCount
      /\ b3.expiryIndex = ExpiryCut(b2, o)
  BY <1>2, OrderKeys DEF removeExpiryIndex, BookType, SameRecords, ExpiryCut
<1>4. Unindexed(b, o) = b3
  BY DEF Unindexed, b1, b2
<1> HIDE DEF b3
<1> QED BY <1>1, <1>2, <1>3, <1>4 DEF SameRecords, CountCut, ExpiryCut

----------------------------------------------------------------------------
(* The entries of entries.go.                                               *)

\* The tables that the entry functions leave alone.
SameIndexes(r, b) ==
  /\ r.orders = b.orders
  /\ r.clientIndex = b.clientIndex
  /\ r.accountOpen = b.accountOpen
  /\ r.openCount = b.openCount
  /\ r.triggers = b.triggers
  /\ r.expiryIndex = b.expiryIndex
  /\ r.nextOrder = b.nextOrder

\* adjustPriceLevel touches one level only.
LEMMA AdjustFields ==
  ASSUME NEW b \in BookType, NEW o \in Order, NEW base \in Int, NEW count \in Int
  PROVE  /\ adjustPriceLevel(b, o, base, count) \in BookType
         /\ SameIndexes(adjustPriceLevel(b, o, base, count), b)
         /\ adjustPriceLevel(b, o, base, count).entries = b.entries
<1> DEFINE l == b.levels[LevelKey(o)]
           n == [base |-> l.base + base, quote |-> l.quote + base * o.price,
                 count |-> l.count + count]
<1>1. l \in [base : Int, quote : Int, count : Int]
  BY OrderKeys DEF BookType
<1>2. o.price \in Int
  BY BookAssumption DEF Order, Prices
<1>3. base * o.price \in Int
  BY <1>2
<1>4. n \in [base : Int, quote : Int, count : Int]
  BY <1>1, <1>3
<1>5. adjustPriceLevel(b, o, base, count) = [b EXCEPT !.levels[LevelKey(o)] = n]
  BY DEF adjustPriceLevel
<1> HIDE DEF n
<1> DEFINE L == [b.levels EXCEPT ![LevelKey(o)] = n]
<1>6. L \in [LevelKeys -> [base : Int, quote : Int, count : Int]]
  BY <1>4, OrderKeys DEF BookType
<1>7. adjustPriceLevel(b, o, base, count) = [b EXCEPT !.levels = L]
  BY <1>5
<1> HIDE DEF L
<1> QED BY <1>6, <1>7 DEF BookType, SameIndexes

\* The residues and base amounts are numbers.
LEMMA ResidueType ==
  ASSUME NEW b \in BookType, NEW o \in Order
  PROVE  /\ o.rem \in 0 .. MaxBase /\ o.rem \in Nat
         /\ b.entries[o.id] \in 0 .. MaxBase /\ b.entries[o.id] \in Nat
BY OrderKeys, BookAssumption DEF BookType, Order

\* insertEntry gives the order an entry with its residue.
LEMMA InsertFields ==
  ASSUME NEW b \in BookType, NEW o \in Order
  PROVE  /\ insertEntry(b, o) \in BookType
         /\ SameIndexes(insertEntry(b, o), b)
         /\ insertEntry(b, o).entries = [b.entries EXCEPT ![o.id] = o.rem]
<1> DEFINE b1 == [b EXCEPT !.entries[o.id] = o.rem]
<1>1. /\ b1 \in BookType /\ SameIndexes(b1, b)
      /\ b1.entries = [b.entries EXCEPT ![o.id] = o.rem]
  BY OrderKeys, ResidueType DEF BookType, SameIndexes
<1>2. insertEntry(b, o) = adjustPriceLevel(b1, o, o.rem, 1)
  BY DEF insertEntry
<1> HIDE DEF b1
<1>3. o.rem \in Int /\ 1 \in Int
  BY ResidueType
<1> QED BY <1>1, <1>2, <1>3, AdjustFields DEF SameIndexes

\* removeEntry leaves no entry.
LEMMA RemoveFields ==
  ASSUME NEW b \in BookType, NEW o \in Order
  PROVE  /\ removeEntry(b, o) \in BookType
         /\ SameIndexes(removeEntry(b, o), b)
         /\ removeEntry(b, o).entries = [b.entries EXCEPT ![o.id] = 0]
<1> DEFINE b1 == [b EXCEPT !.entries[o.id] = 0]
<1>1. /\ b1 \in BookType /\ SameIndexes(b1, b)
      /\ b1.entries = [b.entries EXCEPT ![o.id] = 0]
  <2>1. 0 \in 0 .. MaxBase
    BY BookAssumption
  <2> QED BY <2>1, OrderKeys DEF BookType, SameIndexes
<1>2. CASE b.entries[o.id] = 0
  <2>1. b.entries \in [OrderIds -> 0 .. MaxBase]
    BY DEF BookType
  <2>2. [b.entries EXCEPT ![o.id] = 0] = b.entries
    BY <1>2, <2>1
  <2> QED BY <1>2, <2>2 DEF removeEntry, SameIndexes
<1>3. CASE b.entries[o.id] # 0
  <2>1. removeEntry(b, o) = adjustPriceLevel(b1, o, -b.entries[o.id], -1)
    BY <1>3 DEF removeEntry
  <2> HIDE DEF b1
  <2>2. -b.entries[o.id] \in Int /\ -1 \in Int
    BY ResidueType
  <2> QED BY <1>1, <2>1, <2>2, AdjustFields DEF SameIndexes
<1> QED BY <1>2, <1>3

\* shrinkEntryResidue takes the delta, at most the residue, off the entry.
LEMMA ShrinkFields ==
  ASSUME NEW b \in BookType, NEW o \in Order, NEW delta \in Nat
  PROVE  /\ EntryResidue(b, o.id, delta) \in 0 .. MaxBase
         /\ shrinkEntryResidue(b, o, delta) \in BookType
         /\ SameIndexes(shrinkEntryResidue(b, o, delta), b)
         /\ shrinkEntryResidue(b, o, delta).entries
              = [b.entries EXCEPT ![o.id] = EntryResidue(b, o.id, delta)]
<1> DEFINE left == EntryResidue(b, o.id, delta)
           b1 == [b EXCEPT !.entries[o.id] = left]
           d == left - b.entries[o.id]
           n == IF left = 0 THEN -1 ELSE 0
<1>1. left \in 0 .. MaxBase
  BY ResidueType, BookAssumption DEF EntryResidue, LesserOf
<1>2. shrinkEntryResidue(b, o, delta) = adjustPriceLevel(b1, o, d, n)
  BY DEF shrinkEntryResidue
<1>3. d \in Int /\ n \in Int
  BY <1>1, ResidueType
<1> HIDE DEF left, d, n
<1>4. /\ b1 \in BookType /\ SameIndexes(b1, b)
      /\ b1.entries = [b.entries EXCEPT ![o.id] = left]
  BY <1>1, OrderKeys DEF BookType, SameIndexes
<1> HIDE DEF b1
<1>5. /\ shrinkEntryResidue(b, o, delta) \in BookType
      /\ SameIndexes(shrinkEntryResidue(b, o, delta), b)
      /\ shrinkEntryResidue(b, o, delta).entries = [b.entries EXCEPT ![o.id] = left]
  BY <1>2, <1>3, <1>4, AdjustFields DEF SameIndexes
<1> QED BY <1>1, <1>5 DEF left

----------------------------------------------------------------------------
(* The lifecycle functions.                                                 *)

\* r is b with the live order o recorded and indexed.
Entered(r, b, o) ==
  /\ r.orders = [b.orders EXCEPT ![o.id] = o]
  /\ r.clientIndex = ClientPut(b, o)
  /\ r.accountOpen = b.accountOpen \cup {o.id}
  /\ r.openCount = CountPut(b, o)
  /\ r.expiryIndex = ExpiryPut(b, o)
  /\ r.nextOrder = b.nextOrder

\* r is b with p recorded in place of o and o out of every index.
Closed(r, b, o, p) ==
  /\ r.orders = [b.orders EXCEPT ![o.id] = p]
  /\ r.clientIndex = ClientCut(b, o)
  /\ r.accountOpen = b.accountOpen \ {o.id}
  /\ r.openCount = CountCut(b, o)
  /\ r.expiryIndex = ExpiryCut(b, o)
  /\ r.nextOrder = b.nextOrder

\* OpenOrder of an order that rests.
LEMMA OpenRestingFields ==
  ASSUME NEW b \in BookType, NEW o \in Order, o.status \in Resting
  PROVE  /\ OpenOrder(b, o) \in BookType
         /\ Entered(OpenOrder(b, o), b, o)
         /\ OpenOrder(b, o).entries = [b.entries EXCEPT ![o.id] = o.rem]
         /\ OpenOrder(b, o).triggers = b.triggers
<1> DEFINE b1 == insertEntry(b, o)
           b2 == Indexed(b1, o)
           b3 == setOrder(b2, o)
<1>1. OpenOrder(b, o) = b3
  BY DEF OpenOrder
<1>2. /\ b1 \in BookType /\ SameIndexes(b1, b)
      /\ b1.entries = [b.entries EXCEPT ![o.id] = o.rem]
  BY InsertFields
<1> HIDE DEF b1
<1>3. /\ b2 \in BookType /\ SameRecords(b2, b1)
      /\ b2.clientIndex = ClientPut(b1, o)
      /\ b2.accountOpen = b1.accountOpen \cup {o.id}
      /\ b2.openCount = CountPut(b1, o)
      /\ b2.expiryIndex = ExpiryPut(b1, o)
  BY <1>2, IndexedFields
<1> HIDE DEF b2
<1>4. /\ b3 \in BookType
      /\ b3.orders = [b2.orders EXCEPT ![o.id] = o]
      /\ b3.entries = b2.entries
      /\ b3.clientIndex = b2.clientIndex
      /\ b3.accountOpen = b2.accountOpen
      /\ b3.openCount = b2.openCount
      /\ b3.triggers = b2.triggers
      /\ b3.expiryIndex = b2.expiryIndex
      /\ b3.nextOrder = b2.nextOrder
  BY <1>3, SetOrderFields
<1> HIDE DEF b3
<1> QED BY <1>1, <1>2, <1>3, <1>4
        DEF Entered, SameRecords, SameIndexes, ClientPut, CountPut, ExpiryPut

\* Unindexed followed by setOrder, as OpenOrder, EvictMakerOrder and
\* CancelOrder do it.
LEMMA CloseFields ==
  ASSUME NEW b \in BookType, NEW o \in Order, NEW p \in Order, p.id = o.id
  PROVE  /\ setOrder(Unindexed(b, o), p) \in BookType
         /\ Closed(setOrder(Unindexed(b, o), p), b, o, p)
         /\ setOrder(Unindexed(b, o), p).entries = b.entries
         /\ setOrder(Unindexed(b, o), p).triggers = b.triggers
<1> DEFINE b1 == Unindexed(b, o)
           b2 == setOrder(b1, p)
<1>1. /\ b1 \in BookType /\ SameRecords(b1, b)
      /\ b1.clientIndex = ClientCut(b, o)
      /\ b1.accountOpen = b.accountOpen \ {o.id}
      /\ b1.openCount = CountCut(b, o)
      /\ b1.expiryIndex = ExpiryCut(b, o)
  BY UnindexedFields
<1> HIDE DEF b1
<1>2. /\ b2 \in BookType
      /\ b2.orders = [b1.orders EXCEPT ![o.id] = p]
      /\ b2.entries = b1.entries
      /\ b2.clientIndex = b1.clientIndex
      /\ b2.accountOpen = b1.accountOpen
      /\ b2.openCount = b1.openCount
      /\ b2.triggers = b1.triggers
      /\ b2.expiryIndex = b1.expiryIndex
      /\ b2.nextOrder = b1.nextOrder
  BY <1>1, SetOrderFields
<1> HIDE DEF b2
<1>3. b2 \in BookType /\ Closed(b2, b, o, p) /\ b2.entries = b.entries /\ b2.triggers = b.triggers
  BY <1>1, <1>2 DEF Closed, SameRecords
<1> QED BY <1>3 DEF b1, b2

\* OpenOrder of an order that is already terminal.
LEMMA OpenTerminalFields ==
  ASSUME NEW b \in BookType, NEW o \in Order, o.status \in Terminal
  PROVE  /\ OpenOrder(b, o) \in BookType
         /\ Closed(OpenOrder(b, o), b, o, o)
         /\ OpenOrder(b, o).entries = b.entries
         /\ OpenOrder(b, o).triggers = b.triggers
<1>1. OpenOrder(b, o) = setOrder(Unindexed(b, o), o)
  BY DEF OpenOrder, Resting, Terminal
<1> QED BY <1>1, CloseFields

\* OpenTriggerOrder.
LEMMA OpenTriggerFields ==
  ASSUME NEW b \in BookType, NEW o \in Order
  PROVE  /\ OpenTriggerOrder(b, o) \in BookType
         /\ Entered(OpenTriggerOrder(b, o), b, o)
         /\ OpenTriggerOrder(b, o).entries = b.entries
         /\ OpenTriggerOrder(b, o).triggers = b.triggers \cup {o.id}
<1> DEFINE b1 == addTrigger(b, o)
           b2 == Indexed(b1, o)
           b3 == setOrder(b2, o)
<1>1. OpenTriggerOrder(b, o) = b3
  BY DEF OpenTriggerOrder
<1>2. /\ b1 \in BookType
      /\ b1.orders = b.orders /\ b1.entries = b.entries
      /\ b1.clientIndex = b.clientIndex /\ b1.accountOpen = b.accountOpen
      /\ b1.openCount = b.openCount /\ b1.expiryIndex = b.expiryIndex
      /\ b1.nextOrder = b.nextOrder
      /\ b1.triggers = b.triggers \cup {o.id}
  BY OrderKeys DEF addTrigger, BookType
<1> HIDE DEF b1
<1>3. /\ b2 \in BookType /\ SameRecords(b2, b1)
      /\ b2.clientIndex = ClientPut(b1, o)
      /\ b2.accountOpen = b1.accountOpen \cup {o.id}
      /\ b2.openCount = CountPut(b1, o)
      /\ b2.expiryIndex = ExpiryPut(b1, o)
  BY <1>2, IndexedFields
<1> HIDE DEF b2
<1>4. /\ b3 \in BookType
      /\ b3.orders = [b2.orders EXCEPT ![o.id] = o]
      /\ b3.entries = b2.entries
      /\ b3.clientIndex = b2.clientIndex
      /\ b3.accountOpen = b2.accountOpen
      /\ b3.openCount = b2.openCount
      /\ b3.triggers = b2.triggers
      /\ b3.expiryIndex = b2.expiryIndex
      /\ b3.nextOrder = b2.nextOrder
  BY <1>3, SetOrderFields
<1> HIDE DEF b3
<1> QED BY <1>1, <1>2, <1>3, <1>4
        DEF Entered, SameRecords, ClientPut, CountPut, ExpiryPut
=============================================================================
