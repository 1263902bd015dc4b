-------------------------- MODULE OrderBookProofs --------------------------
(* The tables of the order book agree in every reachable state, for any     *)
(* number of traders, markets, orders and requests.                         *)
EXTENDS OrderBook, OrderBookAgreement

\* No account has more locked than it owns.
Covered(k) == k \in BankType /\ \A r \in Rows : k.locked[r] <= k.bal[r]

\* The inductive invariant.  TablesAgree adds to the properties that records
\* sit under their own index (so the next index is fresh and no key is ever
\* shared) and that the order in transit is recorded open (so OpenOrder gives
\* it back its entry and expiry row).
IInv ==
  /\ TablesAgree(book, {active})
  /\ Covered(bank)
  /\ active \in OrderIds \cup {0}

----------------------------------------------------------------------------
(* The balance sheet.                                                       *)

\* A spot lock is an amount of an asset the owner has a row for.
LEMMA LockType ==
  ASSUME NEW o \in Order
  PROVE  <<o.owner, LockAsset(o)>> \in Rows /\ LockAmount(o) \in Nat
<1>1. o.owner \in Accounts /\ o.market \in Markets
  BY BookAssumption DEF Order
<1>2. o.rem \in Nat /\ o.price \in Nat
  BY BookAssumption DEF Order, Prices
<1>3. o.rem * o.price \in Nat
  BY <1>2
<1>4. LockAsset(o) \in Assets
  BY <1>1, BookAssumption DEF LockAsset
<1> QED BY <1>1, <1>2, <1>3, <1>4 DEF Rows, LockAmount

\* applySpotLockOnOpen locks only what CanLock saw available.
LEMMA LockKeepsCovered ==
  ASSUME NEW k, NEW o \in Order, Covered(k), CanLockSpot(k, o)
  PROVE  Covered(applySpotLockOnOpen(k, o))
<1> DEFINE w == <<o.owner, LockAsset(o)>>
           n == LockAmount(o)
           r == applySpotLockOnOpen(k, o)
<1>1. w \in Rows /\ n \in Nat
  BY LockType
<1>2. /\ k \in BankType /\ k.bal \in [Rows -> Nat] /\ k.locked \in [Rows -> Nat]
      /\ \A x \in Rows : k.locked[x] <= k.bal[x]
  BY DEF Covered, BankType
<1>3. CASE o.market \notin SpotMarkets
  BY <1>3 DEF applySpotLockOnOpen
<1>4. CASE o.market \in SpotMarkets
  <2>1. n = 0 \/ k.bal[w] - k.locked[w] >= n
    BY <1>4 DEF CanLockSpot, CanLock
  <2>2. r = [k EXCEPT !.locked[w] = @ + n]
    BY <1>4 DEF applySpotLockOnOpen, IncreaseLockedBalance
  <2> HIDE DEF w, n, r
  <2> DEFINE L == [k.locked EXCEPT ![w] = @ + n]
  <2>3. L \in [Rows -> Nat] /\ \A x \in Rows : L[x] <= k.bal[x]
    BY <1>1, <1>2, <2>1
  <2>4. r = [k EXCEPT !.locked = L]
    BY <2>2
  <2> HIDE DEF L
  <2>5. r \in BankType /\ r.locked = L /\ r.bal = k.bal
    BY <1>2, <2>3, <2>4 DEF BankType
  <2>6. Covered(r)
    BY <2>3, <2>5 DEF Covered
  <2> QED BY <2>6 DEF r
<1> QED BY <1>3, <1>4

\* releaseSpotLockOnClose never takes more out of a lock than is in it.
LEMMA ReleaseKeepsCovered ==
  ASSUME NEW k, NEW o \in Order, Covered(k)
  PROVE  Covered(releaseSpotLockOnClose(k, o))
<1> DEFINE w == <<o.owner, LockAsset(o)>>
           n == LockAmount(o)
           r == releaseSpotLockOnClose(k, o)
<1>1. w \in Rows /\ n \in Nat
  BY LockType
<1>2. /\ k \in BankType /\ k.bal \in [Rows -> Nat] /\ k.locked \in [Rows -> Nat]
      /\ \A x \in Rows : k.locked[x] <= k.bal[x]
  BY DEF Covered, BankType
<1>3. CASE o.market \notin SpotMarkets
  BY <1>3 DEF releaseSpotLockOnClose
<1>4. CASE o.market \in SpotMarkets
  <2>1. r = [k EXCEPT !.locked[w] = @ - LesserOf(n, @)]
    BY <1>4 DEF releaseSpotLockOnClose, DecreaseLockedBalance
  <2> HIDE DEF w, n, r
  <2> DEFINE L == [k.locked EXCEPT ![w] = @ - LesserOf(n, @)]
  <2>2. L \in [Rows -> Nat] /\ \A x \in Rows : L[x] <= k.bal[x]
    BY <1>1, <1>2 DEF LesserOf
  <2>3. r = [k EXCEPT !.locked = L]
    BY <2>1
  <2> HIDE DEF L
  <2>4. r \in BankType /\ r.locked = L /\ r.bal = k.bal
    BY <1>2, <2>2, <2>3 DEF BankType
  <2>5. Covered(r)
    BY <2>2, <2>4 DEF Covered
  <2> QED BY <2>5 DEF r
<1> QED BY <1>3, <1>4

\* What OpenOrder and CancelOrder do to the balance sheet.
LEMMA OpenKeepsCovered ==
  ASSUME NEW k, NEW o \in Order, Covered(k), OpenOrderLocks(k, o)
  PROVE  Covered(OpenOrderBank(k, o))
BY LockKeepsCovered DEF OpenOrderBank, OpenOrderLocks

\* CancelOrder and EvictMakerOrder only give locks back: what was covered by
\* balances stays covered.
LEMMA CancelKeepsCovered ==
  ASSUME NEW b \in BookType, NEW k, NEW id \in OrderIds, Covered(k)
  PROVE  Covered(CancelOrderBank(b, k, id))
<1>1. b.orders[id].status \in Resting => b.orders[id] \in Order
  BY StoredOrder DEF NoOrder, Resting
<1> QED BY <1>1, ReleaseKeepsCovered DEF CancelOrderBank

----------------------------------------------------------------------------
(* What a matching pass leaves of an order.                                 *)

\* Only residue and status change, and a residue that rests is not empty.
LEMMA MatchedFacts ==
  ASSUME NEW o \in Order, NEW p \in Matched(o)
  PROVE  /\ p \in Order /\ SameKeys(p, o)
         /\ p.status \in Resting \/ p.status \in Terminal
         /\ p.status \in Resting => p.rem > 0
         /\ p.rem <= o.init
<1>1. o.init \in 1 .. MaxBase /\ MaxBase \in Nat
  BY BookAssumption DEF Order
<1>2. PICK x \in Outcomes(o) : p = [o EXCEPT !.rem = x.rem, !.status = x.status]
  BY DEF Matched
<1>3. /\ x.rem \in 0 .. o.init
      /\ x.status \in Resting \/ x.status \in Terminal
      /\ x.status \in Resting => x.rem = o.init \/ x.rem \in 1 .. o.init - 1
  BY DEF Outcomes, Resting, Terminal
<1>4. x.rem \in 0 .. MaxBase /\ x.status \in Live \cup Terminal
  BY <1>1, <1>3 DEF Live
<1>5. p \in Order /\ SameKeys(p, o) /\ p.rem = x.rem /\ p.status = x.status
  BY <1>2, <1>4 DEF Order, SameKeys
<1>6. x.rem <= o.init /\ (x.status \in Resting => x.rem > 0)
  BY <1>1, <1>3
<1> QED BY <1>3, <1>5, <1>6

\* An activated order keeps its keys when it becomes executable.
LEMMA ExecutableFacts ==
  ASSUME NEW o \in Order
  PROVE  Executable(o) \in Order /\ SameKeys(Executable(o), o)
<1>1. 0 \in Prices
  BY BookAssumption DEF Prices
<1> QED BY <1>1 DEF Executable, Order, SameKeys

\* A match result may be opened wherever the order it came from may.
LEMMA MayOpenMatched ==
  ASSUME NEW b, NEW act, NEW o \in Order, NEW p \in Order, SameKeys(p, o), MayOpen(b, act, o)
  PROVE  MayOpen(b, act, p)
BY DEF MayOpen, SameKeys, ClientKey

----------------------------------------------------------------------------
(* The invariant is inductive.                                              *)

\* An empty genesis satisfies the inductive invariant.
LEMMA InitIInv == Init => IInv
<1> SUFFICES ASSUME Init PROVE IInv
  OBVIOUS
<1>1. 0 \notin OrderIds
  BY DEF OrderIds
<1>2. EmptyBook \in BookType
  BY BookAssumption DEF EmptyBook, BookType
<1>3. Covered(bank)
  BY CallerAssumption DEF Init, Covered, BankType
<1>4. /\ \A i \in OrderIds : book.orders[i] = NoOrder /\ book.entries[i] = 0
      /\ \A c \in ClientKeys : book.clientIndex[c] = 0
      /\ book.accountOpen = {} /\ book.triggers = {} /\ book.expiryIndex = {}
      /\ \A c \in CountKeys : book.openCount[c] = 0
  BY DEF Init, EmptyBook
<1>5. \A S : S \subseteq Live => StatusIn(book, S) = {}
  BY <1>4 DEF StatusIn, NoOrder, Live, Resting
<1>6. StatusIn(book, Live) = {} /\ StatusIn(book, Resting) = {} /\ StatusIn(book, {"pending"}) = {}
  BY <1>5 DEF Live
<1>7. OpenOrdersAgreeIn(book)
  <2>1. \A c \in CountKeys : {i \in book.accountOpen : CountKey(book.orders[i]) = c} = {}
    BY <1>4
  <2> QED BY <1>4, <1>6, <2>1, FS_EmptySet DEF OpenOrdersAgreeIn
<1>8. EntriesAgreeIn(book, {active}) /\ SweepsAgreeIn(book, {active}) /\ ClientsAgreeIn(book)
  BY <1>4, <1>6 DEF EntriesAgreeIn, SweepsAgreeIn, ClientsAgreeIn
<1>9. Numbered(book) /\ active = 0
  BY <1>4 DEF Init, Numbered
<1> QED BY <1>1, <1>2, <1>3, <1>7, <1>8, <1>9 DEF IInv, TablesAgree, Init

\* Every lifecycle call of the keeper preserves the inductive invariant.
LEMMA NextIInv == IInv /\ [Next]_vars => IInv'
<1> SUFFICES ASSUME IInv, [Next]_vars PROVE IInv'
  OBVIOUS
<1>0. 0 \notin OrderIds
  BY DEF OrderIds
<1>t. book \in BookType /\ TablesAgree(book, {active}) /\ Covered(bank) /\ active \in OrderIds \cup {0}
  BY DEF IInv, TablesAgree
<1>1. ASSUME NEW r \in Requests, Place(r) PROVE IInv'
  <2> DEFINE n == NewOrder(book, r, "open")
             b == Allocated(book, r)
  <2>1. r \in Request /\ "open" \in Live \cup Terminal
    BY CallerAssumption DEF Live, Resting
  <2>2. /\ TablesAgree(b, {active}) /\ n \in Order
        /\ MayOpen(b, {active}, n)
        /\ b.orders[n.id] = NoOrder
    BY <1>t, <1>1, <2>1, AllocateAgrees DEF Place
  <2> HIDE DEF b
  <2>3. PICK o \in Matched(n) : /\ OpenOrderLocks(bank, o)
                                /\ OpenOrderFits(o)
                                /\ book' = OpenOrder(b, o)
                                /\ bank' = OpenOrderBank(bank, o)
    BY <1>1 DEF Place, b
  <2> HIDE DEF n
  <2>4. /\ o \in Order /\ SameKeys(o, n)
        /\ o.status \in Resting \/ o.status \in Terminal
        /\ o.status \in Resting => o.rem > 0
    BY <2>2, MatchedFacts
  <2>5. MayOpen(b, {active}, o)
    BY <2>2, <2>4, MayOpenMatched
  <2>6. active = 0 /\ active' = 0
    BY <1>1 DEF Place
  <2>7. \A i \in OrderIds : i \in {active'} <=> i \in {active} /\ i # o.id
    BY <1>0, <2>6
  <2>8. TablesAgree(book', {active'})
    BY <2>2, <2>3, <2>4, <2>5, <2>7, OpenRestingAgrees, OpenTerminalAgrees
  <2>9. Covered(bank')
    BY <1>t, <2>3, <2>4, OpenKeepsCovered
  <2> QED BY <2>6, <2>8, <2>9 DEF IInv, Covered
<1>2. ASSUME NEW r \in Requests, PlaceTrigger(r) PROVE IInv'
  <2> DEFINE n == NewOrder(book, r, "pending")
             b == Allocated(book, r)
  <2>1. r \in Request /\ "pending" \in Live \cup Terminal
    BY CallerAssumption DEF Live
  <2>2. /\ TablesAgree(b, {active}) /\ n \in Order
        /\ MayOpen(b, {active}, n)
        /\ b.orders[n.id] = NoOrder /\ n.status = "pending"
    <3>1. CanAllocate(book, r) /\ ~HasOpenClientOrder(book, r.market, r.owner, r.client)
      BY <1>2 DEF PlaceTrigger
    <3> QED BY <1>t, <2>1, <3>1, AllocateAgrees
  <2>3. book' = OpenTriggerOrder(b, n) /\ UNCHANGED <<bank, active>>
    BY <1>2 DEF PlaceTrigger
  <2> HIDE DEF b, n
  <2>4. TablesAgree(book', {active'})
    BY <2>2, <2>3, OpenTriggerAgrees
  <2> QED BY <1>t, <2>3, <2>4 DEF IInv, Covered
<1>3. ASSUME NEW id \in OrderIds, Activate(id) PROVE IInv'
  <2>1. \A i \in OrderIds : i \in {active'} <=> i \in {active} \/ i = id
    BY <1>0, <1>3 DEF Activate
  <2>2. TablesAgree(book', {active'})
    BY <1>t, <1>3, <2>1, ActivateAgrees DEF Activate
  <2> QED BY <1>t, <1>3, <2>2 DEF IInv, Activate, Covered
<1>4. ASSUME NEW id \in OrderIds, Evict(id) PROVE IInv'
  <2>1. book.entries[id] # 0 /\ book.orders[id].status \in Resting /\ UNCHANGED active
    BY <1>t, <1>4 DEF Evict, TablesAgree, EntriesAgreeIn, StatusIn
  <2>2. book.orders[id] \in Order
    BY <1>t, <2>1, StoredOrder DEF NoOrder, Resting
  <2>3. TablesAgree(book', {active'})
    BY <1>t, <1>4, <2>1, EvictAgrees DEF Evict
  <2>4. Covered(bank')
    BY <1>t, <1>4, <2>2, ReleaseKeepsCovered DEF Evict
  <2> QED BY <1>t, <2>1, <2>3, <2>4 DEF IInv, Covered
<1>5. ASSUME NEW id \in OrderIds, Cancel(id) PROVE IInv'
  <2>1. active = 0 /\ UNCHANGED active
    BY <1>5 DEF Cancel
  <2>2. \A i \in OrderIds : i \in {active'} <=> i \in {active} /\ i # id
    BY <1>0, <2>1
  <2>3. TablesAgree(book', {active'})
    BY <1>t, <1>5, <2>2, CancelAgrees DEF Cancel
  <2>4. Covered(bank')
    BY <1>t, <1>5, CancelKeepsCovered DEF Cancel
  <2> QED BY <1>t, <2>1, <2>3, <2>4 DEF IInv, Covered
<1>6. ASSUME NEW id \in OrderIds, NEW base \in 1 .. MaxBase, Fill(id, base) PROVE IInv'
  <2>1. base \in Nat /\ book.entries[id] # 0 /\ UNCHANGED <<bank, active>>
    BY <1>6, BookAssumption DEF Fill, FillAgrees
  <2>2. TablesAgree(book', {active'})
    BY <1>t, <1>6, <2>1, FillKeepsAgreement DEF Fill
  <2> QED BY <1>t, <2>1, <2>2 DEF IInv, Covered
<1>7. ASSUME Reopen PROVE IInv'
  <2> DEFINE n == Executable(book.orders[active])
  <2>1. active \in OrderIds /\ active' = 0 /\ book.orders[active].status = "open"
    BY <1>t, <1>7 DEF Reopen, TablesAgree
  <2>2. /\ book.orders[active] \in Order /\ book.orders[active].id = active
        /\ active < book.nextOrder
    BY <1>t, <2>1, StoredOrder DEF NoOrder, TablesAgree, Numbered
  <2>3. n \in Order /\ SameKeys(n, book.orders[active])
    BY <2>2, ExecutableFacts
  <2>4. MayOpen(book, {active}, n)
    <3>1. book.orders[active].client # 0
            => book.clientIndex[ClientKey(book.orders[active])] = active
      BY <1>t, <2>1 DEF TablesAgree, ClientsAgreeIn, StatusIn, Live, Resting
    <3>2. n.id = active /\ n.client = book.orders[active].client
          /\ ClientKey(n) = ClientKey(book.orders[active])
      BY <2>2, <2>3 DEF SameKeys, ClientKey
    <3> HIDE DEF n
    <3> QED BY <2>2, <2>3, <3>1, <3>2 DEF MayOpen
  <2>5. PICK o \in Matched(n) : /\ OpenOrderLocks(bank, o)
                                /\ OpenOrderFits(o)
                                /\ book' = OpenOrder(book, o)
                                /\ bank' = OpenOrderBank(bank, o)
    BY <1>7 DEF Reopen
  <2>6. n.id = active
    BY <2>2, <2>3 DEF SameKeys
  <2> HIDE DEF n
  <2>7. /\ o \in Order /\ SameKeys(o, n)
        /\ o.status \in Resting \/ o.status \in Terminal
        /\ o.status \in Resting => o.rem > 0
    BY <2>3, MatchedFacts
  <2>8. MayOpen(book, {active}, o)
    BY <2>3, <2>4, <2>7, MayOpenMatched
  <2>9. \A i \in OrderIds : i \in {active'} <=> i \in {active} /\ i # o.id
    BY <1>0, <2>1, <2>6, <2>7 DEF SameKeys
  <2>10. TablesAgree(book', {active'})
    BY <1>t, <2>5, <2>7, <2>8, <2>9, OpenRestingAgrees, OpenTerminalAgrees
  <2>11. Covered(bank')
    BY <1>t, <2>5, <2>7, OpenKeepsCovered
  <2> QED BY <2>1, <2>10, <2>11 DEF IInv, Covered
<1>8. ASSUME Abandon PROVE IInv'
  <2>1. active \in OrderIds /\ active' = 0 /\ book.orders[active].status = "open"
    BY <1>t, <1>8 DEF Abandon, TablesAgree
  <2>2. book.orders[active] \in Order
    BY <1>t, <2>1, StoredOrder DEF NoOrder
  <2>3. \A i \in OrderIds : i \in {active'} <=> i \in {active} /\ i # active
    BY <1>0, <2>1
  <2>4. TablesAgree(book', {active'})
    BY <1>t, <1>8, <2>1, <2>3, CancelAgrees DEF Abandon
  <2>5. Covered(bank')
    <3>1. CASE bank' = CancelOrderBank(book, bank, active)
      BY <1>t, <2>1, <3>1, CancelKeepsCovered
    <3>2. ASSUME NEW o \in Matched(Executable(book.orders[active])),
                 OpenOrderLocks(bank, o),
                 bank' = CancelOrderBank(book, OpenOrderBank(bank, o), active)
          PROVE  Covered(bank')
      <4>1. o \in Order
        BY <2>2, ExecutableFacts, MatchedFacts
      <4>2. Covered(OpenOrderBank(bank, o))
        BY <1>t, <3>2, <4>1, OpenKeepsCovered
      <4> QED BY <1>t, <2>1, <3>2, <4>2, CancelKeepsCovered
    <3> QED BY <1>8, <3>1, <3>2 DEF Abandon
  <2> QED BY <2>1, <2>4, <2>5 DEF IInv, Covered
<1>9. CASE UNCHANGED vars
  BY <1>t, <1>9 DEF vars, IInv, Covered, TablesAgree
<1> QED BY <1>1, <1>2, <1>3, <1>4, <1>5, <1>6, <1>7, <1>8, <1>9 DEF Next

----------------------------------------------------------------------------
(* The theorems.                                                            *)

\* The inductive invariant holds whatever sequence of lifecycle calls x/matching
\* makes.
THEOREM Invariance == Spec => []IInv
BY InitIInv, NextIInv, PTL DEF Spec

\* The keeper never stores a row outside its schema.
THEOREM TypeCorrect == Spec => []TypeOK
<1>1. IInv => TypeOK
  BY DEF IInv, TypeOK, TablesAgree, Covered
<1> QED BY <1>1, Invariance, PTL

\* The entry of a resting order has the residue of the order, and no other
\* order has one, whatever mix of fills, evictions, cancels and activations
\* ran before.
THEOREM EntriesInLockStep == Spec => []EntriesAgree
<1>1. IInv => EntriesAgree
  BY DEF IInv, EntriesAgree, TablesAgree
<1> QED BY <1>1, Invariance, PTL

\* The account-open index names exactly the live orders and its counter, on
\* which the open-order cap relies, is their number.
THEOREM CountersExact == Spec => []OpenOrdersAgree
<1>1. IInv => OpenOrdersAgree
  BY DEF IInv, OpenOrdersAgree, TablesAgree
<1> QED BY <1>1, Invariance, PTL

\* The client index is exact although FillMakerOrder deletes rows without
\* looking.
THEOREM ClientIndexExact == Spec => []ClientsAgree
<1>1. IInv => ClientsAgree
  BY DEF IInv, ClientsAgree, TablesAgree
<1> QED BY <1>1, Invariance, PTL

\* The trigger and expiry sweeps see every order they must and no other.
THEOREM SweepsExact == Spec => []SweepsAgree
<1>1. IInv => SweepsAgree
  BY DEF IInv, SweepsAgree, TablesAgree
<1> QED BY <1>1, Invariance, PTL

\* The order records determine every secondary table of the keeper, whatever
\* mix of placements, fills, evictions, cancels and activations ran before.
THEOREM IndexesExact == Spec => []IndexesAgree
<1>1. EntriesAgree /\ OpenOrdersAgree /\ ClientsAgree /\ SweepsAgree => IndexesAgree
  BY DEF IndexesAgree
<1> QED BY <1>1, EntriesInLockStep, CountersExact, ClientIndexExact, SweepsExact, PTL

\* No sequence of locks and releases locks more than an account owns.
THEOREM LocksNeverExceed == Spec => []LocksCovered
<1>1. IInv => LocksCovered
  BY DEF IInv, LocksCovered, Covered
<1> QED BY <1>1, Invariance, PTL

\* The residue assertion in FillMakerOrder cannot fire.
THEOREM FillsStayInStep == Spec => []FillNeverDesyncs
<1>1. IInv => FillNeverDesyncs
  <2>1. \A base \in 1 .. MaxBase : base \in Nat
    BY BookAssumption
  <2> QED BY <2>1, FillKeepsAgreement DEF IInv, FillNeverDesyncs
<1> QED BY <1>1, Invariance, PTL
=============================================================================
