--------------------------- MODULE MarketProofs ----------------------------
(***************************************************************************)
(* Theorems about Market, for any number of users, items, sales and        *)
(* reviews and for every combination of write outcomes.  All variables     *)
(* keep their types, and whatever is listed can be sold.  No item is sold  *)
(* twice, a sale always agrees with its item, ids are never reused while a *)
(* row has them, memory is never behind the tables, and what a client was  *)
(* told is durable.  The five about sales are proved together, as one      *)
(* inductive invariant, SalesInv: that a published item has no sale        *)
(* follows from the rows of sold items being sold in memory (MemoryLeads), *)
(* and that a write hits only the row of its own record follows from the   *)
(* freshness of ids.                                                       *)
(***************************************************************************)
EXTENDS Market, FiniteSetTheorems, TLAPS

-----------------------------------------------------------------------------
(* Counting *)

(* Induction up to n, as a fact about the set of the numbers that have the *)
(* property: among the intervals 0 .. k with k outside it none is smallest. *)
LEMMA CountingUp ==
  ASSUME NEW n \in Nat, NEW S, 0 \in S,
         \A k \in 0 .. (n - 1) : k \in S => k + 1 \in S
  PROVE  \A k \in 0 .. n : k \in S
<1>1. SUFFICES ASSUME NEW m \in 0 .. n, m \notin S PROVE FALSE
  OBVIOUS
<1> DEFINE Bad == {0 .. k : k \in (0 .. n) \ S}
<1>2. IsWellFoundedOn(StrictSubsetOrdering(0 .. n), FiniteSubsetsOf(0 .. n))
  BY FS_StrictSubsetOrderingWellFounded
<1>3. Bad \subseteq FiniteSubsetsOf(0 .. n)
  <2>1. \A k \in 0 .. n : 0 .. k \in SUBSET (0 .. n) /\ IsFiniteSet(0 .. k)
    BY FS_Interval
  <2>. QED  BY <2>1 DEF FiniteSubsetsOf
<1>4. Bad # {}
  BY <1>1
<1>5. PICK x \in Bad : \A y \in Bad : ~ (<<y, x>> \in StrictSubsetOrdering(0 .. n))
  BY <1>2, <1>3, <1>4, WFMin
<1>6. PICK k \in (0 .. n) \ S : x = 0 .. k
  OBVIOUS
<1>7. k # 0 /\ k - 1 \in 0 .. (n - 1)
  BY <1>6
<1>8. k - 1 \notin S
  <2>1. (k - 1) + 1 = k
    BY <1>7
  <2>. QED  BY <1>6, <1>7, <2>1
<1>9. 0 .. (k - 1) \in Bad
  BY <1>7, <1>8
<1>10. <<0 .. (k - 1), 0 .. k>> \in StrictSubsetOrdering(0 .. n)
  <2>1. /\ 0 .. (k - 1) \in SUBSET (0 .. n) /\ 0 .. k \in SUBSET (0 .. n)
        /\ 0 .. (k - 1) \subseteq 0 .. k
        /\ k \in 0 .. k /\ k \notin 0 .. (k - 1)
    BY <1>6, <1>7
  <2>. QED  BY <2>1 DEF StrictSubsetOrdering
<1>. QED  BY <1>5, <1>6, <1>9, <1>10

-----------------------------------------------------------------------------
(* What a record that has a user for its seller or its buyer is *)

LEMMA ItemOfSeller ==
  ASSUME NEW item \in Item \cup {NoItem}, item.seller \in Users
  PROVE  item \in Item
  BY StoreAssumption DEF NoItem

LEMMA TxnOfBuyer ==
  ASSUME NEW txn \in Txn \cup {NoTxn}, txn # NoTxn
  PROVE  txn \in Txn
  OBVIOUS

-----------------------------------------------------------------------------
(* The tables keep their types under every write *)

LEMMA SaveItemType ==
  ASSUME itemRows \in [ItemIds -> Item \cup {NoItem}],
         NEW i \in ItemIds, NEW item \in Item, NEW o, SaveItem(i, item, o)
  PROVE  itemRows' \in [ItemIds -> Item \cup {NoItem}]
<1>1. UpsertedItem(itemRows[i], item) \in Item
  BY DEF UpsertedItem, Item
<1>. QED  BY <1>1 DEF SaveItem

LEMMA SaveTransactionType ==
  ASSUME txnRows \in [TxnIds -> Txn \cup {NoTxn}],
         NEW t \in TxnIds, NEW txn \in Txn, NEW o, SaveTransaction(t, txn, o)
  PROVE  txnRows' \in [TxnIds -> Txn \cup {NoTxn}]
<1>1. UpsertedTxn(txnRows[t], txn) \in Txn
  BY DEF UpsertedTxn, Txn
<1>. QED  BY <1>1 DEF SaveTransaction

LEMMA SaveReviewType ==
  ASSUME reviewRows \in [ReviewIds -> Review \cup {NoReview}],
         NEW r \in ReviewIds, NEW review \in Review, NEW o,
         SaveReview(r, review, o)
  PROVE  reviewRows' \in [ReviewIds -> Review \cup {NoReview}]
<1>1. UpsertedReview(reviewRows[r], review) \in Review \cup {NoReview}
  BY DEF UpsertedReview
<1>. QED  BY <1>1 DEF SaveReview

-----------------------------------------------------------------------------
(* Type correctness *)

LEMMA CreateItemType ==
  ASSUME TypeOK,
         NEW u \in Users, NEW status \in {"draft", "published", "sold"},
         NEW ready \in BOOLEAN, NEW obsolete \in BOOLEAN, NEW o \in Outcomes,
         CreateItem(u, status, ready, obsolete, o)
  PROVE  TypeOK'
<1>. DEFINE i == nextItemID
            item == [seller |-> u, status |-> status,
                     hidden |-> FALSE, ready |-> ready, obsolete |-> obsolete]
<1>1. i \in ItemIds /\ i + 1 \in 1 .. (MaxItems + 1)
  BY StoreAssumption DEF CreateItem, TypeOK, StoreTypeOK, ItemIds
<1>2. item \in Item
  BY DEF Item
<1>3. itemRows' \in [ItemIds -> Item \cup {NoItem}]
  BY <1>1, <1>2, SaveItemType DEF CreateItem, TypeOK, StoreTypeOK
<1>4. items' \in [ItemIds -> Item \cup {NoItem}]
  BY <1>1, <1>2 DEF CreateItem, TypeOK, StoreTypeOK
<1>. QED
  BY <1>1, <1>3, <1>4 DEF CreateItem, TypeOK, StoreTypeOK, receiptVars

LEMMA UpdateItemType ==
  ASSUME TypeOK,
         NEW u \in Users, NEW i \in ItemIds,
         NEW status \in {"draft", "published", "sold"},
         NEW ready \in BOOLEAN, NEW obsolete \in BOOLEAN, NEW o \in Outcomes,
         UpdateItem(u, i, status, ready, obsolete, o)
  PROVE  TypeOK'
<1>. DEFINE next == Mutated(items[i], status, ready, obsolete)
<1>1. items[i] \in Item
  BY ItemOfSeller DEF UpdateItem, TypeOK, StoreTypeOK
<1>2. next \in Item
  BY <1>1 DEF Mutated, Item
<1>3. itemRows' \in [ItemIds -> Item \cup {NoItem}]
  BY <1>2, SaveItemType DEF UpdateItem, TypeOK, StoreTypeOK
<1>4. items' \in [ItemIds -> Item \cup {NoItem}]
  BY <1>2 DEF UpdateItem, TypeOK, StoreTypeOK
<1>. QED
  BY <1>3, <1>4 DEF UpdateItem, TypeOK, StoreTypeOK, receiptVars

LEMMA DeleteUnsoldItemType ==
  ASSUME TypeOK, NEW u \in Users, NEW i \in ItemIds, NEW o \in Outcomes,
         DeleteUnsoldItem(u, i, o)
  PROVE  TypeOK'
<1>1. items[i] \in Item
  BY ItemOfSeller DEF DeleteUnsoldItem, TypeOK, StoreTypeOK
<1>2. Deleted(items[i]) \in Item
  BY <1>1 DEF Deleted, Item
<1>3. itemRows' \in [ItemIds -> Item \cup {NoItem}]
  BY <1>2, SaveItemType DEF DeleteUnsoldItem, TypeOK, StoreTypeOK
<1>4. items' \in [ItemIds -> Item \cup {NoItem}]
  BY <1>2 DEF DeleteUnsoldItem, TypeOK, StoreTypeOK
<1>. QED
  BY <1>3, <1>4 DEF DeleteUnsoldItem, TypeOK, StoreTypeOK, receiptVars

LEMMA DeleteSoldItemType ==
  ASSUME TypeOK, NEW u \in Users, NEW i \in ItemIds, NEW t \in TxnIds,
         NEW o1 \in Outcomes, NEW o2 \in Outcomes,
         DeleteSoldItem(u, i, t, o1, o2)
  PROVE  TypeOK'
<1>. DEFINE txn == [transactions[t] EXCEPT !.sellerHidden = TRUE]
<1>1. items[i] \in Item
  BY ItemOfSeller DEF DeleteSoldItem, SaleClosed, TypeOK, StoreTypeOK
<1>2. Deleted(items[i]) \in Item
  BY <1>1 DEF Deleted, Item
<1>3. transactions[t] \in Txn
  BY DEF DeleteSoldItem, SaleClosed, TypeOK, StoreTypeOK, NoTxn
<1>4. txn \in Txn
  BY <1>3 DEF Txn
<1>5. txnRows' \in [TxnIds -> Txn \cup {NoTxn}]
  BY <1>4, SaveTransactionType DEF DeleteSoldItem, TypeOK, StoreTypeOK
<1>6. itemRows' \in [ItemIds -> Item \cup {NoItem}]
  BY <1>2, SaveItemType DEF DeleteSoldItem, TypeOK, StoreTypeOK
<1>7. items' \in [ItemIds -> Item \cup {NoItem}]
  BY <1>2 DEF DeleteSoldItem, TypeOK, StoreTypeOK
<1>8. /\ transactions' \in [TxnIds -> Txn \cup {NoTxn}]
      /\ receipts' \in [TxnIds -> Txn \cup {NoTxn}]
  BY <1>4 DEF DeleteSoldItem, TypeOK, StoreTypeOK
<1>. QED
  BY <1>5, <1>6, <1>7, <1>8 DEF DeleteSoldItem, TypeOK, StoreTypeOK

LEMMA ForgetType ==
  ASSUME Forget
  PROVE  /\ serving' \in BOOLEAN
         /\ items' \in [ItemIds -> Item \cup {NoItem}]
         /\ transactions' \in [TxnIds -> Txn \cup {NoTxn}]
         /\ reviews' \in [ReviewIds -> Review \cup {NoReview}]
         /\ ratings' \in [Users -> Ratings]
         /\ nextItemID' \in 1 .. (MaxItems + 1)
         /\ nextTxnID' \in 1 .. (MaxTxns + 1)
         /\ nextReviewID' \in 1 .. (MaxReviews + 1)
<1>1. /\ 1 \in 1 .. (MaxItems + 1)
      /\ 1 \in 1 .. (MaxTxns + 1)
      /\ 1 \in 1 .. (MaxReviews + 1)
  BY StoreAssumption
<1>. QED  BY <1>1 DEF Forget, NoItems, NoTxns, NoReviews, Ratings

LEMMA DeleteSoldItemKilledType ==
  ASSUME TypeOK, NEW u \in Users, NEW i \in ItemIds, NEW t \in TxnIds,
         DeleteSoldItemKilled(u, i, t)
  PROVE  TypeOK'
<1>. DEFINE txn == [transactions[t] EXCEPT !.sellerHidden = TRUE]
<1>1. transactions[t] \in Txn
  BY DEF DeleteSoldItemKilled, SaleClosed, TypeOK, StoreTypeOK, NoTxn
<1>2. txn \in Txn
  BY <1>1 DEF Txn
<1>3. txnRows' \in [TxnIds -> Txn \cup {NoTxn}]
  BY <1>2, SaveTransactionType DEF DeleteSoldItemKilled, TypeOK, StoreTypeOK
<1>. QED
  BY <1>3, ForgetType
  DEF DeleteSoldItemKilled, TypeOK, StoreTypeOK, receiptVars

LEMMA BuyableItem ==
  ASSUME TypeOK, NEW u \in Users, NEW i \in ItemIds, Buyable(u, i)
  PROVE  /\ items[i] \in Item
         /\ [items[i] EXCEPT !.status = "sold"] \in Item
<1>1. items[i] \in Item
  BY DEF Buyable, TypeOK, StoreTypeOK, NoItem
<1>. QED  BY <1>1 DEF Item

LEMMA PurchaseType ==
  ASSUME TypeOK, NEW u \in Users, NEW i \in ItemIds,
         NEW status \in {"active", "pending"},
         NEW o1 \in Outcomes, NEW o2 \in Outcomes,
         Purchase(u, i, status, o1, o2)
  PROVE  TypeOK'
<1>. DEFINE t == nextTxnID
            txn == SoldTo(u, i, status)
<1>1. /\ items[i] \in Item
      /\ [items[i] EXCEPT !.status = "sold"] \in Item
  BY BuyableItem DEF Purchase
<1>2. t \in TxnIds /\ t + 1 \in 1 .. (MaxTxns + 1)
  BY StoreAssumption DEF Purchase, TypeOK, StoreTypeOK, TxnIds
<1>3. txn \in Txn
  BY <1>1 DEF SoldTo, Txn, Item
<1>4. txnRows' \in [TxnIds -> Txn \cup {NoTxn}]
  BY <1>2, <1>3, SaveTransactionType DEF Purchase, TypeOK, StoreTypeOK
<1>5. itemRows' \in [ItemIds -> Item \cup {NoItem}]
  BY <1>1, SaveItemType DEF Purchase, TypeOK, StoreTypeOK
<1>6. items' \in [ItemIds -> Item \cup {NoItem}]
  BY <1>1 DEF Purchase, TypeOK, StoreTypeOK
<1>7. /\ transactions' \in [TxnIds -> Txn \cup {NoTxn}]
      /\ receipts' \in [TxnIds -> Txn \cup {NoTxn}]
  BY <1>2, <1>3 DEF Purchase, TypeOK, StoreTypeOK
<1>. QED
  BY <1>2, <1>4, <1>5, <1>6, <1>7 DEF Purchase, TypeOK, StoreTypeOK

LEMMA PurchaseKilledType ==
  ASSUME TypeOK, NEW u \in Users, NEW i \in ItemIds, PurchaseKilled(u, i)
  PROVE  TypeOK'
<1>1. itemRows' \in [ItemIds -> Item \cup {NoItem}]
  BY BuyableItem, SaveItemType DEF PurchaseKilled, TypeOK, StoreTypeOK
<1>. QED
  BY <1>1, ForgetType DEF PurchaseKilled, TypeOK, StoreTypeOK, receiptVars

LEMMA ChangeTransactionType ==
  ASSUME TypeOK, NEW t \in TxnIds, NEW txn \in Txn, NEW o,
         serving' = serving, ChangeTransaction(t, txn, o)
  PROVE  TypeOK'
<1>1. txnRows' \in [TxnIds -> Txn \cup {NoTxn}]
  BY SaveTransactionType DEF ChangeTransaction, TypeOK, StoreTypeOK
<1>2. /\ transactions' \in [TxnIds -> Txn \cup {NoTxn}]
      /\ receipts' \in [TxnIds -> Txn \cup {NoTxn}]
  BY DEF ChangeTransaction, WithTransaction, TypeOK, StoreTypeOK
<1>. QED
  BY <1>1, <1>2 DEF ChangeTransaction, TypeOK, StoreTypeOK

LEMMA CreateReviewType ==
  ASSUME TypeOK, NEW u \in Users, NEW t \in TxnIds, NEW o1, NEW o2,
         CreateReview(u, t, o1, o2)
  PROVE  TypeOK'
<1>. DEFINE r == nextReviewID
            review == [txn |-> t, reviewer |-> u, reviewee |-> RevieweeOf(u, t)]
<1>1. transactions[t] \in Txn
  BY DEF CreateReview, Reviewable, IsParty, TypeOK, StoreTypeOK
<1>2. review \in Review
  BY <1>1 DEF RevieweeOf, Review, Txn
<1>3. r \in ReviewIds /\ r + 1 \in 1 .. (MaxReviews + 1)
  BY StoreAssumption DEF CreateReview, TypeOK, StoreTypeOK, ReviewIds
<1>4. reviewRows' \in [ReviewIds -> Review \cup {NoReview}]
  BY <1>2, <1>3, SaveReviewType DEF CreateReview, TypeOK, StoreTypeOK
<1>5. reviews' \in [ReviewIds -> Review \cup {NoReview}]
  BY <1>2, <1>3 DEF CreateReview, TypeOK, StoreTypeOK
<1>6. ratings' \in [Users -> Ratings]
  BY DEF CreateReview, Recalculated, Received, Ratings, TypeOK, StoreTypeOK
<1>7. reviewReceipts' \subseteq TxnIds \X Users
  BY DEF CreateReview, TypeOK, StoreTypeOK
<1>. QED
  BY <1>3, <1>4, <1>5, <1>6, <1>7 DEF CreateReview, TypeOK, StoreTypeOK

LEMMA ProcessStepType ==
  ASSUME TypeOK, ProcessStep
  PROVE  TypeOK'
<1>1. CASE Crash /\ UNCHANGED receiptVars
  BY <1>1, ForgetType DEF Crash, tables, receiptVars, TypeOK, StoreTypeOK
<1>2. ASSUME PurgeTables, PurgeReceipts
      PROVE  /\ itemRows' \in [ItemIds -> Item \cup {NoItem}]
             /\ txnRows' \in [TxnIds -> Txn \cup {NoTxn}]
             /\ reviewRows' \in [ReviewIds -> Review \cup {NoReview}]
             /\ receipts' \in [TxnIds -> Txn \cup {NoTxn}]
             /\ reviewReceipts' \subseteq TxnIds \X Users
  BY <1>2 DEF PurgeTables, PurgeReceipts, TypeOK, StoreTypeOK
<1>3. CASE RestartCutOff /\ PurgeReceipts
  BY <1>2, <1>3 DEF RestartCutOff, memory, TypeOK, StoreTypeOK
<1>4. CASE Restart /\ PurgeReceipts
  <2>1. ratings' \in [Users -> Ratings]
    BY <1>4 DEF Restart, Received, Ratings
  <2>2. /\ nextItemID' \in 1 .. (MaxItems + 1)
        /\ nextTxnID' \in 1 .. (MaxTxns + 1)
        /\ nextReviewID' \in 1 .. (MaxReviews + 1)
    BY <1>4 DEF Restart
  <2>. QED
    BY <1>2, <1>4, <2>1, <2>2 DEF Restart, TypeOK, StoreTypeOK
<1>. QED  BY <1>1, <1>3, <1>4 DEF ProcessStep

LEMMA SaleStepType ==
  ASSUME TypeOK, NEW u \in Users, NEW t \in TxnIds, SaleStep(u, t)
  PROVE  TypeOK'
<1>1. ASSUME NEW o, Pay(u, t, o)
      PROVE  TypeOK'
  <2>1. transactions[t] \in Txn
    BY <1>1 DEF Pay, Payable, IsParty, TypeOK, StoreTypeOK
  <2>2. [transactions[t] EXCEPT !.status = "active"] \in Txn
    BY <2>1 DEF Txn
  <2>. QED  BY <1>1, <2>2, ChangeTransactionType DEF Pay, ChangeTransaction
<1>2. ASSUME NEW o, Complete(u, t, o)
      PROVE  TypeOK'
  <2>1. transactions[t] \in Txn
    BY <1>2 DEF Complete, IsParty, TypeOK, StoreTypeOK
  <2>2. [transactions[t] EXCEPT !.status = "done"] \in Txn
    BY <2>1 DEF Txn
  <2>. QED  BY <1>2, <2>2, ChangeTransactionType DEF Complete, ChangeTransaction
<1>3. ASSUME NEW o, DeleteTransaction(u, t, o)
      PROVE  TypeOK'
  <2>. DEFINE txn == [transactions[t] EXCEPT
                        !.buyerHidden = @ \/ transactions[t].buyer = u,
                        !.sellerHidden = @ \/ transactions[t].seller = u]
  <2>1. transactions[t] \in Txn
    BY <1>3 DEF DeleteTransaction, IsParty, TypeOK, StoreTypeOK
  <2>2. txn \in Txn
    BY <2>1 DEF Txn
  <2>. QED
    BY <1>3, <2>2, ChangeTransactionType DEF DeleteTransaction, ChangeTransaction
<1>. QED
  BY <1>1, <1>2, <1>3, CreateReviewType DEF SaleStep

LEMMA ItemStepType ==
  ASSUME TypeOK, NEW u \in Users, NEW i \in ItemIds, ItemStep(u, i)
  PROVE  TypeOK'
  BY UpdateItemType, DeleteUnsoldItemType, DeleteSoldItemType,
     DeleteSoldItemKilledType, PurchaseType, PurchaseKilledType DEF ItemStep

LEMMA InitType == Init => TypeOK
<1>. SUFFICES ASSUME Init PROVE TypeOK
  OBVIOUS
<1>1. items \in [ItemIds -> Item \cup {NoItem}]
  BY StoreAssumption DEF Init, StoreInit, SeededItem, Item
<1>2. /\ nextItemID \in 1 .. (MaxItems + 1)
      /\ nextTxnID \in 1 .. (MaxTxns + 1)
      /\ nextReviewID \in 1 .. (MaxReviews + 1)
  BY StoreAssumption DEF Init, StoreInit
<1>3. ratings \in [Users -> Ratings]
  <2>1. SeededRating \in Ratings
    BY DEF Ratings
  <2>2. {} \in Ratings
    BY DEF Ratings
  <2>. QED  BY <2>1, <2>2 DEF Init, StoreInit
<1>. QED
  BY <1>1, <1>2, <1>3
  DEF Init, StoreInit, TypeOK, StoreTypeOK, NoTxns, NoReviews

LEMMA NextType == TypeOK /\ [Next]_vars => TypeOK'
<1>. SUFFICES ASSUME TypeOK, [Next]_vars PROVE TypeOK'
  OBVIOUS
<1>1. CASE Next
  BY <1>1, CreateItemType, ItemStepType, SaleStepType, ProcessStepType DEF Next
<1>2. CASE UNCHANGED vars
  BY <1>2 DEF vars, memory, tables, receiptVars, TypeOK, StoreTypeOK
<1>. QED  BY <1>1, <1>2

(* Every reachable state is well typed, whatever fails and dies. *)
THEOREM TypeCorrect == Spec => []TypeOK
  BY InitType, NextType, PTL DEF Spec

-----------------------------------------------------------------------------
(* Whatever is listed can be sold: every record that a handler puts into   *)
(* the map or writes to the table is fit, if those it is made from are.    *)

Fit(item) == item.status = "published" => item.ready /\ ~item.hidden

LEMMA ListedIsFit ==
  ASSUME NEW its PROVE ListedIn(its) <=> \A i \in ItemIds : Fit(its[i])
  BY DEF ListedIn, Fit

LEMMA SaveItemListed ==
  ASSUME TypeOK, ListedIn(itemRows), NEW i \in ItemIds, NEW item \in Item,
         Fit(item), NEW o, SaveItem(i, item, o)
  PROVE  ListedIn(itemRows')
<1>1. itemRows \in [ItemIds -> Item \cup {NoItem}]
  BY DEF TypeOK, StoreTypeOK
<1>2. Fit(UpsertedItem(itemRows[i], item))
  BY DEF UpsertedItem, Fit, Item
<1>3. ASSUME NEW j \in ItemIds PROVE Fit(itemRows'[j])
  <2>1. itemRows'[j] = itemRows[j] \/ itemRows'[j] = UpsertedItem(itemRows[i], item)
    BY <1>1 DEF SaveItem
  <2>. QED  BY <1>2, <2>1, ListedIsFit
<1>. QED  BY <1>3, ListedIsFit

LEMMA PutItemListed ==
  ASSUME TypeOK, ListedIn(items), NEW i \in ItemIds, NEW item, Fit(item),
         items' = [items EXCEPT ![i] = item] \/ items' = items
  PROVE  ListedIn(items')
<1>1. items \in [ItemIds -> Item \cup {NoItem}]
  BY DEF TypeOK, StoreTypeOK
<1>2. ASSUME NEW j \in ItemIds PROVE Fit(items'[j])
  BY <1>1, ListedIsFit
<1>. QED  BY <1>2, ListedIsFit

LEMMA ForgetListed == Forget => ListedIn(items')
  BY DEF Forget, NoItems, NoItem, ListedIn

LEMMA ItemStepListed ==
  ASSUME TypeOK, ListedCanBeSold, NEW u \in Users, NEW i \in ItemIds,
         ItemStep(u, i)
  PROVE  ListedCanBeSold'
<1>1. ListedIn(items) /\ ListedIn(itemRows) /\ Fit(items[i])
  BY ListedIsFit DEF ListedCanBeSold
<1>2. items[i].seller \in Users => items[i] \in Item
  BY ItemOfSeller DEF TypeOK, StoreTypeOK
<1>3. ASSUME NEW status \in {"draft", "published", "sold"},
             NEW ready \in BOOLEAN, NEW obsolete \in BOOLEAN, NEW o \in Outcomes,
             UpdateItem(u, i, status, ready, obsolete, o)
      PROVE  ListedCanBeSold'
  <2> DEFINE next == Mutated(items[i], status, ready, obsolete)
  <2>1. items[i] \in Item
    BY <1>2, <1>3 DEF UpdateItem
  <2>2. next \in Item
    BY <2>1 DEF Mutated, Item
  <2>3. Fit(next)
    BY <1>1, <1>3, <2>1 DEF UpdateItem, ValidMutation, Mutated, Fit, Item
  <2> HIDE DEF next
  <2>4. SaveItem(i, next, o)
    BY <1>3 DEF UpdateItem, next
  <2>5. items' = [items EXCEPT ![i] = next] \/ items' = items
    BY <1>3 DEF UpdateItem, next
  <2>. QED
    BY <1>1, <2>2, <2>3, <2>4, <2>5, SaveItemListed, PutItemListed
    DEF ListedCanBeSold
<1>4. items[i] \in Item => Deleted(items[i]) \in Item /\ Fit(Deleted(items[i]))
  BY DEF Deleted, Fit, Item
<1>5. ASSUME NEW o \in Outcomes, DeleteUnsoldItem(u, i, o)
      PROVE  ListedCanBeSold'
  <2>1. items[i] \in Item
    BY <1>2, <1>5 DEF DeleteUnsoldItem
  <2>2. /\ SaveItem(i, Deleted(items[i]), o)
        /\ items' = [items EXCEPT ![i] = Deleted(items[i])]
    BY <1>5 DEF DeleteUnsoldItem
  <2>. QED
    BY <1>1, <1>4, <2>1, <2>2, SaveItemListed, PutItemListed DEF ListedCanBeSold
<1>6. ASSUME NEW t \in TxnIds, NEW o1 \in Outcomes, NEW o2 \in Outcomes,
             DeleteSoldItem(u, i, t, o1, o2)
      PROVE  ListedCanBeSold'
  <2>1. items[i] \in Item
    BY <1>2, <1>6 DEF DeleteSoldItem, SaleClosed
  <2>2. \/ /\ SaveItem(i, Deleted(items[i]), o2)
           /\ items' = [items EXCEPT ![i] = Deleted(items[i])]
        \/ UNCHANGED <<items, itemRows>>
    BY <1>6 DEF DeleteSoldItem
  <2>. QED
    BY <1>1, <1>4, <2>1, <2>2, SaveItemListed, PutItemListed DEF ListedCanBeSold
<1>7. ASSUME NEW t \in TxnIds, DeleteSoldItemKilled(u, i, t)
      PROVE  ListedCanBeSold'
  BY <1>1, <1>7, ForgetListed DEF DeleteSoldItemKilled, ListedCanBeSold
<1> DEFINE gone == [items[i] EXCEPT !.status = "sold"]
<1>8. items[i] \in Item => gone \in Item /\ Fit(gone)
  BY DEF Fit, Item
<1> HIDE DEF gone
<1>9. Buyable(u, i) => items[i] \in Item
  BY BuyableItem DEF Buyable
<1>10. ASSUME NEW status \in {"active", "pending"},
              NEW o1 \in Outcomes, NEW o2 \in Outcomes,
              Purchase(u, i, status, o1, o2)
       PROVE  ListedCanBeSold'
  <2>1. items[i] \in Item
    BY <1>9, <1>10 DEF Purchase
  <2>2. SaveItem(i, gone, o1) /\ items' = [items EXCEPT ![i] = gone]
    BY <1>10 DEF Purchase, gone
  <2>. QED
    BY <1>1, <1>8, <2>1, <2>2, SaveItemListed, PutItemListed DEF ListedCanBeSold
<1>11. ASSUME PurchaseKilled(u, i)
       PROVE  ListedCanBeSold'
  <2>1. items[i] \in Item /\ SaveItem(i, gone, "ok")
    BY <1>9, <1>11 DEF PurchaseKilled, gone
  <2>. QED
    BY <1>1, <1>8, <1>11, <2>1, SaveItemListed, ForgetListed
    DEF PurchaseKilled, ListedCanBeSold
<1>. QED  BY <1>3, <1>5, <1>6, <1>7, <1>10, <1>11 DEF ItemStep

LEMMA CreateItemListed ==
  ASSUME TypeOK, ListedCanBeSold,
         NEW u \in Users, NEW status \in {"draft", "published", "sold"},
         NEW ready \in BOOLEAN, NEW obsolete \in BOOLEAN, NEW o \in Outcomes,
         CreateItem(u, status, ready, obsolete, o)
  PROVE  ListedCanBeSold'
<1> DEFINE item == [seller |-> u, status |-> status,
                    hidden |-> FALSE, ready |-> ready, obsolete |-> obsolete]
<1>1. ListedIn(items) /\ ListedIn(itemRows)
  BY DEF ListedCanBeSold
<1>2. nextItemID \in ItemIds
  BY StoreAssumption DEF CreateItem, TypeOK, StoreTypeOK, ItemIds
<1>3. item \in Item /\ Fit(item)
  BY DEF CreateItem, ValidMutation, Fit, Item
<1>4. /\ SaveItem(nextItemID, item, o)
      /\ items' = [items EXCEPT ![nextItemID] = item] \/ items' = items
  BY DEF CreateItem
<1> HIDE DEF item
<1>. QED
  BY <1>1, <1>2, <1>3, <1>4, SaveItemListed, PutItemListed DEF ListedCanBeSold

LEMMA NextListed == TypeOK /\ ListedCanBeSold /\ [Next]_vars => ListedCanBeSold'
<1>. SUFFICES ASSUME TypeOK, ListedCanBeSold, [Next]_vars PROVE ListedCanBeSold'
  OBVIOUS
<1>1. ListedIn(items) /\ ListedIn(itemRows)
  BY DEF ListedCanBeSold
<1>2. CASE UNCHANGED <<items, itemRows>>
  BY <1>1, <1>2 DEF ListedCanBeSold
<1>3. ASSUME NEW u \in Users, NEW t \in TxnIds, SaleStep(u, t)
      PROVE  UNCHANGED <<items, itemRows>>
  BY <1>3 DEF SaleStep, Pay, Complete, DeleteTransaction, ChangeTransaction,
              CreateReview
<1>4. ASSUME ProcessStep PROVE ListedCanBeSold'
  <2>1. CASE Crash
    BY <1>1, <2>1, ForgetListed DEF Crash, tables, ListedCanBeSold
  <2>2. PurgeTables => ListedIn(itemRows')
    BY <1>1 DEF PurgeTables, ListedIn, NoItem
  <2>3. CASE Restart
    BY <2>2, <2>3 DEF Restart, ListedCanBeSold
  <2>4. CASE RestartCutOff
    BY <1>1, <2>2, <2>4 DEF RestartCutOff, memory, ListedCanBeSold
  <2>. QED  BY <1>4, <2>1, <2>3, <2>4 DEF ProcessStep
<1>5. CASE UNCHANGED vars
  BY <1>2, <1>5 DEF vars, memory, tables
<1>. QED
  BY <1>2, <1>3, <1>4, <1>5, CreateItemListed, ItemStepListed DEF Next

(* What is listed, in memory or in the table, is fit for sale and is not   *)
(* deleted (createItem, updateItem, deleteItem, createPurchaseRequest).    *)
THEOREM ListedIsSellable == Spec => []ListedCanBeSold
<1>1. Init => ListedCanBeSold
  BY DEF Init, StoreInit, SeededItem, NoItem, ListedCanBeSold, ListedIn
<1>. QED  BY <1>1, NextListed, TypeCorrect, PTL DEF Spec

-----------------------------------------------------------------------------
(* Only a start deletes rows. *)

LEMMA SavedItemStays ==
  ASSUME itemRows \in [ItemIds -> Item \cup {NoItem}],
         NEW i \in ItemIds, NEW item \in Item, NEW o, SaveItem(i, item, o)
  PROVE  \A j \in ItemIds : itemRows[j] # NoItem => itemRows'[j] # NoItem
<1>1. UpsertedItem(itemRows[i], item).status = item.status
  BY DEF UpsertedItem, Item
<1>2. UpsertedItem(itemRows[i], item) # NoItem
  BY <1>1 DEF NoItem, Item
<1>. QED  BY <1>2 DEF SaveItem

LEMMA SavedTransactionStays ==
  ASSUME txnRows \in [TxnIds -> Txn \cup {NoTxn}],
         NEW t \in TxnIds, NEW txn \in Txn, NEW o, SaveTransaction(t, txn, o)
  PROVE  \A s \in TxnIds : txnRows[s] # NoTxn => txnRows'[s] # NoTxn
<1>1. UpsertedTxn(txnRows[t], txn).status = txn.status
  BY DEF UpsertedTxn, Txn
<1>2. UpsertedTxn(txnRows[t], txn) # NoTxn
  BY <1>1 DEF NoTxn, Txn
<1>. QED  BY <1>2 DEF SaveTransaction

RowsStay ==
  /\ \A i \in ItemIds : itemRows[i] # NoItem => itemRows'[i] # NoItem
  /\ \A t \in TxnIds : txnRows[t] # NoTxn => txnRows'[t] # NoTxn

LEMMA ItemStepRowsStay ==
  ASSUME TypeOK, NEW u \in Users, NEW i \in ItemIds, ItemStep(u, i)
  PROVE  RowsStay
<1>. USE SavedItemStays, SavedTransactionStays
<1>1. /\ items[i] \in Item \cup {NoItem}
      /\ itemRows \in [ItemIds -> Item \cup {NoItem}]
      /\ txnRows \in [TxnIds -> Txn \cup {NoTxn}]
  BY DEF TypeOK, StoreTypeOK
<1>2. ASSUME items[i].seller = u
      PROVE  items[i] \in Item /\ Deleted(items[i]) \in Item
  BY <1>1, <1>2, ItemOfSeller DEF Deleted, Item
<1>3. ASSUME NEW status \in {"draft", "published", "sold"},
             NEW ready \in BOOLEAN, NEW obsolete \in BOOLEAN, NEW o,
             UpdateItem(u, i, status, ready, obsolete, o)
      PROVE  RowsStay
  <2>1. Mutated(items[i], status, ready, obsolete) \in Item
    BY <1>2, <1>3 DEF UpdateItem, Mutated, Item
  <2>. QED  BY <1>1, <1>3, <2>1 DEF UpdateItem, RowsStay
<1>4. ASSUME NEW o, DeleteUnsoldItem(u, i, o)
      PROVE  RowsStay
  BY <1>1, <1>2, <1>4 DEF DeleteUnsoldItem, RowsStay
<1>5. ASSUME NEW t \in TxnIds, SaleClosed(u, i, t)
      PROVE  [transactions[t] EXCEPT !.sellerHidden = TRUE] \in Txn
  <2>1. transactions[t] \in Txn
    BY <1>5 DEF SaleClosed, TypeOK, StoreTypeOK, NoTxn
  <2>. QED  BY <2>1 DEF Txn
<1>6. ASSUME NEW t \in TxnIds, NEW o1, NEW o2, DeleteSoldItem(u, i, t, o1, o2)
      PROVE  RowsStay
  BY <1>1, <1>2, <1>5, <1>6 DEF DeleteSoldItem, SaleClosed, RowsStay
<1>7. ASSUME NEW t \in TxnIds, DeleteSoldItemKilled(u, i, t)
      PROVE  RowsStay
  BY <1>1, <1>5, <1>7 DEF DeleteSoldItemKilled, RowsStay
<1>8. ASSUME NEW status \in {"active", "pending"}, NEW o1, NEW o2,
             Purchase(u, i, status, o1, o2)
      PROVE  RowsStay
  <2>1. [items[i] EXCEPT !.status = "sold"] \in Item /\ items[i] \in Item
    BY <1>8, BuyableItem DEF Purchase
  <2>2. nextTxnID \in TxnIds
    BY <1>8, StoreAssumption DEF Purchase, TypeOK, StoreTypeOK, TxnIds
  <2>3. SoldTo(u, i, status) \in Txn
    BY <2>1 DEF SoldTo, Txn, Item
  <2>. QED  BY <1>1, <1>8, <2>1, <2>2, <2>3 DEF Purchase, RowsStay
<1>9. ASSUME PurchaseKilled(u, i)
      PROVE  RowsStay
  BY <1>1, <1>9, BuyableItem DEF PurchaseKilled, RowsStay
<1>. QED  BY <1>3, <1>4, <1>6, <1>7, <1>8, <1>9 DEF ItemStep

LEMMA SaleStepRowsStay ==
  ASSUME TypeOK, NEW u \in Users, NEW t \in TxnIds, SaleStep(u, t)
  PROVE  RowsStay
<1>1. txnRows \in [TxnIds -> Txn \cup {NoTxn}]
  BY DEF TypeOK, StoreTypeOK
<1>2. ASSUME NEW txn \in Txn, NEW o, ChangeTransaction(t, txn, o)
      PROVE  RowsStay
  BY <1>1, <1>2, SavedTransactionStays DEF ChangeTransaction, RowsStay
<1>3. ASSUME IsParty(u, t)
      PROVE  transactions[t] \in Txn
  BY <1>3 DEF IsParty, TypeOK, StoreTypeOK
<1>4. ASSUME NEW o, Pay(u, t, o) \/ Complete(u, t, o) \/ DeleteTransaction(u, t, o)
      PROVE  RowsStay
  <2>1. transactions[t] \in Txn
    BY <1>3, <1>4 DEF Pay, Payable, Complete, DeleteTransaction
  <2>2. /\ [transactions[t] EXCEPT !.status = "active"] \in Txn
        /\ [transactions[t] EXCEPT !.status = "done"] \in Txn
        /\ [transactions[t] EXCEPT
              !.buyerHidden = @ \/ transactions[t].buyer = u,
              !.sellerHidden = @ \/ transactions[t].seller = u] \in Txn
    BY <2>1 DEF Txn
  <2>. QED  BY <1>2, <1>4, <2>2 DEF Pay, Complete, DeleteTransaction
<1>5. ASSUME NEW o1, NEW o2, CreateReview(u, t, o1, o2)
      PROVE  RowsStay
  BY <1>5 DEF CreateReview, RowsStay
<1>. QED  BY <1>4, <1>5 DEF SaleStep

(* While the process serves, and also when it dies, no row goes. *)
LEMMA NothingPurged ==
  ASSUME TypeOK, serving, Next
  PROVE  RowsStay /\ PurgedItems = {} /\ PurgedSales = {}
<1>1. ASSUME NEW u \in Users, NEW status \in {"draft", "published", "sold"},
             NEW ready \in BOOLEAN, NEW obsolete \in BOOLEAN, NEW o,
             CreateItem(u, status, ready, obsolete, o)
      PROVE  RowsStay
  <2>. DEFINE item == [seller |-> u, status |-> status, hidden |-> FALSE,
                       ready |-> ready, obsolete |-> obsolete]
  <2>1. nextItemID \in ItemIds /\ item \in Item
    BY <1>1, StoreAssumption DEF CreateItem, TypeOK, StoreTypeOK, ItemIds, Item
  <2>. QED
    BY <1>1, <2>1, SavedItemStays DEF CreateItem, TypeOK, StoreTypeOK, RowsStay
<1>2. ASSUME ProcessStep
      PROVE  RowsStay
  BY <1>2 DEF ProcessStep, Crash, Restart, RestartCutOff, tables, RowsStay
<1>3. RowsStay
  BY <1>1, <1>2, ItemStepRowsStay, SaleStepRowsStay DEF Next
<1>4. /\ \A i \in ObsoleteItems : itemRows[i] # NoItem
      /\ \A t \in ObsoleteSales : txnRows[t] # NoTxn
  BY DEF ObsoleteItems, ObsoleteSales, NoItem, NoTxn, ItemIds
<1>. QED
  BY <1>3, <1>4 DEF RowsStay, PurgedItems, PurgedSales, ObsoleteItems, ObsoleteSales

-----------------------------------------------------------------------------
(* A process that does not serve has lost its maps, so that a purge cannot *)
(* leave anything in them that the tables have no longer.                  *)

EmptyWhenDown ==
  ~serving => /\ items = NoItems
              /\ transactions = NoTxns
              /\ reviews = NoReviews

LEMMA NextEmpty == EmptyWhenDown /\ [Next]_vars => EmptyWhenDown'
<1>. SUFFICES ASSUME EmptyWhenDown, [Next]_vars PROVE EmptyWhenDown'
  OBVIOUS
<1>1. Forget => EmptyWhenDown'
  BY DEF Forget, EmptyWhenDown
<1>2. CASE UNCHANGED <<serving, memory>>
  BY <1>2 DEF memory, EmptyWhenDown
<1>3. ASSUME NEW u \in Users, NEW i \in ItemIds, ItemStep(u, i)
      PROVE  (serving' = serving /\ serving) \/ Forget
  BY <1>3 DEF ItemStep, UpdateItem, DeleteUnsoldItem, DeleteSoldItem,
              DeleteSoldItemKilled, Purchase, PurchaseKilled
<1>4. ASSUME NEW u \in Users, NEW t \in TxnIds, SaleStep(u, t)
      PROVE  serving' = serving /\ serving
  BY <1>4 DEF SaleStep, Pay, Complete, DeleteTransaction, ChangeTransaction,
              CreateReview
<1>5. ASSUME ProcessStep
      PROVE  Forget \/ serving' \/ UNCHANGED <<serving, memory>>
  BY <1>5 DEF ProcessStep, Crash, Restart, RestartCutOff
<1>6. ASSUME NEW u, NEW status, NEW ready, NEW obsolete, NEW o,
             CreateItem(u, status, ready, obsolete, o)
      PROVE  serving' = serving /\ serving
  BY <1>6 DEF CreateItem
<1>7. CASE serving' = TRUE
  BY <1>7 DEF EmptyWhenDown
<1>. QED
  BY <1>1, <1>2, <1>3, <1>4, <1>5, <1>6, <1>7 DEF Next, vars, EmptyWhenDown

LEMMA DownIsEmpty == Spec => []EmptyWhenDown
<1>1. Init => EmptyWhenDown
  BY DEF Init, StoreInit, EmptyWhenDown
<1>. QED  BY <1>1, NextEmpty, PTL DEF Spec

-----------------------------------------------------------------------------
(* The inductive invariant of the sales *)

SalesInv ==
  /\ TypeOK
  /\ IdsAreFresh
  /\ MemoryLeads
  /\ SaleMatchesItem
  /\ OneSalePerItem
  /\ AcknowledgedIsDurable

-----------------------------------------------------------------------------
(* What an upsert leaves in a row *)

LEMMA UpsertedItemFields ==
  ASSUME NEW row \in Item \cup {NoItem}, NEW item \in Item
  PROVE  /\ UpsertedItem(row, item).status = item.status
         /\ UpsertedItem(row, item).obsolete = item.obsolete
         /\ UpsertedItem(row, item).seller =
              IF row = NoItem THEN item.seller ELSE row.seller
  BY DEF UpsertedItem, Item

LEMMA UpsertedTxnFields ==
  ASSUME NEW row \in Txn \cup {NoTxn}, NEW txn \in Txn,
         row # NoTxn => SameTxn(row, txn)
  PROVE  UpsertedTxn(row, txn) = txn
  BY DEF UpsertedTxn, SameTxn, Txn

-----------------------------------------------------------------------------
(* Steps that change an unsold item only *)

LEMMA UnsoldItemStep ==
  ASSUME SalesInv, TypeOK', serving, serving',
         NEW i \in ItemIds, NEW new \in Item,
         items[i] \in Item, items[i].status # "sold",
         new.status # "sold", new.seller = items[i].seller,
         items' \in {items, [items EXCEPT ![i] = new]},
         itemRows' \in
           {itemRows, [itemRows EXCEPT ![i] = UpsertedItem(@, new)]},
         UNCHANGED <<transactions, reviews, nextItemID, nextTxnID,
                     nextReviewID, txnRows, reviewRows, receiptVars>>
  PROVE  SalesInv'
<1>. DEFINE row == UpsertedItem(itemRows[i], new)
<1>. USE DEF TypeOK, StoreTypeOK
<1>1. /\ itemRows[i].status # "sold"
      /\ itemRows[i].seller = items[i].seller
      /\ itemRows[i] \in Item
      /\ itemRows[i] # NoItem
  BY ItemOfSeller, StoreAssumption DEF SalesInv, MemoryLeads, NoItem, Item
<1>2. row.status # "sold" /\ row.seller = itemRows[i].seller
  BY <1>1, UpsertedItemFields DEF SalesInv
<1>. HIDE DEF row
<1>3. /\ itemRows'[i].status # "sold"
      /\ itemRows'[i].seller = itemRows[i].seller
  BY <1>1, <1>2 DEF SalesInv, row
<1>4. \A j \in ItemIds : j # i => itemRows'[j] = itemRows[j] /\ items'[j] = items[j]
  BY DEF SalesInv
<1>5. /\ items'[i].status # "sold"
      /\ items'[i].seller = items[i].seller
  BY DEF SalesInv
<1>6. IdsAreFresh'
  <2>1. i < nextItemID
    BY <1>1 DEF SalesInv, IdsAreFresh
  <2>. QED  BY <1>4, <2>1 DEF SalesInv, IdsAreFresh, SameTxn
<1>7. MemoryLeads'
  BY <1>1, <1>3, <1>4, <1>5, StoreAssumption
  DEF SalesInv, MemoryLeads, AtLeast, SameTxn, NoItem, Item
<1>8. SaleMatchesItem'
  BY <1>1, <1>4 DEF SalesInv, SaleMatchesItem, SaleMatchesItemIn, Txn
<1>9. OneSalePerItem' /\ AcknowledgedIsDurable'
  BY DEF SalesInv, OneSalePerItem, OneSaleIn, AcknowledgedIsDurable,
         AtLeast, SameTxn, receiptVars
<1>. QED  BY <1>6, <1>7, <1>8, <1>9 DEF SalesInv

LEMMA UpdateItemSales ==
  ASSUME SalesInv, TypeOK',
         NEW u \in Users, NEW i \in ItemIds,
         NEW status \in {"draft", "published", "sold"},
         NEW ready \in BOOLEAN, NEW obsolete \in BOOLEAN, NEW o \in Outcomes,
         UpdateItem(u, i, status, ready, obsolete, o)
  PROVE  SalesInv'
<1>. DEFINE new == Mutated(items[i], status, ready, obsolete)
<1>1. items[i] \in Item
  BY ItemOfSeller DEF UpdateItem, SalesInv, TypeOK, StoreTypeOK
<1>2. new \in Item /\ new.seller = items[i].seller /\ new.status = status
  BY <1>1 DEF Mutated, Item
<1>3. status # "sold"
  BY <1>2 DEF UpdateItem, ValidMutation
<1>4. items' \in {items, [items EXCEPT ![i] = new]}
  BY DEF UpdateItem
<1>5. itemRows' \in {itemRows, [itemRows EXCEPT ![i] = UpsertedItem(@, new)]}
  BY DEF UpdateItem, SaveItem
<1>. QED
  BY <1>1, <1>2, <1>3, <1>4, <1>5, UnsoldItemStep DEF UpdateItem, receiptVars

LEMMA DeleteUnsoldItemSales ==
  ASSUME SalesInv, TypeOK',
         NEW u \in Users, NEW i \in ItemIds, NEW o \in Outcomes,
         DeleteUnsoldItem(u, i, o)
  PROVE  SalesInv'
<1>1. items[i] \in Item
  BY ItemOfSeller DEF DeleteUnsoldItem, SalesInv, TypeOK, StoreTypeOK
<1>2. /\ Deleted(items[i]) \in Item
      /\ Deleted(items[i]).seller = items[i].seller
      /\ Deleted(items[i]).status # "sold"
  BY <1>1 DEF DeleteUnsoldItem, Deleted, Item
<1>3. itemRows' \in {itemRows,
                     [itemRows EXCEPT ![i] = UpsertedItem(@, Deleted(items[i]))]}
  BY DEF DeleteUnsoldItem, SaveItem
<1>. QED
  BY <1>1, <1>2, <1>3, UnsoldItemStep DEF DeleteUnsoldItem, receiptVars

LEMMA CreateItemSales ==
  ASSUME SalesInv, TypeOK',
         NEW u \in Users, NEW status \in {"draft", "published", "sold"},
         NEW ready \in BOOLEAN, NEW obsolete \in BOOLEAN, NEW o \in Outcomes,
         CreateItem(u, status, ready, obsolete, o)
  PROVE  SalesInv'
<1>. DEFINE i == nextItemID
            item == [seller |-> u, status |-> status,
                     hidden |-> FALSE, ready |-> ready, obsolete |-> obsolete]
<1>. USE DEF TypeOK, StoreTypeOK
<1>1. i \in ItemIds /\ i \in Nat
  BY StoreAssumption DEF CreateItem, SalesInv, ItemIds
<1>2. items[i] = NoItem /\ itemRows[i] = NoItem
  BY <1>1 DEF CreateItem, SalesInv, IdsAreFresh
<1>3. item.status # "sold"
  BY DEF CreateItem, ValidMutation
<1>4. UpsertedItem(itemRows[i], item) = item
  BY <1>2 DEF UpsertedItem
<1>. HIDE DEF item
<1>5. /\ itemRows' \in {itemRows, [itemRows EXCEPT ![i] = item]}
      /\ items' \in {items, [items EXCEPT ![i] = item]}
      /\ items' # items => itemRows' = [itemRows EXCEPT ![i] = item]
  BY <1>4 DEF CreateItem, SaveItem, Continues, item
<1>6. \A j \in ItemIds : j # i => itemRows'[j] = itemRows[j] /\ items'[j] = items[j]
  BY <1>1, <1>5 DEF SalesInv
<1>7. IdsAreFresh'
  <2>1. nextItemID' = i + 1
    BY DEF CreateItem
  <2>2. \A j \in ItemIds : j < i => j < i + 1
    BY <1>1 DEF ItemIds
  <2>. QED
    BY <1>1, <1>6, <2>1, <2>2 DEF CreateItem, SalesInv, IdsAreFresh, SameTxn
<1>8. MemoryLeads'
  <2>1. items'[i] # NoItem => itemRows'[i].seller = items'[i].seller
    BY <1>1, <1>2, <1>5 DEF SalesInv
  <2>2. itemRows'[i].status # "sold"
    BY <1>1, <1>2, <1>3, <1>5 DEF SalesInv, NoItem
  <2>3. UNCHANGED <<serving, transactions, txnRows>>
    BY DEF CreateItem
  <2>4. ASSUME serving, NEW j \in ItemIds
        PROVE  /\ items'[j] # NoItem => itemRows'[j].seller = items'[j].seller
               /\ itemRows'[j].status = "sold" =>
                    /\ items'[j].status = "sold"
                    /\ items'[j].obsolete = itemRows'[j].obsolete
    BY <1>6, <2>1, <2>2, <2>4 DEF SalesInv, MemoryLeads
  <2>. QED  BY <2>3, <2>4 DEF SalesInv, MemoryLeads, AtLeast, SameTxn
<1>9. SaleMatchesItem'
  <2>1. itemRows[i].status # "sold"
    BY <1>2 DEF NoItem
  <2>2. UNCHANGED <<transactions, txnRows>>
    BY DEF CreateItem
  <2>3. ASSUME NEW txn \in Txn, itemRows[txn.item].status = "sold"
        PROVE  itemRows'[txn.item] = itemRows[txn.item]
    BY <1>6, <2>1, <2>3 DEF Txn
  <2>4. \A t \in TxnIds :
          /\ transactions[t] # NoTxn => transactions[t] \in Txn
          /\ txnRows[t] # NoTxn => txnRows[t] \in Txn
    BY DEF SalesInv
  <2>. QED  BY <2>2, <2>3, <2>4 DEF SalesInv, SaleMatchesItem, SaleMatchesItemIn
<1>10. OneSalePerItem' /\ AcknowledgedIsDurable'
  BY DEF CreateItem, SalesInv, OneSalePerItem, OneSaleIn,
         AcknowledgedIsDurable, AtLeast, SameTxn, receiptVars
<1>. QED  BY <1>7, <1>8, <1>9, <1>10 DEF SalesInv

-----------------------------------------------------------------------------
(* Versions of a transaction *)

LEMMA RankType == \A status : Sales!Rank(status) \in Nat
  BY DEF Sales!Rank

LEMMA AtLeastItself == \A txn : AtLeast(txn, txn)
  BY RankType DEF AtLeast, SameTxn

LEMMA AtLeastTransitive ==
  ASSUME NEW a, NEW b, NEW c, AtLeast(a, b), AtLeast(b, c)
  PROVE  AtLeast(a, c)
<1>1. Sales!Rank(a.status) >= Sales!Rank(c.status)
  BY RankType DEF AtLeast
<1>. QED  BY <1>1 DEF AtLeast, SameTxn

LEMMA AtLeastByFlags ==
  ASSUME NEW a, NEW b, SameTxn(a, b), a.status = b.status,
         b.buyerHidden => a.buyerHidden, b.sellerHidden => a.sellerHidden
  PROVE  AtLeast(a, b)
<1>1. Sales!Rank(a.status) >= Sales!Rank(b.status)
  BY RankType
<1>. QED  BY <1>1 DEF AtLeast

LEMMA AtLeastIsSale ==
  ASSUME NEW a \in Txn \cup {NoTxn}, NEW b \in Txn \cup {NoTxn},
         AtLeast(a, b), b # NoTxn
  PROVE  a # NoTxn
  BY StoreAssumption DEF AtLeast, SameTxn, NoTxn, Txn

(* A later version of a transaction is put into the map and written. *)
LEMMA TransactionWrite ==
  ASSUME SalesInv, TypeOK', serving,
         NEW t \in TxnIds, NEW txn \in Txn, NEW o,
         transactions[t] \in Txn, AtLeast(txn, transactions[t]),
         transactions' = [transactions EXCEPT ![t] = txn],
         SaveTransaction(t, txn, o),
         receipts' \in {receipts, [receipts EXCEPT ![t] = txn]},
         receipts' # receipts => o = "ok",
         UNCHANGED <<reviewReceipts, reviewRows>>
  PROVE  /\ \A s \in TxnIds :
              /\ SameTxn(transactions'[s], transactions[s])
              /\ transactions'[s] # NoTxn => transactions[s] # NoTxn
              /\ txnRows'[s] # NoTxn => AtLeast(transactions'[s], txnRows'[s])
         /\ OneSalePerItem'
         /\ AcknowledgedIsDurable'
<1>. USE DEF TypeOK, StoreTypeOK
<1>1. txnRows[t] # NoTxn => SameTxn(txnRows[t], txn)
  BY DEF SalesInv, IdsAreFresh, AtLeast, SameTxn
<1>2. txnRows' \in {txnRows, [txnRows EXCEPT ![t] = txn]}
  BY <1>1, UpsertedTxnFields DEF SaveTransaction, SalesInv
<1>3. o = "ok" => txnRows' = [txnRows EXCEPT ![t] = txn]
  BY <1>1, UpsertedTxnFields DEF SaveTransaction, SalesInv
<1>4. \A s \in TxnIds :
        s # t => /\ transactions'[s] = transactions[s]
                 /\ txnRows'[s] = txnRows[s]
                 /\ receipts'[s] = receipts[s]
  BY <1>2 DEF SalesInv
<1>5. transactions'[t] = txn /\ transactions[t] # NoTxn /\ txn # NoTxn
  BY StoreAssumption DEF SalesInv, Txn, NoTxn
<1>6. \A s \in TxnIds :
        /\ SameTxn(transactions'[s], transactions[s])
        /\ transactions'[s] # NoTxn => transactions[s] # NoTxn
  BY <1>4, <1>5 DEF AtLeast, SameTxn
<1>7. \A s \in TxnIds :
        txnRows'[s] # NoTxn => AtLeast(transactions'[s], txnRows'[s])
  <2>. SUFFICES ASSUME NEW s \in TxnIds, txnRows'[s] # NoTxn
                PROVE  AtLeast(transactions'[s], txnRows'[s])
    OBVIOUS
  <2>1. CASE s # t
    BY <1>4, <2>1 DEF SalesInv, MemoryLeads
  <2>2. CASE s = t /\ txnRows'[t] = txn
    BY <1>5, <2>2, AtLeastItself
  <2>3. CASE s = t /\ txnRows' = txnRows
    <3>1. AtLeast(transactions[t], txnRows[t])
      BY <2>3 DEF SalesInv, MemoryLeads
    <3>. QED  BY <1>5, <2>3, <3>1, AtLeastTransitive
  <2>. QED  BY <1>2, <2>1, <2>2, <2>3 DEF SalesInv
<1>8. OneSalePerItem'
  <2>1. OneSaleIn(transactions)'
    BY <1>6 DEF SalesInv, OneSalePerItem, OneSaleIn, SameTxn
  <2>2. \A s \in TxnIds : txnRows'[s] # NoTxn =>
          /\ transactions'[s] # NoTxn
          /\ transactions'[s].item = txnRows'[s].item
    BY <1>7, AtLeastIsSale DEF AtLeast, SameTxn
  <2>3. OneSaleIn(txnRows)'
    <3>. SUFFICES ASSUME NEW s \in TxnIds, NEW r \in TxnIds,
                         txnRows'[s] # NoTxn,
                         txnRows'[s].item = txnRows'[r].item
                  PROVE  s = r
      BY DEF OneSaleIn
    <3>1. txnRows'[r] # NoTxn
      BY DEF NoTxn, Txn, ItemIds
    <3>. QED  BY <2>1, <2>2, <3>1 DEF OneSaleIn
  <2>. QED  BY <2>1, <2>3 DEF OneSalePerItem
<1>9. AcknowledgedIsDurable'
  <2>1. ASSUME NEW s \in TxnIds, receipts'[s] # NoTxn
        PROVE  AtLeast(txnRows'[s], receipts'[s])
    <3>1. CASE s # t
      BY <1>4, <2>1, <3>1 DEF SalesInv, AcknowledgedIsDurable
    <3>2. CASE s = t /\ receipts' # receipts
      BY <1>3, <3>2, AtLeastItself DEF SalesInv
    <3>3. CASE s = t /\ receipts' = receipts
      <4>1. AtLeast(txnRows[t], receipts[t])
        BY <2>1, <3>3 DEF SalesInv, AcknowledgedIsDurable
      <4>2. txnRows[t] # NoTxn
        BY <2>1, <3>3, <4>1, AtLeastIsSale DEF SalesInv
      <4>3. AtLeast(txn, txnRows[t])
        BY <4>2, AtLeastTransitive DEF SalesInv, MemoryLeads
      <4>4. AtLeast(txn, receipts[t])
        BY <4>1, <4>3, AtLeastTransitive
      <4>. QED  BY <1>2, <3>3, <4>1, <4>4 DEF SalesInv
    <3>. QED  BY <3>1, <3>2, <3>3
  <2>. QED  BY <2>1 DEF SalesInv, AcknowledgedIsDurable
<1>. QED  BY <1>6, <1>7, <1>8, <1>9

LEMMA ChangeTransactionSales ==
  ASSUME SalesInv, TypeOK', serving, serving',
         NEW t \in TxnIds, NEW txn \in Txn, NEW o,
         transactions[t] \in Txn, AtLeast(txn, transactions[t]),
         ChangeTransaction(t, txn, o)
  PROVE  SalesInv'
<1>1. /\ \A s \in TxnIds :
           /\ SameTxn(transactions'[s], transactions[s])
           /\ transactions'[s] # NoTxn => transactions[s] # NoTxn
           /\ txnRows'[s] # NoTxn => AtLeast(transactions'[s], txnRows'[s])
      /\ OneSalePerItem'
      /\ AcknowledgedIsDurable'
  BY TransactionWrite DEF ChangeTransaction, WithTransaction, Continues
<1>. USE DEF TypeOK, StoreTypeOK
<1>2. \A s \in TxnIds : txnRows'[s] # NoTxn => transactions'[s] # NoTxn
  BY <1>1, AtLeastIsSale
<1>3. IdsAreFresh'
  BY <1>1, <1>2 DEF ChangeTransaction, SalesInv, IdsAreFresh, AtLeast, SameTxn
<1>4. MemoryLeads'
  BY <1>1 DEF ChangeTransaction, SalesInv, MemoryLeads
<1>5. SaleMatchesItem'
  BY <1>1, <1>2
  DEF ChangeTransaction, SalesInv, SaleMatchesItem, SaleMatchesItemIn,
      AtLeast, SameTxn
<1>. QED  BY <1>1, <1>3, <1>4, <1>5 DEF SalesInv

LEMMA PaySales ==
  ASSUME SalesInv, TypeOK', NEW u \in Users, NEW t \in TxnIds, NEW o, Pay(u, t, o)
  PROVE  SalesInv'
<1>. DEFINE txn == [transactions[t] EXCEPT !.status = "active"]
<1>1. transactions[t] \in Txn
  BY DEF Pay, Payable, IsParty, SalesInv, TypeOK, StoreTypeOK
<1>2. txn \in Txn /\ AtLeast(txn, transactions[t])
  BY <1>1 DEF Pay, Payable, Txn, AtLeast, SameTxn, Sales!Rank
<1>. QED
  BY <1>1, <1>2, ChangeTransactionSales DEF Pay, ChangeTransaction

LEMMA CompleteSales ==
  ASSUME SalesInv, TypeOK', NEW u \in Users, NEW t \in TxnIds, NEW o,
         Complete(u, t, o)
  PROVE  SalesInv'
<1>. DEFINE txn == [transactions[t] EXCEPT !.status = "done"]
<1>1. transactions[t] \in Txn
  BY DEF Complete, IsParty, SalesInv, TypeOK, StoreTypeOK
<1>2. txn \in Txn /\ AtLeast(txn, transactions[t])
  BY <1>1 DEF Complete, Txn, AtLeast, SameTxn, Sales!Rank
<1>. QED
  BY <1>1, <1>2, ChangeTransactionSales DEF Complete, ChangeTransaction

LEMMA DeleteTransactionSales ==
  ASSUME SalesInv, TypeOK', NEW u \in Users, NEW t \in TxnIds, NEW o,
         DeleteTransaction(u, t, o)
  PROVE  SalesInv'
<1>. DEFINE txn == [transactions[t] EXCEPT
                      !.buyerHidden = @ \/ transactions[t].buyer = u,
                      !.sellerHidden = @ \/ transactions[t].seller = u]
<1>1. transactions[t] \in Txn
  BY DEF DeleteTransaction, IsParty, SalesInv, TypeOK, StoreTypeOK
<1>2. /\ txn \in Txn
      /\ SameTxn(txn, transactions[t])
      /\ txn.status = transactions[t].status
      /\ transactions[t].buyerHidden => txn.buyerHidden
      /\ transactions[t].sellerHidden => txn.sellerHidden
  BY <1>1 DEF Txn, SameTxn
<1>. HIDE DEF txn
<1>3. AtLeast(txn, transactions[t])
  BY <1>2, AtLeastByFlags
<1>. QED
  BY <1>1, <1>2, <1>3, ChangeTransactionSales
  DEF DeleteTransaction, ChangeTransaction, txn

-----------------------------------------------------------------------------
(* Deleting and selling *)

LEMMA DeleteSoldItemSales ==
  ASSUME SalesInv, TypeOK',
         NEW u \in Users, NEW i \in ItemIds, NEW t \in TxnIds,
         NEW o1 \in Outcomes, NEW o2 \in Outcomes,
         DeleteSoldItem(u, i, t, o1, o2)
  PROVE  SalesInv'
<1>. DEFINE txn == [transactions[t] EXCEPT !.sellerHidden = TRUE]
<1>. USE DEF TypeOK, StoreTypeOK
<1>1. transactions[t] \in Txn
  BY DEF DeleteSoldItem, SaleClosed, SalesInv, NoTxn
<1>2. /\ txn \in Txn
      /\ SameTxn(txn, transactions[t])
      /\ txn.status = transactions[t].status
      /\ transactions[t].buyerHidden => txn.buyerHidden
      /\ txn.sellerHidden
  BY <1>1 DEF Txn, SameTxn
<1>. HIDE DEF txn
<1>3. AtLeast(txn, transactions[t])
  BY <1>2, AtLeastByFlags
<1>4. /\ \A s \in TxnIds :
           /\ SameTxn(transactions'[s], transactions[s])
           /\ transactions'[s] # NoTxn => transactions[s] # NoTxn
           /\ txnRows'[s] # NoTxn => AtLeast(transactions'[s], txnRows'[s])
      /\ OneSalePerItem'
      /\ AcknowledgedIsDurable'
  BY <1>1, <1>2, <1>3, TransactionWrite DEF DeleteSoldItem, Continues, txn
<1>5. \A s \in TxnIds : txnRows'[s] # NoTxn => transactions'[s] # NoTxn
  BY <1>4, AtLeastIsSale
<1>6. /\ items[i] \in Item
      /\ items[i].status = "sold"
      /\ Deleted(items[i]) \in Item
      /\ Deleted(items[i]).seller = items[i].seller
      /\ Deleted(items[i]).status = "sold"
      /\ Deleted(items[i]).obsolete = items[i].obsolete
  <2>1. items[i] \in Item /\ items[i].status = "sold"
    BY ItemOfSeller DEF DeleteSoldItem, SaleClosed, SalesInv
  <2>. QED  BY <2>1 DEF Deleted, Item
<1>7. /\ itemRows[i] \in Item
      /\ itemRows[i] # NoItem
      /\ itemRows[i].seller = items[i].seller
      /\ itemRows[i].status = "sold"
      /\ items[i].obsolete = itemRows[i].obsolete
  <2>1. itemRows[i].seller = items[i].seller
    BY <1>6, StoreAssumption
    DEF DeleteSoldItem, SalesInv, MemoryLeads, NoItem, Item
  <2>2. itemRows[i].status = "sold"
    BY <1>1, StoreAssumption
    DEF DeleteSoldItem, SaleClosed, SalesOf, SalesInv, SaleMatchesItem,
        SaleMatchesItemIn, NoTxn, Txn
  <2>3. items[i].obsolete = itemRows[i].obsolete
    BY <2>2 DEF DeleteSoldItem, SalesInv, MemoryLeads
  <2>. QED
    BY <1>6, <2>1, <2>2, <2>3, ItemOfSeller, StoreAssumption
    DEF SalesInv, NoItem, Item
<1>8. /\ items' \in {items, [items EXCEPT ![i] = Deleted(items[i])]}
      /\ itemRows' \in {itemRows, [itemRows EXCEPT
                          ![i] = UpsertedItem(itemRows[i], Deleted(items[i]))]}
  BY DEF DeleteSoldItem, SaveItem
<1>9. /\ items'[i].status = "sold" /\ items'[i].seller = items[i].seller
      /\ itemRows'[i].status = "sold" /\ itemRows'[i].seller = items[i].seller
      /\ items'[i].obsolete = itemRows'[i].obsolete
      /\ \A j \in ItemIds :
           j # i => itemRows'[j] = itemRows[j] /\ items'[j] = items[j]
  BY <1>6, <1>7, <1>8, UpsertedItemFields DEF SalesInv
<1>10. IdsAreFresh'
  <2>1. i < nextItemID
    BY <1>7 DEF DeleteSoldItem, SalesInv, IdsAreFresh
  <2>. QED
    BY <1>4, <1>5, <1>9, <2>1
    DEF DeleteSoldItem, SalesInv, IdsAreFresh, AtLeast, SameTxn
<1>11. MemoryLeads'
  BY <1>4, <1>9 DEF DeleteSoldItem, SalesInv, MemoryLeads
<1>12. SaleMatchesItem'
  <2>1. \A j \in ItemIds : itemRows[j].status = "sold" =>
          itemRows'[j].status = "sold" /\ itemRows'[j].seller = itemRows[j].seller
    BY <1>7, <1>9
  <2>2. SaleMatchesItemIn(transactions)'
    BY <1>4, <2>1
    DEF SalesInv, SaleMatchesItem, SaleMatchesItemIn, SameTxn, Txn
  <2>3. SaleMatchesItemIn(txnRows)'
    BY <1>4, <1>5, <2>2 DEF SaleMatchesItemIn, AtLeast, SameTxn
  <2>. QED  BY <2>2, <2>3 DEF SaleMatchesItem
<1>. QED  BY <1>4, <1>10, <1>11, <1>12 DEF SalesInv

LEMMA DeleteSoldItemKilledSales ==
  ASSUME SalesInv, TypeOK',
         NEW u \in Users, NEW i \in ItemIds, NEW t \in TxnIds,
         DeleteSoldItemKilled(u, i, t)
  PROVE  SalesInv'
<1>. DEFINE txn == [transactions[t] EXCEPT !.sellerHidden = TRUE]
<1>. USE DEF TypeOK, StoreTypeOK
<1>1. transactions[t] \in Txn
  BY DEF DeleteSoldItemKilled, SaleClosed, SalesInv, NoTxn
<1>2. /\ txn \in Txn
      /\ SameTxn(txn, transactions[t])
      /\ txn.status = transactions[t].status
      /\ transactions[t].buyerHidden => txn.buyerHidden
      /\ txn.sellerHidden
  BY <1>1 DEF Txn, SameTxn
<1>. HIDE DEF txn
<1>3. AtLeast(txn, transactions[t])
  BY <1>2, AtLeastByFlags
<1>4. txnRows[t] # NoTxn => AtLeast(txn, txnRows[t])
  BY <1>3, AtLeastTransitive DEF DeleteSoldItemKilled, SalesInv, MemoryLeads
<1>5. txnRows' = [txnRows EXCEPT ![t] = txn]
  BY <1>2, <1>4, UpsertedTxnFields
  DEF DeleteSoldItemKilled, SaveTransaction, SalesInv, AtLeast, SameTxn, txn
<1>6. ~serving' /\ transactions' = NoTxns /\ itemRows' = itemRows
      /\ reviewRows' = reviewRows /\ UNCHANGED receiptVars
  BY DEF DeleteSoldItemKilled, Forget
<1>7. \A s \in TxnIds : txnRows'[s] # NoTxn =>
         transactions[s] # NoTxn /\ SameTxn(txnRows'[s], transactions[s])
  <2>. SUFFICES ASSUME NEW s \in TxnIds, txnRows'[s] # NoTxn
                PROVE  transactions[s] # NoTxn /\ SameTxn(txnRows'[s], transactions[s])
    OBVIOUS
  <2>1. CASE s = t
    BY <1>1, <1>2, <1>5, <2>1, StoreAssumption DEF SalesInv, NoTxn, Txn
  <2>2. CASE s # t
    <3>1. AtLeast(transactions[s], txnRows[s]) /\ txnRows[s] # NoTxn
      BY <1>5, <2>2 DEF DeleteSoldItemKilled, SalesInv, MemoryLeads
    <3>2. transactions[s] # NoTxn
      BY <3>1, AtLeastIsSale DEF SalesInv
    <3>. QED  BY <1>5, <2>2, <3>1, <3>2 DEF SalesInv, AtLeast, SameTxn
  <2>. QED  BY <2>1, <2>2
<1>8. SaleMatchesItem'
  <2>1. SaleMatchesItemIn(txnRows)'
    BY <1>6, <1>7
    DEF SalesInv, SaleMatchesItem, SaleMatchesItemIn, SameTxn
  <2>2. SaleMatchesItemIn(transactions)'
    BY <1>6 DEF SaleMatchesItemIn, NoTxns
  <2>. QED  BY <2>1, <2>2 DEF SaleMatchesItem
<1>9. OneSalePerItem'
  <2>1. \A s \in TxnIds : txnRows'[s] # NoTxn =>
          transactions[s] # NoTxn /\ transactions[s].item = txnRows'[s].item
    BY <1>7 DEF SameTxn
  <2>2. OneSaleIn(txnRows)'
    <3>. SUFFICES ASSUME NEW s \in TxnIds, NEW r \in TxnIds,
                         txnRows'[s] # NoTxn,
                         txnRows'[s].item = txnRows'[r].item
                  PROVE  s = r
      BY DEF OneSaleIn
    <3>1. txnRows'[r] # NoTxn
      BY DEF NoTxn, Txn, ItemIds
    <3>. QED  BY <2>1, <3>1 DEF SalesInv, OneSalePerItem, OneSaleIn
  <2>3. OneSaleIn(transactions)'
    BY <1>6 DEF OneSaleIn, NoTxns
  <2>. QED  BY <2>2, <2>3 DEF OneSalePerItem
<1>10. AcknowledgedIsDurable'
  <2>1. ASSUME NEW s \in TxnIds, receipts[s] # NoTxn
        PROVE  AtLeast(txnRows'[s], receipts[s])
    <3>1. AtLeast(txnRows[s], receipts[s]) /\ txnRows[s] # NoTxn
      BY <2>1, AtLeastIsSale DEF SalesInv, AcknowledgedIsDurable
    <3>2. CASE s = t
      BY <1>4, <1>5, <3>1, <3>2, AtLeastTransitive DEF SalesInv
    <3>3. CASE s # t
      BY <1>5, <3>1, <3>3 DEF SalesInv
    <3>. QED  BY <3>2, <3>3
  <2>. QED  BY <1>6, <2>1 DEF SalesInv, AcknowledgedIsDurable, receiptVars
<1>. QED
  BY <1>6, <1>8, <1>9, <1>10 DEF SalesInv, IdsAreFresh, MemoryLeads

LEMMA PurchaseSales ==
  ASSUME SalesInv, TypeOK', NEW u \in Users, NEW i \in ItemIds,
         NEW status \in {"active", "pending"},
         NEW o1 \in Outcomes, NEW o2 \in Outcomes,
         Purchase(u, i, status, o1, o2)
  PROVE  SalesInv'
<1>. DEFINE t == nextTxnID
            txn == SoldTo(u, i, status)
            item == [items[i] EXCEPT !.status = "sold"]
<1>. USE DEF TypeOK, StoreTypeOK
<1>1. /\ items[i] \in Item /\ item \in Item
      /\ item.status = "sold" /\ item.seller = items[i].seller
  <2>1. items[i] \in Item /\ item \in Item
    BY BuyableItem DEF Purchase, SalesInv
  <2>. QED  BY <2>1 DEF Item
<1>2. /\ t \in TxnIds /\ t \in Nat
      /\ transactions[t] = NoTxn /\ txnRows[t] = NoTxn
  <2>1. t \in TxnIds /\ t \in Nat
    BY StoreAssumption DEF Purchase, SalesInv, TxnIds
  <2>. QED  BY <2>1 DEF Purchase, SalesInv, IdsAreFresh
<1>3. /\ txn \in Txn /\ txn # NoTxn
      /\ txn.item = i /\ txn.buyer = u /\ txn.seller = items[i].seller
      /\ txn.buyer # txn.seller
  BY <1>1, StoreAssumption DEF Purchase, Buyable, SoldTo, Txn, Item, NoTxn
<1>4. UpsertedTxn(txnRows[t], txn) = txn
  BY <1>2 DEF UpsertedTxn
<1>5. /\ itemRows[i] \in Item
      /\ itemRows[i].seller = items[i].seller
      /\ itemRows[i].status # "sold"
  <2>1. itemRows[i].seller = items[i].seller
    BY <1>1, StoreAssumption DEF Purchase, SalesInv, MemoryLeads, NoItem, Item
  <2>. QED
    BY <1>1, <2>1, ItemOfSeller, StoreAssumption
    DEF Purchase, Buyable, SalesInv, MemoryLeads, Item
<1>6. /\ \A s \in TxnIds : transactions[s] # NoTxn => transactions[s].item # i
      /\ \A s \in TxnIds : txnRows[s] # NoTxn => txnRows[s].item # i
  BY <1>5 DEF SalesInv, SaleMatchesItem, SaleMatchesItemIn
<1>7. /\ items' = [items EXCEPT ![i] = item]
      /\ itemRows' \in {itemRows,
                        [itemRows EXCEPT ![i] = UpsertedItem(itemRows[i], item)]}
      /\ o1 = "ok" =>
           itemRows' = [itemRows EXCEPT ![i] = UpsertedItem(itemRows[i], item)]
  BY DEF Purchase, SaveItem
<1>8. CASE o1 = "ok"
  <2>1. /\ nextTxnID' = t + 1
        /\ transactions' = [transactions EXCEPT ![t] = txn]
        /\ txnRows' \in {txnRows, [txnRows EXCEPT ![t] = txn]}
        /\ receipts' \in {receipts, [receipts EXCEPT ![t] = txn]}
        /\ receipts' # receipts => txnRows' = [txnRows EXCEPT ![t] = txn]
    BY <1>4, <1>8 DEF Purchase, Continues, SaveTransaction
  <2>. HIDE DEF txn, item
  <2>2. \A s \in TxnIds :
          s # t => /\ transactions'[s] = transactions[s]
                   /\ txnRows'[s] = txnRows[s]
                   /\ receipts'[s] = receipts[s]
    BY <2>1 DEF SalesInv
  <2>3. /\ transactions'[t] = txn
        /\ txnRows'[t] # NoTxn => txnRows'[t] = txn
    BY <1>2, <2>1 DEF SalesInv
  <2>4. /\ items'[i].status = "sold"
        /\ itemRows'[i].status = "sold"
        /\ items'[i].seller = items[i].seller
        /\ itemRows'[i].seller = items[i].seller
        /\ items'[i].obsolete = itemRows'[i].obsolete
        /\ \A j \in ItemIds :
             j # i => itemRows'[j] = itemRows[j] /\ items'[j] = items[j]
    BY <1>1, <1>5, <1>7, <1>8, UpsertedItemFields, StoreAssumption
    DEF SalesInv, NoItem, Item
  <2>5. i < nextItemID
    BY <1>1, StoreAssumption DEF Purchase, SalesInv, IdsAreFresh, NoItem, Item
  <2>6. IdsAreFresh'
    <3>1. \A s \in TxnIds : s < t => s < t + 1
      BY <1>2 DEF TxnIds
    <3>2. \A s \in TxnIds : txnRows'[s] # NoTxn =>
            SameTxn(txnRows'[s], transactions'[s])
      BY <2>2, <2>3 DEF Purchase, SalesInv, IdsAreFresh, SameTxn
    <3>3. \A s \in TxnIds :
            txnRows'[s] # NoTxn \/ transactions'[s] # NoTxn => s < t + 1
      BY <1>2, <2>2, <3>1 DEF Purchase, SalesInv, IdsAreFresh
    <3>4. \A j \in ItemIds :
            itemRows'[j] # NoItem \/ items'[j] # NoItem => j < nextItemID
      BY <2>4, <2>5 DEF Purchase, SalesInv, IdsAreFresh
    <3>. QED
      BY <2>1, <3>2, <3>3, <3>4 DEF Purchase, SalesInv, IdsAreFresh
  <2>7. MemoryLeads'
    <3>1. \A s \in TxnIds :
            txnRows'[s] # NoTxn => AtLeast(transactions'[s], txnRows'[s])
      BY <2>2, <2>3, AtLeastItself DEF Purchase, SalesInv, MemoryLeads
    <3>. QED  BY <2>4, <3>1 DEF Purchase, SalesInv, MemoryLeads
  <2>8. SaleMatchesItem'
    <3>1. SaleMatchesItemIn(transactions)'
      BY <1>3, <1>6, <2>2, <2>3, <2>4
      DEF SalesInv, SaleMatchesItem, SaleMatchesItemIn, Txn
    <3>2. SaleMatchesItemIn(txnRows)'
      BY <1>3, <1>6, <2>2, <2>3, <2>4
      DEF SalesInv, SaleMatchesItem, SaleMatchesItemIn, Txn
    <3>. QED  BY <3>1, <3>2 DEF SaleMatchesItem
  <2>9. OneSalePerItem'
    <3>1. i # 0
      BY DEF ItemIds
    <3>2. OneSaleIn(transactions)'
      BY <1>3, <1>6, <2>2, <2>3, <3>1
      DEF SalesInv, OneSalePerItem, OneSaleIn, NoTxn
    <3>3. OneSaleIn(txnRows)'
      <4>. SUFFICES ASSUME NEW s \in TxnIds, NEW r \in TxnIds,
                           txnRows'[s] # NoTxn,
                           txnRows'[s].item = txnRows'[r].item
                    PROVE  s = r
        BY DEF OneSaleIn
      <4>1. txnRows'[r] # NoTxn
        BY DEF NoTxn, Txn, ItemIds
      <4>. QED
        BY <1>3, <1>6, <2>2, <2>3, <4>1
        DEF SalesInv, OneSalePerItem, OneSaleIn
    <3>. QED  BY <3>2, <3>3 DEF OneSalePerItem
  <2>10. AcknowledgedIsDurable'
    <3>1. ASSUME NEW s \in TxnIds, receipts'[s] # NoTxn
          PROVE  AtLeast(txnRows'[s], receipts'[s])
      <4>1. CASE s # t
        BY <2>2, <3>1, <4>1 DEF SalesInv, AcknowledgedIsDurable
      <4>2. CASE s = t /\ receipts' # receipts
        BY <2>1, <4>2, AtLeastItself DEF SalesInv
      <4>3. CASE s = t /\ receipts' = receipts
        BY <1>2, <3>1, <4>3, AtLeastIsSale DEF SalesInv, AcknowledgedIsDurable
      <4>. QED  BY <4>1, <4>2, <4>3
    <3>. QED  BY <3>1 DEF Purchase, SalesInv, AcknowledgedIsDurable
  <2>. QED  BY <2>6, <2>7, <2>8, <2>9, <2>10 DEF SalesInv
<1>9. CASE o1 # "ok"
  <2>1. UNCHANGED <<nextTxnID, transactions, txnRows, receipts>>
    BY <1>9 DEF Purchase, Continues
  <2>. HIDE DEF txn, item
  <2>2. /\ items'[i].status = "sold"
        /\ items'[i].seller = items[i].seller
        /\ itemRows'[i].seller = items[i].seller
        /\ itemRows'[i].status = "sold" =>
             items'[i].obsolete = itemRows'[i].obsolete
        /\ \A j \in ItemIds :
             j # i => itemRows'[j] = itemRows[j] /\ items'[j] = items[j]
    BY <1>1, <1>5, <1>7, UpsertedItemFields, StoreAssumption
    DEF SalesInv, NoItem, Item
  <2>3. i < nextItemID
    BY <1>1, StoreAssumption DEF Purchase, SalesInv, IdsAreFresh, NoItem, Item
  <2>4. IdsAreFresh'
    BY <2>1, <2>2, <2>3 DEF Purchase, SalesInv, IdsAreFresh, SameTxn
  <2>5. MemoryLeads'
    BY <2>1, <2>2 DEF Purchase, SalesInv, MemoryLeads, AtLeast, SameTxn
  <2>6. SaleMatchesItem'
    BY <1>6, <2>1, <2>2 DEF SalesInv, SaleMatchesItem, SaleMatchesItemIn, Txn
  <2>7. OneSalePerItem' /\ AcknowledgedIsDurable'
    BY <2>1 DEF Purchase, SalesInv, OneSalePerItem, OneSaleIn,
                AcknowledgedIsDurable, AtLeast, SameTxn
  <2>. QED  BY <2>4, <2>5, <2>6, <2>7 DEF SalesInv
<1>. QED  BY <1>8, <1>9

LEMMA PurchaseKilledSales ==
  ASSUME SalesInv, TypeOK', NEW u \in Users, NEW i \in ItemIds,
         PurchaseKilled(u, i)
  PROVE  SalesInv'
<1>. DEFINE item == [items[i] EXCEPT !.status = "sold"]
<1>. USE DEF TypeOK, StoreTypeOK
<1>1. /\ items[i] \in Item
      /\ item \in Item /\ item.status = "sold" /\ item.seller = items[i].seller
  <2>1. items[i] \in Item /\ item \in Item
    BY BuyableItem DEF PurchaseKilled, SalesInv
  <2>. QED  BY <2>1 DEF Item
<1>2. itemRows' = [itemRows EXCEPT ![i] = UpsertedItem(itemRows[i], item)]
  BY DEF PurchaseKilled, SaveItem
<1>3. itemRows[i].status # "sold"
  BY DEF PurchaseKilled, Buyable, SalesInv, MemoryLeads
<1>. HIDE DEF item
<1>4. \A j \in ItemIds : itemRows[j].status = "sold" => itemRows'[j] = itemRows[j]
  BY <1>2, <1>3 DEF SalesInv
<1>5. ~serving' /\ transactions' = NoTxns /\ UNCHANGED <<txnRows, reviewRows, receiptVars>>
  BY DEF PurchaseKilled, Forget
<1>6. SaleMatchesItem'
  BY <1>4, <1>5
  DEF SalesInv, SaleMatchesItem, SaleMatchesItemIn, NoTxns, Txn
<1>7. OneSalePerItem' /\ AcknowledgedIsDurable'
  BY <1>5 DEF SalesInv, OneSalePerItem, OneSaleIn, NoTxns,
              AcknowledgedIsDurable, AtLeast, SameTxn, receiptVars
<1>. QED  BY <1>5, <1>6, <1>7 DEF SalesInv, IdsAreFresh, MemoryLeads

-----------------------------------------------------------------------------
(* Reviewing, dying and starting *)

LEMMA CreateReviewSales ==
  ASSUME SalesInv, TypeOK', NEW u \in Users, NEW t \in TxnIds, NEW o1, NEW o2,
         CreateReview(u, t, o1, o2)
  PROVE  SalesInv'
<1>. DEFINE r == nextReviewID
            review == [txn |-> t, reviewer |-> u, reviewee |-> RevieweeOf(u, t)]
<1>. USE DEF TypeOK, StoreTypeOK
<1>1. r \in ReviewIds /\ r \in Nat
  BY StoreAssumption DEF CreateReview, SalesInv, ReviewIds
<1>2. reviews[r] = NoReview /\ reviewRows[r] = NoReview
  BY <1>1 DEF CreateReview, SalesInv, IdsAreFresh
<1>3. /\ nextReviewID' = r + 1
      /\ reviews' = [reviews EXCEPT ![r] = review]
      /\ reviewRows' \in {reviewRows, [reviewRows EXCEPT ![r] = review]}
      /\ o1 = "ok" => reviewRows' = [reviewRows EXCEPT ![r] = review]
  BY <1>2 DEF CreateReview, SaveReview, UpsertedReview
<1>4. review.txn = t /\ review.reviewer = u
  OBVIOUS
<1>. HIDE DEF review
<1>5. UNCHANGED <<serving, items, transactions, nextItemID, nextTxnID,
                  itemRows, txnRows, receipts>>
  BY DEF CreateReview
<1>6. \A s \in ReviewIds :
        s # r => reviews'[s] = reviews[s] /\ reviewRows'[s] = reviewRows[s]
  BY <1>3 DEF SalesInv
<1>7. IdsAreFresh'
  <2>1. \A s \in ReviewIds : s < r => s < r + 1
    BY <1>1 DEF ReviewIds
  <2>2. r < r + 1
    BY <1>1
  <2>3. reviewRows'[r] # NoReview => reviewRows'[r] = reviews'[r]
    BY <1>1, <1>2, <1>3 DEF SalesInv
  <2>. QED
    BY <1>3, <1>5, <1>6, <2>1, <2>2, <2>3
    DEF CreateReview, SalesInv, IdsAreFresh, SameTxn
<1>8. /\ MemoryLeads'
      /\ SaleMatchesItem'
      /\ OneSalePerItem'
  BY <1>5 DEF SalesInv, MemoryLeads, SaleMatchesItem, SaleMatchesItemIn,
              OneSalePerItem, OneSaleIn, AtLeast, SameTxn
<1>9. AcknowledgedIsDurable'
  <2>1. ASSUME NEW s \in TxnIds, receipts'[s] # NoTxn
        PROVE  AtLeast(txnRows'[s], receipts'[s])
    BY <1>5, <2>1 DEF SalesInv, AcknowledgedIsDurable
  <2>2. ASSUME NEW a \in reviewReceipts
        PROVE  \E s \in ReviewIds : /\ reviewRows'[s].txn = a[1]
                                    /\ reviewRows'[s].reviewer = a[2]
    <3>1. PICK s \in ReviewIds : /\ reviewRows[s].txn = a[1]
                                 /\ reviewRows[s].reviewer = a[2]
      BY DEF SalesInv, AcknowledgedIsDurable
    <3>2. s # r
      BY <1>2, <3>1, StoreAssumption DEF SalesInv, NoReview, TxnIds
    <3>. QED  BY <1>6, <3>1, <3>2
  <2>3. ASSUME o1 = "ok"
        PROVE  reviewRows'[r].txn = t /\ reviewRows'[r].reviewer = u
    BY <1>1, <1>3, <1>4, <2>3 DEF SalesInv
  <2>4. reviewReceipts' \subseteq reviewReceipts \cup {<<t, u>>}
    BY DEF CreateReview
  <2>5. reviewReceipts' # reviewReceipts => o1 = "ok"
    BY DEF CreateReview, Continues
  <2>6. ASSUME NEW a \in reviewReceipts'
        PROVE  \E s \in ReviewIds : /\ reviewRows'[s].txn = a[1]
                                    /\ reviewRows'[s].reviewer = a[2]
    <3>1. CASE a \in reviewReceipts
      BY <2>2, <3>1
    <3>2. CASE a \notin reviewReceipts
      <4>1. a = <<t, u>> /\ o1 = "ok"
        BY <2>4, <2>5, <2>6, <3>2
      <4>. QED  BY <1>1, <2>3, <4>1
    <3>. QED  BY <3>1, <3>2
  <2>. QED  BY <2>1, <2>6 DEF AcknowledgedIsDurable
<1>. QED  BY <1>7, <1>8, <1>9 DEF SalesInv

LEMMA CrashSales ==
  ASSUME SalesInv, Crash, UNCHANGED receiptVars, TypeOK'
  PROVE  SalesInv'
<1>1. UNCHANGED <<itemRows, txnRows, reviewRows, receiptVars>>
  BY DEF Crash, tables
<1>2. ~serving' /\ transactions' = NoTxns
  BY DEF Crash, Forget
<1>3. AcknowledgedIsDurable'
  BY <1>1 DEF SalesInv, AcknowledgedIsDurable, AtLeast, SameTxn, receiptVars
<1>4. SaleMatchesItem' /\ OneSalePerItem'
  BY <1>1, <1>2 DEF SalesInv, SaleMatchesItem, SaleMatchesItemIn,
                    OneSalePerItem, OneSaleIn, NoTxns
<1>. QED  BY <1>2, <1>3, <1>4 DEF SalesInv, IdsAreFresh, MemoryLeads

(* What the purge leaves of the tables: an item and its sale go together.  *)
LEMMA SalesAfterPurge ==
  ASSUME SalesInv, PurgeTables, PurgeReceipts
  PROVE  /\ \A i \in ItemIds : itemRows'[i] \in {itemRows[i], NoItem}
         /\ \A t \in TxnIds : txnRows'[t] \in {txnRows[t], NoTxn}
         /\ \A r \in ReviewIds : reviewRows'[r] \in {reviewRows[r], NoReview}
         /\ OneSaleIn(txnRows')
         /\ SaleMatchesItemIn(txnRows)'
         /\ AcknowledgedIsDurable'
<1>. USE DEF TypeOK, StoreTypeOK
<1>1. /\ \A i \in ItemIds :
           itemRows'[i] = IF i \in ObsoleteItems THEN NoItem ELSE itemRows[i]
      /\ \A t \in TxnIds :
           txnRows'[t] = IF t \in ObsoleteSales THEN NoTxn ELSE txnRows[t]
      /\ \A r \in ReviewIds :
           reviewRows'[r] = IF reviewRows[r].txn \in ObsoleteSales THEN NoReview
                            ELSE reviewRows[r]
  BY DEF PurgeTables
<1>2. ASSUME NEW t \in TxnIds, txnRows'[t] # NoTxn
      PROVE  /\ txnRows'[t] = txnRows[t]
             /\ txnRows[t] \in Txn
             /\ itemRows'[txnRows[t].item] = itemRows[txnRows[t].item]
  <2>1. txnRows'[t] = txnRows[t] /\ txnRows[t] \in Txn /\ t \notin ObsoleteSales
    BY <1>1, <1>2 DEF SalesInv
  <2>. QED  BY <1>1, <2>1 DEF ObsoleteSales, Txn
<1>3. OneSaleIn(txnRows')
  <2>. SUFFICES ASSUME NEW s \in TxnIds, NEW r \in TxnIds,
                       txnRows'[s] # NoTxn,
                       txnRows'[s].item = txnRows'[r].item
                PROVE  s = r
    BY DEF OneSaleIn
  <2>1. txnRows'[r] # NoTxn
    BY <1>2 DEF NoTxn, Txn, ItemIds
  <2>. QED  BY <1>2, <2>1 DEF SalesInv, OneSalePerItem, OneSaleIn
<1>4. SaleMatchesItemIn(txnRows)'
  BY <1>2 DEF SalesInv, SaleMatchesItem, SaleMatchesItemIn
<1>5. AcknowledgedIsDurable'
  <2>1. ASSUME NEW t \in TxnIds, receipts'[t] # NoTxn
        PROVE  AtLeast(txnRows'[t], receipts'[t])
    <3>1. receipts'[t] = receipts[t] /\ receipts[t].item \notin ObsoleteItems
      BY <2>1 DEF PurgeReceipts
    <3>2. AtLeast(txnRows[t], receipts[t])
      BY <2>1, <3>1 DEF SalesInv, AcknowledgedIsDurable
    <3>3. t \notin ObsoleteSales
      BY <3>1, <3>2 DEF AtLeast, SameTxn, ObsoleteSales
    <3>. QED  BY <1>1, <3>1, <3>2, <3>3
  <2>2. ASSUME NEW a \in reviewReceipts'
        PROVE  \E r \in ReviewIds : /\ reviewRows'[r].txn = a[1]
                                    /\ reviewRows'[r].reviewer = a[2]
    <3>1. a \in reviewReceipts /\ a[1] \notin ObsoleteSales
      BY DEF PurgeReceipts
    <3>2. PICK r \in ReviewIds : /\ reviewRows[r].txn = a[1]
                                 /\ reviewRows[r].reviewer = a[2]
      BY <3>1 DEF SalesInv, AcknowledgedIsDurable
    <3>. QED  BY <1>1, <3>1, <3>2
  <2>. QED  BY <2>1, <2>2 DEF AcknowledgedIsDurable
<1>. QED  BY <1>1, <1>3, <1>4, <1>5

LEMMA RestartSales ==
  ASSUME SalesInv, Restart, PurgeReceipts, TypeOK'
  PROVE  SalesInv'
<1>. USE DEF TypeOK, StoreTypeOK
<1>1. PurgeTables /\ items' = itemRows' /\ transactions' = txnRows'
      /\ reviews' = reviewRows'
  BY DEF Restart
<1>2. /\ \A i \in ItemIds : itemRows[i] # NoItem => i < nextItemID'
      /\ \A t \in TxnIds : txnRows[t] # NoTxn => t < nextTxnID'
      /\ \A r \in ReviewIds : reviewRows[r] # NoReview => r < nextReviewID'
  BY DEF Restart, IsNextID
<1>3. /\ \A i \in ItemIds : itemRows'[i] # NoItem => i < nextItemID'
      /\ \A t \in TxnIds : txnRows'[t] # NoTxn => t < nextTxnID'
      /\ \A r \in ReviewIds : reviewRows'[r] # NoReview => r < nextReviewID'
      /\ OneSaleIn(txnRows')
      /\ SaleMatchesItemIn(txnRows)'
      /\ AcknowledgedIsDurable'
  BY <1>1, <1>2, SalesAfterPurge
<1>4. IdsAreFresh'
  BY <1>1, <1>3 DEF IdsAreFresh, SameTxn
<1>5. MemoryLeads'
  BY <1>1, AtLeastItself DEF MemoryLeads
<1>6. SaleMatchesItem' /\ OneSalePerItem'
  BY <1>1, <1>3 DEF SaleMatchesItem, SaleMatchesItemIn, OneSalePerItem, OneSaleIn
<1>. QED  BY <1>3, <1>4, <1>5, <1>6 DEF SalesInv

LEMMA RestartCutOffSales ==
  ASSUME SalesInv, EmptyWhenDown, RestartCutOff, PurgeReceipts, TypeOK'
  PROVE  SalesInv'
<1>1. PurgeTables /\ ~serving' /\ transactions' = NoTxns
  BY DEF RestartCutOff, memory, EmptyWhenDown
<1>2. OneSaleIn(txnRows') /\ SaleMatchesItemIn(txnRows)' /\ AcknowledgedIsDurable'
  BY <1>1, SalesAfterPurge
<1>3. SaleMatchesItem' /\ OneSalePerItem'
  BY <1>1, <1>2 DEF SaleMatchesItem, SaleMatchesItemIn, OneSalePerItem, OneSaleIn,
                    NoTxns
<1>. QED  BY <1>1, <1>2, <1>3 DEF SalesInv, IdsAreFresh, MemoryLeads

LEMMA ProcessStepSales ==
  ASSUME SalesInv, EmptyWhenDown, TypeOK', ProcessStep
  PROVE  SalesInv'
  BY CrashSales, RestartSales, RestartCutOffSales DEF ProcessStep

-----------------------------------------------------------------------------
(* The invariant and what follows from it *)

LEMMA InitSales == Init => SalesInv
<1>. SUFFICES ASSUME Init PROVE SalesInv
  OBVIOUS
<1>1. TypeOK
  BY InitType
<1>2. \A i \in ItemIds : items[i] # NoItem => i < nextItemID
  BY StoreAssumption DEF Init, StoreInit, SeededItem, ItemIds
<1>3. IdsAreFresh
  BY <1>2 DEF Init, StoreInit, IdsAreFresh, NoTxns, NoReviews
<1>4. MemoryLeads
  BY DEF Init, StoreInit, MemoryLeads, NoTxns
<1>5. SaleMatchesItem /\ OneSalePerItem
  BY DEF Init, StoreInit, SaleMatchesItem, SaleMatchesItemIn,
         OneSalePerItem, OneSaleIn, NoTxns
<1>6. AcknowledgedIsDurable
  BY DEF Init, AcknowledgedIsDurable, NoTxns
<1>. QED  BY <1>1, <1>3, <1>4, <1>5, <1>6 DEF SalesInv

LEMMA NextSales == SalesInv /\ EmptyWhenDown /\ [Next]_vars => SalesInv'
<1>. SUFFICES ASSUME SalesInv, EmptyWhenDown, [Next]_vars PROVE SalesInv'
  OBVIOUS
<1>1. TypeOK'
  BY NextType DEF SalesInv
<1>2. CASE Next
  <2>1. ASSUME NEW u \in Users, NEW i \in ItemIds, ItemStep(u, i)
        PROVE  SalesInv'
    BY <1>1, <2>1, UpdateItemSales, DeleteUnsoldItemSales, DeleteSoldItemSales,
       DeleteSoldItemKilledSales, PurchaseSales, PurchaseKilledSales
    DEF ItemStep
  <2>2. ASSUME NEW u \in Users, NEW t \in TxnIds, SaleStep(u, t)
        PROVE  SalesInv'
    BY <1>1, <2>2, PaySales, CompleteSales, DeleteTransactionSales,
       CreateReviewSales DEF SaleStep
  <2>. QED
    BY <1>1, <1>2, <2>1, <2>2, CreateItemSales, ProcessStepSales DEF Next
<1>3. CASE UNCHANGED vars
  BY <1>3 DEF vars, memory, tables, receiptVars, SalesInv, TypeOK, StoreTypeOK,
              IdsAreFresh, MemoryLeads, SaleMatchesItem, SaleMatchesItemIn,
              OneSalePerItem, OneSaleIn, AcknowledgedIsDurable, AtLeast, SameTxn
<1>. QED  BY <1>2, <1>3

(* The invariant the other theorems of this module rest on. *)
THEOREM SalesInvariant == Spec => []SalesInv
  BY InitSales, NextSales, DownIsEmpty, PTL DEF Spec

(* No item is ever sold twice. *)
THEOREM SoldOnce == Spec => []OneSalePerItem
<1>1. SalesInv => OneSalePerItem
  BY DEF SalesInv
<1>. QED  BY <1>1, SalesInvariant, PTL

(* A recorded sale always finds its item sold, by the seller it names. *)
THEOREM SaleAgreesWithItem == Spec => []SaleMatchesItem
<1>1. SalesInv => SaleMatchesItem
  BY DEF SalesInv
<1>. QED  BY <1>1, SalesInvariant, PTL

(* What a client was answered with a 2xx about a sale, and every review    *)
(* that was answered with a 201, is in the tables until a start purges the *)
(* item (createPurchaseRequest, completeTransaction, createReview and      *)
(* purgeItemByTitle, through every failed write and every crash).          *)
THEOREM AnswersAreDurable == Spec => []AcknowledgedIsDurable
<1>1. SalesInv => AcknowledgedIsDurable
  BY DEF SalesInv
<1>. QED  BY <1>1, SalesInvariant, PTL

(* The process never lags behind the tables: no handler writes a record    *)
(* that is an earlier version of its row.                                  *)
THEOREM MemoryNeverLags == Spec => []MemoryLeads
<1>1. SalesInv => MemoryLeads
  BY DEF SalesInv
<1>. QED  BY <1>1, SalesInvariant, PTL

(* No write ever hits the row of another record. *)
THEOREM IdsStayFresh == Spec => []IdsAreFresh
<1>1. SalesInv => IdsAreFresh
  BY DEF SalesInv
<1>. QED  BY <1>1, SalesInvariant, PTL
=============================================================================
