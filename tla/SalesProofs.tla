---------------------------- MODULE SalesProofs ----------------------------
(***************************************************************************)
(* Theorems about what becomes of a sale in Market, all relative to        *)
(* SalesInv of MarketProofs.                                               *)
(*                                                                         *)
(* The tables implement the ledger of sales of module Ledger.  Under the   *)
(* mapping of Sales, a handler's step is a sale that is recorded (with its *)
(* item sold by the same step or earlier), a recorded sale that moves      *)
(* forward, an item that is sold without its sale, or a stutter, and a     *)
(* start that purges is the ledger's purge.                                *)
(*                                                                         *)
(* No party of a sale has two reviews of it, and an item that its seller   *)
(* deleted after its sale had the sale hidden first: rows agree with the   *)
(* map while the process serves, so that what a handler checks in a map it *)
(* has also checked of the rows, and no write turns a row back.  An        *)
(* answered review counts in a rating.  Then, for writes that do not fail: *)
(* memory and tables agree, and with that every step changes the rows of   *)
(* sales and reviews in one of a few ways (RowsStep), which keep reviews   *)
(* in order and hide only what is closed.                                  *)
(***************************************************************************)
EXTENDS MarketProofs

-----------------------------------------------------------------------------
(* The ledger *)

SoldRows == {i \in ItemIds : itemRows[i].status = "sold"}

DoomedRows == {i \in SoldRows : itemRows[i].obsolete}

SaleOf(txn) == [item |-> txn.item, buyer |-> txn.buyer,
                seller |-> txn.seller, status |-> txn.status]

SaleRows == [t \in TxnIds |-> SaleOf(txnRows[t])]

-----------------------------------------------------------------------------
(* A step of a handler changes at most one row of transactions, and the    *)
(* sold items by at most one: that of the changed row, if there is one.    *)

SameSold == SoldRows' = SoldRows /\ DoomedRows' = DoomedRows

(* MarkSold of the ledger, of the rows *)
MarkedSold(i) ==
  /\ SoldRows' = SoldRows \cup {i}
  /\ DoomedRows' \in IF i \in SoldRows THEN {DoomedRows}
                     ELSE {DoomedRows, DoomedRows \cup {i}}

LEMMA SalesMapped ==
  /\ \A i \in ItemIds : MarkedSold(i) => Sales!MarkSold(i)
  /\ SameSold /\ SaleRows' = SaleRows => UNCHANGED Sales!vars
<1>1. DoomedRows = {i \in ItemIds : itemRows[i].status = "sold" /\ itemRows[i].obsolete}
  BY DEF DoomedRows, SoldRows
<1>2. DoomedRows' = {i \in ItemIds : itemRows'[i].status = "sold" /\ itemRows'[i].obsolete}
  BY DEF DoomedRows, SoldRows
<1>. QED
  BY <1>1, <1>2 DEF MarkedSold, Sales!MarkSold, SameSold, Sales!vars, SoldRows, SaleRows, SaleOf

LEMMA ItemRowStep ==
  ASSUME txnRows' = txnRows, NEW i \in ItemIds, SameSold \/ MarkedSold(i)
  PROVE  [Sales!Next]_(Sales!vars)
<1>1. SaleRows' = SaleRows
  BY DEF SaleRows, SaleOf
<1>2. CASE SameSold
  BY <1>1, <1>2, SalesMapped
<1>3. CASE MarkedSold(i) /\ i \in SoldRows
  <2>1. SameSold
    BY <1>3 DEF MarkedSold, SameSold
  <2>. QED  BY <1>2, <2>1
<1>4. CASE MarkedSold(i) /\ i \notin SoldRows
  <2>1. Sales!Sell(i)
    BY <1>1, <1>4, SalesMapped DEF Sales!Sell, SoldRows, SaleRows, SaleOf
  <2>. QED  BY <2>1 DEF Sales!Next
<1>. QED  BY <1>2, <1>3, <1>4

LEMMA SaleRowStep ==
  ASSUME SalesInv, SalesInv', NEW t \in TxnIds, NEW txn \in Txn,
         txnRows' \in {txnRows, [txnRows EXCEPT ![t] = txn]},
         txnRows[t] # NoTxn => AtLeast(txn, txnRows[t]),
         SameSold \/ MarkedSold(txn.item)
  PROVE  [Sales!Next]_(Sales!vars)
<1>. USE DEF TypeOK, StoreTypeOK
<1>1. CASE txnRows' = txnRows
  BY <1>1, ItemRowStep DEF Txn
<1>2. CASE txnRows' # txnRows
  <2>1. txnRows' = [txnRows EXCEPT ![t] = txn] /\ txn # NoTxn
    BY <1>2, StoreAssumption DEF Txn, NoTxn
  <2>2. txnRows'[t] = txn
    BY <2>1 DEF SalesInv
  <2>3. /\ txn.item \in SoldRows'
        /\ txn.buyer # txn.seller
    BY <2>1, <2>2
    DEF SalesInv, SaleMatchesItem, SaleMatchesItemIn, SoldRows, Txn
  <2>4. SaleRows' = [SaleRows EXCEPT ![t] = SaleOf(txn)]
    BY <2>1 DEF SalesInv, SaleRows
  <2>5. CASE txnRows[t] = NoTxn
    <3>1. MarkedSold(txn.item)
      BY <2>3 DEF SameSold, MarkedSold
    <3>2. SaleOf(txn) \in Sales!Sale
      BY DEF SaleOf, Sales!Sale, Sales!Stages, Txn
    <3>3. SaleRows[t] = Sales!NoSale
      BY <2>5 DEF SaleRows, SaleOf, Sales!NoSale, NoTxn
    <3>4. \A other \in TxnIds : SaleRows[other].item # SaleOf(txn).item
      <4>. SUFFICES ASSUME NEW other \in TxnIds
                    PROVE  txnRows[other].item # txn.item
        BY DEF SaleRows, SaleOf
      <4>1. CASE other = t
        BY <2>5, <4>1 DEF NoTxn, Txn, ItemIds
      <4>2. CASE other # t
        <5>1. txnRows'[other] = txnRows[other]
          BY <2>1, <4>2 DEF SalesInv
        <5>. QED
          BY <2>1, <2>2, <4>2, <5>1 DEF SalesInv, OneSalePerItem, OneSaleIn
      <4>. QED  BY <4>1, <4>2
    <3>5. Sales!Record(t, SaleOf(txn))
      <4>1. SaleOf(txn).buyer # SaleOf(txn).seller
        BY <2>3 DEF SaleOf
      <4>2. SaleOf(txn).item = txn.item
        BY DEF SaleOf
      <4>. QED
        BY <2>4, <3>1, <3>3, <3>4, <4>1, <4>2, SalesMapped
        DEF Sales!Record, SaleRows, SaleOf, Txn
    <3>6. SaleRows'[t] # SaleRows[t]
      <4>1. SaleRows'[t].status = txn.status
        BY <2>2 DEF SaleRows, SaleOf
      <4>2. SaleRows[t].status = "none"
        BY <3>3 DEF Sales!NoSale
      <4>. QED  BY <4>1, <4>2 DEF Txn
    <3>. QED  BY <3>2, <3>5, <3>6 DEF Sales!Next, SaleRows, SaleOf
  <2>6. CASE txnRows[t] # NoTxn
    <3>1. SameTxn(txn, txnRows[t])
      BY <2>6 DEF AtLeast
    <3>2. SameSold
      <4>1. txn.item \in SoldRows
        BY <2>6, <3>1
        DEF SameTxn, SalesInv, SaleMatchesItem, SaleMatchesItemIn, SoldRows, Txn
      <4>. QED  BY <4>1 DEF SameSold, MarkedSold
    <3>3. SaleRows[t] # Sales!NoSale
      BY <2>6, StoreAssumption
      DEF SalesInv, SaleRows, SaleOf, Sales!NoSale, Txn
    <3>4. SaleOf(txn) = [SaleRows[t] EXCEPT !.status = txn.status]
      BY <3>1 DEF SaleRows, SaleOf, SameTxn
    <3>5. SaleRows[t].status = txnRows[t].status
      BY DEF SaleRows, SaleOf
    <3>6. CASE txn.status = txnRows[t].status
      <4>1. SaleOf(txn) = SaleRows[t]
        BY <3>1, <3>6 DEF SaleRows, SaleOf, SameTxn
      <4>2. SaleRows' = SaleRows
        BY <2>4, <4>1 DEF SaleRows
      <4>. QED  BY <3>2, <4>2, SalesMapped
    <3>7. CASE txn.status # txnRows[t].status
      <4>1. txn.status \in Sales!Stages /\ txnRows[t].status \in Sales!Stages
        BY <2>6 DEF SalesInv, Txn, Sales!Stages
      <4>2. Sales!Rank(txn.status) > Sales!Rank(txnRows[t].status)
        BY <2>6, <3>7, <4>1 DEF AtLeast, Sales!Rank, Sales!Stages
      <4>3. DoomedRows = {i \in ItemIds : itemRows[i].status = "sold"
                                           /\ itemRows[i].obsolete}
            /\ DoomedRows' = {i \in ItemIds : itemRows'[i].status = "sold"
                                             /\ itemRows'[i].obsolete}
        BY DEF DoomedRows, SoldRows
      <4>4. Sales!Advance(t, txn.status)
        BY <2>4, <3>2, <3>3, <3>4, <3>5, <4>2, <4>3
        DEF Sales!Advance, SameSold, SoldRows, SaleRows, SaleOf
      <4>5. SaleRows'[t] # SaleRows[t]
        BY <2>2, <3>5, <3>7 DEF SaleRows, SaleOf
      <4>. QED  BY <4>1, <4>4, <4>5 DEF Sales!Next, SaleRows, SaleOf
    <3>. QED  BY <3>6, <3>7
  <2>. QED  BY <2>5, <2>6
<1>. QED  BY <1>1, <1>2

-----------------------------------------------------------------------------
(* The rows each handler changes *)

LEMMA SaveItemSold ==
  ASSUME TypeOK, NEW i \in ItemIds, NEW item \in Item, NEW o,
         SaveItem(i, item, o)
  PROVE  /\ item.status = "sold" /\ itemRows[i].status # "sold" =>
              SameSold \/ MarkedSold(i)
         /\ item.status # "sold" /\ itemRows[i].status # "sold" => SameSold
         /\ /\ item.status = "sold" /\ itemRows[i].status = "sold"
            /\ item.obsolete = itemRows[i].obsolete
            => SameSold
<1>. USE DEF TypeOK, StoreTypeOK
<1>1. CASE itemRows' = itemRows
  BY <1>1 DEF SameSold, DoomedRows, SoldRows
<1>2. CASE itemRows' # itemRows
  <2>1. itemRows' = [itemRows EXCEPT ![i] = UpsertedItem(itemRows[i], item)]
    BY <1>2 DEF SaveItem
  <2>2. itemRows'[i].status = item.status /\ itemRows'[i].obsolete = item.obsolete
    BY <2>1, UpsertedItemFields
  <2>3. \A j \in ItemIds : j # i => itemRows'[j] = itemRows[j]
    BY <2>1
  <2>4. CASE item.status = "sold" /\ itemRows[i].status # "sold"
    BY <2>2, <2>3, <2>4 DEF MarkedSold, DoomedRows, SoldRows
  <2>5. ASSUME item.status = "sold" <=> itemRows[i].status = "sold",
               item.status = "sold" => item.obsolete = itemRows[i].obsolete
        PROVE  SameSold
    BY <2>2, <2>3, <2>5 DEF SameSold, DoomedRows, SoldRows
  <2>. QED  BY <2>4, <2>5
<1>. QED  BY <1>1, <1>2

LEMMA SaveTransactionRow ==
  ASSUME SalesInv, NEW t \in TxnIds, NEW txn \in Txn, NEW o,
         SaveTransaction(t, txn, o), txnRows[t] # NoTxn => AtLeast(txn, txnRows[t])
  PROVE  txnRows' \in {txnRows, [txnRows EXCEPT ![t] = txn]}
<1>1. txnRows[t] # NoTxn => SameTxn(txnRows[t], txn)
  BY DEF AtLeast, SameTxn
<1>. QED
  BY <1>1, UpsertedTxnFields DEF SaveTransaction, SalesInv, TypeOK, StoreTypeOK

(* A sold item that has a sale in memory has a sold row. *)
LEMMA SoldItemWithSale ==
  ASSUME SalesInv, serving, NEW u \in Users, NEW i \in ItemIds, NEW t \in TxnIds,
         SaleClosed(u, i, t)
  PROVE  /\ itemRows[i].status = "sold"
         /\ Deleted(items[i]) \in Item
         /\ Deleted(items[i]).status = "sold"
         /\ Deleted(items[i]).obsolete = itemRows[i].obsolete
         /\ transactions[t] \in Txn
<1>. USE DEF SalesInv, TypeOK, StoreTypeOK
<1>1. transactions[t] \in Txn /\ transactions[t] # NoTxn
  BY DEF SaleClosed, NoTxn
<1>2. itemRows[i].status = "sold"
  BY <1>1 DEF SaleClosed, SalesOf, SaleMatchesItem, SaleMatchesItemIn
<1>3. items[i] \in Item
  BY ItemOfSeller DEF SaleClosed
<1>4. items[i].obsolete = itemRows[i].obsolete
  BY <1>2 DEF MemoryLeads
<1>. QED  BY <1>1, <1>2, <1>3, <1>4 DEF SaleClosed, Deleted, Item

(* The first write of deleteItem for a sold item *)
LEMMA HiddenSaleRow ==
  ASSUME SalesInv, SalesInv', serving,
         NEW u \in Users, NEW i \in ItemIds, NEW t \in TxnIds, NEW o,
         SaleClosed(u, i, t),
         SaveTransaction(t, [transactions[t] EXCEPT !.sellerHidden = TRUE], o),
         SameSold
  PROVE  [Sales!Next]_(Sales!vars)
<1>. DEFINE txn == [transactions[t] EXCEPT !.sellerHidden = TRUE]
<1>1. transactions[t] \in Txn
  BY SoldItemWithSale
<1>2. /\ txn \in Txn
      /\ SameTxn(txn, transactions[t])
      /\ txn.status = transactions[t].status
      /\ transactions[t].buyerHidden => txn.buyerHidden
      /\ txn.sellerHidden
  BY <1>1 DEF Txn, SameTxn
<1>. HIDE DEF txn
<1>3. AtLeast(txn, transactions[t])
  BY <1>2, AtLeastByFlags
<1>4. txnRows[t] # NoTxn => AtLeast(txn, txnRows[t])
  BY <1>3, AtLeastTransitive DEF SalesInv, MemoryLeads
<1>5. txnRows' \in {txnRows, [txnRows EXCEPT ![t] = txn]}
  BY <1>2, <1>4, SaveTransactionRow DEF txn
<1>. QED  BY <1>2, <1>4, <1>5, SaleRowStep

LEMMA ItemStepLedger ==
  ASSUME SalesInv, SalesInv', NEW u \in Users, NEW i \in ItemIds, ItemStep(u, i)
  PROVE  [Sales!Next]_(Sales!vars)
<1>. USE DEF SalesInv, TypeOK, StoreTypeOK
<1>1. ASSUME NEW status \in {"draft", "published", "sold"}, NEW ready \in BOOLEAN,
             NEW obsolete \in BOOLEAN, NEW o \in Outcomes,
             UpdateItem(u, i, status, ready, obsolete, o)
      PROVE  [Sales!Next]_(Sales!vars)
  <2>. DEFINE new == Mutated(items[i], status, ready, obsolete)
  <2>1. items[i] \in Item
    BY <1>1, ItemOfSeller DEF UpdateItem
  <2>2. new \in Item /\ new.status # "sold"
    BY <1>1, <2>1 DEF UpdateItem, ValidMutation, Mutated, Item
  <2>3. itemRows[i].status # "sold"
    BY <1>1 DEF UpdateItem, MemoryLeads
  <2>4. SameSold /\ txnRows' = txnRows
    BY <1>1, <2>2, <2>3, SaveItemSold DEF UpdateItem
  <2>. QED  BY <2>4, ItemRowStep
<1>2. ASSUME NEW o \in Outcomes, DeleteUnsoldItem(u, i, o)
      PROVE  [Sales!Next]_(Sales!vars)
  <2>1. items[i] \in Item
    BY <1>2, ItemOfSeller DEF DeleteUnsoldItem
  <2>2. Deleted(items[i]) \in Item /\ Deleted(items[i]).status # "sold"
    BY <1>2, <2>1 DEF DeleteUnsoldItem, Deleted, Item
  <2>3. itemRows[i].status # "sold"
    BY <1>2 DEF DeleteUnsoldItem, MemoryLeads
  <2>4. SameSold /\ txnRows' = txnRows
    BY <1>2, <2>2, <2>3, SaveItemSold DEF DeleteUnsoldItem
  <2>. QED  BY <2>4, ItemRowStep
<1>3. ASSUME NEW t \in TxnIds, NEW o1 \in Outcomes, NEW o2 \in Outcomes,
             DeleteSoldItem(u, i, t, o1, o2)
      PROVE  [Sales!Next]_(Sales!vars)
  <2>1. itemRows[i].status = "sold" /\ Deleted(items[i]) \in Item
        /\ Deleted(items[i]).status = "sold"
        /\ Deleted(items[i]).obsolete = itemRows[i].obsolete
    BY <1>3, SoldItemWithSale DEF DeleteSoldItem
  <2>2. SameSold
    BY <1>3, <2>1, SaveItemSold DEF DeleteSoldItem, SameSold, DoomedRows, SoldRows
  <2>. QED  BY <1>3, <2>2, HiddenSaleRow DEF DeleteSoldItem
<1>4. ASSUME NEW t \in TxnIds, DeleteSoldItemKilled(u, i, t)
      PROVE  [Sales!Next]_(Sales!vars)
  <2>1. SameSold
    BY <1>4 DEF DeleteSoldItemKilled, SameSold, DoomedRows, SoldRows
  <2>. QED  BY <1>4, <2>1, HiddenSaleRow DEF DeleteSoldItemKilled
<1>5. ASSUME NEW status \in {"active", "pending"}, NEW o1 \in Outcomes,
             NEW o2 \in Outcomes, Purchase(u, i, status, o1, o2)
      PROVE  [Sales!Next]_(Sales!vars)
  <2>. DEFINE t == nextTxnID
              txn == SoldTo(u, i, status)
  <2>1. /\ items[i] \in Item
        /\ [items[i] EXCEPT !.status = "sold"] \in Item
        /\ [items[i] EXCEPT !.status = "sold"].status = "sold"
    BY <1>5, BuyableItem DEF Purchase, Item
  <2>2. SameSold \/ MarkedSold(i)
    <3>1. itemRows[i].status # "sold"
      BY <1>5 DEF Purchase, Buyable, MemoryLeads
    <3>. QED  BY <1>5, <2>1, <3>1, SaveItemSold DEF Purchase
  <2>3. CASE o1 = "ok"
    <3>1. t \in TxnIds /\ txnRows[t] = NoTxn
      <4>1. t \in TxnIds /\ t \in Nat
        BY <1>5, StoreAssumption DEF Purchase, TxnIds
      <4>. QED  BY <1>5, <4>1 DEF Purchase, IdsAreFresh
    <3>2. txn \in Txn /\ txn.item = i
      BY <2>1 DEF SoldTo, Txn, Item
    <3>3. SaveTransaction(t, txn, o2)
      BY <1>5, <2>3 DEF Purchase, Continues
    <3>4. txnRows' \in {txnRows, [txnRows EXCEPT ![t] = txn]}
      BY <3>1, <3>2, <3>3, SaveTransactionRow
    <3>. QED  BY <2>2, <3>1, <3>2, <3>4, SaleRowStep
  <2>4. CASE o1 # "ok"
    <3>1. txnRows' = txnRows
      BY <1>5, <2>4 DEF Purchase, Continues
    <3>. QED  BY <2>2, <3>1, ItemRowStep
  <2>. QED  BY <2>3, <2>4
<1>6. ASSUME PurchaseKilled(u, i)
      PROVE  [Sales!Next]_(Sales!vars)
  <2>1. /\ items[i] \in Item
        /\ [items[i] EXCEPT !.status = "sold"] \in Item
        /\ [items[i] EXCEPT !.status = "sold"].status = "sold"
    BY <1>6, BuyableItem DEF PurchaseKilled, Item
  <2>2. itemRows[i].status # "sold"
    BY <1>6 DEF PurchaseKilled, Buyable, MemoryLeads
  <2>3. (SameSold \/ MarkedSold(i)) /\ txnRows' = txnRows
    BY <1>6, <2>1, <2>2, SaveItemSold DEF PurchaseKilled
  <2>. QED  BY <2>3, ItemRowStep
<1>. QED  BY <1>1, <1>2, <1>3, <1>4, <1>5, <1>6 DEF ItemStep

LEMMA ChangedSaleRow ==
  ASSUME SalesInv, SalesInv', serving,
         NEW t \in TxnIds, NEW txn \in Txn, NEW o,
         AtLeast(txn, transactions[t]), ChangeTransaction(t, txn, o)
  PROVE  [Sales!Next]_(Sales!vars)
<1>. USE DEF SalesInv
<1>1. txnRows[t] # NoTxn => AtLeast(txn, txnRows[t])
  BY AtLeastTransitive DEF MemoryLeads
<1>2. txnRows' \in {txnRows, [txnRows EXCEPT ![t] = txn]}
  BY <1>1, SaveTransactionRow DEF ChangeTransaction, WithTransaction
<1>3. SameSold
  BY DEF ChangeTransaction, SameSold, DoomedRows, SoldRows
<1>. QED  BY <1>1, <1>2, <1>3, SaleRowStep

LEMMA SaleStepLedger ==
  ASSUME SalesInv, SalesInv', NEW u \in Users, NEW t \in TxnIds, SaleStep(u, t)
  PROVE  [Sales!Next]_(Sales!vars)
<1>1. ASSUME NEW o, Pay(u, t, o)
      PROVE  [Sales!Next]_(Sales!vars)
  <2>1. transactions[t] \in Txn
    BY <1>1 DEF Pay, Payable, IsParty, SalesInv, TypeOK, StoreTypeOK
  <2>2. /\ [transactions[t] EXCEPT !.status = "active"] \in Txn
        /\ AtLeast([transactions[t] EXCEPT !.status = "active"], transactions[t])
    BY <1>1, <2>1 DEF Pay, Payable, Txn, AtLeast, SameTxn, Sales!Rank
  <2>. QED  BY <1>1, <2>2, ChangedSaleRow DEF Pay
<1>2. ASSUME NEW o, Complete(u, t, o)
      PROVE  [Sales!Next]_(Sales!vars)
  <2>1. transactions[t] \in Txn
    BY <1>2 DEF Complete, IsParty, SalesInv, TypeOK, StoreTypeOK
  <2>2. /\ [transactions[t] EXCEPT !.status = "done"] \in Txn
        /\ AtLeast([transactions[t] EXCEPT !.status = "done"], transactions[t])
    BY <1>2, <2>1 DEF Complete, Txn, AtLeast, SameTxn, Sales!Rank
  <2>. QED  BY <1>2, <2>2, ChangedSaleRow DEF Complete
<1>3. ASSUME NEW o, DeleteTransaction(u, t, o)
      PROVE  [Sales!Next]_(Sales!vars)
  <2>. DEFINE txn == [transactions[t] EXCEPT
                        !.buyerHidden = @ \/ transactions[t].buyer = u,
                        !.sellerHidden = @ \/ transactions[t].seller = u]
  <2>1. transactions[t] \in Txn
    BY <1>3 DEF DeleteTransaction, IsParty, SalesInv, TypeOK, StoreTypeOK
  <2>2. /\ txn \in Txn
        /\ SameTxn(txn, transactions[t])
        /\ txn.status = transactions[t].status
        /\ transactions[t].buyerHidden => txn.buyerHidden
        /\ transactions[t].sellerHidden => txn.sellerHidden
    BY <2>1 DEF Txn, SameTxn
  <2>3. serving /\ ChangeTransaction(t, txn, o)
    BY <1>3 DEF DeleteTransaction
  <2>. HIDE DEF txn
  <2>4. AtLeast(txn, transactions[t])
    BY <2>2, AtLeastByFlags
  <2>. QED  BY <2>2, <2>3, <2>4, ChangedSaleRow
<1>4. ASSUME NEW o1, NEW o2, CreateReview(u, t, o1, o2)
      PROVE  [Sales!Next]_(Sales!vars)
  BY <1>4 DEF CreateReview, Sales!vars
<1>. QED  BY <1>1, <1>2, <1>3, <1>4 DEF SaleStep

-----------------------------------------------------------------------------
(* The refinement *)

(* The purge takes the sold items of the obsolete title and their sales.   *)
LEMMA PurgeLedger ==
  ASSUME SalesInv, PurgeTables
  PROVE  Sales!Purge
<1>. USE DEF SalesInv, TypeOK, StoreTypeOK
<1>. DEFINE doomed == {i \in ItemIds : itemRows[i].status = "sold" /\ itemRows[i].obsolete}
<1>1. \A i \in ItemIds :
        /\ itemRows[i].obsolete => itemRows'[i] = NoItem
        /\ ~itemRows[i].obsolete => itemRows'[i] = itemRows[i]
  BY DEF PurgeTables, ObsoleteItems
<1>2. {i \in ItemIds : itemRows'[i].status = "sold"}
        = {i \in ItemIds : itemRows[i].status = "sold"} \ doomed
  BY <1>1 DEF NoItem
<1>3. {i \in ItemIds : itemRows'[i].status = "sold" /\ itemRows'[i].obsolete} = {}
  BY <1>1 DEF NoItem
<1>4. ASSUME NEW t \in TxnIds
      PROVE  SaleOf(txnRows'[t]) = IF SaleOf(txnRows[t]).item \in doomed
                                   THEN Sales!NoSale ELSE SaleOf(txnRows[t])
  <2>1. txnRows'[t] = IF t \in ObsoleteSales THEN NoTxn ELSE txnRows[t]
    BY DEF PurgeTables
  <2>2. t \in ObsoleteSales <=> txnRows[t].item \in doomed
    BY StoreAssumption
    DEF ObsoleteSales, ObsoleteItems, SaleMatchesItem, SaleMatchesItemIn, NoTxn, ItemIds
  <2>3. SaleOf(txnRows[t]).item = txnRows[t].item
    BY DEF SaleOf
  <2>4. SaleOf(NoTxn) = Sales!NoSale
    BY DEF SaleOf, NoTxn, Sales!NoSale
  <2>. QED  BY <2>1, <2>2, <2>3, <2>4
<1>5. SaleRows' = [t \in TxnIds |-> IF SaleRows[t].item \in doomed
                                    THEN Sales!NoSale ELSE SaleRows[t]]
  BY <1>4 DEF SaleRows
<1>. QED  BY <1>2, <1>3, <1>5 DEF Sales!Purge, SaleRows, SaleOf

LEMMA InitLedger == Init => Sales!Init
  BY DEF Init, StoreInit, SeededItem, NoItem, NoTxns, NoTxn, Sales!Init,
         Sales!NoSale

LEMMA NextLedger ==
  SalesInv /\ SalesInv' /\ [Next]_vars => [Sales!Next]_(Sales!vars)
<1>. SUFFICES ASSUME SalesInv, SalesInv', [Next]_vars
              PROVE  [Sales!Next]_(Sales!vars)
  OBVIOUS
<1>1. ASSUME NEW u \in Users, NEW status \in {"draft", "published", "sold"},
             NEW ready \in BOOLEAN, NEW obsolete \in BOOLEAN, NEW o \in Outcomes,
             CreateItem(u, status, ready, obsolete, o)
      PROVE  [Sales!Next]_(Sales!vars)
  <2>. DEFINE item == [seller |-> u, status |-> status,
                       hidden |-> FALSE, ready |-> ready, obsolete |-> obsolete]
  <2>. USE DEF SalesInv, TypeOK, StoreTypeOK
  <2>1. nextItemID \in ItemIds /\ nextItemID \in Nat
    BY <1>1, StoreAssumption DEF CreateItem, ItemIds
  <2>2. itemRows[nextItemID].status # "sold"
    BY <1>1, <2>1 DEF CreateItem, IdsAreFresh, NoItem
  <2>3. item \in Item /\ item.status # "sold"
    BY <1>1 DEF CreateItem, ValidMutation, Item
  <2>4. SaveItem(nextItemID, item, o) /\ txnRows' = txnRows
    BY <1>1 DEF CreateItem
  <2>. HIDE DEF item
  <2>5. SameSold
    BY <2>1, <2>2, <2>3, <2>4, SaveItemSold
  <2>. QED  BY <2>1, <2>4, <2>5, ItemRowStep
<1>2. CASE ProcessStep
  <2>1. CASE Crash
    BY <2>1 DEF Crash, tables, Sales!vars
  <2>2. CASE PurgeTables
    BY <2>2, PurgeLedger DEF Sales!Next
  <2>. QED  BY <1>2, <2>1, <2>2 DEF ProcessStep, Restart, RestartCutOff
<1>3. CASE UNCHANGED vars
  BY <1>3 DEF vars, tables, Sales!vars
<1>. QED  BY <1>1, <1>2, <1>3, ItemStepLedger, SaleStepLedger DEF Next

(* Market implements Ledger: every behaviour of the handlers and of the    *)
(* starts, seen through the rows of items and transactions, is one the     *)
(* ledger allows, and only the purge of a start takes a sale away.         *)
THEOREM LedgerRefined == Spec => SalesAreRecorded
  BY InitLedger, NextLedger, SalesInvariant, PTL
  DEF Spec, SalesAreRecorded, Sales!Spec

-----------------------------------------------------------------------------
(* One review per party *)

LEMMA OneReviewWhenKept ==
  ASSUME OneReviewPerParty, reviewRows' = reviewRows,
         reviews' \in {reviews, reviewRows, NoReviews}
  PROVE  OneReviewPerParty'
<1>1. OneReviewIn(NoReviews)
  BY DEF OneReviewIn, NoReviews
<1>. QED  BY <1>1 DEF OneReviewPerParty, OneReviewIn

LEMMA OneReviewAfterPurge ==
  ASSUME SalesInv, OneReviewIn(reviewRows), PurgeTables
  PROVE  OneReviewIn(reviewRows')
<1>1. \A r \in ReviewIds :
        /\ reviewRows'[r] \in {reviewRows[r], NoReview}
        /\ reviewRows[r] \in Review \cup {NoReview}
  BY DEF PurgeTables, SalesInv, TypeOK, StoreTypeOK
<1>2. \A r \in ReviewIds : reviewRows'[r] # NoReview => reviewRows'[r].txn # 0
  BY <1>1 DEF Review, TxnIds
<1>3. \A r \in ReviewIds : reviewRows'[r].txn # 0 => reviewRows'[r] = reviewRows[r]
  BY <1>1 DEF NoReview
<1>. QED  BY <1>2, <1>3, <1>1 DEF OneReviewIn, NoReview

LEMMA CreateReviewOnce ==
  ASSUME SalesInv, SalesInv', OneReviewPerParty,
         NEW u \in Users, NEW t \in TxnIds, NEW o1, NEW o2,
         CreateReview(u, t, o1, o2)
  PROVE  OneReviewPerParty'
<1>. DEFINE r == nextReviewID
            review == [txn |-> t, reviewer |-> u, reviewee |-> RevieweeOf(u, t)]
<1>. USE DEF TypeOK, StoreTypeOK
<1>1. r \in ReviewIds
  BY StoreAssumption DEF CreateReview, SalesInv, ReviewIds
<1>2. reviews' = [reviews EXCEPT ![r] = review] /\ serving'
  BY DEF CreateReview
<1>3. review.txn = t /\ review.reviewer = u
  OBVIOUS
<1>. HIDE DEF review
<1>4. /\ reviews'[r] = review
      /\ \A s \in ReviewIds : s # r => reviews'[s] = reviews[s]
  BY <1>1, <1>2 DEF SalesInv
<1>5. \A s \in ReviewIds : ~(reviews[s].txn = t /\ reviews[s].reviewer = u)
  BY DEF CreateReview, Reviewable, HasReviewed
<1>6. OneReviewIn(reviews)'
  BY <1>3, <1>4, <1>5 DEF OneReviewPerParty, OneReviewIn
<1>7. \A s \in ReviewIds : reviewRows'[s] # NoReview => reviewRows'[s] = reviews'[s]
  BY <1>2 DEF SalesInv, IdsAreFresh
<1>8. \A s \in ReviewIds : reviewRows'[s] \in Review \cup {NoReview}
  BY DEF SalesInv
<1>9. OneReviewIn(reviewRows)'
  <2>. SUFFICES ASSUME NEW s1 \in ReviewIds, NEW s2 \in ReviewIds,
                       reviewRows'[s1] # NoReview,
                       reviewRows'[s1].txn = reviewRows'[s2].txn,
                       reviewRows'[s1].reviewer = reviewRows'[s2].reviewer
                PROVE  s1 = s2
    BY DEF OneReviewIn
  <2>1. reviewRows'[s2] # NoReview
    BY <1>8, StoreAssumption DEF NoReview, Review, TxnIds
  <2>. QED  BY <1>6, <1>7, <2>1 DEF OneReviewIn
<1>. QED  BY <1>6, <1>9 DEF OneReviewPerParty

LEMMA NextOneReview ==
  SalesInv /\ SalesInv' /\ OneReviewPerParty /\ [Next]_vars => OneReviewPerParty'
<1>. SUFFICES ASSUME SalesInv, SalesInv', OneReviewPerParty, [Next]_vars
              PROVE  OneReviewPerParty'
  OBVIOUS
<1>1. ASSUME NEW u \in Users, NEW i \in ItemIds, ItemStep(u, i)
      PROVE  reviewRows' = reviewRows /\ reviews' \in {reviews, NoReviews}
  BY <1>1 DEF ItemStep, UpdateItem, DeleteUnsoldItem, DeleteSoldItem,
              DeleteSoldItemKilled, Purchase, PurchaseKilled, Forget
<1>2. ASSUME NEW u \in Users, NEW t \in TxnIds, SaleStep(u, t)
      PROVE  OneReviewPerParty'
  <2>1. ASSUME NEW o, Pay(u, t, o) \/ Complete(u, t, o) \/ DeleteTransaction(u, t, o)
        PROVE  reviewRows' = reviewRows /\ reviews' = reviews
    BY <2>1 DEF Pay, Complete, DeleteTransaction, ChangeTransaction
  <2>. QED  BY <1>2, <2>1, OneReviewWhenKept, CreateReviewOnce DEF SaleStep
<1>3. ASSUME ProcessStep
      PROVE  OneReviewPerParty'
  <2>1. CASE Crash
    BY <2>1, OneReviewWhenKept DEF Crash, Forget, tables
  <2>2. PurgeTables => OneReviewIn(reviewRows')
    BY OneReviewAfterPurge DEF OneReviewPerParty
  <2>3. CASE Restart
    BY <2>2, <2>3 DEF Restart, OneReviewPerParty
  <2>4. CASE RestartCutOff
    BY <2>2, <2>4 DEF RestartCutOff, memory, OneReviewPerParty
  <2>. QED  BY <1>3, <2>1, <2>3, <2>4 DEF ProcessStep
<1>4. ASSUME NEW u \in Users, NEW status, NEW ready, NEW obsolete, NEW o,
             CreateItem(u, status, ready, obsolete, o)
      PROVE  reviewRows' = reviewRows /\ reviews' = reviews
  BY <1>4 DEF CreateItem
<1>5. ASSUME UNCHANGED vars
      PROVE  reviewRows' = reviewRows /\ reviews' = reviews
  BY <1>5 DEF vars, memory, tables
<1>. QED  BY <1>1, <1>2, <1>3, <1>4, <1>5, OneReviewWhenKept DEF Next

(* No party ever has two reviews of a sale, in memory or in the tables.    *)
THEOREM ReviewedOnce == Spec => []OneReviewPerParty
<1>1. Init => OneReviewPerParty
  BY DEF Init, StoreInit, OneReviewPerParty, OneReviewIn, NoReviews
<1>. QED  BY <1>1, NextOneReview, SalesInvariant, PTL DEF Spec
-----------------------------------------------------------------------------
(* Answered reviews and the ratings *)

(* What RatingsCountAnswers says while the process serves *)
AnswersCounted ==
  \A a \in reviewReceipts : \E r \in ReviewIds :
    /\ reviews[r].txn = a[1] /\ reviews[r].reviewer = a[2]
    /\ r \in ratings[reviews[r].reviewee]

NothingElseCounted ==
  \A u \in Users :
    ratings[u] = SeededRating \/ ratings[u] \subseteq Received(reviews, u)

LEMMA CreateReviewCounts ==
  ASSUME SalesInv, RatingsCountAnswers, NEW u \in Users, NEW t \in TxnIds,
         NEW o1, NEW o2, CreateReview(u, t, o1, o2)
  PROVE  RatingsCountAnswers'
<1>. DEFINE r == nextReviewID
            about == RevieweeOf(u, t)
            review == [txn |-> t, reviewer |-> u, reviewee |-> about]
<1>. USE DEF TypeOK, StoreTypeOK
<1>1. r \in ReviewIds
  BY StoreAssumption DEF CreateReview, SalesInv, ReviewIds
<1>2. reviews[r] = NoReview
  BY <1>1 DEF CreateReview, SalesInv, IdsAreFresh
<1>3. about \in Users
  BY DEF CreateReview, Reviewable, IsParty, RevieweeOf, SalesInv, Txn
<1>4. reviews' = [reviews EXCEPT ![r] = review]
  BY DEF CreateReview
<1>5. review.txn = t /\ review.reviewer = u /\ review.reviewee = about
  OBVIOUS
<1>6. ratings' \in {ratings, [ratings EXCEPT ![about] = Received(reviews', about)]}
  BY DEF CreateReview, Recalculated
<1>7. \/ reviewReceipts' = reviewReceipts
      \/ /\ reviewReceipts' = reviewReceipts \cup {<<t, u>>}
         /\ ratings' = [ratings EXCEPT ![about] = Received(reviews', about)]
  BY DEF CreateReview, Recalculated
<1>8. AnswersCounted /\ NothingElseCounted
  BY DEF CreateReview, RatingsCountAnswers, AnswersCounted, NothingElseCounted
<1>. HIDE DEF review, about
<1>9. /\ reviews'[r] = review
      /\ \A s \in ReviewIds : s # r => reviews'[s] = reviews[s]
  BY <1>1, <1>4 DEF SalesInv
<1>10. /\ ratings'[about] \in {ratings[about], Received(reviews', about)}
       /\ \A x \in Users : x # about => ratings'[x] = ratings[x]
  BY <1>3, <1>6 DEF SalesInv
<1>11. \A x \in Users : Received(reviews, x) \subseteq Received(reviews', x)
  <2>1. \A x \in Users : NoReview.reviewee # x
    BY StoreAssumption DEF NoReview
  <2>. QED  BY <1>2, <1>9, <2>1 DEF Received
<1>12. NothingElseCounted'
  BY <1>3, <1>8, <1>10, <1>11 DEF NothingElseCounted
<1>13. ASSUME NEW a \in reviewReceipts
       PROVE  \E s \in ReviewIds :
                /\ reviews'[s].txn = a[1] /\ reviews'[s].reviewer = a[2]
                /\ s \in ratings'[reviews'[s].reviewee]
  <2>1. PICK s \in ReviewIds :
          /\ reviews[s].txn = a[1] /\ reviews[s].reviewer = a[2]
          /\ s \in ratings[reviews[s].reviewee]
    BY <1>8 DEF AnswersCounted
  <2>2. a[1] \in TxnIds
    BY DEF SalesInv
  <2>3. s # r /\ reviews[s] \in Review
    BY <1>2, <2>1, <2>2 DEF SalesInv, NoReview, TxnIds
  <2>4. reviews'[s] = reviews[s] /\ reviews[s].reviewee \in Users
    BY <1>9, <2>3 DEF Review
  <2>5. s \in Received(reviews', reviews[s].reviewee)
    BY <2>4 DEF Received
  <2>6. s \in ratings'[reviews[s].reviewee]
    BY <1>10, <2>1, <2>4, <2>5
  <2>. QED  BY <2>1, <2>4, <2>6
<1>14. ASSUME ratings' = [ratings EXCEPT ![about] = Received(reviews', about)]
       PROVE  /\ reviews'[r].txn = t /\ reviews'[r].reviewer = u
              /\ r \in ratings'[reviews'[r].reviewee]
  <2>1. ratings'[about] = Received(reviews', about)
    BY <1>3, <1>14 DEF SalesInv
  <2>. QED  BY <1>1, <1>5, <1>9, <2>1 DEF Received
<1>15. AnswersCounted'
  <2>. SUFFICES ASSUME NEW a \in reviewReceipts'
                PROVE  \E s \in ReviewIds :
                         /\ reviews'[s].txn = a[1] /\ reviews'[s].reviewer = a[2]
                         /\ s \in ratings'[reviews'[s].reviewee]
    BY DEF AnswersCounted
  <2>1. CASE a \in reviewReceipts
    BY <1>13, <2>1
  <2>2. CASE a \notin reviewReceipts
    <3>1. a = <<t, u>> /\ ratings' = [ratings EXCEPT ![about] = Received(reviews', about)]
      BY <1>7, <2>2
    <3>. QED  BY <1>1, <1>14, <3>1
  <2>. QED  BY <2>1, <2>2
<1>. QED  BY <1>12, <1>15 DEF RatingsCountAnswers, AnswersCounted, NothingElseCounted

LEMMA RestartCounts ==
  ASSUME SalesInv', Restart
  PROVE  RatingsCountAnswers'
<1>. USE DEF TypeOK, StoreTypeOK
<1>1. reviews' = reviewRows' /\ ratings' = [u \in Users |-> Received(reviewRows', u)]
  BY DEF Restart
<1>2. ASSUME NEW a \in reviewReceipts'
      PROVE  \E r \in ReviewIds :
               /\ reviews'[r].txn = a[1] /\ reviews'[r].reviewer = a[2]
               /\ r \in ratings'[reviews'[r].reviewee]
  <2>1. PICK r \in ReviewIds : /\ reviewRows'[r].txn = a[1]
                               /\ reviewRows'[r].reviewer = a[2]
    BY DEF SalesInv, AcknowledgedIsDurable
  <2>2. a[1] \in TxnIds
    BY DEF SalesInv
  <2>3. reviewRows'[r] \in Review
    BY <2>1, <2>2 DEF SalesInv, NoReview, TxnIds
  <2>4. reviewRows'[r].reviewee \in Users
    BY <2>3 DEF Review
  <2>5. r \in Received(reviewRows', reviewRows'[r].reviewee)
    BY DEF Received
  <2>. QED  BY <1>1, <2>1, <2>4, <2>5
<1>. QED  BY <1>1, <1>2 DEF RatingsCountAnswers

LEMMA NextCounts ==
  SalesInv /\ SalesInv' /\ RatingsCountAnswers /\ [Next]_vars
    => RatingsCountAnswers'
<1>. SUFFICES ASSUME SalesInv, SalesInv', RatingsCountAnswers, [Next]_vars
              PROVE  RatingsCountAnswers'
  OBVIOUS
<1>0. \/ ~serving'
      \/ UNCHANGED <<serving, reviews, ratings, reviewReceipts>>
      => RatingsCountAnswers'
  BY DEF RatingsCountAnswers, Received
<1>1. ASSUME NEW u \in Users, NEW i \in ItemIds, ItemStep(u, i)
      PROVE  ~serving' \/ UNCHANGED <<serving, reviews, ratings, reviewReceipts>>
  BY <1>1 DEF ItemStep, UpdateItem, DeleteUnsoldItem, DeleteSoldItem, receiptVars,
              DeleteSoldItemKilled, Purchase, PurchaseKilled, Forget
<1>2. ASSUME NEW u \in Users, NEW t \in TxnIds, SaleStep(u, t)
      PROVE  RatingsCountAnswers'
  <2>1. ASSUME NEW o, Pay(u, t, o) \/ Complete(u, t, o) \/ DeleteTransaction(u, t, o)
        PROVE  UNCHANGED <<serving, reviews, ratings, reviewReceipts>>
    BY <2>1 DEF Pay, Complete, DeleteTransaction, ChangeTransaction
  <2>. QED  BY <1>0, <1>2, <2>1, CreateReviewCounts DEF SaleStep
<1>3. ASSUME ProcessStep
      PROVE  RatingsCountAnswers'
  <2>1. CASE Crash
    BY <1>0, <2>1 DEF Crash, Forget
  <2>2. CASE Restart
    BY <2>2, RestartCounts
  <2>3. CASE RestartCutOff
    BY <1>0, <2>3 DEF RestartCutOff
  <2>. QED  BY <1>3, <2>1, <2>2, <2>3 DEF ProcessStep
<1>4. ASSUME NEW u \in Users, NEW status, NEW ready, NEW obsolete, NEW o,
             CreateItem(u, status, ready, obsolete, o)
      PROVE  UNCHANGED <<serving, reviews, ratings, reviewReceipts>>
  BY <1>4 DEF CreateItem, receiptVars
<1>5. ASSUME UNCHANGED vars
      PROVE  UNCHANGED <<serving, reviews, ratings, reviewReceipts>>
  BY <1>5 DEF vars, memory, receiptVars
<1>. QED  BY <1>0, <1>1, <1>2, <1>3, <1>4, <1>5 DEF Next

(* A review answered with a 201 is shown and counts in the rating of the   *)
(* user it is about, and a rating counts nothing that is not shown,        *)
(* whatever fails and whenever the process dies.                           *)
THEOREM AnsweredReviewsCount == Spec => []RatingsCountAnswers
<1>1. Init => RatingsCountAnswers
  BY DEF Init, StoreInit, RatingsCountAnswers
<1>. QED  BY <1>1, NextCounts, SalesInvariant, PTL DEF Spec

-----------------------------------------------------------------------------
(* A deleted item's sale is hidden *)

HiddenStays(txns, later) ==
  \A t \in TxnIds :
    txns[t].sellerHidden => later[t].sellerHidden /\ later[t].item = txns[t].item

LEMMA DeletedSaleWhenKept ==
  ASSUME NEW its, NEW its2, NEW txns, NEW txns2, NEW i,
         DeletedSaleIn(its, txns), HiddenStays(txns, txns2),
         \A j \in ItemIds : j # i => its2[j] = its[j],
         \/ its2[i] = its[i]
         \/ its2[i].status # "sold"
         \/ ~its2[i].hidden
         \/ \E t \in TxnIds : txns2[t].item = i /\ txns2[t].sellerHidden
  PROVE  DeletedSaleIn(its2, txns2)
<1>. SUFFICES ASSUME NEW j \in ItemIds, its2[j].status = "sold", its2[j].hidden
              PROVE  \E t \in TxnIds : txns2[t].item = j /\ txns2[t].sellerHidden
  BY DEF DeletedSaleIn
<1>1. ASSUME its2[j] = its[j]
      PROVE  \E t \in TxnIds : txns2[t].item = j /\ txns2[t].sellerHidden
  <2>1. PICK t \in TxnIds : txns[t].item = j /\ txns[t].sellerHidden
    BY <1>1 DEF DeletedSaleIn
  <2>. QED  BY <2>1 DEF HiddenStays
<1>. QED  BY <1>1

LEMMA HiddenWhenSame == \A txns : HiddenStays(txns, txns)
  BY DEF HiddenStays

(* A process that has ended has no items. *)
LEMMA ForgottenIsHidden ==
  ASSUME Forget  PROVE  DeletedSaleIn(items, transactions)'
  BY DEF Forget, DeletedSaleIn, NoItems, NoItem

(* A later version of a sale is put into the map and written. *)
LEMMA WrittenStaysHidden ==
  ASSUME SalesInv, serving, NEW t \in TxnIds, NEW txn \in Txn, NEW o,
         transactions[t] \in Txn, AtLeast(txn, transactions[t]),
         SaveTransaction(t, txn, o)
  PROVE  /\ HiddenStays(transactions, [transactions EXCEPT ![t] = txn])
         /\ HiddenStays(txnRows, txnRows')
         /\ o = "ok" => txnRows' = [txnRows EXCEPT ![t] = txn]
<1>. USE DEF TypeOK, StoreTypeOK
<1>1. txnRows[t] # NoTxn => AtLeast(txn, txnRows[t])
  BY AtLeastTransitive DEF SalesInv, MemoryLeads
<1>2. txnRows' \in {txnRows, [txnRows EXCEPT ![t] = txn]}
      /\ (o = "ok" => txnRows' = [txnRows EXCEPT ![t] = txn])
  BY <1>1, UpsertedTxnFields DEF SaveTransaction, SalesInv, AtLeast, SameTxn
<1>3. HiddenStays(transactions, [transactions EXCEPT ![t] = txn])
  BY DEF SalesInv, HiddenStays, AtLeast, SameTxn
<1>4. txnRows[t].sellerHidden => txn.sellerHidden /\ txn.item = txnRows[t].item
  BY <1>1 DEF AtLeast, SameTxn, NoTxn
<1>5. HiddenStays(txnRows, txnRows')
  BY <1>2, <1>4 DEF SalesInv, HiddenStays
<1>. QED  BY <1>2, <1>3, <1>5

(* A handler writes an item that is not both sold and deleted. *)
LEMMA ItemWriteStaysHidden ==
  ASSUME SalesInv, DeletedSaleIsHidden,
         NEW i \in ItemIds, NEW new \in Item, NEW o,
         new.status # "sold" \/ ~new.hidden, SaveItem(i, new, o),
         items' \in {items, [items EXCEPT ![i] = new]},
         HiddenStays(transactions, transactions'), HiddenStays(txnRows, txnRows')
  PROVE  DeletedSaleIsHidden'
<1>. USE DEF TypeOK, StoreTypeOK
<1>1. /\ \A j \in ItemIds : j # i => items'[j] = items[j]
      /\ items'[i] = items[i] \/ items'[i].status # "sold" \/ ~items'[i].hidden
  BY DEF SalesInv
<1>2. DeletedSaleIn(items', transactions')
  <2>1. DeletedSaleIn(items, transactions)
    BY DEF DeletedSaleIsHidden
  <2>. QED  BY <1>1, <2>1, DeletedSaleWhenKept
<1>3. LET row == UpsertedItem(itemRows[i], new)
      IN  row.status # "sold" \/ ~row.hidden
  BY DEF UpsertedItem, Item
<1>4. /\ \A j \in ItemIds : j # i => itemRows'[j] = itemRows[j]
      /\ \/ itemRows'[i] = itemRows[i]
         \/ itemRows'[i].status # "sold"
         \/ ~itemRows'[i].hidden
  BY <1>3 DEF SalesInv, SaveItem
<1>5. DeletedSaleIn(itemRows', txnRows')
  BY <1>4, DeletedSaleWhenKept DEF DeletedSaleIsHidden
<1>. QED  BY <1>2, <1>5 DEF DeletedSaleIsHidden

LEMMA SalesKeepHidden ==
  ASSUME SalesInv, DeletedSaleIsHidden, NEW t \in TxnIds, NEW txn \in Txn, NEW o,
         serving, transactions[t] \in Txn, AtLeast(txn, transactions[t]),
         ChangeTransaction(t, txn, o)
  PROVE  DeletedSaleIsHidden'
<1>1. HiddenStays(transactions, transactions') /\ HiddenStays(txnRows, txnRows')
  BY WrittenStaysHidden DEF ChangeTransaction, WithTransaction
<1>2. items' = items /\ itemRows' = itemRows
  BY DEF ChangeTransaction, WithTransaction
<1>. QED  BY <1>1, <1>2, DeletedSaleWhenKept DEF DeletedSaleIsHidden

LEMMA SaleStepHidden ==
  ASSUME SalesInv, DeletedSaleIsHidden, NEW u \in Users, NEW t \in TxnIds,
         SaleStep(u, t)
  PROVE  DeletedSaleIsHidden'
<1>. USE DEF TypeOK, StoreTypeOK
<1>1. ASSUME NEW o, Pay(u, t, o)  PROVE  DeletedSaleIsHidden'
  <2>. DEFINE txn == [transactions[t] EXCEPT !.status = "active"]
  <2>1. transactions[t] \in Txn
    BY <1>1 DEF Pay, Payable, IsParty, SalesInv
  <2>2. txn \in Txn /\ AtLeast(txn, transactions[t])
    BY <1>1, <2>1 DEF Pay, Payable, Txn, AtLeast, SameTxn, Sales!Rank
  <2>. QED  BY <1>1, <2>1, <2>2, SalesKeepHidden DEF Pay
<1>2. ASSUME NEW o, Complete(u, t, o)  PROVE  DeletedSaleIsHidden'
  <2>. DEFINE txn == [transactions[t] EXCEPT !.status = "done"]
  <2>1. transactions[t] \in Txn
    BY <1>2 DEF Complete, IsParty, SalesInv
  <2>2. txn \in Txn /\ AtLeast(txn, transactions[t])
    BY <1>2, <2>1 DEF Complete, Txn, AtLeast, SameTxn, Sales!Rank
  <2>. QED  BY <1>2, <2>1, <2>2, SalesKeepHidden DEF Complete
<1>3. ASSUME NEW o, DeleteTransaction(u, t, o)  PROVE  DeletedSaleIsHidden'
  <2>. DEFINE txn == [transactions[t] EXCEPT
                        !.buyerHidden = @ \/ transactions[t].buyer = u,
                        !.sellerHidden = @ \/ transactions[t].seller = u]
  <2>1. transactions[t] \in Txn
    BY <1>3 DEF DeleteTransaction, IsParty, SalesInv
  <2>2. /\ txn \in Txn
        /\ SameTxn(txn, transactions[t])
        /\ txn.status = transactions[t].status
        /\ transactions[t].buyerHidden => txn.buyerHidden
        /\ transactions[t].sellerHidden => txn.sellerHidden
    BY <2>1 DEF Txn, SameTxn
  <2>3. ChangeTransaction(t, txn, o) /\ serving
    BY <1>3 DEF DeleteTransaction
  <2>. HIDE DEF txn
  <2>4. AtLeast(txn, transactions[t])
    BY <2>2, AtLeastByFlags
  <2>. QED  BY <2>1, <2>2, <2>3, <2>4, SalesKeepHidden
<1>4. ASSUME NEW o1, NEW o2, CreateReview(u, t, o1, o2)  PROVE  DeletedSaleIsHidden'
  BY <1>4 DEF CreateReview, DeletedSaleIsHidden, DeletedSaleIn
<1>. QED  BY <1>1, <1>2, <1>3, <1>4 DEF SaleStep

LEMMA DeleteSoldItemHidden ==
  ASSUME SalesInv, DeletedSaleIsHidden, NEW u \in Users, NEW i \in ItemIds,
         NEW t \in TxnIds, NEW o1, NEW o2, DeleteSoldItem(u, i, t, o1, o2)
  PROVE  DeletedSaleIsHidden'
<1>. DEFINE txn == [transactions[t] EXCEPT !.sellerHidden = TRUE]
<1>. USE DEF TypeOK, StoreTypeOK
<1>1. transactions[t] \in Txn /\ transactions[t].item = i
  BY DEF DeleteSoldItem, SaleClosed, SalesOf, SalesInv, NoTxn
<1>2. /\ txn \in Txn
      /\ SameTxn(txn, transactions[t])
      /\ txn.status = transactions[t].status
      /\ transactions[t].buyerHidden => txn.buyerHidden
      /\ txn.sellerHidden /\ txn.item = i
  BY <1>1 DEF Txn, SameTxn
<1>3. /\ serving
      /\ SaveTransaction(t, txn, o1)
      /\ transactions' = [transactions EXCEPT ![t] = txn]
  BY DEF DeleteSoldItem
<1>. HIDE DEF txn
<1>4. AtLeast(txn, transactions[t])
  BY <1>2, AtLeastByFlags
<1>5. /\ HiddenStays(transactions, transactions')
      /\ HiddenStays(txnRows, txnRows')
      /\ o1 = "ok" => txnRows' = [txnRows EXCEPT ![t] = txn]
  BY <1>1, <1>2, <1>3, <1>4, WrittenStaysHidden
<1>6. CASE o1 = "ok"
  <2>1. /\ transactions'[t].item = i /\ transactions'[t].sellerHidden
        /\ txnRows'[t].item = i /\ txnRows'[t].sellerHidden
    BY <1>2, <1>3, <1>5, <1>6 DEF SalesInv
  <2>2. \A j \in ItemIds : j # i => items'[j] = items[j] /\ itemRows'[j] = itemRows[j]
    BY <1>6 DEF DeleteSoldItem, SaveItem, SalesInv, Continues
  <2>3. DeletedSaleIn(items', transactions')
    <3>1. DeletedSaleIn(items, transactions)
      BY DEF DeletedSaleIsHidden
    <3>2. \E s \in TxnIds : transactions'[s].item = i /\ transactions'[s].sellerHidden
      BY <2>1
    <3>3. /\ HiddenStays(transactions, transactions')
          /\ \A j \in ItemIds : j # i => items'[j] = items[j]
      BY <1>5, <2>2
    <3>. QED  BY <3>1, <3>2, <3>3, DeletedSaleWhenKept
  <2>4. DeletedSaleIn(itemRows', txnRows')
    <3>1. DeletedSaleIn(itemRows, txnRows)
      BY DEF DeletedSaleIsHidden
    <3>2. \E s \in TxnIds : txnRows'[s].item = i /\ txnRows'[s].sellerHidden
      BY <2>1
    <3>3. /\ HiddenStays(txnRows, txnRows')
          /\ \A j \in ItemIds : j # i => itemRows'[j] = itemRows[j]
      BY <1>5, <2>2
    <3>. QED  BY <3>1, <3>2, <3>3, DeletedSaleWhenKept
  <2>. QED  BY <2>3, <2>4 DEF DeletedSaleIsHidden
<1>7. CASE o1 # "ok"
  <2>1. items' = items /\ itemRows' = itemRows
    BY <1>7 DEF DeleteSoldItem, Continues
  <2>. QED  BY <1>5, <2>1, DeletedSaleWhenKept DEF DeletedSaleIsHidden
<1>. QED  BY <1>6, <1>7

LEMMA DeleteSoldItemKilledHidden ==
  ASSUME SalesInv, DeletedSaleIsHidden, NEW u \in Users, NEW i \in ItemIds,
         NEW t \in TxnIds, DeleteSoldItemKilled(u, i, t)
  PROVE  DeletedSaleIsHidden'
<1>. DEFINE txn == [transactions[t] EXCEPT !.sellerHidden = TRUE]
<1>. USE DEF TypeOK, StoreTypeOK
<1>1. transactions[t] \in Txn
  BY DEF DeleteSoldItemKilled, SaleClosed, SalesInv, NoTxn
<1>2. /\ txn \in Txn
      /\ SameTxn(txn, transactions[t])
      /\ txn.status = transactions[t].status
      /\ transactions[t].buyerHidden => txn.buyerHidden
      /\ txn.sellerHidden
  BY <1>1 DEF Txn, SameTxn
<1>3. serving /\ SaveTransaction(t, txn, "ok")
  BY DEF DeleteSoldItemKilled
<1>. HIDE DEF txn
<1>4. AtLeast(txn, transactions[t])
  BY <1>2, AtLeastByFlags
<1>5. HiddenStays(txnRows, txnRows')
  BY <1>1, <1>2, <1>3, <1>4, WrittenStaysHidden
<1>6. itemRows' = itemRows /\ DeletedSaleIn(items, transactions)'
  BY ForgottenIsHidden DEF DeleteSoldItemKilled
<1>. QED  BY <1>5, <1>6, DeletedSaleWhenKept DEF DeletedSaleIsHidden

LEMMA PurchaseHidden ==
  ASSUME SalesInv, SalesInv', DeletedSaleIsHidden,
         NEW u \in Users, NEW i \in ItemIds, NEW status, NEW o1, NEW o2,
         Purchase(u, i, status, o1, o2)
  PROVE  DeletedSaleIsHidden'
<1>. DEFINE t == nextTxnID
            new == [items[i] EXCEPT !.status = "sold"]
<1>. USE DEF TypeOK, StoreTypeOK
<1>1. t \in TxnIds
  BY StoreAssumption DEF Purchase, SalesInv, TxnIds
<1>2. transactions[t] = NoTxn /\ txnRows[t] = NoTxn
  BY <1>1 DEF Purchase, SalesInv, IdsAreFresh
<1>3. HiddenStays(transactions, transactions')
  BY <1>1, <1>2 DEF Purchase, SalesInv, HiddenStays, NoTxn
<1>4. HiddenStays(txnRows, txnRows')
  BY <1>1, <1>2 DEF Purchase, SaveTransaction, SalesInv, HiddenStays, NoTxn
<1>5. new \in Item /\ ~new.hidden
  <2>1. items[i] \in Item /\ new \in Item
    BY BuyableItem DEF Purchase, SalesInv
  <2>. QED  BY <2>1 DEF Purchase, Buyable, Item
<1>6. SaveItem(i, new, o1) /\ items' = [items EXCEPT ![i] = new]
  BY DEF Purchase, SalesInv
<1>. HIDE DEF new
<1>. QED  BY <1>3, <1>4, <1>5, <1>6, ItemWriteStaysHidden

LEMMA PurchaseKilledHidden ==
  ASSUME SalesInv, DeletedSaleIsHidden, NEW u \in Users, NEW i \in ItemIds,
         PurchaseKilled(u, i)
  PROVE  DeletedSaleIsHidden'
<1>. DEFINE new == [items[i] EXCEPT !.status = "sold"]
            row == UpsertedItem(itemRows[i], new)
<1>. USE DEF TypeOK, StoreTypeOK
<1>1. new \in Item /\ ~new.hidden
  <2>1. items[i] \in Item /\ new \in Item
    BY BuyableItem DEF PurchaseKilled, SalesInv
  <2>. QED  BY <2>1 DEF PurchaseKilled, Buyable, Item
<1>2. itemRows' = [itemRows EXCEPT ![i] = row]
  BY DEF PurchaseKilled, SaveItem
<1>. HIDE DEF new
<1>3. ~row.hidden
  BY <1>1 DEF UpsertedItem, Item
<1>. HIDE DEF row
<1>4. ~itemRows'[i].hidden /\ \A j \in ItemIds : j # i => itemRows'[j] = itemRows[j]
  BY <1>2, <1>3 DEF SalesInv
<1>5. txnRows' = txnRows /\ DeletedSaleIn(items, transactions)'
  BY ForgottenIsHidden DEF PurchaseKilled
<1>6. DeletedSaleIn(itemRows', txnRows')
  <2>1. DeletedSaleIn(itemRows, txnRows) /\ HiddenStays(txnRows, txnRows')
    BY <1>5, HiddenWhenSame DEF DeletedSaleIsHidden
  <2>. QED  BY <1>4, <2>1, DeletedSaleWhenKept
<1>. QED  BY <1>5, <1>6 DEF DeletedSaleIsHidden

LEMMA EditedItemHidden ==
  ASSUME SalesInv, DeletedSaleIsHidden, NEW u \in Users,
         NEW status \in {"draft", "published", "sold"}, NEW ready \in BOOLEAN, NEW obsolete \in BOOLEAN, NEW o
  PROVE  /\ CreateItem(u, status, ready, obsolete, o) => DeletedSaleIsHidden'
         /\ \A i \in ItemIds :
              \/ UpdateItem(u, i, status, ready, obsolete, o)
              \/ DeleteUnsoldItem(u, i, o)
              => DeletedSaleIsHidden'
<1>. USE DEF TypeOK, StoreTypeOK
<1>1. ASSUME CreateItem(u, status, ready, obsolete, o)  PROVE  DeletedSaleIsHidden'
  <2>. DEFINE new == [seller |-> u, status |-> status,
                      hidden |-> FALSE, ready |-> ready, obsolete |-> obsolete]
  <2>1. nextItemID \in ItemIds
    BY <1>1, StoreAssumption DEF CreateItem, SalesInv, ItemIds
  <2>2. new \in Item /\ ~new.hidden
    BY DEF Item
  <2>3. /\ SaveItem(nextItemID, new, o)
        /\ items' \in {items, [items EXCEPT ![nextItemID] = new]}
        /\ UNCHANGED <<transactions, txnRows>>
    BY <1>1 DEF CreateItem
  <2>. HIDE DEF new
  <2>. QED  BY <2>1, <2>2, <2>3, HiddenWhenSame, ItemWriteStaysHidden
<1>2. ASSUME NEW i \in ItemIds, UpdateItem(u, i, status, ready, obsolete, o)
      PROVE  DeletedSaleIsHidden'
  <2>. DEFINE new == Mutated(items[i], status, ready, obsolete)
  <2>1. items[i] \in Item
    BY <1>2, ItemOfSeller DEF UpdateItem, SalesInv
  <2>2. new \in Item /\ new.status = status
    BY <2>1 DEF Mutated, Item
  <2>3. status # "sold"
    BY <1>2, <2>2 DEF UpdateItem, ValidMutation
  <2>4. /\ SaveItem(i, new, o)
        /\ items' \in {items, [items EXCEPT ![i] = new]}
        /\ UNCHANGED <<transactions, txnRows>>
    BY <1>2 DEF UpdateItem
  <2>. HIDE DEF new
  <2>. QED  BY <2>2, <2>3, <2>4, HiddenWhenSame, ItemWriteStaysHidden
<1>3. ASSUME NEW i \in ItemIds, DeleteUnsoldItem(u, i, o)
      PROVE  DeletedSaleIsHidden'
  <2>. DEFINE new == Deleted(items[i])
  <2>1. items[i] \in Item /\ items[i].status # "sold"
    BY <1>3, ItemOfSeller DEF DeleteUnsoldItem, SalesInv
  <2>2. new \in Item /\ new.status # "sold"
    BY <2>1 DEF Deleted, Item
  <2>3. /\ SaveItem(i, new, o)
        /\ items' \in {items, [items EXCEPT ![i] = new]}
        /\ UNCHANGED <<transactions, txnRows>>
    BY <1>3 DEF DeleteUnsoldItem
  <2>. HIDE DEF new
  <2>. QED  BY <2>2, <2>3, HiddenWhenSame, ItemWriteStaysHidden
<1>. QED  BY <1>1, <1>2, <1>3

LEMMA HiddenAfterPurge ==
  ASSUME DeletedSaleIn(itemRows, txnRows), PurgeTables
  PROVE  DeletedSaleIn(itemRows', txnRows')
<1>. SUFFICES ASSUME NEW i \in ItemIds, itemRows'[i].status = "sold", itemRows'[i].hidden
              PROVE  \E t \in TxnIds : txnRows'[t].item = i /\ txnRows'[t].sellerHidden
  BY DEF DeletedSaleIn
<1>1. i \notin ObsoleteItems /\ itemRows'[i] = itemRows[i]
  BY DEF PurgeTables, NoItem
<1>2. PICK t \in TxnIds : txnRows[t].item = i /\ txnRows[t].sellerHidden
  BY <1>1 DEF DeletedSaleIn
<1>3. txnRows'[t] = txnRows[t]
  BY <1>1, <1>2 DEF PurgeTables, ObsoleteSales
<1>. QED  BY <1>2, <1>3

LEMMA NextHidden ==
  SalesInv /\ SalesInv' /\ DeletedSaleIsHidden /\ [Next]_vars => DeletedSaleIsHidden'
<1>. SUFFICES ASSUME SalesInv, SalesInv', DeletedSaleIsHidden, [Next]_vars
              PROVE  DeletedSaleIsHidden'
  OBVIOUS
<1>1. ASSUME NEW u \in Users, NEW i \in ItemIds, ItemStep(u, i)
      PROVE  DeletedSaleIsHidden'
  BY <1>1, EditedItemHidden, DeleteSoldItemHidden, DeleteSoldItemKilledHidden,
     PurchaseHidden, PurchaseKilledHidden DEF ItemStep
<1>2. ASSUME Crash  PROVE  DeletedSaleIsHidden'
  BY <1>2, ForgottenIsHidden
  DEF Crash, tables, DeletedSaleIsHidden, DeletedSaleIn
<1>3. ASSUME Restart \/ RestartCutOff  PROVE  DeletedSaleIsHidden'
  <2>1. DeletedSaleIn(itemRows', txnRows')
    BY <1>3, HiddenAfterPurge DEF Restart, RestartCutOff, DeletedSaleIsHidden
  <2>2. CASE Restart
    BY <2>1, <2>2 DEF Restart, DeletedSaleIsHidden
  <2>3. CASE RestartCutOff
    BY <2>1, <2>3 DEF RestartCutOff, memory, DeletedSaleIsHidden
  <2>. QED  BY <1>3, <2>2, <2>3
<1>4. ASSUME UNCHANGED vars  PROVE  DeletedSaleIsHidden'
  BY <1>4 DEF vars, memory, tables, DeletedSaleIsHidden, DeletedSaleIn
<1>. QED
  BY <1>1, <1>2, <1>3, <1>4, SaleStepHidden, EditedItemHidden DEF Next, ProcessStep

(* A sold item that its seller has deleted always has a sale hidden from   *)
(* the seller, whichever of the two writes of deleteItem failed or was cut *)
(* off.                                                                    *)
THEOREM DeletedSaleStaysHidden == Spec => []DeletedSaleIsHidden
<1>1. Init => DeletedSaleIsHidden
  BY DEF Init, StoreInit, SeededItem, NoItem, DeletedSaleIsHidden, DeletedSaleIn
<1>. QED  BY <1>1, NextHidden, SalesInvariant, PTL DEF Spec

-----------------------------------------------------------------------------
(* Healthy writes: the process serves what the tables hold *)

LEMMA SavedItem ==
  ASSUME SalesInv, NEW i \in ItemIds, NEW item \in Item, SaveItem(i, item, "ok"),
         itemRows = items, items[i] = NoItem \/ items[i].seller = item.seller
  PROVE  itemRows' = [items EXCEPT ![i] = item]
<1>1. UpsertedItem(items[i], item) = item
  BY DEF UpsertedItem, Item
<1>. QED  BY <1>1 DEF SaveItem

LEMMA SavedTransaction ==
  ASSUME SalesInv, NEW t \in TxnIds, NEW txn \in Txn, SaveTransaction(t, txn, "ok"),
         txnRows = transactions, txnRows[t] # NoTxn => SameTxn(txnRows[t], txn)
  PROVE  txnRows' = [transactions EXCEPT ![t] = txn]
<1>1. UpsertedTxn(txnRows[t], txn) = txn
  BY UpsertedTxnFields DEF SalesInv, TypeOK, StoreTypeOK
<1>. QED  BY <1>1 DEF SaveTransaction

(* What a step of a process that serves leaves to show of WriteThrough *)
LEMMA ItemWrittenThrough ==
  ASSUME SalesInv, WriteThrough, serving,
         NEW i \in ItemIds, NEW item \in Item, SaveItem(i, item, "ok"),
         items[i] = NoItem \/ items[i].seller = item.seller,
         items' = [items EXCEPT ![i] = item],
         UNCHANGED <<transactions, reviews, txnRows, reviewRows>>
  PROVE  WriteThrough'
  BY SavedItem DEF WriteThrough

(* The foreign key of a sale has its row: the write ends as it may. *)
LEMMA ChangeWrittenThrough ==
  ASSUME Outcomes = {"ok"}, SalesInv, WriteThrough, serving,
         NEW t \in TxnIds, NEW txn \in Txn, NEW o, transactions[t] \in Txn,
         SameTxn(txn, transactions[t]), ChangeTransaction(t, txn, o)
  PROVE  /\ o = "ok"
         /\ txnRows' = [transactions EXCEPT ![t] = txn]
         /\ WriteThrough'
<1>. USE DEF TypeOK, StoreTypeOK
<1>1. itemRows[txn.item].status = "sold"
  BY StoreAssumption DEF SalesInv, SaleMatchesItem, SaleMatchesItemIn, SameTxn, Txn, NoTxn
<1>2. itemRows[txn.item] # NoItem
  BY <1>1 DEF NoItem
<1>3. o = "ok"
  BY <1>2 DEF ChangeTransaction, WriteOutcomes
<1>4. txnRows' = [transactions EXCEPT ![t] = txn]
  BY <1>3, SavedTransaction DEF ChangeTransaction, WithTransaction, WriteThrough, SameTxn
<1>. QED  BY <1>3, <1>4 DEF ChangeTransaction, WithTransaction, WriteThrough

-----------------------------------------------------------------------------
(* The kinds of steps that the rows of sales and reviews can make *)

ReviewedBy(u, t) ==
  \E r \in ReviewIds : reviewRows[r].txn = t /\ reviewRows[r].reviewer = u

SaleMade(t, txn) ==
  /\ txnRows[t] = NoTxn
  /\ ~txn.buyerHidden /\ ~txn.sellerHidden
  /\ txnRows' = [txnRows EXCEPT ![t] = txn]
  /\ reviewRows' = reviewRows

(* A sale changes, and is hidden only when nothing is left to do. *)
SaleChanged(t, txn) ==
  /\ txnRows[t] \in Txn
  /\ SameTxn(txn, txnRows[t])
  /\ txnRows[t].status = "done" => txn.status = "done"
  /\ \/ /\ txn.buyerHidden = txnRows[t].buyerHidden
        /\ txn.sellerHidden = txnRows[t].sellerHidden
     \/ /\ txn.status = "done"
        /\ \A p \in PartiesOf(txn) : ReviewedBy(p, t)
  /\ txnRows' = [txnRows EXCEPT ![t] = txn]
  /\ reviewRows' = reviewRows

ReviewMade(r, review) ==
  LET txn == txnRows[review.txn]
  IN /\ reviewRows[r] = NoReview
     /\ \A s \in ReviewIds : reviewRows[s] # NoReview => s < r
     /\ txn \in Txn /\ txn.status = "done"
     /\ {review.reviewer, review.reviewee} = PartiesOf(txn)
     /\ review.reviewer = txn.seller => ReviewedBy(txn.buyer, review.txn)
     /\ reviewRows' = [reviewRows EXCEPT ![r] = review]
     /\ txnRows' = txnRows

(* Some sales go, each with its reviews. *)
SalesGone(gone) ==
  /\ txnRows' = [t \in TxnIds |-> IF t \in gone THEN NoTxn ELSE txnRows[t]]
  /\ reviewRows' = [r \in ReviewIds |->
       IF reviewRows[r].txn \in gone THEN NoReview ELSE reviewRows[r]]

RowsStep ==
  \/ UNCHANGED <<txnRows, reviewRows>>
  \/ \E gone \in SUBSET TxnIds : SalesGone(gone)
  \/ \E t \in TxnIds, txn \in Txn : SaleMade(t, txn) \/ SaleChanged(t, txn)
  \/ \E r \in ReviewIds, review \in Review : ReviewMade(r, review)

LEMMA HealthyItemStep ==
  ASSUME Outcomes = {"ok"}, SalesInv, WriteThrough,
         NEW u \in Users, NEW i \in ItemIds, ItemStep(u, i)
  PROVE  WriteThrough' /\ RowsStep
<1>. USE DEF TypeOK, StoreTypeOK
<1>1. ASSUME NEW status \in {"draft", "published", "sold"}, NEW ready \in BOOLEAN,
             NEW obsolete \in BOOLEAN, UpdateItem(u, i, status, ready, obsolete, "ok")
      PROVE  WriteThrough' /\ RowsStep
  <2>. DEFINE new == Mutated(items[i], status, ready, obsolete)
  <2>1. items[i] \in Item
    BY <1>1, ItemOfSeller DEF UpdateItem, SalesInv
  <2>2. new \in Item /\ new.seller = items[i].seller
    BY <2>1 DEF Mutated, Item
  <2>3. /\ serving /\ SaveItem(i, new, "ok")
        /\ items' = [items EXCEPT ![i] = new]
        /\ UNCHANGED <<transactions, reviews, txnRows, reviewRows>>
    BY <1>1 DEF UpdateItem, Continues
  <2>. HIDE DEF new
  <2>. QED  BY <2>2, <2>3, ItemWrittenThrough DEF RowsStep
<1>2. ASSUME DeleteUnsoldItem(u, i, "ok")
      PROVE  WriteThrough' /\ RowsStep
  <2>. DEFINE new == Deleted(items[i])
  <2>1. items[i] \in Item
    BY <1>2, ItemOfSeller DEF DeleteUnsoldItem, SalesInv
  <2>2. new \in Item /\ new.seller = items[i].seller
    BY <2>1 DEF Deleted, Item
  <2>3. /\ serving /\ SaveItem(i, new, "ok")
        /\ items' = [items EXCEPT ![i] = new]
        /\ UNCHANGED <<transactions, reviews, txnRows, reviewRows>>
    BY <1>2 DEF DeleteUnsoldItem, SalesInv
  <2>. HIDE DEF new
  <2>. QED  BY <2>2, <2>3, ItemWrittenThrough DEF RowsStep
<1>3. ASSUME NEW t \in TxnIds, SaleClosed(u, i, t), serving,
             SaveTransaction(t, [transactions[t] EXCEPT !.sellerHidden = TRUE], "ok"),
             reviewRows' = reviewRows
      PROVE  /\ txnRows' = [transactions EXCEPT
                   ![t] = [transactions[t] EXCEPT !.sellerHidden = TRUE]]
             /\ RowsStep
  <2>. DEFINE txn == [transactions[t] EXCEPT !.sellerHidden = TRUE]
  <2>1. transactions[t] \in Txn /\ transactions[t].status = "done" /\ BothReviewed(t)
    BY <1>3 DEF SaleClosed, SalesInv, NoTxn
  <2>2. /\ txn \in Txn /\ SameTxn(txn, transactions[t]) /\ txn.status = "done"
        /\ PartiesOf(txn) = PartiesOf(transactions[t])
    BY <2>1 DEF Txn, SameTxn, PartiesOf
  <2>3. txnRows = transactions /\ reviewRows = reviews
    BY <1>3 DEF WriteThrough
  <2>4. SaveTransaction(t, txn, "ok")
    BY <1>3
  <2>. HIDE DEF txn
  <2>5. txnRows' = [transactions EXCEPT ![t] = txn]
    BY <2>2, <2>3, <2>4, SavedTransaction DEF SameTxn
  <2>6. \A p \in PartiesOf(txn) : ReviewedBy(p, t)
    BY <2>1, <2>2, <2>3 DEF BothReviewed, HasReviewed, ReviewedBy
  <2>7. SaleChanged(t, txn)
    BY <1>3, <2>1, <2>2, <2>3, <2>5, <2>6 DEF SaleChanged
  <2>. QED  BY <2>2, <2>5, <2>7 DEF RowsStep, txn
<1>4. ASSUME NEW t \in TxnIds, DeleteSoldItem(u, i, t, "ok", "ok")
      PROVE  WriteThrough' /\ RowsStep
  <2>1. /\ txnRows' = transactions'
        /\ RowsStep
    BY <1>3, <1>4 DEF DeleteSoldItem
  <2>2. items[i] \in Item
    BY <1>4, ItemOfSeller DEF DeleteSoldItem, SaleClosed, SalesInv
  <2>3. Deleted(items[i]) \in Item /\ Deleted(items[i]).seller = items[i].seller
    BY <2>2 DEF Deleted, Item
  <2>4. /\ SaveItem(i, Deleted(items[i]), "ok") /\ serving
        /\ items' = [items EXCEPT ![i] = Deleted(items[i])]
    BY <1>4 DEF DeleteSoldItem, Continues, SalesInv
  <2>5. itemRows' = items'
    BY <2>3, <2>4, SavedItem DEF WriteThrough
  <2>. QED  BY <1>4, <2>1, <2>4, <2>5 DEF DeleteSoldItem, WriteThrough
<1>5. ASSUME NEW t \in TxnIds, DeleteSoldItemKilled(u, i, t)
      PROVE  WriteThrough' /\ RowsStep
  BY <1>3, <1>5 DEF DeleteSoldItemKilled, Forget, WriteThrough
<1>6. ASSUME NEW status \in {"active", "pending"}, Purchase(u, i, status, "ok", "ok")
      PROVE  WriteThrough' /\ RowsStep
  <2>. DEFINE t == nextTxnID
              txn == SoldTo(u, i, status)
              new == [items[i] EXCEPT !.status = "sold"]
  <2>1. t \in TxnIds
    BY <1>6, StoreAssumption DEF Purchase, SalesInv, TxnIds
  <2>2. txnRows[t] = NoTxn
    BY <1>6, <2>1 DEF Purchase, SalesInv, IdsAreFresh
  <2>3. items[i] \in Item /\ new \in Item
    BY <1>6, BuyableItem DEF Purchase, SalesInv
  <2>4. new.seller = items[i].seller
    BY <2>3 DEF Item
  <2>5. txn \in Txn /\ ~txn.buyerHidden /\ ~txn.sellerHidden
    BY <2>3 DEF SoldTo, Txn, Item
  <2>6. /\ SaveItem(i, new, "ok") /\ serving
        /\ items' = [items EXCEPT ![i] = new]
        /\ SaveTransaction(t, txn, "ok")
        /\ transactions' = [transactions EXCEPT ![t] = txn]
        /\ UNCHANGED <<reviews, reviewRows>>
    BY <1>6 DEF Purchase, Continues, SalesInv
  <2>. HIDE DEF txn, new, t
  <2>7. itemRows' = items'
    BY <2>3, <2>4, <2>6, SavedItem DEF WriteThrough
  <2>8. txnRows' = [transactions EXCEPT ![t] = txn]
    BY <2>1, <2>2, <2>5, <2>6, SavedTransaction DEF WriteThrough
  <2>9. SaleMade(t, txn)
    BY <2>2, <2>5, <2>6, <2>8 DEF SaleMade, WriteThrough
  <2>. QED  BY <2>1, <2>5, <2>6, <2>7, <2>8, <2>9 DEF WriteThrough, RowsStep
<1>7. ASSUME PurchaseKilled(u, i)
      PROVE  WriteThrough' /\ RowsStep
  BY <1>7 DEF PurchaseKilled, Forget, WriteThrough, RowsStep
<1>. QED  BY <1>1, <1>2, <1>4, <1>5, <1>6, <1>7 DEF ItemStep

LEMMA HealthyChange ==
  ASSUME Outcomes = {"ok"}, SalesInv, WriteThrough, serving,
         NEW t \in TxnIds, NEW txn \in Txn, NEW o, transactions[t] \in Txn,
         SameTxn(txn, transactions[t]), ChangeTransaction(t, txn, o),
         transactions[t].status = "done" => txn.status = "done",
         \/ /\ txn.buyerHidden = transactions[t].buyerHidden
            /\ txn.sellerHidden = transactions[t].sellerHidden
         \/ txn.status = "done" /\ BothReviewed(t)
  PROVE  WriteThrough' /\ RowsStep
<1>1. WriteThrough' /\ txnRows' = [txnRows EXCEPT ![t] = txn]
  BY ChangeWrittenThrough DEF WriteThrough
<1>2. txnRows = transactions /\ reviewRows = reviews
  BY DEF WriteThrough
<1>3. PartiesOf(txn) = PartiesOf(transactions[t])
  BY DEF SameTxn, PartiesOf
<1>4. BothReviewed(t) => \A p \in PartiesOf(txn) : ReviewedBy(p, t)
  BY <1>2, <1>3 DEF BothReviewed, HasReviewed, ReviewedBy
<1>5. SaleChanged(t, txn)
  BY <1>1, <1>2, <1>4 DEF SaleChanged, ChangeTransaction
<1>. QED  BY <1>1, <1>5 DEF RowsStep

LEMMA HealthySaleStep ==
  ASSUME Outcomes = {"ok"}, SalesInv, WriteThrough, RatingsCurrent,
         NEW u \in Users, NEW t \in TxnIds, SaleStep(u, t)
  PROVE  WriteThrough' /\ RowsStep /\ RatingsCurrent'
<1>. USE DEF TypeOK, StoreTypeOK
<1>1. ASSUME NEW txn, NEW o, ChangeTransaction(t, txn, o)
      PROVE  RatingsCurrent'
  BY <1>1 DEF ChangeTransaction, RatingsCurrent, Received
<1>2. ASSUME NEW o, Pay(u, t, o)
      PROVE  WriteThrough' /\ RowsStep /\ RatingsCurrent'
  <2>. DEFINE txn == [transactions[t] EXCEPT !.status = "active"]
  <2>1. transactions[t] \in Txn
    BY <1>2 DEF Pay, Payable, IsParty, SalesInv
  <2>2. /\ txn \in Txn /\ SameTxn(txn, transactions[t])
        /\ transactions[t].status # "done"
        /\ txn.buyerHidden = transactions[t].buyerHidden
        /\ txn.sellerHidden = transactions[t].sellerHidden
    BY <1>2, <2>1 DEF Pay, Payable, Txn, SameTxn
  <2>. QED  BY <1>1, <1>2, <2>1, <2>2, HealthyChange DEF Pay
<1>3. ASSUME NEW o, Complete(u, t, o)
      PROVE  WriteThrough' /\ RowsStep /\ RatingsCurrent'
  <2>. DEFINE txn == [transactions[t] EXCEPT !.status = "done"]
  <2>1. transactions[t] \in Txn
    BY <1>3 DEF Complete, IsParty, SalesInv
  <2>2. /\ txn \in Txn /\ SameTxn(txn, transactions[t]) /\ txn.status = "done"
        /\ txn.buyerHidden = transactions[t].buyerHidden
        /\ txn.sellerHidden = transactions[t].sellerHidden
    BY <2>1 DEF Txn, SameTxn
  <2>. QED  BY <1>1, <1>3, <2>1, <2>2, HealthyChange DEF Complete
<1>4. ASSUME NEW o, DeleteTransaction(u, t, o)
      PROVE  WriteThrough' /\ RowsStep /\ RatingsCurrent'
  <2>. DEFINE txn == [transactions[t] EXCEPT
                        !.buyerHidden = @ \/ transactions[t].buyer = u,
                        !.sellerHidden = @ \/ transactions[t].seller = u]
  <2>1. transactions[t] \in Txn
    BY <1>4 DEF DeleteTransaction, IsParty, SalesInv
  <2>2. /\ txn \in Txn /\ SameTxn(txn, transactions[t])
        /\ txn.status = transactions[t].status
    BY <2>1 DEF Txn, SameTxn
  <2>3. /\ ChangeTransaction(t, txn, o) /\ serving
        /\ transactions[t].status = "done" /\ BothReviewed(t)
    BY <1>4 DEF DeleteTransaction
  <2>. HIDE DEF txn
  <2>. QED  BY <1>1, <2>1, <2>2, <2>3, HealthyChange
<1>5. ASSUME NEW o1, NEW o2 \in Outcomes, CreateReview(u, t, o1, o2)
      PROVE  WriteThrough' /\ RowsStep /\ RatingsCurrent'
  <2>. DEFINE r == nextReviewID
              about == RevieweeOf(u, t)
              review == [txn |-> t, reviewer |-> u, reviewee |-> about]
  <2>1. /\ serving /\ transactions[t] \in Txn /\ transactions[t].status = "done"
        /\ u \in PartiesOf(transactions[t])
        /\ u = transactions[t].seller => HasReviewed(transactions[t].buyer, t)
    BY <1>5 DEF CreateReview, Reviewable, IsParty, SalesInv
  <2>2. txnRows = transactions /\ reviewRows = reviews /\ itemRows = items
    BY <2>1 DEF WriteThrough
  <2>3. o1 = "ok"
    BY <1>5, <2>1, <2>2, StoreAssumption DEF CreateReview, WriteOutcomes, NoTxn, Txn
  <2>4. r \in ReviewIds
    BY <1>5, StoreAssumption DEF CreateReview, SalesInv, ReviewIds
  <2>5. /\ reviews[r] = NoReview
        /\ \A s \in ReviewIds : reviewRows[s] # NoReview => s < r
    BY <2>1, <2>2, <2>4 DEF SalesInv, IdsAreFresh, ReviewIds
  <2>6. about \in Users /\ {u, about} = PartiesOf(transactions[t])
    BY <2>1 DEF RevieweeOf, PartiesOf, Txn
  <2>7. /\ review \in Review /\ review.txn = t /\ review.reviewer = u
        /\ review.reviewee = about
    BY <2>6 DEF Review
  <2>8. /\ reviews' = [reviews EXCEPT ![r] = review]
        /\ reviewRows' = [reviewRows EXCEPT ![r] = review]
        /\ ratings' = [ratings EXCEPT ![about] = Received(reviews', about)]
        /\ UNCHANGED <<serving, items, transactions, itemRows, txnRows>>
    BY <1>5, <2>2, <2>3, <2>5
    DEF CreateReview, SaveReview, UpsertedReview, Continues, Recalculated
  <2>. HIDE DEF review, about
  <2>9. WriteThrough'
    BY <2>2, <2>8 DEF WriteThrough
  <2>10. ReviewMade(r, review)
    BY <2>1, <2>2, <2>5, <2>6, <2>7, <2>8 DEF ReviewMade, ReviewedBy, HasReviewed
  <2>11. RatingsCurrent'
    <3>. SUFFICES ASSUME NEW v \in Users
                  PROVE  \/ ratings'[v] = Received(reviews', v)
                         \/ /\ v = DemoSeller /\ Received(reviews', v) = {}
                            /\ ratings'[v] = SeededRating
      BY DEF RatingsCurrent, Received
    <3>1. CASE v = about
      BY <2>6, <2>8, <3>1 DEF SalesInv
    <3>2. CASE v # about
      <4>1. \/ ratings'[v] = Received(reviews, v)
            \/ /\ v = DemoSeller /\ Received(reviews, v) = {}
               /\ ratings'[v] = SeededRating
        BY <2>1, <2>8, <3>2 DEF RatingsCurrent, SalesInv
      <4>2. \A s \in ReviewIds : reviews'[s].reviewee = v <=> reviews[s].reviewee = v
        BY <2>4, <2>5, <2>7, <2>8, <3>2, StoreAssumption DEF SalesInv, NoReview
      <4>. QED  BY <4>1, <4>2 DEF Received
    <3>. QED  BY <3>1, <3>2
  <2>. QED  BY <2>4, <2>7, <2>9, <2>10, <2>11 DEF RowsStep
<1>. QED  BY <1>2, <1>3, <1>4, <1>5 DEF SaleStep

LEMMA HealthyNext ==
  ASSUME Outcomes = {"ok"}, SalesInv, WriteThrough, RatingsCurrent, [Next]_vars
  PROVE  WriteThrough' /\ RowsStep /\ RatingsCurrent'
<1>. USE DEF TypeOK, StoreTypeOK
<1>1. ASSUME NEW u \in Users, NEW i \in ItemIds, ItemStep(u, i)
      PROVE  WriteThrough' /\ RowsStep /\ RatingsCurrent'
  <2>1. ~serving' \/ UNCHANGED <<serving, reviews, ratings>>
    BY <1>1 DEF ItemStep, UpdateItem, DeleteUnsoldItem, DeleteSoldItem,
                DeleteSoldItemKilled, Purchase, PurchaseKilled, Forget
  <2>. QED  BY <1>1, <2>1, HealthyItemStep DEF RatingsCurrent, Received
<1>2. ASSUME NEW u \in Users, NEW status \in {"draft", "published", "sold"},
             NEW ready \in BOOLEAN, NEW obsolete \in BOOLEAN,
             CreateItem(u, status, ready, obsolete, "ok")
      PROVE  WriteThrough' /\ RowsStep /\ RatingsCurrent'
  <2>. DEFINE i == nextItemID
              item == [seller |-> u, status |-> status,
                       hidden |-> FALSE, ready |-> ready, obsolete |-> obsolete]
  <2>1. i \in ItemIds
    BY <1>2, StoreAssumption DEF CreateItem, SalesInv, ItemIds
  <2>2. items[i] = NoItem
    BY <1>2, <2>1 DEF CreateItem, SalesInv, IdsAreFresh
  <2>3. item \in Item
    BY DEF Item
  <2>4. /\ SaveItem(i, item, "ok") /\ items' = [items EXCEPT ![i] = item]
        /\ serving /\ serving' = serving
        /\ UNCHANGED <<transactions, reviews, txnRows, reviewRows, ratings>>
    BY <1>2 DEF CreateItem, Continues
  <2>. HIDE DEF item, i
  <2>5. WriteThrough'
    BY <2>1, <2>2, <2>3, <2>4, ItemWrittenThrough
  <2>. QED  BY <2>4, <2>5 DEF RowsStep, RatingsCurrent, Received
<1>3. ASSUME ProcessStep
      PROVE  WriteThrough' /\ RowsStep /\ RatingsCurrent'
  <2>1. CASE Crash
    BY <2>1 DEF Crash, Forget, tables, WriteThrough, RowsStep, RatingsCurrent
  <2>2. PurgeTables => RowsStep
    <3>1. ObsoleteSales \in SUBSET TxnIds
      BY DEF ObsoleteSales
    <3>. QED  BY <3>1 DEF PurgeTables, RowsStep, SalesGone
  <2>3. CASE Restart
    BY <2>2, <2>3 DEF Restart, WriteThrough, RatingsCurrent, Received
  <2>4. CASE RestartCutOff
    BY <2>2, <2>4 DEF RestartCutOff, WriteThrough, RatingsCurrent
  <2>. QED  BY <1>3, <2>1, <2>3, <2>4 DEF ProcessStep
<1>4. ASSUME UNCHANGED vars
      PROVE  WriteThrough' /\ RowsStep /\ RatingsCurrent'
  BY <1>4 DEF vars, memory, tables, WriteThrough, RowsStep, RatingsCurrent, Received
<1>. QED  BY <1>1, <1>2, <1>3, <1>4, HealthySaleStep DEF Next

-----------------------------------------------------------------------------
(* Healthy writes: reviews follow their sale, hidden sales are closed *)

(* What is left when sales have gone, with their reviews *)
LEMMA LeftAfterSalesGone ==
  ASSUME NEW gone \in SUBSET TxnIds, SalesGone(gone)
  PROVE  /\ \A t \in TxnIds : txnRows'[t] # NoTxn =>
              t \notin gone /\ txnRows'[t] = txnRows[t]
         /\ \A t \in TxnIds : t \notin gone => txnRows'[t] = txnRows[t]
         /\ \A r \in ReviewIds : reviewRows'[r] # NoReview =>
              reviewRows[r].txn \notin gone /\ reviewRows'[r] = reviewRows[r]
         /\ \A r \in ReviewIds :
              reviewRows[r].txn \notin gone => reviewRows'[r] = reviewRows[r]
  BY DEF SalesGone

LEMMA ReviewsKeepFollowing ==
  ASSUME SalesInv, ReviewsFollowTheSale, RowsStep
  PROVE  ReviewsFollowTheSale'
<1>. USE DEF TypeOK, StoreTypeOK
<1>1. CASE UNCHANGED <<txnRows, reviewRows>>
  BY <1>1 DEF ReviewsFollowTheSale
<1>2. ASSUME NEW t \in TxnIds, NEW txn \in Txn,
             SaleMade(t, txn) \/ SaleChanged(t, txn)
      PROVE  ReviewsFollowTheSale'
  <2>1. reviewRows' = reviewRows
    BY <1>2 DEF SaleMade, SaleChanged
  <2>2. \A s \in TxnIds : txnRows[s].status = "done" =>
          /\ txnRows'[s].status = "done"
          /\ SameTxn(txnRows'[s], txnRows[s])
    BY <1>2 DEF SaleMade, SaleChanged, SalesInv, NoTxn, SameTxn
  <2>3. \A r \in ReviewIds : reviewRows[r] # NoReview => reviewRows[r].txn \in TxnIds
    BY DEF SalesInv, Review
  <2>. SUFFICES ASSUME NEW r \in ReviewIds, reviewRows[r] # NoReview
                PROVE  LET review == reviewRows[r]
                           txn2 == txnRows'[review.txn]
                       IN /\ txn2.status = "done"
                          /\ {review.reviewer, review.reviewee} = PartiesOf(txn2)
                          /\ review.reviewer = txn2.seller =>
                               \E b \in ReviewIds : /\ reviewRows[b].txn = review.txn
                                                    /\ reviewRows[b].reviewer = txn2.buyer
                                                    /\ b < r
    BY <2>1 DEF ReviewsFollowTheSale, PartiesOf
  <2>. QED  BY <2>2, <2>3 DEF ReviewsFollowTheSale, PartiesOf, SameTxn
<1>3. ASSUME NEW r \in ReviewIds, NEW review \in Review, ReviewMade(r, review)
      PROVE  ReviewsFollowTheSale'
  <2>1. /\ txnRows' = txnRows
        /\ reviewRows'[r] = review
        /\ \A s \in ReviewIds : s # r => reviewRows'[s] = reviewRows[s]
    BY <1>3 DEF ReviewMade, SalesInv
  <2>2. \A s \in ReviewIds : reviewRows[s] # NoReview => s # r /\ s < r
    BY <1>3 DEF ReviewMade
  <2>. SUFFICES ASSUME NEW q \in ReviewIds, reviewRows'[q] # NoReview
                PROVE  LET rev == reviewRows'[q]
                           txn == txnRows[rev.txn]
                       IN /\ txn.status = "done"
                          /\ {rev.reviewer, rev.reviewee} = PartiesOf(txn)
                          /\ rev.reviewer = txn.seller =>
                               \E b \in ReviewIds : /\ reviewRows'[b].txn = rev.txn
                                                    /\ reviewRows'[b].reviewer = txn.buyer
                                                    /\ b < q
    BY <2>1 DEF ReviewsFollowTheSale, PartiesOf
  <2>3. ASSUME NEW b \in ReviewIds, reviewRows[b].txn \in TxnIds
        PROVE  reviewRows'[b] = reviewRows[b] /\ b < r
    <3>1. reviewRows[b] # NoReview
      BY <2>3 DEF NoReview, TxnIds
    <3>. QED  BY <2>1, <2>2, <3>1
  <2>4. CASE q # r
    <3>1. reviewRows[q] # NoReview /\ reviewRows'[q] = reviewRows[q]
      BY <2>1, <2>4
    <3>2. reviewRows[q].txn \in TxnIds
      BY <3>1 DEF SalesInv, Review
    <3>. QED  BY <2>3, <3>1, <3>2 DEF ReviewsFollowTheSale
  <2>5. CASE q = r
    <3>1. review.txn \in TxnIds
      BY DEF Review
    <3>. QED  BY <1>3, <2>1, <2>3, <2>5, <3>1 DEF ReviewMade, ReviewedBy
  <2>. QED  BY <2>4, <2>5
<1>4. ASSUME NEW gone \in SUBSET TxnIds, SalesGone(gone)
      PROVE  ReviewsFollowTheSale'
  <2>. SUFFICES ASSUME NEW q \in ReviewIds, reviewRows'[q] # NoReview
                PROVE  LET rev == reviewRows'[q]
                           txn == txnRows'[rev.txn]
                       IN /\ txn.status = "done"
                          /\ {rev.reviewer, rev.reviewee} = PartiesOf(txn)
                          /\ rev.reviewer = txn.seller =>
                               \E b \in ReviewIds : /\ reviewRows'[b].txn = rev.txn
                                                    /\ reviewRows'[b].reviewer = txn.buyer
                                                    /\ b < q
    BY DEF ReviewsFollowTheSale, PartiesOf
  <2>1. /\ reviewRows'[q] = reviewRows[q] /\ reviewRows[q] # NoReview
        /\ reviewRows[q].txn \in TxnIds \ gone
    BY <1>4, LeftAfterSalesGone DEF SalesInv, Review
  <2>2. txnRows'[reviewRows[q].txn] = txnRows[reviewRows[q].txn]
    BY <1>4, <2>1, LeftAfterSalesGone
  <2>3. \A b \in ReviewIds : reviewRows[b].txn = reviewRows[q].txn =>
          reviewRows'[b] = reviewRows[b]
    BY <1>4, <2>1, LeftAfterSalesGone
  <2>. QED  BY <2>1, <2>2, <2>3 DEF ReviewsFollowTheSale
<1>. QED  BY <1>1, <1>2, <1>3, <1>4 DEF RowsStep

LEMMA HiddenStaysClosed ==
  ASSUME SalesInv, HiddenSaleIsClosed, RowsStep
  PROVE  HiddenSaleIsClosed'
<1>. USE DEF TypeOK, StoreTypeOK
<1>1. CASE UNCHANGED <<txnRows, reviewRows>>
  BY <1>1 DEF HiddenSaleIsClosed
<1>2. ASSUME NEW t \in TxnIds, NEW txn \in Txn,
             SaleMade(t, txn) \/ SaleChanged(t, txn)
      PROVE  HiddenSaleIsClosed'
  <2>1. /\ reviewRows' = reviewRows
        /\ txnRows'[t] = txn
        /\ \A s \in TxnIds : s # t => txnRows'[s] = txnRows[s]
    BY <1>2 DEF SaleMade, SaleChanged, SalesInv
  <2>. SUFFICES ASSUME NEW s \in TxnIds,
                       txnRows'[s].buyerHidden \/ txnRows'[s].sellerHidden
                PROVE  /\ txnRows'[s].status = "done"
                       /\ \A p \in PartiesOf(txnRows'[s]) : ReviewedBy(p, s)
    BY <2>1 DEF HiddenSaleIsClosed, ReviewedBy, PartiesOf
  <2>2. CASE s # t
    BY <2>1, <2>2 DEF HiddenSaleIsClosed, ReviewedBy
  <2>3. CASE s = t
    <3>1. SaleChanged(t, txn)
      BY <1>2, <2>1, <2>3 DEF SaleMade
    <3>2. PartiesOf(txn) = PartiesOf(txnRows[t])
      BY <3>1 DEF SaleChanged, SameTxn, PartiesOf
    <3>3. ASSUME txnRows[t].buyerHidden \/ txnRows[t].sellerHidden
          PROVE  /\ txn.status = "done"
                 /\ \A p \in PartiesOf(txn) : ReviewedBy(p, t)
      BY <3>1, <3>2, <3>3 DEF SaleChanged, HiddenSaleIsClosed, ReviewedBy
    <3>. QED  BY <2>1, <2>3, <3>1, <3>3 DEF SaleChanged
  <2>. QED  BY <2>2, <2>3
<1>3. ASSUME NEW r \in ReviewIds, NEW review \in Review, ReviewMade(r, review)
      PROVE  HiddenSaleIsClosed'
  <2>1. /\ txnRows' = txnRows
        /\ \A s \in ReviewIds : reviewRows[s] # NoReview => reviewRows'[s] = reviewRows[s]
    BY <1>3 DEF ReviewMade, SalesInv
  <2>2. ASSUME NEW p, NEW t \in TxnIds, ReviewedBy(p, t)
        PROVE  \E s \in ReviewIds : reviewRows'[s].txn = t /\ reviewRows'[s].reviewer = p
    <3>1. PICK s \in ReviewIds : reviewRows[s].txn = t /\ reviewRows[s].reviewer = p
      BY <2>2 DEF ReviewedBy
    <3>2. reviewRows[s] # NoReview
      BY <3>1 DEF NoReview, TxnIds
    <3>. QED  BY <2>1, <3>1, <3>2
  <2>. QED  BY <2>1, <2>2 DEF HiddenSaleIsClosed, ReviewedBy, PartiesOf
<1>4. ASSUME NEW gone \in SUBSET TxnIds, SalesGone(gone)
      PROVE  HiddenSaleIsClosed'
  <2>. SUFFICES ASSUME NEW s \in TxnIds,
                       txnRows'[s].buyerHidden \/ txnRows'[s].sellerHidden
                PROVE  /\ txnRows'[s].status = "done"
                       /\ \A p \in PartiesOf(txnRows'[s]) : \E r \in ReviewIds :
                            reviewRows'[r].txn = s /\ reviewRows'[r].reviewer = p
    BY DEF HiddenSaleIsClosed, PartiesOf
  <2>1. s \notin gone /\ txnRows'[s] = txnRows[s]
    BY <1>4, LeftAfterSalesGone DEF NoTxn
  <2>2. \A r \in ReviewIds : reviewRows[r].txn = s => reviewRows'[r] = reviewRows[r]
    BY <1>4, <2>1, LeftAfterSalesGone
  <2>. QED  BY <2>1, <2>2 DEF HiddenSaleIsClosed
<1>. QED  BY <1>1, <1>2, <1>3, <1>4 DEF RowsStep

HealthyInv ==
  WriteThrough /\ RatingsCurrent /\ ReviewsFollowTheSale /\ HiddenSaleIsClosed

LEMMA InitHealthy == Init => HealthyInv
<1>. SUFFICES ASSUME Init PROVE HealthyInv
  OBVIOUS
<1>1. WriteThrough
  BY DEF Init, StoreInit, WriteThrough
<1>2. RatingsCurrent
  BY StoreAssumption DEF Init, StoreInit, RatingsCurrent, Received, NoReviews, NoReview
<1>3. ReviewsFollowTheSale /\ HiddenSaleIsClosed
  BY DEF Init, StoreInit, ReviewsFollowTheSale, HiddenSaleIsClosed, NoReviews, NoTxns, NoTxn
<1>. QED  BY <1>1, <1>2, <1>3 DEF HealthyInv

(* When no write fails, a process serves exactly what the tables hold and  *)
(* shows the ratings of its reviews, but for the seeded rating of a seller *)
(* without reviews; reviews come in the order their sale prescribes, and   *)
(* only a sale with nothing left to do is ever hidden, although the        *)
(* process may die anywhere.                                               *)
THEOREM HealthyInvariant ==
  ASSUME Outcomes = {"ok"}
  PROVE  Spec => []HealthyInv
<1>1. SalesInv /\ HealthyInv /\ [Next]_vars => HealthyInv'
  BY HealthyNext, ReviewsKeepFollowing, HiddenStaysClosed DEF HealthyInv
<1>. QED  BY <1>1, InitHealthy, SalesInvariant, PTL DEF Spec

(* With healthy writes, memory and tables agree. *)
THEOREM WritesGoThrough ==
  ASSUME Outcomes = {"ok"}
  PROVE  Spec => []WriteThrough
<1>1. HealthyInv => WriteThrough
  BY DEF HealthyInv
<1>. QED  BY <1>1, HealthyInvariant, PTL

(* With healthy writes, every rating is that of all reviews of the user,   *)
(* or still the one that the seed gave its seller, whom nobody reviewed.   *)
THEOREM RatingsStayCurrent ==
  ASSUME Outcomes = {"ok"}
  PROVE  Spec => []RatingsCurrent
<1>1. HealthyInv => RatingsCurrent
  BY DEF HealthyInv
<1>. QED  BY <1>1, HealthyInvariant, PTL

(* With healthy writes, the buyer's review is stored before the seller's,  *)
(* and both only of a completed sale.                                      *)
THEOREM ReviewsComeInOrder ==
  ASSUME Outcomes = {"ok"}
  PROVE  Spec => []ReviewsFollowTheSale
<1>1. HealthyInv => ReviewsFollowTheSale
  BY DEF HealthyInv
<1>. QED  BY <1>1, HealthyInvariant, PTL

(* With healthy writes, a sale that a party hides is completed and         *)
(* reviewed by both.                                                       *)
THEOREM HiddenSalesAreClosed ==
  ASSUME Outcomes = {"ok"}
  PROVE  Spec => []HiddenSaleIsClosed
<1>1. HealthyInv => HiddenSaleIsClosed
  BY DEF HealthyInv
<1>. QED  BY <1>1, HealthyInvariant, PTL
=============================================================================
