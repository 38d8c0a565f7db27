------------------------------- MODULE Market -------------------------------
(***************************************************************************)
(* Items, their sale and the reviews of it: the handlers that change the   *)
(* store of module Store.  Every one of them holds store.mu for writing    *)
(* from its first look at a map to the end of its last write, so each is   *)
(* one action, whose parameters are the caller, the request and the        *)
(* outcome of each write.  A process that dies inside a handler leaves the *)
(* tables as if the remaining writes had failed and a crash had followed;  *)
(* the handlers that make several writes also have such a step of their    *)
(* own (Killed), for runs in which no write fails.                         *)
(***************************************************************************)
EXTENDS Store

VARIABLES
  receipts,      \* per transaction, the record last answered with a 2xx
  reviewReceipts \* the <<transaction, reviewer>> of reviews answered 201

receiptVars == <<receipts, reviewReceipts>>
vars == <<serving, memory, tables, receiptVars>>

-----------------------------------------------------------------------------
(* Questions the handlers ask of the store *)

PartiesOf(txn) == {txn.buyer, txn.seller}

(* canAccessTransaction and the first check of every transaction handler *)
IsParty(u, t) == transactions[t] # NoTxn /\ u \in PartiesOf(transactions[t])

(* reviewState *)
HasReviewed(u, t) ==
  \E r \in ReviewIds : reviews[r].txn = t /\ reviews[r].reviewer = u

(* a wrong variant of the next definition, used to test properties *)
EitherReviewed(t) ==
  \E p \in PartiesOf(transactions[t]) : HasReviewed(p, t)

BothReviewed(t) ==
  \A p \in PartiesOf(transactions[t]) : HasReviewed(p, t)

SalesOf(i) ==
  {t \in TxnIds : transactions[t].item = i
                  /\ transactions[t].seller = items[i].seller}

(* itemHasIncompleteTransaction *)
HasIncompleteSale(i) == \E t \in SalesOf(i) : transactions[t].status # "done"

(* validateItemMutation: what an item may be after a create or an update *)
ValidMutation(item) ==
  /\ item.status \in {"draft", "published"}
  /\ item.status = "published" => item.ready

-----------------------------------------------------------------------------
(* Mutations: wrong variants of some definitions, used to test properties *)

BuyableWhenSold(u, i) ==
  /\ items[i].status \in {"published", "sold"}
  /\ ~items[i].hidden
  /\ items[i].seller # u

RelistedStillHidden(item, status, ready, obsolete) ==
  [item EXCEPT !.status = status, !.ready = ready, !.obsolete = obsolete]

DeletedButOnSale(item) == [item EXCEPT !.hidden = TRUE, !.status = "deleted"]

PayableAnyTime(u, t) == IsParty(u, t) /\ transactions[t].buyer = u

ReviewableTwice(u, t) ==
  /\ IsParty(u, t)
  /\ transactions[t].status = "done"
  /\ u = transactions[t].seller => HasReviewed(transactions[t].buyer, t)

ReviewableAtOnce(u, t) ==
  /\ IsParty(u, t)
  /\ transactions[t].status = "done"
  /\ ~HasReviewed(u, t)

-----------------------------------------------------------------------------
(* Items *)

(* createItem: the row is written first, the map only after a success. *)
CreateItem(u, status, ready, obsolete, outcome) ==
  LET i == nextItemID
      item == [seller |-> u, status |-> status, hidden |-> FALSE,
               ready |-> ready, obsolete |-> obsolete]
  IN /\ serving
     /\ i <= MaxItems
     /\ obsolete => i \in Purgeable
     /\ ValidMutation(item)
     /\ nextItemID' = i + 1
     /\ SaveItem(i, item, outcome)
     /\ items' = IF Continues(outcome) THEN [items EXCEPT ![i] = item] ELSE items
     /\ UNCHANGED <<serving, transactions, reviews, ratings, nextTxnID,
                    nextReviewID, txnRows, reviewRows, receiptVars>>

(* What updateItem makes of an item: publishing it again also unhides it. *)
Mutated(item, status, ready, obsolete) ==
  [item EXCEPT !.status = status, !.ready = ready, !.obsolete = obsolete,
               !.hidden = @ /\ (status = item.status \/ status # "published")]

(* updateItem: the seller edits an item that is not sold.  A request that  *)
(* leaves the status or the title out is one that names the current one.   *)
UpdateItem(u, i, status, ready, obsolete, outcome) ==
  LET next == Mutated(items[i], status, ready, obsolete)
  IN /\ serving
     /\ items[i].seller = u
     /\ items[i].status # "sold"
     /\ obsolete => i \in Purgeable
     /\ ValidMutation(next)
     /\ ~(status # items[i].status /\ status # "published"
          /\ HasIncompleteSale(i))
     /\ SaveItem(i, next, outcome)
     /\ items' = IF Continues(outcome) THEN [items EXCEPT ![i] = next] ELSE items
     /\ UNCHANGED <<serving, transactions, reviews, ratings, nextItemID,
                    nextTxnID, nextReviewID, txnRows, reviewRows, receiptVars>>

Deleted(item) ==
  [item EXCEPT !.hidden = TRUE,
               !.status = IF @ = "published" THEN "draft" ELSE @]

(* deleteItem, when the item is not sold *)
DeleteUnsoldItem(u, i, outcome) ==
  /\ serving
  /\ items[i].seller = u
  /\ ~HasIncompleteSale(i)
  /\ items[i].status # "sold"
  /\ items' = [items EXCEPT ![i] = Deleted(@)]
  /\ SaveItem(i, Deleted(items[i]), outcome)
  /\ UNCHANGED <<serving, transactions, reviews, ratings, nextItemID,
                 nextTxnID, nextReviewID, txnRows, reviewRows, receiptVars>>

(* The part of deleteItem's checks that looks at the sale it picked: the   *)
(* first one that the iteration over the map happens to meet.              *)
SaleClosed(u, i, t) ==
  /\ items[i].seller = u
  /\ ~HasIncompleteSale(i)
  /\ items[i].status = "sold"
  /\ t \in SalesOf(i)
  /\ transactions[t].status = "done"
  /\ BothReviewed(t)

(* deleteItem, when the item is sold: the seller's view of the sale is     *)
(* hidden first, then the item, with a write each.                         *)
DeleteSoldItem(u, i, t, txnOutcome, itemOutcome) ==
  LET txn == [transactions[t] EXCEPT !.sellerHidden = TRUE]
  IN /\ serving
     /\ SaleClosed(u, i, t)
     /\ transactions' = [transactions EXCEPT ![t] = txn]
     /\ SaveTransaction(t, txn, txnOutcome)
     /\ IF Continues(txnOutcome)
        THEN /\ items' = [items EXCEPT ![i] = Deleted(@)]
             /\ SaveItem(i, Deleted(items[i]), itemOutcome)
        ELSE UNCHANGED <<items, itemRows>>
     /\ receipts' = IF Continues(txnOutcome) /\ Continues(itemOutcome)
                    THEN [receipts EXCEPT ![t] = txn] ELSE receipts
     /\ UNCHANGED <<serving, reviews, ratings, nextItemID, nextTxnID,
                    nextReviewID, reviewRows, reviewReceipts>>

(* The process dies between the two writes of deleteItem. *)
DeleteSoldItemKilled(u, i, t) ==
  /\ serving
  /\ SaleClosed(u, i, t)
  /\ SaveTransaction(t, [transactions[t] EXCEPT !.sellerHidden = TRUE], "ok")
  /\ Forget
  /\ UNCHANGED <<itemRows, reviewRows, receiptVars>>

-----------------------------------------------------------------------------
(* Sales *)

(* The item can be bought by u: the checks of createPurchaseRequest. *)
Buyable(u, i) ==
  /\ items[i].status = "published"
  /\ ~items[i].hidden
  /\ items[i].seller # u

SoldTo(u, i, status) ==
  [item |-> i, buyer |-> u, seller |-> items[i].seller, status |-> status,
   buyerHidden |-> FALSE, sellerHidden |-> FALSE]

(* createPurchaseRequest: the item is marked sold and written, then the    *)
(* transaction is created and written.  An instant payment starts the sale *)
(* as "active", a payment at a konbini store as "pending".                 *)
Purchase(u, i, status, itemOutcome, txnOutcome) ==
  LET t == nextTxnID
      txn == SoldTo(u, i, status)
  IN /\ serving
     /\ t <= MaxTxns
     /\ Buyable(u, i)
     /\ items' = [items EXCEPT ![i].status = "sold"]
     /\ SaveItem(i, [items[i] EXCEPT !.status = "sold"], itemOutcome)
     /\ IF Continues(itemOutcome)
        THEN /\ nextTxnID' = t + 1
             /\ transactions' = [transactions EXCEPT ![t] = txn]
             /\ SaveTransaction(t, txn, txnOutcome)
        ELSE UNCHANGED <<nextTxnID, transactions, txnRows>>
     /\ receipts' = IF Continues(itemOutcome) /\ Continues(txnOutcome)
                    THEN [receipts EXCEPT ![t] = txn] ELSE receipts
     /\ UNCHANGED <<serving, reviews, ratings, nextItemID, nextReviewID,
                    reviewRows, reviewReceipts>>

(* The process dies between the two writes of createPurchaseRequest. *)
PurchaseKilled(u, i) ==
  /\ serving
  /\ Buyable(u, i)
  /\ SaveItem(i, [items[i] EXCEPT !.status = "sold"], "ok")
  /\ Forget
  /\ UNCHANGED <<txnRows, reviewRows, receiptVars>>

(* A wrong variant of the next definition, used to test properties.  *)
DroppedWhenUnwritten(t, txn, outcome) ==
  [transactions EXCEPT ![t] = IF Continues(outcome) THEN txn ELSE NoTxn]

(* The map keeps the changed record even when it could not be written. *)
WithTransaction(t, txn, outcome) == [transactions EXCEPT ![t] = txn]

(* The changed record goes into the map, then to its row; the client hears *)
(* of it only when the write succeeded.                                    *)
ChangeTransaction(t, txn, outcome) ==
  /\ outcome \in WriteOutcomes(itemRows[txn.item] # NoItem)
  /\ transactions' = WithTransaction(t, txn, outcome)
  /\ SaveTransaction(t, txn, outcome)
  /\ receipts' = IF Continues(outcome) THEN [receipts EXCEPT ![t] = txn]
                 ELSE receipts
  /\ UNCHANGED <<serving, items, reviews, ratings, nextItemID, nextTxnID,
                 nextReviewID, itemRows, reviewRows, reviewReceipts>>

Payable(u, t) ==
  /\ IsParty(u, t)
  /\ transactions[t].buyer = u
  /\ transactions[t].status = "pending"

(* payTransaction *)
Pay(u, t, outcome) ==
  /\ serving
  /\ Payable(u, t)
  /\ ChangeTransaction(t, [transactions[t] EXCEPT !.status = "active"],
                       outcome)

(* completeTransaction *)
Complete(u, t, outcome) ==
  /\ serving
  /\ IsParty(u, t)
  /\ transactions[t].buyer = u
  /\ transactions[t].status = "active"
  /\ ChangeTransaction(t, [transactions[t] EXCEPT !.status = "done"], outcome)

(* deleteTransaction: a party hides a sale that both have reviewed. *)
DeleteTransaction(u, t, outcome) ==
  /\ serving
  /\ IsParty(u, t)
  /\ transactions[t].status = "done"
  /\ BothReviewed(t)
  /\ ChangeTransaction(t,
       [transactions[t] EXCEPT
          !.buyerHidden = @ \/ transactions[t].buyer = u,
          !.sellerHidden = @ \/ transactions[t].seller = u],
       outcome)

-----------------------------------------------------------------------------
(* Reviews *)

Reviewable(u, t) ==
  /\ IsParty(u, t)
  /\ transactions[t].status = "done"
  /\ u = transactions[t].seller => HasReviewed(transactions[t].buyer, t)
  /\ ~HasReviewed(u, t)

RevieweeOf(u, t) ==
  IF u = transactions[t].seller THEN transactions[t].buyer
  ELSE transactions[t].seller

(* createReview: when the review cannot be written, the handler returns    *)
(* before it recalculates the rating; when only the user row cannot, the   *)
(* rating has changed in the map and the client still hears of a failure.  *)
CreateReview(u, t, reviewOutcome, userOutcome) ==
  LET r == nextReviewID
      reviewee == RevieweeOf(u, t)
      review == [txn |-> t, reviewer |-> u, reviewee |-> reviewee]
  IN /\ serving
     /\ r <= MaxReviews
     /\ Reviewable(u, t)
     /\ reviewOutcome \in WriteOutcomes(txnRows[t] # NoTxn)
     /\ nextReviewID' = r + 1
     /\ reviews' = [reviews EXCEPT ![r] = review]
     /\ SaveReview(r, review, reviewOutcome)
     /\ ratings' = IF Continues(reviewOutcome)
                   THEN Recalculated(reviewee, reviews') ELSE ratings
     /\ reviewReceipts' = IF Continues(reviewOutcome) /\ Continues(userOutcome)
                          THEN reviewReceipts \cup {<<t, u>>}
                          ELSE reviewReceipts
     /\ UNCHANGED <<serving, items, transactions, nextItemID, nextTxnID,
                    itemRows, txnRows, receipts>>

-----------------------------------------------------------------------------
(* The specification *)

Init ==
  /\ StoreInit
  /\ receipts = NoTxns
  /\ reviewReceipts = {}

ItemStep(u, i) ==
  \/ \E status \in {"draft", "published", "sold"},
        ready, obsolete \in BOOLEAN, o \in Outcomes :
        UpdateItem(u, i, status, ready, obsolete, o)
  \/ \E o \in Outcomes : DeleteUnsoldItem(u, i, o)
  \/ \E t \in TxnIds, o1, o2 \in Outcomes : DeleteSoldItem(u, i, t, o1, o2)
  \/ \E t \in TxnIds : DeleteSoldItemKilled(u, i, t)
  \/ \E status \in {"active", "pending"}, o1, o2 \in Outcomes :
        Purchase(u, i, status, o1, o2)
  \/ PurchaseKilled(u, i)

SaleStep(u, t) ==
  \/ \E o \in Outcomes \cup {"failed"} : Pay(u, t, o)
  \/ \E o \in Outcomes \cup {"failed"} : Complete(u, t, o)
  \/ \E o \in Outcomes \cup {"failed"} : DeleteTransaction(u, t, o)
  \/ \E o1 \in Outcomes \cup {"failed"}, o2 \in Outcomes :
        CreateReview(u, t, o1, o2)

(* What was answered about an item that is purged is no longer owed. *)
PurgeReceipts ==
  /\ receipts' = [t \in TxnIds |->
       IF receipts[t].item \in ObsoleteItems THEN NoTxn ELSE receipts[t]]
  /\ reviewReceipts' = {a \in reviewReceipts : a[1] \notin ObsoleteSales}

ProcessStep ==
  \/ Crash /\ UNCHANGED receiptVars
  \/ (Restart \/ RestartCutOff) /\ PurgeReceipts

Next ==
  \/ \E u \in Users, status \in {"draft", "published", "sold"},
        ready, obsolete \in BOOLEAN, o \in Outcomes :
        CreateItem(u, status, ready, obsolete, o)
  \/ \E u \in Users, i \in ItemIds : ItemStep(u, i)
  \/ \E u \in Users, t \in TxnIds : SaleStep(u, t)
  \/ ProcessStep

Spec == Init /\ [][Next]_vars

-----------------------------------------------------------------------------
(* What the properties say of the maps and of the tables alike *)

OneSaleIn(txns) ==
  \A t1, t2 \in TxnIds :
    txns[t1] # NoTxn /\ txns[t1].item = txns[t2].item => t1 = t2

SaleMatchesItemIn(txns) ==
  \A t \in TxnIds :
    LET txn == txns[t] IN
      txn # NoTxn => /\ itemRows[txn.item].status = "sold"
                     /\ itemRows[txn.item].seller = txn.seller
                     /\ txn.buyer # txn.seller

ListedIn(its) ==
  \A i \in ItemIds : its[i].status = "published" => its[i].ready /\ ~its[i].hidden

DeletedSaleIn(its, txns) ==
  \A i \in ItemIds :
    its[i].status = "sold" /\ its[i].hidden =>
      \E t \in TxnIds : txns[t].item = i /\ txns[t].sellerHidden

SameTxn(a, b) == a.item = b.item /\ a.buyer = b.buyer /\ a.seller = b.seller

OneReviewIn(revs) ==
  \A r1, r2 \in ReviewIds :
    /\ revs[r1] # NoReview
    /\ revs[r1].txn = revs[r2].txn
    /\ revs[r1].reviewer = revs[r2].reviewer
    => r1 = r2

-----------------------------------------------------------------------------
(* Properties that survive every failed write and every crash *)

(* The sales that the tables hold, as the ledger of module Ledger sees them *)
Sales ==
  INSTANCE Ledger WITH
    sold <- {i \in ItemIds : itemRows[i].status = "sold"},
    doomed <- {i \in ItemIds : itemRows[i].status = "sold" /\ itemRows[i].obsolete},
    ledger <- [t \in TxnIds |->
                [item |-> txnRows[t].item, buyer |-> txnRows[t].buyer,
                 seller |-> txnRows[t].seller, status |-> txnRows[t].status]]

(* A transaction record that is no earlier a version than another *)
AtLeast(later, earlier) ==
  /\ SameTxn(later, earlier)
  /\ Sales!Rank(later.status) >= Sales!Rank(earlier.status)
  /\ earlier.buyerHidden => later.buyerHidden
  /\ earlier.sellerHidden => later.sellerHidden

(* The tables implement the ledger of sales: whatever fails or dies, an    *)
(* item is sold once, and a sale keeps its parties, only moves forward and *)
(* is there for good, unless the item was sold under the obsolete title:   *)
(* then the next start purges item and sale together, and no others.       *)
SalesAreRecorded == Sales!Spec

(* Every variable keeps its type; a receipt is a transaction record. *)
TypeOK ==
  /\ StoreTypeOK
  /\ receipts \in [TxnIds -> Txn \cup {NoTxn}]
  /\ reviewReceipts \subseteq TxnIds \X Users

(* No item is sold twice, neither by the process that serves nor in what   *)
(* the next one will load: createPurchaseRequest sells only a published    *)
(* item and no handler makes a sold one published again.                   *)
OneSalePerItem == OneSaleIn(transactions) /\ OneSaleIn(txnRows)

(* Every sale is of an item that is stored as sold by the same seller to   *)
(* someone else, so no restart offers an item that already has a sale.     *)
SaleMatchesItem == SaleMatchesItemIn(transactions) /\ SaleMatchesItemIn(txnRows)

(* A published item, in memory or in its row, is fit for sale and is not   *)
(* deleted.  recommendations filters on the status alone, so this is what  *)
(* makes everything it returns something createPurchaseRequest accepts.    *)
ListedCanBeSold == ListedIn(items) /\ ListedIn(itemRows)

(* A sold item that deleteItem has hidden had its sale hidden first: the   *)
(* two writes of the handler may be cut apart only in that order.          *)
DeletedSaleIsHidden ==
  /\ DeletedSaleIn(items, transactions)
  /\ DeletedSaleIn(itemRows, txnRows)

(* A record and the row with its id are the same thing: ids that a failed  *)
(* write or a crash sets free are never given out while a row has them,    *)
(* so that no upsert turns one record's row into another's.                *)
IdsAreFresh ==
  serving =>
    /\ \A i \in ItemIds :
         itemRows[i] # NoItem \/ items[i] # NoItem => i < nextItemID
    /\ \A t \in TxnIds :
         /\ txnRows[t] # NoTxn \/ transactions[t] # NoTxn => t < nextTxnID
         /\ txnRows[t] # NoTxn => SameTxn(txnRows[t], transactions[t])
    /\ \A r \in ReviewIds :
         /\ reviewRows[r] # NoReview \/ reviews[r] # NoReview
              => r < nextReviewID
         /\ reviewRows[r] # NoReview => reviewRows[r] = reviews[r]

(* The process never lags behind the tables: what it serves has a row, an  *)
(* item whose row is sold is not offered and keeps its title, and a sale   *)
(* is at least as far as its row, so that writing the map's record never   *)
(* turns a row back.                                                       *)
MemoryLeads ==
  serving =>
    /\ \A i \in ItemIds :
         /\ items[i] # NoItem => itemRows[i].seller = items[i].seller
         /\ itemRows[i].status = "sold" =>
              /\ items[i].status = "sold"
              /\ items[i].obsolete = itemRows[i].obsolete
    /\ \A t \in TxnIds :
         txnRows[t] # NoTxn => AtLeast(transactions[t], txnRows[t])

(* What a client was told with a 2xx is in the tables until a start purges *)
(* its item: the sale has its parties, has reached at least the stage it   *)
(* was answered with, is hidden from who hid it, and an accepted review is *)
(* stored.                                                                 *)
AcknowledgedIsDurable ==
  /\ \A t \in TxnIds : receipts[t] # NoTxn => AtLeast(txnRows[t], receipts[t])
  /\ \A a \in reviewReceipts :
       \E r \in ReviewIds : reviewRows[r].txn = a[1] /\ reviewRows[r].reviewer = a[2]

(* No party of a sale has two reviews of it, although a client whose       *)
(* review was refused with a 500 may find it stored after a restart.       *)
OneReviewPerParty == OneReviewIn(reviews) /\ OneReviewIn(reviewRows)

(* A review that was answered with a 201 counts in the rating of the user  *)
(* it is about, and a rating counts only reviews that are shown, although  *)
(* createReview gives up before it recalculates when a write fails, and    *)
(* the reviews it could not write are counted by those that follow.        *)
RatingsCountAnswers ==
  serving =>
    /\ \A a \in reviewReceipts : \E r \in ReviewIds :
         /\ reviews[r].txn = a[1] /\ reviews[r].reviewer = a[2]
         /\ r \in ratings[reviews[r].reviewee]
    /\ \A u \in Users :
         ratings[u] = SeededRating \/ ratings[u] \subseteq Received(reviews, u)

-----------------------------------------------------------------------------
(* Properties of a run in which every write succeeds *)

(* The process serves exactly what the tables hold. *)
WriteThrough ==
  serving => /\ items = itemRows
             /\ transactions = txnRows
             /\ reviews = reviewRows

(* Reviews come in the order the sale prescribes, also across restarts:    *)
(* only of a completed sale, the buyer's before the seller's, each about   *)
(* the other party.                                                        *)
ReviewsFollowTheSale ==
  \A r \in ReviewIds :
    LET review == reviewRows[r]
        txn == txnRows[review.txn]
    IN review # NoReview =>
         /\ txn.status = "done"
         /\ {review.reviewer, review.reviewee} = PartiesOf(txn)
         /\ review.reviewer = txn.seller =>
              \E b \in ReviewIds : /\ reviewRows[b].txn = review.txn
                                   /\ reviewRows[b].reviewer = txn.buyer
                                   /\ b < r

(* A user's rating is the average of all reviews of that user, or it is    *)
(* the one that the seed gave its seller, who was never reviewed.          *)
RatingsCurrent ==
  serving => \A u \in Users :
    \/ ratings[u] = Received(reviews, u)
    \/ u = DemoSeller /\ Received(reviews, u) = {} /\ ratings[u] = SeededRating

(* A sale that one of its parties no longer sees has nothing left to do:   *)
(* it is completed and both parties have reviewed it.                      *)
HiddenSaleIsClosed ==
  \A t \in TxnIds :
    txnRows[t].buyerHidden \/ txnRows[t].sellerHidden =>
      /\ txnRows[t].status = "done"
      /\ \A p \in PartiesOf(txnRows[t]) :
           \E r \in ReviewIds :
             reviewRows[r].txn = t /\ reviewRows[r].reviewer = p

-----------------------------------------------------------------------------
(* What the handlers' error messages say, and the code does not keep *)

(* "seller can review after buyer review" (createReview) *)
SellerReviewsAfterBuyer ==
  serving => \A r \in ReviewIds :
    LET txn == transactions[reviews[r].txn] IN
      reviews[r] # NoReview /\ reviews[r].reviewer = txn.seller =>
        HasReviewed(txn.buyer, reviews[r].txn)
=============================================================================
