------------------------------- MODULE Store --------------------------------
(***************************************************************************)
(* The store of the API process and the MySQL tables behind it.            *)
(*                                                                         *)
(* Handlers read only the in-memory maps.  They change a map and write the *)
(* changed record through to its table; the tables are read back once,     *)
(* when the process starts, which then deletes the items of one obsolete   *)
(* title with all that belongs to them (purgeItemByTitle, for the title in *)
(* initializeStore).  A write can fail, and it can also be executed        *)
(* while its answer is lost, so that the handler takes it for a failure.   *)
(* No handler undoes its change of a map when the write of an item, a      *)
(* transaction or a review fails: the maps may run ahead of the tables.    *)
(*                                                                         *)
(* A map lookup of an absent id gives Go's zero value.  NoItem, NoTxn and  *)
(* NoReview are these zero values, both in the maps and in the tables.     *)
(***************************************************************************)
EXTENDS Naturals

CONSTANTS
  Users,      \* the registered users
  NoUser,     \* the zero user id
  DemoSeller, \* the user who owns the seeded items
  SeedItems,  \* how many seeded items the tables hold at the first start
  MaxItems,   \* bound on item ids
  MaxTxns,    \* bound on transaction ids
  MaxReviews, \* bound on review ids
  Purgeable,  \* bound: the item ids that may get the obsolete title
  Outcomes    \* how a write to MySQL may end

ASSUME StoreAssumption ==
  /\ NoUser \notin Users
  /\ DemoSeller \in Users
  /\ MaxItems \in Nat /\ MaxTxns \in Nat /\ MaxReviews \in Nat
  /\ SeedItems \in 0 .. MaxItems
  /\ Purgeable \subseteq 1 .. MaxItems
  /\ Outcomes \subseteq {"ok", "failed", "lost"}

VARIABLES
  serving,      \* the process is up and its store is loaded
  items,        \* store.items
  transactions, \* store.transactions
  reviews,      \* store.reviews
  ratings,      \* User.Rating, as the reviews it was last averaged from
  nextItemID,   \* store.nextItemID
  nextTxnID,    \* store.nextTxnID
  nextReviewID, \* store.nextReviewID
  itemRows,     \* table items
  txnRows,      \* table transactions
  reviewRows    \* table reviews

memory == <<items, transactions, reviews, ratings,
            nextItemID, nextTxnID, nextReviewID>>
tables == <<itemRows, txnRows, reviewRows>>

-----------------------------------------------------------------------------
(* Records and ids *)

ItemIds == 1 .. MaxItems
TxnIds == 1 .. MaxTxns
ReviewIds == 1 .. MaxReviews

Item == [seller : Users, status : {"draft", "published", "sold"},
         hidden : BOOLEAN,   \* SellerHidden: the seller deleted the item
         ready : BOOLEAN,    \* title, description and price fit to publish
         obsolete : BOOLEAN] \* it has the title that every start purges

Txn == [item : ItemIds, buyer : Users, seller : Users,
        status : {"pending", "active", "done"},
        buyerHidden : BOOLEAN, sellerHidden : BOOLEAN]

Review == [txn : TxnIds, reviewer : Users, reviewee : Users]

NoItem == [seller |-> NoUser, status |-> "none",
           hidden |-> FALSE, ready |-> FALSE, obsolete |-> FALSE]

NoTxn == [item |-> 0, buyer |-> NoUser, seller |-> NoUser, status |-> "none",
          buyerHidden |-> FALSE, sellerHidden |-> FALSE]

NoReview == [txn |-> 0, reviewer |-> NoUser, reviewee |-> NoUser]

NoItems == [i \in ItemIds |-> NoItem]
NoTxns == [t \in TxnIds |-> NoTxn]
NoReviews == [r \in ReviewIds |-> NoReview]

(* The reviews a user's rating is averaged from.  The seed gives its       *)
(* seller a rating that no review accounts for: an average of no review    *)
(* that exists, which is no average of none either.                        *)
Received(revs, u) == {r \in ReviewIds : revs[r].reviewee = u}

SeededRating == {0}

Ratings == (SUBSET ReviewIds) \cup {SeededRating}

(* recalculateUserRating, and a variant that runs before the review is in. *)
RecalculatedTooEarly(u, revs) == [ratings EXCEPT ![u] = Received(reviews, u)]

Recalculated(u, revs) == [ratings EXCEPT ![u] = Received(revs, u)]

StoreTypeOK ==
  /\ serving \in BOOLEAN
  /\ items \in [ItemIds -> Item \cup {NoItem}]
  /\ transactions \in [TxnIds -> Txn \cup {NoTxn}]
  /\ reviews \in [ReviewIds -> Review \cup {NoReview}]
  /\ ratings \in [Users -> Ratings]
  /\ nextItemID \in 1 .. (MaxItems + 1)
  /\ nextTxnID \in 1 .. (MaxTxns + 1)
  /\ nextReviewID \in 1 .. (MaxReviews + 1)
  /\ itemRows \in [ItemIds -> Item \cup {NoItem}]
  /\ txnRows \in [TxnIds -> Txn \cup {NoTxn}]
  /\ reviewRows \in [ReviewIds -> Review \cup {NoReview}]

-----------------------------------------------------------------------------
(* Writing through: INSERT ... ON DUPLICATE KEY UPDATE *)

(* The columns an upsert leaves alone when the row exists. *)
UpsertedItem(row, item) ==
  IF row = NoItem THEN item ELSE [item EXCEPT !.seller = row.seller]

UpsertedTxnStatusKept(row, txn) ==
  IF row = NoTxn THEN txn
  ELSE [row EXCEPT !.buyerHidden = txn.buyerHidden,
                   !.sellerHidden = txn.sellerHidden]

UpsertedTxn(row, txn) ==
  IF row = NoTxn THEN txn
  ELSE [row EXCEPT !.status = txn.status,
                   !.buyerHidden = txn.buyerHidden,
                   !.sellerHidden = txn.sellerHidden]

UpsertedReview(row, review) == IF row = NoReview THEN review ELSE row

ContinuesAfterError(outcome) == TRUE

(* A handler goes on after a write only when it returned no error. *)
Continues(outcome) == outcome = "ok"

(* A wrong variant of the next definition, used to test properties. *)
AnyWriteOutcomes(referenced) == Outcomes

(* A write whose foreign key has no row always fails. *)
WriteOutcomes(referenced) == IF referenced THEN Outcomes ELSE {"failed"}

SaveItem(i, item, outcome) ==
  itemRows' = IF outcome = "failed" THEN itemRows
              ELSE [itemRows EXCEPT ![i] = UpsertedItem(@, item)]

SaveTransaction(t, txn, outcome) ==
  txnRows' = IF outcome = "failed" THEN txnRows
             ELSE [txnRows EXCEPT ![t] = UpsertedTxn(@, txn)]

SaveReview(r, review, outcome) ==
  reviewRows' = IF outcome = "failed" THEN reviewRows
                ELSE [reviewRows EXCEPT ![r] = UpsertedReview(@, review)]

-----------------------------------------------------------------------------
(* Starting and dying *)

SeededItem(i) ==
  IF i <= SeedItems
  THEN [seller |-> DemoSeller, status |-> "published",
        hidden |-> FALSE, ready |-> TRUE, obsolete |-> FALSE]
  ELSE NoItem

(* The process serves the seeded store for the first time. *)
StoreInit ==
  /\ serving = TRUE
  /\ items = [i \in ItemIds |-> SeededItem(i)]
  /\ transactions = NoTxns
  /\ reviews = NoReviews
  /\ ratings = [u \in Users |-> IF u = DemoSeller THEN SeededRating ELSE {}]
  /\ nextItemID = SeedItems + 1
  /\ nextTxnID = 1
  /\ nextReviewID = 1
  /\ itemRows = items
  /\ txnRows = NoTxns
  /\ reviewRows = NoReviews

(* The maps and the counters are gone with the process. *)
Forget ==
  /\ serving' = FALSE
  /\ items' = NoItems
  /\ transactions' = NoTxns
  /\ reviews' = NoReviews
  /\ ratings' = [u \in Users |-> {}]
  /\ nextItemID' = 1
  /\ nextTxnID' = 1
  /\ nextReviewID' = 1

(* The counter that loadStore leaves after reading rows with these ids. *)
IsLastID(n, ids) ==
  /\ n >= 1
  /\ \A k \in ids : k <= n
  /\ n = 1 \/ n \in ids

IsNextID(n, ids) ==
  /\ \A k \in ids : k < n
  /\ n = 1 \/ n - 1 \in ids

Crash ==
  /\ serving
  /\ Forget
  /\ UNCHANGED tables

(* purgeItemByTitle: the items with the obsolete title, and their sales *)
ObsoleteItems == {i \in ItemIds : itemRows[i].obsolete}
ObsoleteSales == {t \in TxnIds : txnRows[t].item \in ObsoleteItems}

(* Those of them that a step deletes. *)
PurgedItems == {i \in ObsoleteItems : itemRows'[i] = NoItem}
PurgedSales == {t \in ObsoleteSales : txnRows'[t] = NoTxn}

(* The transaction of purgeItemByTitle, committed. *)
PurgeTables ==
  /\ itemRows' = [i \in ItemIds |->
       IF i \in ObsoleteItems THEN NoItem ELSE itemRows[i]]
  /\ txnRows' = [t \in TxnIds |->
       IF t \in ObsoleteSales THEN NoTxn ELSE txnRows[t]]
  /\ reviewRows' = [r \in ReviewIds |->
       IF reviewRows[r].txn \in ObsoleteSales THEN NoReview ELSE reviewRows[r]]

(* initializeStore: loadStore reads every map and counts the ids, then     *)
(* what is obsolete is purged from the tables and from the maps, and every *)
(* rating is recalculated.  The counters are those of the rows before.     *)
Restart ==
  /\ ~serving
  /\ serving' = TRUE
  /\ PurgeTables
  /\ items' = itemRows'
  /\ transactions' = txnRows'
  /\ reviews' = reviewRows'
  /\ ratings' = [u \in Users |-> Received(reviewRows', u)]
  /\ nextItemID' \in {n \in 1 .. (MaxItems + 1) :
       IsNextID(n, {i \in ItemIds : itemRows[i] # NoItem})}
  /\ nextTxnID' \in {n \in 1 .. (MaxTxns + 1) :
       IsNextID(n, {t \in TxnIds : txnRows[t] # NoTxn})}
  /\ nextReviewID' \in {n \in 1 .. (MaxReviews + 1) :
       IsNextID(n, {r \in ReviewIds : reviewRows[r] # NoReview})}

(* A start that ends after the purge was committed: the answer to the      *)
(* commit is lost, a rating cannot be written, or the process dies.  One   *)
(* that ends before has changed nothing.                                   *)
RestartCutOff ==
  /\ ~serving
  /\ PurgeTables
  /\ UNCHANGED <<serving, memory>>
=============================================================================
