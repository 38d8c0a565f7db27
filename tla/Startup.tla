------------------------------- MODULE Startup -------------------------------
(***************************************************************************)
(* The start of the process (initializeStore): it loads the tables, purges *)
(* obsolete items, and seeds an empty store with demo users and items, one *)
(* write after the other.  A start that meets an error ends the process;   *)
(* it may also die between any two steps.  The platform starts it again.   *)
(*                                                                         *)
(* What refers to an item (its sale, the review and the messages of the    *)
(* sale, likes, views) is a set of pairs <<kind, item>>: the purge tells   *)
(* apart only which of them there are.                                     *)
(***************************************************************************)
EXTENDS Naturals, FiniteSets

CONSTANTS
  MaxUsers,  \* bound on user ids
  MaxItems,  \* bound on item ids
  Addresses, \* e-mail addresses, different ones also to the table
  DemoSeller, DemoBuyer, \* the addresses of the two users of the seed
  SeedItems, \* how many items the seed has
  Profiles,  \* what a user's name and avatar may be
  FirstProfile,
  Kinds,     \* the kinds of references to an item that occur
  Outcomes   \* how a write to MySQL may end

ASSUME StartupAssumption ==
  /\ MaxUsers \in Nat /\ MaxItems \in Nat
  /\ MaxUsers >= 2
  /\ {DemoSeller, DemoBuyer} \subseteq Addresses
  /\ DemoSeller # DemoBuyer /\ "none" \notin Addresses
  /\ SeedItems \in 0 .. MaxItems
  /\ FirstProfile \in Profiles
  /\ Kinds \subseteq {"sale", "review", "message", "like", "view"}
  /\ Outcomes \subseteq {"ok", "failed", "lost"}

VARIABLES
  phase,      \* how far initializeStore has come
  users,      \* store.users
  idOf,       \* store.usersByEmail; 0 when the address is absent
  nextUserID, \* store.nextUserID
  ratings,    \* User.Rating, as the reviews it was last averaged from
  items,      \* store.items
  nextItemID, \* store.nextItemID
  refs,       \* the maps of what refers to items
  unsaved,    \* what persistAll has still to write
  userRows,   \* table users
  itemRows,   \* table items
  refRows     \* the tables of what refers to items

maps == <<users, idOf, nextUserID, ratings, items, nextItemID, refs>>
tables == <<userRows, itemRows, refRows>>
startVars == <<phase, maps, unsaved, tables>>

UserIds == 1 .. MaxUsers
ItemIds == 1 .. MaxItems

Account == [email : Addresses, profile : Profiles]
NoAccount == [email |-> "none", profile |-> "none"]
Item == [seller : UserIds, obsolete : BOOLEAN]
NoItem == [seller |-> 0, obsolete |-> FALSE]

NoUsers == [u \in UserIds |-> NoAccount]
NoItems == [i \in ItemIds |-> NoItem]
NothingUnsaved == [users |-> {}, items |-> {}]

StoredUsers == {u \in UserIds : userRows[u] # NoAccount}
StoredItems == {i \in ItemIds : itemRows[i] # NoItem}

(* The counter that loadStore leaves after reading rows with these ids,    *)
(* and a variant that counts the rows.                                     *)
IsCountedID(n, ids) == n = Cardinality(ids) + 1

IsNextID(n, ids) ==
  /\ \A k \in ids : k < n
  /\ n = 1 \/ n - 1 \in ids

(* The rating that the seed gives its seller: no review accounts for it. *)
SeededRating == {0}

(* The reviews of a user's sales *)
Received(its, rs, u) == {i \in ItemIds : its[i].seller = u /\ <<"review", i>> \in rs}

Ratings(its, rs) == [u \in UserIds |-> Received(its, rs, u)]

-----------------------------------------------------------------------------
(* Writes *)

Continues(outcome) == outcome = "ok"

(* INSERT ... ON DUPLICATE KEY UPDATE: the row with the id takes every     *)
(* column; a new id with the address of another row changes that row.      *)
SavedUser(u, account) ==
  IF userRows[u] = NoAccount /\ \E v \in StoredUsers : userRows[v].email = account.email
  THEN [v \in UserIds |-> IF userRows[v].email = account.email THEN account
                          ELSE userRows[v]]
  ELSE [userRows EXCEPT ![u] = account]

SaveUser(u, account, outcome) ==
  userRows' = IF outcome = "failed" THEN userRows ELSE SavedUser(u, account)

(* The foreign key of an item is its seller. *)
ItemOutcomes(item) == IF userRows[item.seller] # NoAccount THEN Outcomes ELSE {"failed"}

SaveItem(i, item, outcome) ==
  itemRows' = IF outcome = "failed" THEN itemRows ELSE [itemRows EXCEPT ![i] = item]

-----------------------------------------------------------------------------
(* Dying, loading *)

Forget ==
  /\ users' = NoUsers
  /\ idOf' = [a \in Addresses |-> 0]
  /\ nextUserID' = 1
  /\ ratings' = [u \in UserIds |-> {}]
  /\ items' = NoItems
  /\ nextItemID' = 1
  /\ refs' = {}
  /\ unsaved' = NothingUnsaved

Ended == phase' = "down" /\ Forget

Die == phase # "down" /\ Ended /\ UNCHANGED tables

(* loadStore.  The ratings are recalculated and written: one write that    *)
(* fails ends the start.  (Ratings are never read back: no column.)        *)
Load(outcome) ==
  /\ phase = "down"
  /\ IF Continues(outcome)
     THEN /\ phase' = "loaded"
          /\ users' = userRows
          /\ idOf' = [a \in Addresses |->
               IF \E u \in UserIds : userRows[u].email = a
               THEN CHOOSE u \in UserIds : userRows[u].email = a ELSE 0]
          /\ nextUserID' \in {n \in 1 .. (MaxUsers + 1) : IsNextID(n, StoredUsers)}
          /\ ratings' = Ratings(itemRows, refRows)
          /\ items' = itemRows
          /\ nextItemID' \in {n \in 1 .. (MaxItems + 1) : IsNextID(n, StoredItems)}
          /\ refs' = refRows
          /\ UNCHANGED unsaved
     ELSE Ended
  /\ UNCHANGED tables

-----------------------------------------------------------------------------
(* purgeItemByTitle *)

(* Wrong variants of the next two definitions, used to test properties. *)
DeletedWithoutReviews == {"message", "sale"}
ForgottenWithoutReviews == Kinds \ {"review"}

(* The tables of which the rows are deleted by a statement, and the maps.  *)
(* The rows of the others go with the row they refer to.                   *)
DeletedKinds == {"review", "message", "sale"}
ForgottenKinds == Kinds

Obsolete == {i \in ItemIds : items[i].obsolete}

Without(rs, kinds, gone) == {r \in rs : ~(r[1] \in kinds /\ r[2] \in gone)}

(* reviews refer to transactions, and transactions to items, without       *)
(* ON DELETE CASCADE: a row that is left fails the transaction.            *)
PurgeOutcomes ==
  IF \E r \in refRows : r[2] \in Obsolete /\ r[1] \in {"review", "sale"} \ DeletedKinds
  THEN {"failed"} ELSE Outcomes

(* The tables change in one transaction, then the maps; ratings are        *)
(* recalculated and written at last.  Without obsolete items nothing is    *)
(* done.  A commit whose answer is lost, or a rating that cannot be        *)
(* written, ends the start with the rows gone.                             *)
Purge(outcome) ==
  /\ phase = "loaded"
  /\ outcome \in IF Obsolete = {} THEN {"ok"} ELSE PurgeOutcomes
  /\ IF outcome = "failed" THEN UNCHANGED tables
     ELSE /\ itemRows' = [i \in ItemIds |-> IF i \in Obsolete THEN NoItem ELSE itemRows[i]]
          /\ refRows' = Without(refRows, Kinds, Obsolete)
          /\ UNCHANGED userRows
  /\ IF Continues(outcome)
     THEN /\ phase' = "purged"
          /\ items' = [i \in ItemIds |-> IF i \in Obsolete THEN NoItem ELSE items[i]]
          /\ refs' = Without(refs, ForgottenKinds, Obsolete)
          /\ ratings' = Ratings(items', refs')
          /\ UNCHANGED <<users, idOf, nextUserID, nextItemID, unsaved>>
     ELSE Ended

-----------------------------------------------------------------------------
(* seed, persistAll *)

SeedUser(u) ==
  CASE u = 1 -> [email |-> DemoSeller, profile |-> FirstProfile]
    [] u = 2 -> [email |-> DemoBuyer, profile |-> FirstProfile]
    [] OTHER -> NoAccount

(* Only a store without users is seeded.  The counters are the first ones, *)
(* for a table without users has no items either.  The seller's rating is  *)
(* not recalculated before the process serves.                             *)
Seed ==
  /\ phase = "purged"
  /\ users = NoUsers
  /\ phase' = "seeding"
  /\ users' = [u \in UserIds |-> SeedUser(u)]
  /\ idOf' = [a \in Addresses |-> CASE a = DemoSeller -> 1 [] a = DemoBuyer -> 2
                                    [] OTHER -> 0]
  /\ nextUserID' = 3
  /\ items' = [i \in ItemIds |-> IF i <= SeedItems THEN [seller |-> 1, obsolete |-> FALSE]
                                 ELSE NoItem]
  /\ nextItemID' = SeedItems + 1
  /\ ratings' = [u \in UserIds |-> IF u = 1 THEN SeededRating ELSE {}]
  /\ unsaved' = [users |-> {1, 2}, items |-> 1 .. SeedItems]
  /\ UNCHANGED <<refs, tables>>

(* persistAll writes the users in the order of a map, which is any. *)
PersistUser(u, outcome) ==
  /\ phase = "seeding"
  /\ u \in unsaved.users
  /\ SaveUser(u, users[u], outcome)
  /\ IF Continues(outcome)
     THEN unsaved' = [unsaved EXCEPT !.users = @ \ {u}] /\ UNCHANGED <<phase, maps>>
     ELSE Ended
  /\ UNCHANGED <<itemRows, refRows>>

(* Then the items. *)
PersistItem(i, outcome) ==
  /\ phase = "seeding"
  /\ unsaved.users = {}
  /\ i \in unsaved.items
  /\ outcome \in ItemOutcomes(items[i])
  /\ SaveItem(i, items[i], outcome)
  /\ IF Continues(outcome)
     THEN unsaved' = [unsaved EXCEPT !.items = @ \ {i}] /\ UNCHANGED <<phase, maps>>
     ELSE Ended
  /\ UNCHANGED <<userRows, refRows>>

(* main listens. *)
Serve ==
  /\ \/ phase = "purged" /\ users # NoUsers
     \/ phase = "seeding" /\ unsaved = NothingUnsaved
  /\ phase' = "serving"
  /\ UNCHANGED <<maps, unsaved, tables>>

-----------------------------------------------------------------------------

(* The first start ever finds empty tables. *)
StartInit ==
  /\ phase = "down"
  /\ users = NoUsers
  /\ idOf = [a \in Addresses |-> 0]
  /\ nextUserID = 1
  /\ ratings = [u \in UserIds |-> {}]
  /\ items = NoItems
  /\ nextItemID = 1
  /\ refs = {}
  /\ unsaved = NothingUnsaved
  /\ userRows = NoUsers
  /\ itemRows = NoItems
  /\ refRows = {}

StartStep ==
  \/ Die
  \/ \E o \in Outcomes : Load(o)
  \/ \E o \in Outcomes \cup {"ok", "failed"} : Purge(o)
  \/ Seed
  \/ \E u \in UserIds, o \in Outcomes : PersistUser(u, o)
  \/ \E i \in ItemIds, o \in Outcomes \cup {"failed"} : PersistItem(i, o)
  \/ Serve

-----------------------------------------------------------------------------
(* Every variable keeps its type. *)
StartTypeOK ==
  /\ phase \in {"down", "loaded", "purged", "seeding", "serving"}
  /\ users \in [UserIds -> Account \cup {NoAccount}]
  /\ idOf \in [Addresses -> 0 .. MaxUsers]
  /\ nextUserID \in 1 .. (MaxUsers + 1)
  /\ ratings \in [UserIds -> (SUBSET ItemIds) \cup {SeededRating}]
  /\ items \in [ItemIds -> Item \cup {NoItem}]
  /\ nextItemID \in 1 .. (MaxItems + 1)
  /\ refs \subseteq Kinds \X ItemIds
  /\ unsaved \in [users : SUBSET UserIds, items : SUBSET ItemIds]
  /\ userRows \in [UserIds -> Account \cup {NoAccount}]
  /\ itemRows \in [ItemIds -> Item \cup {NoItem}]
  /\ refRows \subseteq Kinds \X ItemIds
=============================================================================
