--------------------------- MODULE AccountsProofs ---------------------------
(***************************************************************************)
(* Accounts and starts, for any bounds, addresses and outcomes of writes:  *)
(* the properties of module Accounts, but for liveness, from one inductive *)
(* invariant.                                                              *)
(***************************************************************************)
EXTENDS Accounts, TLAPS

-----------------------------------------------------------------------------
(* The inductive invariant *)

(* What a table or a map holds for an id, and what was told of it *)
Confirms(row, account) ==
  account # NoAccount =>
    /\ account.email \in Addresses
    /\ row.email = account.email
    /\ account.profile \in {row.profile, "none"}

(* What the tables keep, whether a process is up or not: one row per       *)
(* address, items with sellers, references with items, accounts as told.   *)
TablesOK ==
  /\ \A u, v \in UserIds :
       userRows[u] # NoAccount /\ userRows[v] # NoAccount
         /\ userRows[u].email = userRows[v].email => u = v
  /\ \A i \in ItemIds : itemRows[i] # NoItem => userRows[itemRows[i].seller] # NoAccount
  /\ \A r \in refRows : itemRows[r[2]] # NoItem
  /\ \A u \in UserIds : Confirms(userRows[u], told[u])

(* A process knows every row of the users, and counts above it. *)
UsersOK ==
  /\ AccountsAgree
  /\ phase # "down" => \A u \in UserIds :
       /\ userRows[u] # NoAccount => users[u] # NoAccount /\ users[u].email = userRows[u].email
       /\ users[u] # NoAccount => u < nextUserID
       /\ Confirms(users[u], told[u])

(* The rating of the seed is kept until the seller has a review. *)
RatingsOK ==
  \A u \in UserIds :
    \/ ratings[u] = Received(items, refs, u)
    \/ u = 1 /\ Received(items, refs, u) = {} /\ ratings[u] = SeededRating

ItemsOK ==
  phase # "down" =>
    /\ \A i \in ItemIds : itemRows[i] # NoItem => i < nextItemID
    /\ \A i \in ItemIds : items[i] # NoItem =>
         /\ i < nextItemID
         /\ users[items[i].seller] # NoAccount
         /\ phase = "serving" => itemRows[i] # NoItem
    /\ \A r \in refs : items[r[2]] # NoItem
    /\ refs = refRows
    /\ RatingsOK

(* The maps and the tables in the phases of a start *)
PhasesOK ==
  /\ phase = "down" => users = NoUsers
  /\ phase \in {"loaded", "purged"} => users = userRows /\ items = itemRows
  /\ phase = "seeding" =>
       /\ users[1] # NoAccount /\ users[2] # NoAccount
       /\ \A u \in UserIds \ unsaved.users : userRows[u] = users[u]
       /\ \A u \in unsaved.users : users[u] # NoAccount
       /\ \A i \in ItemIds \ unsaved.items : itemRows[i] = items[i]
       /\ \A i \in unsaved.items : items[i] # NoItem
       /\ unsaved.users # {} => itemRows = NoItems

RequestsOK ==
  \A q \in Requests : requests[q] # NoRequest => users[requests[q].user] # NoAccount

TypesOK ==
  /\ StartTypeOK
  /\ requests \in [Requests -> Request \cup {NoRequest}]
  /\ \A q \in Requests : requests[q] # NoRequest => phase = "serving"
  /\ told \in [UserIds -> [email : Addresses \cup {"none"},
                           profile : Profiles \cup {"none"}]]

IInv == TypesOK /\ TablesOK /\ UsersOK /\ ItemsOK /\ PhasesOK /\ RequestsOK

-----------------------------------------------------------------------------
(* Values *)

LEMMA Absent ==
  /\ NoAccount \notin Account
  /\ NoAccount.email \notin Addresses
  /\ NoItem \notin Item
  /\ NoAccount.email = "none"
<1>1. "none" \notin Addresses
  BY StartupAssumption
<1>2. NoItem.seller = 0
  BY DEF NoItem
<1> QED
  BY <1>1, <1>2 DEF NoAccount, Account, Item, UserIds

LEMMA SeedUsers ==
  /\ 1 \in UserIds /\ 2 \in UserIds
  /\ SeedUser(1) \in Account /\ SeedUser(2) \in Account
  /\ SeedUser(1).email = DemoSeller /\ SeedUser(2).email = DemoBuyer
  /\ \A u \in UserIds : SeedUser(u) # NoAccount => u \in {1, 2}
  /\ \A u \in UserIds : SeedUser(u) \in Account \cup {NoAccount}
  BY StartupAssumption DEF SeedUser, Account, UserIds

LEMMA RatingsType ==
  ASSUME NEW its, NEW rs
  PROVE  /\ Ratings(its, rs) \in [UserIds -> (SUBSET ItemIds) \cup {SeededRating}]
         /\ \A u \in UserIds : Ratings(its, rs)[u] = Received(its, rs, u)
  BY DEF Ratings, Received

-----------------------------------------------------------------------------
(* Writes *)

(* A user is saved in a row of its own when no other row has the address. *)
LEMMA SaveUserRow ==
  ASSUME TypesOK, NEW u \in UserIds, NEW account \in Account, NEW outcome \in Outcomes,
         SaveUser(u, account, outcome),
         \A v \in UserIds : userRows[v] # NoAccount /\ v # u => userRows[v].email # account.email
  PROVE  /\ userRows' = userRows \/ userRows' = [userRows EXCEPT ![u] = account]
         /\ Continues(outcome) => userRows' = [userRows EXCEPT ![u] = account]
<1>1. SavedUser(u, account) = [userRows EXCEPT ![u] = account]
  BY DEF SavedUser, StoredUsers
<1> QED
  BY <1>1 DEF SaveUser, Continues

(* An address that belongs to u in the map is in no row of another user.   *)
LEMMA OwnAddress ==
  ASSUME IInv, phase # "down", NEW u \in UserIds, users[u] # NoAccount
  PROVE  \A v \in UserIds : userRows[v] # NoAccount /\ v # u =>
           userRows[v].email # users[u].email
  BY DEF IInv, UsersOK, AccountsAgree

(* A row that is written with the address it has, or that is new with an   *)
(* address no other row has, keeps the tables.                             *)
LEMMA UserRowsKeep ==
  ASSUME IInv, NEW u \in UserIds, NEW account \in Account,
         userRows' = userRows \/ userRows' = [userRows EXCEPT ![u] = account],
         UNCHANGED <<itemRows, refRows>>,
         \A v \in UserIds : userRows[v] # NoAccount /\ v # u => userRows[v].email # account.email,
         \A v \in UserIds : Confirms(userRows'[v], told'[v])
  PROVE  TablesOK' /\ userRows' \in [UserIds -> Account \cup {NoAccount}]
<1>1. userRows \in [UserIds -> Account \cup {NoAccount}]
  BY DEF IInv, TypesOK, StartTypeOK
<1>2. userRows' \in [UserIds -> Account \cup {NoAccount}]
  BY <1>1
<1>3. account # NoAccount
  BY Absent
<1>4. \A v \in UserIds : userRows[v] # NoAccount => userRows'[v] # NoAccount
  BY <1>1, <1>3
<1>5. \A i \in ItemIds : itemRows[i] # NoItem =>
        itemRows[i].seller \in UserIds /\ userRows'[itemRows[i].seller] # NoAccount
  BY <1>4 DEF IInv, TablesOK, TypesOK, StartTypeOK, Item
<1>6. \A v, w \in UserIds :
        userRows'[v] # NoAccount /\ userRows'[w] # NoAccount
          /\ userRows'[v].email = userRows'[w].email => v = w
  BY <1>1 DEF IInv, TablesOK
<1>7. \A v \in UserIds : Confirms(userRows[v], told[v])' <=> Confirms(userRows'[v], told'[v])
  BY DEF Confirms
<1> QED
  BY <1>2, <1>5, <1>6, <1>7 DEF IInv, TablesOK

-----------------------------------------------------------------------------
(* The end of a process *)

LEMMA EndedKeeps ==
  ASSUME IInv, Ended, TablesOK', UNCHANGED told,
         requests' = RequestsLeft(phase' = "down"),
         userRows' \in [UserIds -> Account \cup {NoAccount}],
         itemRows' \in [ItemIds -> Item \cup {NoItem}],
         refRows' \subseteq Kinds \X ItemIds
  PROVE  IInv'
<1>1. /\ phase' = "down"
      /\ users' = NoUsers
      /\ idOf' = [a \in Addresses |-> 0]
      /\ nextUserID' = 1
      /\ ratings' = [u \in UserIds |-> {}]
      /\ items' = NoItems
      /\ nextItemID' = 1
      /\ refs' = {}
      /\ unsaved' = NothingUnsaved
  BY DEF Ended, Forget
<1>2. requests' = [q \in Requests |-> NoRequest]
  BY <1>1 DEF RequestsLeft
<1>3. /\ users' \in [UserIds -> Account \cup {NoAccount}]
      /\ items' \in [ItemIds -> Item \cup {NoItem}]
  BY <1>1 DEF NoUsers, NoItems
<1>4. /\ idOf' \in [Addresses -> 0 .. MaxUsers]
      /\ nextUserID' \in 1 .. (MaxUsers + 1)
      /\ nextItemID' \in 1 .. (MaxItems + 1)
      /\ ratings' \in [UserIds -> (SUBSET ItemIds) \cup {SeededRating}]
      /\ refs' \subseteq Kinds \X ItemIds
  BY <1>1, StartupAssumption
<1>5. unsaved' \in [users : SUBSET UserIds, items : SUBSET ItemIds]
  BY <1>1 DEF NothingUnsaved
<1>6. TypesOK'
  BY <1>1, <1>2, <1>3, <1>4, <1>5 DEF IInv, TypesOK, StartTypeOK
<1>7. UsersOK' /\ ItemsOK' /\ PhasesOK' /\ RequestsOK'
  BY <1>1, <1>2 DEF UsersOK, AccountsAgree, NoUsers, ItemsOK, PhasesOK, RequestsOK
<1> QED
  BY <1>6, <1>7 DEF IInv

LEMMA DieKeeps ==
  ASSUME IInv, Die, UNCHANGED told, requests' = RequestsLeft(phase' = "down")
  PROVE  IInv'
<1>1. Ended /\ UNCHANGED <<tables, told>>
  BY DEF Die
<1>2. TablesOK'
  BY <1>1 DEF IInv, TablesOK, Confirms, tables
<1> QED
  BY <1>1, <1>2, EndedKeeps DEF IInv, TypesOK, StartTypeOK, tables

-----------------------------------------------------------------------------
(* The start *)

LEMMA LoadKeeps ==
  ASSUME IInv, NEW o \in Outcomes, Load(o), UNCHANGED told,
         requests' = RequestsLeft(phase' = "down")
  PROVE  IInv'
<1>1. UNCHANGED <<userRows, itemRows, refRows, told>>
  BY DEF Load, tables
<1>2. TablesOK'
  BY <1>1 DEF IInv, TablesOK, Confirms
<1>3. CASE ~Continues(o)
  BY <1>1, <1>2, <1>3, EndedKeeps DEF Load, IInv, TypesOK, StartTypeOK
<1>4. CASE Continues(o)
  <2>1. /\ phase' = "loaded"
        /\ users' = userRows
        /\ idOf' = [a \in Addresses |->
             IF \E u \in UserIds : userRows[u].email = a
             THEN CHOOSE u \in UserIds : userRows[u].email = a ELSE 0]
        /\ nextUserID' \in {n \in 1 .. (MaxUsers + 1) : IsNextID(n, StoredUsers)}
        /\ ratings' = Ratings(itemRows, refRows)
        /\ items' = itemRows
        /\ nextItemID' \in {n \in 1 .. (MaxItems + 1) : IsNextID(n, StoredItems)}
        /\ refs' = refRows
        /\ unsaved' = unsaved
    BY <1>4 DEF Load
  <2>2. phase = "down"
    BY DEF Load
  <2>3. idOf' \in [Addresses -> 0 .. MaxUsers]
    <3>1. \A a \in Addresses : (\E u \in UserIds : userRows[u].email = a) =>
            (CHOOSE u \in UserIds : userRows[u].email = a) \in 0 .. MaxUsers
      BY StartupAssumption DEF UserIds
    <3> QED
      BY <2>1, <3>1, StartupAssumption
  <2>4. requests' = requests
    BY <2>1 DEF RequestsLeft
  <2>5. TypesOK'
    BY <1>1, <2>1, <2>2, <2>3, <2>4, RatingsType DEF IInv, TypesOK, StartTypeOK
  <2>6. AccountsAgree'
    <3>1. \A u \in UserIds : userRows[u] # NoAccount =>
            userRows[u].email \in Addresses /\ idOf'[userRows[u].email] = u
      BY <2>1 DEF IInv, TypesOK, StartTypeOK, TablesOK, Account, NoAccount
    <3>2. \A a \in Addresses : idOf'[a] # 0 => userRows[idOf'[a]].email = a
      BY <2>1
    <3> QED
      BY <2>1, <3>1, <3>2 DEF AccountsAgree
  <2>7. UsersOK'
    BY <1>1, <1>2, <2>1, <2>6 DEF UsersOK, TablesOK, Confirms, IsNextID, StoredUsers
  <2>8. ItemsOK'
    BY <1>1, <1>2, <2>1, RatingsType
    DEF ItemsOK, RatingsOK, TablesOK, IsNextID, StoredItems
  <2>9. PhasesOK' /\ RequestsOK'
    BY <1>1, <2>1, <2>2, <2>4 DEF PhasesOK, RequestsOK, IInv, TypesOK
  <2> QED
    BY <1>2, <2>5, <2>7, <2>8, <2>9 DEF IInv
<1> QED
  BY <1>3, <1>4

LEMMA PurgeKeeps ==
  ASSUME IInv, NEW o \in Outcomes \cup {"ok", "failed"}, Purge(o), UNCHANGED told,
         requests' = RequestsLeft(phase' = "down")
  PROVE  IInv'
<1> DEFINE keptRows == [i \in ItemIds |-> IF i \in Obsolete THEN NoItem ELSE itemRows[i]]
           keptItems == [i \in ItemIds |-> IF i \in Obsolete THEN NoItem ELSE items[i]]
<1>1. /\ phase = "loaded"
      /\ users = userRows /\ items = itemRows
      /\ refs = refRows
  BY DEF Purge, IInv, PhasesOK, ItemsOK
<1>2. UNCHANGED <<userRows, told>>
  BY DEF Purge, tables
<1>3. \/ UNCHANGED <<itemRows, refRows>>
      \/ itemRows' = keptRows /\ refRows' = Without(refRows, Kinds, Obsolete)
  BY DEF Purge, tables
<1>4. /\ itemRows' \in [ItemIds -> Item \cup {NoItem}]
      /\ refRows' \subseteq Kinds \X ItemIds
  BY <1>3 DEF IInv, TypesOK, StartTypeOK, Without
<1>5. TablesOK'
  <2>1. \A i \in ItemIds : itemRows'[i] # NoItem => itemRows'[i] = itemRows[i]
    BY <1>3
  <2>2. \A r \in refRows' : itemRows'[r[2]] # NoItem
    <3>1. \A r \in refRows : r[1] \in Kinds /\ r[2] \in ItemIds /\ itemRows[r[2]] # NoItem
      BY DEF IInv, TypesOK, StartTypeOK, TablesOK
    <3> QED
      BY <1>3, <3>1 DEF Without
  <2>3. \A i \in ItemIds : itemRows'[i] # NoItem => userRows'[itemRows'[i].seller] # NoAccount
    BY <1>2, <2>1 DEF IInv, TablesOK
  <2> QED
    BY <1>2, <2>2, <2>3 DEF IInv, TablesOK, Confirms
<1>6. CASE ~Continues(o)
  BY <1>2, <1>4, <1>5, <1>6, EndedKeeps DEF Purge, IInv, TypesOK, StartTypeOK
<1>7. CASE Continues(o)
  <2>1. /\ phase' = "purged"
        /\ items' = keptItems
        /\ refs' = Without(refs, Kinds, Obsolete)
        /\ ratings' = Ratings(items', refs')
        /\ UNCHANGED <<users, idOf, nextUserID, nextItemID, unsaved>>
        /\ itemRows' = keptRows
        /\ refRows' = Without(refRows, Kinds, Obsolete)
    BY <1>7 DEF Purge, Continues, ForgottenKinds
  <2>2. items' = itemRows' /\ refs' = refRows'
    BY <1>1, <2>1
  <2>3. requests' = requests
    BY <2>1 DEF RequestsLeft
  <2>4. TypesOK'
    BY <1>1, <1>2, <1>4, <2>1, <2>2, <2>3, RatingsType DEF IInv, TypesOK, StartTypeOK
  <2>5. UsersOK'
    BY <1>1, <1>2, <2>1 DEF IInv, UsersOK, AccountsAgree, Confirms
  <2>6. ItemsOK'
    <3>1. \A i \in ItemIds : items'[i] # NoItem => items'[i] = items[i] /\ items[i] # NoItem
      BY <2>1
    <3> QED
      BY <1>1, <1>5, <2>1, <2>2, <3>1, RatingsType
      DEF IInv, ItemsOK, RatingsOK, TablesOK
  <2>7. PhasesOK' /\ RequestsOK'
    BY <1>1, <1>2, <2>1, <2>2, <2>3 DEF IInv, PhasesOK, RequestsOK
  <2> QED
    BY <1>5, <2>4, <2>5, <2>6, <2>7 DEF IInv
<1> QED
  BY <1>6, <1>7

LEMMA SeedKeeps ==
  ASSUME IInv, Seed, UNCHANGED told, requests' = RequestsLeft(phase' = "down")
  PROVE  IInv'
<1>1. /\ phase = "purged" /\ users = NoUsers /\ userRows = NoUsers
      /\ phase' = "seeding"
      /\ users' = [u \in UserIds |-> SeedUser(u)]
      /\ idOf' = [a \in Addresses |-> CASE a = DemoSeller -> 1 [] a = DemoBuyer -> 2
                                        [] OTHER -> 0]
      /\ nextUserID' = 3
      /\ items' = [i \in ItemIds |-> IF i <= SeedItems
                                     THEN [seller |-> 1, obsolete |-> FALSE] ELSE NoItem]
      /\ nextItemID' = SeedItems + 1
      /\ unsaved' = [users |-> {1, 2}, items |-> 1 .. SeedItems]
      /\ ratings' = [u \in UserIds |-> IF u = 1 THEN SeededRating ELSE {}]
      /\ UNCHANGED <<refs, userRows, itemRows, refRows, told>>
  BY DEF Seed, tables, IInv, PhasesOK
<1>2. itemRows = NoItems
  <2>1. \A i \in ItemIds : itemRows[i] = NoItem
    BY <1>1 DEF IInv, TablesOK, TypesOK, StartTypeOK, Item, NoUsers
  <2> QED
    BY <2>1 DEF IInv, TypesOK, StartTypeOK, NoItems
<1>3. refs = {} /\ refRows = {}
  BY <1>1, <1>2 DEF IInv, TablesOK, ItemsOK, TypesOK, StartTypeOK, NoItems
<1>4. TablesOK'
  BY <1>1 DEF IInv, TablesOK, Confirms
<1>5. \A u \in UserIds : told[u] = NoAccount
  BY <1>1, Absent DEF IInv, TablesOK, Confirms, NoUsers
<1>6. requests' = requests
  BY <1>1 DEF RequestsLeft
<1>7. TypesOK'
  <2>1. /\ users' \in [UserIds -> Account \cup {NoAccount}]
        /\ idOf' \in [Addresses -> 0 .. MaxUsers]
        /\ nextUserID' \in 1 .. (MaxUsers + 1)
        /\ nextItemID' \in 1 .. (MaxItems + 1)
        /\ unsaved' \in [users : SUBSET UserIds, items : SUBSET ItemIds]
    BY <1>1, SeedUsers, StartupAssumption DEF UserIds, ItemIds
  <2>2. items' \in [ItemIds -> Item \cup {NoItem}]
    BY <1>1, SeedUsers DEF Item
  <2> QED
    BY <1>1, <1>6, <2>1, <2>2 DEF IInv, TypesOK, StartTypeOK
<1>8. AccountsAgree'
  BY <1>1, SeedUsers, StartupAssumption DEF AccountsAgree
<1>9. UsersOK'
  BY <1>1, <1>5, <1>8, SeedUsers DEF UsersOK, Confirms, NoUsers
<1>10. ItemsOK'
  <2>1. RatingsOK'
    BY <1>1, <1>3 DEF RatingsOK, Received
  <2>2. users'[1] # NoAccount
    BY <1>1, SeedUsers, Absent
  <2>3. \A i \in ItemIds : items'[i] # NoItem => i <= SeedItems /\ items'[i].seller = 1
    BY <1>1
  <2>4. \A i \in ItemIds : items'[i] # NoItem => i < nextItemID'
    BY <1>1, <2>3, StartupAssumption DEF ItemIds
  <2>5. \A i \in ItemIds : itemRows'[i] = NoItem
    BY <1>1, <1>2 DEF NoItems
  <2>6. refs' = {} /\ refRows' = {}
    BY <1>1, <1>3
  <2> QED
    BY <1>1, <2>1, <2>2, <2>3, <2>4, <2>5, <2>6 DEF ItemsOK
<1>11. PhasesOK' /\ RequestsOK'
  <2>1. \A i \in ItemIds : items'[i] # NoItem <=> i \in 1 .. SeedItems
    BY <1>1, StartupAssumption DEF NoItem, ItemIds
  <2>2. \A u \in UserIds : users'[u] # NoAccount <=> u \in {1, 2}
    BY <1>1, SeedUsers, Absent
  <2>3. 1 .. SeedItems \subseteq ItemIds
    BY StartupAssumption DEF ItemIds
  <2> QED
    BY <1>1, <1>2, <1>6, <2>1, <2>2, <2>3, SeedUsers
    DEF IInv, TypesOK, PhasesOK, RequestsOK, NoUsers, NoItems
<1> QED
  BY <1>4, <1>7, <1>9, <1>10, <1>11 DEF IInv

LEMMA PersistUserKeeps ==
  ASSUME IInv, NEW u \in UserIds, NEW o \in Outcomes, PersistUser(u, o), UNCHANGED told,
         requests' = RequestsLeft(phase' = "down")
  PROVE  IInv'
<1>1. /\ phase = "seeding"
      /\ u \in unsaved.users
      /\ SaveUser(u, users[u], o)
      /\ UNCHANGED <<itemRows, refRows, told>>
  BY DEF PersistUser
<1>2. users[u] \in Account
  BY <1>1 DEF IInv, PhasesOK, TypesOK, StartTypeOK
<1>3. \A v \in UserIds : userRows[v] # NoAccount /\ v # u =>
        userRows[v].email # users[u].email
  BY <1>1, <1>2, OwnAddress, Absent
<1>4. /\ userRows' = userRows \/ userRows' = [userRows EXCEPT ![u] = users[u]]
      /\ Continues(o) => userRows' = [userRows EXCEPT ![u] = users[u]]
  BY <1>1, <1>2, <1>3, SaveUserRow DEF IInv
<1>5. \A v \in UserIds : Confirms(userRows'[v], told'[v])
  BY <1>1, <1>4 DEF IInv, TablesOK, UsersOK, TypesOK, StartTypeOK
<1>6. TablesOK' /\ userRows' \in [UserIds -> Account \cup {NoAccount}]
  BY <1>1, <1>2, <1>3, <1>4, <1>5, UserRowsKeep
<1>7. CASE ~Continues(o)
  BY <1>1, <1>6, <1>7, EndedKeeps DEF PersistUser, IInv, TypesOK, StartTypeOK
<1>8. CASE Continues(o)
  <2>1. /\ unsaved' = [unsaved EXCEPT !.users = @ \ {u}]
        /\ UNCHANGED <<phase, users, idOf, nextUserID, ratings, items, nextItemID, refs>>
        /\ userRows' = [userRows EXCEPT ![u] = users[u]]
    BY <1>4, <1>8 DEF PersistUser, maps
  <2>2. requests' = requests
    BY <1>1, <2>1 DEF RequestsLeft
  <2>3. TypesOK'
    BY <1>1, <1>6, <2>1, <2>2 DEF IInv, TypesOK, StartTypeOK
  <2>4. UsersOK'
    <3>1. \A v \in UserIds : userRows'[v] # NoAccount =>
            users[v] # NoAccount /\ users[v].email = userRows'[v].email
      BY <1>1, <1>2, <2>1, Absent DEF IInv, UsersOK, TypesOK, StartTypeOK
    <3> QED
      BY <1>1, <2>1, <3>1 DEF IInv, UsersOK, AccountsAgree, Confirms
  <2>5. ItemsOK'
    BY <1>1, <2>1 DEF IInv, ItemsOK, RatingsOK
  <2>6. PhasesOK' /\ RequestsOK'
    BY <1>1, <2>1, <2>2 DEF IInv, PhasesOK, RequestsOK, TypesOK, StartTypeOK
  <2> QED
    BY <1>6, <2>3, <2>4, <2>5, <2>6 DEF IInv
<1> QED
  BY <1>7, <1>8

LEMMA PersistItemKeeps ==
  ASSUME IInv, NEW i \in ItemIds, NEW o \in Outcomes \cup {"failed"}, PersistItem(i, o),
         UNCHANGED told, requests' = RequestsLeft(phase' = "down")
  PROVE  IInv'
<1>1. /\ phase = "seeding"
      /\ unsaved.users = {}
      /\ i \in unsaved.items
      /\ o \in ItemOutcomes(items[i])
      /\ SaveItem(i, items[i], o)
      /\ UNCHANGED <<userRows, refRows, told>>
  BY DEF PersistItem
<1>2. items[i] \in Item
  BY <1>1 DEF IInv, PhasesOK, TypesOK, StartTypeOK
<1>3. /\ itemRows' = itemRows \/ itemRows' = [itemRows EXCEPT ![i] = items[i]]
      /\ Continues(o) => itemRows' = [itemRows EXCEPT ![i] = items[i]]
  BY <1>1 DEF SaveItem, Continues
<1>4. itemRows' \in [ItemIds -> Item \cup {NoItem}]
  BY <1>2, <1>3 DEF IInv, TypesOK, StartTypeOK
<1>5. userRows = users
  BY <1>1 DEF IInv, PhasesOK, TypesOK, StartTypeOK
<1>6. userRows[items[i].seller] # NoAccount
  BY <1>1, <1>5 DEF IInv, PhasesOK, ItemsOK
<1>7. TablesOK'
  <2>1. \A r \in refRows : itemRows'[r[2]] # NoItem
    BY <1>2, <1>3, Absent DEF IInv, TablesOK, TypesOK, StartTypeOK
  <2>2. \A j \in ItemIds : itemRows'[j] # NoItem => userRows[itemRows'[j].seller] # NoAccount
    BY <1>3, <1>6 DEF IInv, TablesOK, TypesOK, StartTypeOK
  <2> QED
    BY <1>1, <2>1, <2>2 DEF IInv, TablesOK, Confirms
<1>8. CASE ~Continues(o)
  BY <1>1, <1>4, <1>7, <1>8, EndedKeeps DEF PersistItem, IInv, TypesOK, StartTypeOK
<1>9. CASE Continues(o)
  <2>1. /\ unsaved' = [unsaved EXCEPT !.items = @ \ {i}]
        /\ UNCHANGED <<phase, users, idOf, nextUserID, ratings, items, nextItemID, refs>>
        /\ itemRows' = [itemRows EXCEPT ![i] = items[i]]
    BY <1>3, <1>9 DEF PersistItem, maps
  <2>2. requests' = requests
    BY <1>1, <2>1 DEF RequestsLeft
  <2>3. TypesOK'
    BY <1>1, <1>4, <2>1, <2>2 DEF IInv, TypesOK, StartTypeOK
  <2>4. UsersOK'
    BY <1>1, <2>1 DEF IInv, UsersOK, AccountsAgree, Confirms
  <2>5. ItemsOK'
    BY <1>1, <2>1 DEF IInv, ItemsOK, RatingsOK, PhasesOK, TypesOK, StartTypeOK
  <2>6. PhasesOK' /\ RequestsOK'
    BY <1>1, <2>1, <2>2 DEF IInv, PhasesOK, RequestsOK, TypesOK, StartTypeOK
  <2> QED
    BY <1>7, <2>3, <2>4, <2>5, <2>6 DEF IInv
<1> QED
  BY <1>8, <1>9

LEMMA ServeKeeps ==
  ASSUME IInv, Serve, UNCHANGED told, requests' = RequestsLeft(phase' = "down")
  PROVE  IInv'
<1>1. /\ phase \in {"purged", "seeding"}
      /\ phase = "seeding" => unsaved = NothingUnsaved
      /\ phase' = "serving"
      /\ UNCHANGED <<users, idOf, nextUserID, ratings, items, nextItemID, refs, unsaved,
                     userRows, itemRows, refRows, told>>
  BY DEF Serve, maps, tables
<1>2. requests' = requests
  BY <1>1 DEF RequestsLeft
<1>3. \A i \in ItemIds : items[i] = itemRows[i]
  BY <1>1 DEF IInv, PhasesOK, NothingUnsaved
<1>4. TypesOK' /\ TablesOK' /\ PhasesOK' /\ RequestsOK'
  BY <1>1, <1>2 DEF IInv, TypesOK, StartTypeOK, TablesOK, PhasesOK, RequestsOK, Confirms
<1>5. UsersOK' /\ ItemsOK'
  BY <1>1, <1>3 DEF IInv, UsersOK, AccountsAgree, ItemsOK, RatingsOK, Confirms
<1> QED
  BY <1>4, <1>5 DEF IInv

-----------------------------------------------------------------------------
(* The handlers *)

LEMMA RegisterKeeps ==
  ASSUME IInv, NEW a \in Addresses, NEW o \in Outcomes, Register(a, o)
  PROVE  IInv'
<1> DEFINE u == nextUserID
           account == [email |-> a, profile |-> FirstProfile]
<1>1. /\ phase = "serving" /\ phase' = "serving"
      /\ u <= MaxUsers
      /\ idOf[a] = 0
      /\ nextUserID' = u + 1
      /\ users' = [users EXCEPT ![u] = account]
      /\ idOf' = [idOf EXCEPT ![a] = u]
      /\ ratings' = [ratings EXCEPT ![u] = {}]
      /\ SaveUser(u, account, o)
      /\ told' = IF Continues(o) THEN [told EXCEPT ![u] = account] ELSE told
      /\ UNCHANGED <<items, nextItemID, refs, unsaved, itemRows, refRows, requests>>
  BY DEF Register, Free
<1>2. /\ u \in UserIds /\ u \in Nat /\ u # 0 /\ u \in 0 .. MaxUsers
      /\ u + 1 \in 1 .. (MaxUsers + 1)
      /\ account \in Account /\ account # NoAccount /\ account.email = a
  BY <1>1, StartupAssumption, Absent DEF IInv, TypesOK, StartTypeOK, UserIds, Account
<1>3. /\ users[u] = NoAccount /\ userRows[u] = NoAccount
      /\ \A v \in UserIds : users[v] # NoAccount => v < u
      /\ \A v \in UserIds : v \in Nat /\ (v < u => v < u + 1)
  <2>1. \A v \in UserIds : /\ users[v] # NoAccount => v < u
                           /\ userRows[v] # NoAccount => users[v] # NoAccount
    BY <1>1 DEF IInv, UsersOK
  <2>2. ~(u < u)
    BY <1>2
  <2>3. \A v \in UserIds : v \in Nat /\ (v < u => v < u + 1)
    BY <1>2, StartupAssumption DEF UserIds
  <2>4. users[u] = NoAccount /\ userRows[u] = NoAccount
    BY <1>2, <2>1, <2>2
  <2> QED
    BY <2>1, <2>3, <2>4
<1> HIDE DEF u, account
<1>4. \A v \in UserIds : users[v] # NoAccount => users[v].email # a
  BY <1>1, <1>2 DEF IInv, UsersOK, AccountsAgree, UserIds
<1>5. \A v \in UserIds : userRows[v] # NoAccount /\ v # u => userRows[v].email # account.email
  BY <1>1, <1>2, <1>4 DEF IInv, UsersOK
<1>6. /\ userRows' = userRows \/ userRows' = [userRows EXCEPT ![u] = account]
      /\ Continues(o) => userRows' = [userRows EXCEPT ![u] = account]
  BY <1>1, <1>2, <1>5, SaveUserRow DEF IInv
<1>7. told[u] = NoAccount
  BY <1>2, <1>3, Absent DEF IInv, TablesOK, Confirms
<1>8. /\ told' \in [UserIds -> [email : Addresses \cup {"none"},
                                profile : Profiles \cup {"none"}]]
      /\ \A v \in UserIds : v # u => told'[v] = told[v]
      /\ told'[u] \in {account, NoAccount}
      /\ told'[u] = account => userRows'[u] = account
  <2>1. told \in [UserIds -> [email : Addresses \cup {"none"},
                              profile : Profiles \cup {"none"}]]
    BY DEF IInv, TypesOK
  <2>2. account \in [email : Addresses \cup {"none"}, profile : Profiles \cup {"none"}]
    BY <1>2 DEF Account
  <2>3. CASE Continues(o)
    BY <1>1, <1>2, <1>6, <2>1, <2>2, <2>3 DEF IInv, TypesOK, StartTypeOK
  <2>4. CASE ~Continues(o)
    BY <1>1, <1>2, <1>7, <2>1, <2>4
  <2> QED
    BY <2>3, <2>4
<1>9. \A v \in UserIds : Confirms(userRows'[v], told'[v]) /\ Confirms(users'[v], told'[v])
  BY <1>1, <1>2, <1>6, <1>8 DEF IInv, TablesOK, UsersOK, TypesOK, StartTypeOK, Confirms
<1>10. TablesOK' /\ userRows' \in [UserIds -> Account \cup {NoAccount}]
  BY <1>1, <1>2, <1>5, <1>6, <1>9, UserRowsKeep
<1>11. TypesOK'
  BY <1>1, <1>2, <1>8, <1>10 DEF IInv, TypesOK, StartTypeOK
<1>12. UsersOK'
  <2>1. AccountsAgree'
    <3>1. \A v \in UserIds : users'[v] # NoAccount => idOf'[users'[v].email] = v
      BY <1>1, <1>2, <1>3, <1>4, Absent DEF IInv, UsersOK, AccountsAgree, TypesOK, StartTypeOK, Account
    <3>2. \A b \in Addresses : idOf'[b] # 0 => users'[idOf'[b]].email = b
      <4>1. \A b \in Addresses : idOf[b] # 0 => idOf[b] # u
        BY <1>3, Absent DEF IInv, UsersOK, AccountsAgree
      <4>2. \A b \in Addresses : idOf[b] # 0 => idOf[b] \in UserIds
        BY DEF IInv, TypesOK, StartTypeOK, UserIds
      <4> QED
        BY <1>1, <1>2, <4>1, <4>2 DEF IInv, UsersOK, AccountsAgree, TypesOK, StartTypeOK
    <3> QED
      BY <3>1, <3>2 DEF AccountsAgree
  <2>2. \A v \in UserIds : userRows'[v] # NoAccount =>
          users'[v] # NoAccount /\ users'[v].email = userRows'[v].email
    BY <1>1, <1>2, <1>3, <1>6 DEF IInv, UsersOK, TypesOK, StartTypeOK
  <2>3. \A v \in UserIds : users'[v] # NoAccount => v < nextUserID'
    BY <1>1, <1>2, <1>3 DEF IInv, TypesOK, StartTypeOK, UserIds
  <2>4. \A v \in UserIds : Confirms(users[v], told[v])' <=> Confirms(users'[v], told'[v])
    BY DEF Confirms
  <2> QED
    BY <1>9, <2>1, <2>2, <2>3, <2>4 DEF UsersOK
<1>13. ItemsOK'
  <2>1. RatingsOK'
    <3>1. Received(items, refs, u) = {}
      BY <1>1, <1>2, <1>3 DEF IInv, ItemsOK, Received, TypesOK, StartTypeOK
    <3>2. \A v \in UserIds : ratings'[v] = IF v = u THEN {} ELSE ratings[v]
      BY <1>1, <1>2 DEF IInv, TypesOK, StartTypeOK
    <3> QED
      BY <1>1, <3>1, <3>2 DEF IInv, ItemsOK, RatingsOK
  <2>2. \A v \in UserIds : users[v] # NoAccount => users'[v] # NoAccount
    BY <1>1, <1>2, Absent DEF IInv, TypesOK, StartTypeOK
  <2>3. \A i \in ItemIds : items[i] # NoItem => items[i].seller \in UserIds
    BY DEF IInv, TypesOK, StartTypeOK, Item
  <2> QED
    BY <1>1, <2>1, <2>2, <2>3 DEF IInv, ItemsOK
<1>14. PhasesOK' /\ RequestsOK'
  BY <1>1, <1>2, Absent DEF IInv, PhasesOK, RequestsOK, TypesOK, StartTypeOK, Request
<1> QED
  BY <1>10, <1>11, <1>12, <1>13, <1>14 DEF IInv

LEMMA AuthenticateKeeps ==
  ASSUME IInv, NEW q \in Requests, NEW u \in UserIds, Authenticate(q, u)
  PROVE  IInv'
<1>1. /\ phase = "serving"
      /\ users[u] # NoAccount
      /\ requests' = [requests EXCEPT ![q] =
                        [user |-> u, seen |-> users[u], rating |-> ratings[u]]]
      /\ UNCHANGED <<phase, users, idOf, nextUserID, ratings, items, nextItemID, refs,
                     unsaved, userRows, itemRows, refRows, told>>
  BY DEF Authenticate, Known, startVars, maps, tables
<1>2. TypesOK' /\ RequestsOK'
  <2>1. users[u] \in Account /\ ratings[u] \in (SUBSET ItemIds) \cup {SeededRating}
    BY <1>1 DEF IInv, TypesOK, StartTypeOK
  <2>2. [user |-> u, seen |-> users[u], rating |-> ratings[u]] \in Request
    BY <2>1 DEF Request
  <2>3. StartTypeOK'
    BY <1>1 DEF IInv, TypesOK, StartTypeOK
  <2>. QED  BY <1>1, <2>2, <2>3 DEF IInv, TypesOK, RequestsOK
<1>3. TablesOK' /\ UsersOK' /\ ItemsOK' /\ PhasesOK'
  BY <1>1 DEF IInv, TablesOK, UsersOK, AccountsAgree, ItemsOK, RatingsOK, PhasesOK,
              Confirms
<1> QED
  BY <1>2, <1>3 DEF IInv

LEMMA UpdateMeKeeps ==
  ASSUME IInv, NEW q \in Requests, NEW p \in Profiles, NEW o \in Outcomes,
         UpdateMe(q, p, o)
  PROVE  IInv'
<1> DEFINE u == requests[q].user
           account == [users[u] EXCEPT !.profile = p]
<1>1. /\ requests[q] # NoRequest
      /\ users' = [users EXCEPT ![u] = account]
      /\ ratings' = [ratings EXCEPT ![u] = ratings[u]]
      /\ SaveUser(u, account, o)
      /\ told' = IF Continues(o) THEN [told EXCEPT ![u] = account]
                 ELSE [told EXCEPT ![u].profile = "none"]
      /\ requests' = [requests EXCEPT ![q] = NoRequest]
      /\ UNCHANGED <<phase, idOf, nextUserID, items, nextItemID, refs, unsaved,
                     itemRows, refRows>>
  BY DEF UpdateMe, RatingNow
<1>2. /\ phase = "serving"
      /\ u \in UserIds /\ users[u] \in Account
  BY <1>1 DEF IInv, TypesOK, StartTypeOK, Request, RequestsOK
<1>3. account \in Account /\ account.email = users[u].email
      /\ account = [email |-> users[u].email, profile |-> p]
  BY <1>2 DEF Account
<1> HIDE DEF u, account
<1>4. \A v \in UserIds : userRows[v] # NoAccount /\ v # u => userRows[v].email # account.email
  BY <1>2, <1>3, OwnAddress, Absent
<1>5. /\ userRows' = userRows \/ userRows' = [userRows EXCEPT ![u] = account]
      /\ Continues(o) => userRows' = [userRows EXCEPT ![u] = account]
  BY <1>1, <1>2, <1>3, <1>4, SaveUserRow DEF IInv
<1>6. ratings' = ratings
  BY <1>1 DEF IInv, TypesOK, StartTypeOK
<1>7. /\ told' \in [UserIds -> [email : Addresses \cup {"none"},
                                profile : Profiles \cup {"none"}]]
      /\ \A v \in UserIds : v # u => told'[v] = told[v]
      /\ Continues(o) => told'[u] = account
      /\ ~Continues(o) => told'[u] = [email |-> told[u].email, profile |-> "none"]
  BY <1>1, <1>2, <1>3 DEF IInv, TypesOK, Account
<1>8. told[u] # NoAccount => told[u].email = users[u].email /\ told[u].email = userRows[u].email
                             /\ told[u].email \in Addresses
  BY <1>2 DEF IInv, TablesOK, UsersOK, Confirms
<1>9. told[u] = NoAccount /\ ~Continues(o) => told'[u] = NoAccount
  BY <1>7 DEF NoAccount
<1>10. /\ users'[u] = account
       /\ userRows'[u] \in {account, userRows[u]}
       /\ Continues(o) => userRows'[u] = account
       /\ \A v \in UserIds : v # u => users'[v] = users[v] /\ userRows'[v] = userRows[v]
  BY <1>1, <1>2, <1>5 DEF IInv, TypesOK, StartTypeOK
<1>11. Confirms(userRows'[u], told'[u]) /\ Confirms(users'[u], told'[u])
  BY <1>2, <1>3, <1>7, <1>8, <1>9, <1>10 DEF Confirms, Account
<1>12. \A v \in UserIds : Confirms(userRows'[v], told'[v]) /\ Confirms(users'[v], told'[v])
  BY <1>2, <1>7, <1>10, <1>11 DEF IInv, TablesOK, UsersOK
<1>13. TablesOK' /\ userRows' \in [UserIds -> Account \cup {NoAccount}]
  BY <1>1, <1>2, <1>3, <1>4, <1>5, <1>12, UserRowsKeep
<1>14. TypesOK'
  BY <1>1, <1>2, <1>3, <1>6, <1>7, <1>13 DEF IInv, TypesOK, StartTypeOK
<1>15. \A v \in UserIds : /\ users'[v] # NoAccount <=> users[v] # NoAccount
                          /\ users'[v].email = users[v].email
  BY <1>2, <1>3, <1>10, Absent
<1>16. UsersOK'
  <2>1. AccountsAgree'
    <3>1. \A a \in Addresses : idOf[a] # 0 => idOf[a] \in UserIds
      BY DEF IInv, TypesOK, StartTypeOK, UserIds
    <3> QED
      BY <1>1, <1>15, <3>1 DEF IInv, UsersOK, AccountsAgree
  <2>2. \A v \in UserIds : userRows'[v] # NoAccount =>
          users'[v] # NoAccount /\ users'[v].email = userRows'[v].email
    BY <1>2, <1>3, <1>10, Absent DEF IInv, UsersOK
  <2>3. \A v \in UserIds : Confirms(users[v], told[v])' <=> Confirms(users'[v], told'[v])
    BY DEF Confirms
  <2> QED
    BY <1>1, <1>2, <1>12, <1>15, <2>1, <2>2, <2>3 DEF IInv, UsersOK
<1>17. ItemsOK'
  <2>1. \A i \in ItemIds : items[i] # NoItem => items[i].seller \in UserIds
    BY DEF IInv, TypesOK, StartTypeOK, Item
  <2> QED
    BY <1>1, <1>2, <1>6, <1>15, <2>1 DEF IInv, ItemsOK, RatingsOK
<1>18. PhasesOK'
  BY <1>1, <1>2 DEF PhasesOK
<1>19. RequestsOK'
  BY <1>1, <1>2, <1>15 DEF IInv, RequestsOK, TypesOK, Request
<1> QED
  BY <1>13, <1>14, <1>16, <1>17, <1>18, <1>19 DEF IInv

LEMMA ListKeeps ==
  ASSUME IInv, NEW u \in UserIds, NEW b \in BOOLEAN, NEW o \in Outcomes \cup {"failed"},
         List(u, b, o)
  PROVE  IInv'
<1> DEFINE i == nextItemID
           item == [seller |-> u, obsolete |-> b]
<1>1. /\ phase = "serving" /\ phase' = "serving"
      /\ i <= MaxItems
      /\ users[u] # NoAccount
      /\ o \in ItemOutcomes(item)
      /\ nextItemID' = i + 1
      /\ SaveItem(i, item, o)
      /\ items' = IF Continues(o) THEN [items EXCEPT ![i] = item] ELSE items
      /\ UNCHANGED <<users, idOf, nextUserID, ratings, refs, unsaved,
                     userRows, refRows, requests, told>>
  BY DEF List, Known
<1>2. /\ i \in ItemIds /\ i \in Nat /\ i + 1 \in 1 .. (MaxItems + 1)
      /\ item \in Item /\ item # NoItem /\ item.seller = u
  BY <1>1, StartupAssumption, Absent DEF IInv, TypesOK, StartTypeOK, ItemIds, Item
<1>3. \A j \in ItemIds : /\ items[j] # NoItem \/ itemRows[j] # NoItem => j < i
                         /\ j < i => j < i + 1 /\ j # i
                         /\ i < i + 1
  <2>1. \A j \in ItemIds : items[j] # NoItem \/ itemRows[j] # NoItem => j < i
    BY <1>1 DEF IInv, ItemsOK
  <2>2. \A j \in ItemIds : j \in Nat
    BY StartupAssumption DEF ItemIds
  <2> QED
    BY <1>2, <2>1, <2>2
<1> HIDE DEF i, item
<1>4. /\ itemRows' = itemRows \/ itemRows' = [itemRows EXCEPT ![i] = item]
      /\ Continues(o) => itemRows' = [itemRows EXCEPT ![i] = item]
      /\ itemRows' # itemRows => userRows[u] # NoAccount
  BY <1>1, <1>2 DEF SaveItem, Continues, ItemOutcomes
<1>5. /\ \A j \in ItemIds : j # i => items'[j] = items[j] /\ itemRows'[j] = itemRows[j]
      /\ items'[i] \in {items[i], item}
      /\ itemRows'[i] \in {itemRows[i], item}
      /\ items'[i] = item => itemRows'[i] = item
      /\ itemRows'[i] = item => userRows[u] # NoAccount
  BY <1>1, <1>2, <1>3, <1>4 DEF IInv, TypesOK, StartTypeOK
<1>6. /\ items' \in [ItemIds -> Item \cup {NoItem}]
      /\ itemRows' \in [ItemIds -> Item \cup {NoItem}]
  BY <1>1, <1>2, <1>4 DEF IInv, TypesOK, StartTypeOK
<1>7. \A r \in refRows : r[2] \in ItemIds /\ r[2] # i /\ items'[r[2]] # NoItem
                         /\ itemRows'[r[2]] # NoItem
  BY <1>1, <1>3, <1>5 DEF IInv, TablesOK, ItemsOK, TypesOK, StartTypeOK
<1>8. TablesOK'
  BY <1>1, <1>2, <1>5, <1>7 DEF IInv, TablesOK, Confirms
<1>9. TypesOK'
  BY <1>1, <1>2, <1>6 DEF IInv, TypesOK, StartTypeOK
<1>10. UsersOK' /\ PhasesOK' /\ RequestsOK'
  BY <1>1 DEF IInv, UsersOK, AccountsAgree, Confirms, PhasesOK, RequestsOK
<1>11. ItemsOK'
  <2>1. \A v \in UserIds : Received(items', refs, v) = Received(items, refs, v)
    <3>1. \A j \in ItemIds : <<"review", j>> \in refs => j # i
      BY <1>1, <1>7 DEF IInv, ItemsOK
    <3> QED
      BY <1>5, <3>1 DEF Received
  <2>2. RatingsOK'
    BY <1>1, <2>1 DEF IInv, ItemsOK, RatingsOK
  <2>3. \A j \in ItemIds : itemRows'[j] # NoItem => j < nextItemID'
    BY <1>1, <1>3, <1>5
  <2>4. \A j \in ItemIds : items'[j] # NoItem =>
          /\ j < nextItemID'
          /\ users[items'[j].seller] # NoAccount
          /\ itemRows'[j] # NoItem
    BY <1>1, <1>2, <1>3, <1>5 DEF IInv, ItemsOK
  <2> QED
    BY <1>1, <1>7, <2>2, <2>3, <2>4 DEF IInv, ItemsOK
<1> QED
  BY <1>8, <1>9, <1>10, <1>11 DEF IInv

LEMMA ReferKeeps ==
  ASSUME IInv, NEW kind \in Kinds, NEW i \in ItemIds, Refer(kind, i)
  PROVE  IInv'
<1>1. /\ phase = "serving"
      /\ items[i] # NoItem
      /\ kind # "review"
      /\ refs' = refs \cup {<<kind, i>>}
      /\ refRows' = refRows \cup {<<kind, i>>}
      /\ UNCHANGED <<phase, users, idOf, nextUserID, ratings, items, nextItemID, unsaved,
                     userRows, itemRows, requests, told>>
  BY DEF Refer
<1>2. itemRows[i] # NoItem
  BY <1>1 DEF IInv, ItemsOK
<1>3. TypesOK'
  BY <1>1 DEF IInv, TypesOK, StartTypeOK
<1>4. TablesOK'
  BY <1>1, <1>2 DEF IInv, TablesOK, Confirms
<1>5. UsersOK' /\ PhasesOK' /\ RequestsOK'
  BY <1>1 DEF IInv, UsersOK, AccountsAgree, Confirms, PhasesOK, RequestsOK
<1>6. ItemsOK'
  <2>1. \A u \in UserIds : Received(items', refs', u) = Received(items, refs, u)
    BY <1>1 DEF Received
  <2>2. RatingsOK'
    BY <1>1, <2>1 DEF IInv, ItemsOK, RatingsOK
  <2> QED
    BY <1>1, <2>2 DEF IInv, ItemsOK
<1> QED
  BY <1>3, <1>4, <1>5, <1>6 DEF IInv

LEMMA ReviewKeeps ==
  ASSUME IInv, NEW i \in ItemIds, NEW o \in Outcomes, ReviewSeller(i, o)
  PROVE  IInv'
<1> DEFINE u == items[i].seller
<1>1. /\ phase = "serving" /\ "review" \in Kinds
      /\ <<"sale", i>> \in refs
      /\ refs' = refs \cup {<<"review", i>>}
      /\ refRows' = refRows \cup {<<"review", i>>}
      /\ ratings' = [ratings EXCEPT ![u] = Received(items, refs', u)]
      /\ SaveUser(u, users[u], o)
      /\ UNCHANGED <<phase, users, idOf, nextUserID, items, nextItemID, unsaved,
                     itemRows, requests, told>>
  BY DEF ReviewSeller
<1>2. items[i] # NoItem /\ itemRows[i] # NoItem
  BY <1>1 DEF IInv, ItemsOK
<1>3. u \in UserIds /\ users[u] # NoAccount /\ users[u] \in Account
  BY <1>1, <1>2 DEF IInv, ItemsOK, TypesOK, StartTypeOK, Item
<1>4. \A v \in UserIds : v # u => Received(items, refs', v) = Received(items, refs, v)
  BY <1>1 DEF Received
<1> HIDE DEF u
<1>5. \A v \in UserIds : userRows[v] # NoAccount /\ v # u => userRows[v].email # users[u].email
  BY <1>1, <1>3, OwnAddress
<1>6. userRows' = userRows \/ userRows' = [userRows EXCEPT ![u] = users[u]]
  BY <1>1, <1>3, <1>5, SaveUserRow DEF IInv
<1>7. /\ \A v \in UserIds : userRows'[v] \in {userRows[v], users[v]}
      /\ \A v \in UserIds : userRows[v] # NoAccount => userRows'[v] # NoAccount
      /\ \A v \in UserIds : userRows'[v] # NoAccount =>
           users[v] # NoAccount /\ users[v].email = userRows'[v].email
      /\ userRows' \in [UserIds -> Account \cup {NoAccount}]
  <2>1. /\ userRows \in [UserIds -> Account \cup {NoAccount}]
        /\ \A v \in UserIds : userRows[v] # NoAccount =>
             users[v] # NoAccount /\ users[v].email = userRows[v].email
    BY <1>1 DEF IInv, UsersOK, TypesOK, StartTypeOK
  <2>2. \A v \in UserIds : userRows'[v] = userRows[v] \/ (v = u /\ userRows'[v] = users[v])
    BY <1>6, <2>1
  <2>3. userRows' \in [UserIds -> Account \cup {NoAccount}]
    BY <1>3, <1>6, <2>1
  <2>. QED  BY <1>3, <2>1, <2>2, <2>3
<1>8. \A v \in UserIds :
        ratings'[v] = IF v = u THEN Received(items, refs', u) ELSE ratings[v]
  BY <1>1, <1>3 DEF IInv, TypesOK, StartTypeOK
<1>9. TypesOK'
  <2>1. refs' \subseteq Kinds \X ItemIds /\ refRows' \subseteq Kinds \X ItemIds
    BY <1>1 DEF IInv, TypesOK, StartTypeOK
  <2>2. ratings' \in [UserIds -> (SUBSET ItemIds) \cup {SeededRating}]
    BY <1>1, <1>3 DEF IInv, TypesOK, StartTypeOK, Received
  <2> QED
    BY <1>1, <1>7, <2>1, <2>2 DEF IInv, TypesOK, StartTypeOK
<1>10. TablesOK'
  <2>1. \A v, w \in UserIds :
          userRows'[v] # NoAccount /\ userRows'[w] # NoAccount
            /\ userRows'[v].email = userRows'[w].email => v = w
    BY <1>7 DEF IInv, UsersOK, AccountsAgree
  <2>2. \A v \in UserIds : Confirms(userRows'[v], told[v])
    BY <1>1, <1>7 DEF IInv, TablesOK, UsersOK
  <2>3. \A v \in UserIds : Confirms(userRows[v], told[v])' <=> Confirms(userRows'[v], told[v])
    BY <1>1 DEF Confirms
  <2>4. \A j \in ItemIds : itemRows[j] # NoItem =>
          itemRows[j].seller \in UserIds /\ userRows'[itemRows[j].seller] # NoAccount
    BY <1>7 DEF IInv, TablesOK, TypesOK, StartTypeOK, Item
  <2>5. \A r \in refRows' : itemRows[r[2]] # NoItem
    BY <1>1, <1>2 DEF IInv, TablesOK
  <2> QED
    BY <1>1, <2>1, <2>2, <2>3, <2>4, <2>5 DEF TablesOK
<1>11. UsersOK'
  <2>1. AccountsAgree'
    BY <1>1 DEF IInv, UsersOK, AccountsAgree
  <2>2. \A v \in UserIds : Confirms(users[v], told[v])'
    BY <1>1 DEF IInv, UsersOK, Confirms
  <2> QED
    BY <1>1, <1>7, <2>1, <2>2 DEF IInv, UsersOK
<1>12. ItemsOK'
  <2>1. refs' = refRows'
    BY <1>1 DEF IInv, ItemsOK
  <2>2. \A r \in refs' : items[r[2]] # NoItem
    BY <1>1, <1>2 DEF IInv, ItemsOK
  <2>3. RatingsOK'
    BY <1>1, <1>4, <1>8 DEF IInv, ItemsOK, RatingsOK
  <2>4. \A j \in ItemIds : /\ itemRows[j] # NoItem => j < nextItemID
                           /\ items[j] # NoItem =>
                                /\ j < nextItemID
                                /\ users[items[j].seller] # NoAccount
                                /\ itemRows[j] # NoItem
    BY <1>1 DEF IInv, ItemsOK
  <2> QED
    BY <1>1, <2>1, <2>2, <2>3, <2>4 DEF ItemsOK
<1>13. PhasesOK' /\ RequestsOK'
  BY <1>1 DEF IInv, PhasesOK, RequestsOK
<1> QED
  BY <1>9, <1>10, <1>11, <1>12, <1>13 DEF IInv

-----------------------------------------------------------------------------
(* The invariant of the specification *)

LEMMA IInvInit == Init => IInv
<1> SUFFICES ASSUME Init PROVE IInv
  OBVIOUS
<1>1. /\ phase = "down"
      /\ users = NoUsers /\ userRows = NoUsers /\ told = NoUsers
      /\ idOf = [a \in Addresses |-> 0]
      /\ nextUserID = 1 /\ nextItemID = 1
      /\ ratings = [u \in UserIds |-> {}]
      /\ items = NoItems /\ itemRows = NoItems
      /\ refs = {} /\ refRows = {}
      /\ unsaved = NothingUnsaved
      /\ requests = [q \in Requests |-> NoRequest]
  BY DEF Init, StartInit
<1>2. StartTypeOK
  BY <1>1, StartupAssumption DEF StartTypeOK, NoUsers, NoItems, NothingUnsaved
<1>3. TypesOK
  BY <1>1, <1>2 DEF TypesOK, NoUsers, NoAccount
<1>4. TablesOK /\ UsersOK /\ ItemsOK /\ PhasesOK /\ RequestsOK
  BY <1>1 DEF TablesOK, UsersOK, AccountsAgree, ItemsOK, PhasesOK, RequestsOK, Confirms,
              NoUsers, NoItems
<1> QED
  BY <1>3, <1>4 DEF IInv

LEMMA IInvNext == IInv /\ [Next]_vars => IInv'
<1> SUFFICES ASSUME IInv, [Next]_vars PROVE IInv'
  OBVIOUS
<1>1. CASE ProcessStep
  <2>1. UNCHANGED told /\ requests' = RequestsLeft(phase' = "down")
    BY <1>1 DEF ProcessStep
  <2>2. CASE Die
    BY <2>1, <2>2, DieKeeps
  <2>3. CASE \E o \in Outcomes : Load(o)
    BY <2>1, <2>3, LoadKeeps
  <2>4. CASE \E o \in Outcomes \cup {"ok", "failed"} : Purge(o)
    BY <2>1, <2>4, PurgeKeeps
  <2>5. CASE Seed
    BY <2>1, <2>5, SeedKeeps
  <2>6. CASE \E u \in UserIds, o \in Outcomes : PersistUser(u, o)
    BY <2>1, <2>6, PersistUserKeeps
  <2>7. CASE \E i \in ItemIds, o \in Outcomes \cup {"failed"} : PersistItem(i, o)
    BY <2>1, <2>7, PersistItemKeeps
  <2>8. CASE Serve
    BY <2>1, <2>8, ServeKeeps
  <2> QED
    BY <1>1, <2>2, <2>3, <2>4, <2>5, <2>6, <2>7, <2>8 DEF ProcessStep, StartStep
<1>2. CASE \E a \in Addresses, o \in Outcomes : Register(a, o)
  BY <1>2, RegisterKeeps
<1>3. CASE \E q \in Requests, u \in Active : Authenticate(q, u)
  BY <1>3, AuthenticateKeeps, AccountsAssumption
<1>4. CASE \E q \in Requests, p \in Profiles, o \in Outcomes : UpdateMe(q, p, o)
  BY <1>4, UpdateMeKeeps
<1>5. CASE \E u \in Active, b \in BOOLEAN, o \in Outcomes \cup {"failed"} : List(u, b, o)
  BY <1>5, ListKeeps, AccountsAssumption
<1>6. CASE \E k \in Kinds, i \in ItemIds : Refer(k, i)
  BY <1>6, ReferKeeps
<1>7. CASE \E i \in ItemIds, o \in Outcomes : ReviewSeller(i, o)
  BY <1>7, ReviewKeeps
<1>8. CASE UNCHANGED vars
  <2>1. UNCHANGED <<phase, users, idOf, nextUserID, ratings, items, nextItemID, refs,
                    unsaved, userRows, itemRows, refRows, requests, told>>
    BY <1>8 DEF vars, startVars, maps, tables
  <2>2. TypesOK' /\ TablesOK'
    BY <2>1 DEF IInv, TypesOK, StartTypeOK, TablesOK, Confirms
  <2>3. UsersOK' /\ ItemsOK' /\ PhasesOK' /\ RequestsOK'
    BY <2>1 DEF IInv, UsersOK, AccountsAgree, ItemsOK, RatingsOK, PhasesOK,
                RequestsOK, Confirms
  <2> QED
    BY <2>2, <2>3 DEF IInv
<1> QED
  BY <1>1, <1>2, <1>3, <1>4, <1>5, <1>6, <1>7, <1>8 DEF Next

LEMMA IInvHolds == Spec => []IInv
  BY IInvInit, IInvNext, PTL DEF Spec

LEMMA IInvImplies ==
  IInv => TypeOK /\ AccountsAgree /\ AccountAnswersHold /\ RatingsFollowReviews
<1> SUFFICES ASSUME IInv
             PROVE  /\ TypeOK /\ AccountsAgree /\ AccountAnswersHold
                    /\ RatingsFollowReviews
  OBVIOUS
<1>1. TypeOK /\ AccountsAgree
  BY DEF IInv, TypesOK, TypeOK, RequestsOK, UsersOK
<1>2. AccountAnswersHold
  <2>1. \A u \in UserIds : Confirms(userRows[u], told[u])
    BY DEF IInv, TablesOK
  <2>2. phase # "down" => \A u \in UserIds : Confirms(users[u], told[u])
    BY DEF IInv, UsersOK
  <2>3. \A table \in {userRows} \cup IF phase = "down" THEN {} ELSE {users} :
          \A u \in UserIds : Confirms(table[u], told[u])
    BY <2>1, <2>2
  <2> QED
    BY <2>3 DEF AccountAnswersHold, Confirms
<1>3. RatingsFollowReviews
  BY DEF IInv, ItemsOK, RatingsOK, RatingsFollowReviews
<1> QED
  BY <1>1, <1>2, <1>3

-----------------------------------------------------------------------------
(* Every variable keeps its type, and what updateMe changes is an account  *)
(* that the process has, although requireAuth looked it up under another   *)
(* lock.                                                                   *)
THEOREM AccountsTypeCorrect == Spec => []TypeOK
  BY IInvHolds, IInvImplies, PTL

(* One account per address, whatever registration fails or comes back:     *)
(* usersByEmail leads to exactly the users there are.                      *)
THEOREM OneAccountPerAddress == Spec => []AccountsAgree
  BY IInvHolds, IInvImplies, PTL

(* An account answered with a 201 keeps its id and address, and the last   *)
(* profile that was answered stays in the table and in every process.      *)
THEOREM AccountAnswersAreDurable == Spec => []AccountAnswersHold
  BY IInvHolds, IInvImplies, PTL

(* A rating is of the reviews there are, past updates and purges, or it is *)
(* the seeded one of a seller without reviews.                             *)
THEOREM RatingsAreCurrent == Spec => []RatingsFollowReviews
  BY IInvHolds, IInvImplies, PTL

(* A process that begins to serve shows what the tables hold.              *)
THEOREM WhatIsServedIsStored == Spec => StartServesTables
<1>1. IInv /\ [Next]_vars =>
        [phase # "serving" /\ phase' = "serving" =>
           users' = userRows' /\ items' = itemRows' /\ refs' = refRows']_vars
  <2> SUFFICES ASSUME IInv, Next, phase # "serving", phase' = "serving"
               PROVE  users' = userRows' /\ items' = itemRows' /\ refs' = refRows'
    OBVIOUS
  <2>1. Serve
    BY DEF Next, ProcessStep, StartStep, Die, Ended, Load, Purge, Seed, PersistUser,
           PersistItem, Register, Authenticate, UpdateMe, IInv, TypesOK, List, Refer,
           ReviewSeller, maps
  <2>2. UNCHANGED <<users, items, refs, userRows, itemRows, refRows>>
    BY <2>1 DEF Serve, maps, tables
  <2>3. refs = refRows
    BY <2>1 DEF Serve, IInv, ItemsOK
  <2>4. \A u \in UserIds : users[u] = userRows[u]
    BY <2>1 DEF Serve, IInv, PhasesOK, NothingUnsaved
  <2>5. \A i \in ItemIds : items[i] = itemRows[i]
    BY <2>1 DEF Serve, IInv, PhasesOK, NothingUnsaved
  <2>6. users = userRows /\ items = itemRows
    BY <2>4, <2>5 DEF IInv, TypesOK, StartTypeOK
  <2> QED
    BY <2>2, <2>3, <2>6
<1> QED
  BY <1>1, IInvHolds, PTL DEF Spec, StartServesTables
=============================================================================
