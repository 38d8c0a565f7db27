------------------------------ MODULE Accounts ------------------------------
(***************************************************************************)
(* The users of a process that module Startup has started: registration,   *)
(* profiles and ratings, and the users' listings and sales as far as the   *)
(* next start depends on them.  Every handler holds store.mu throughout    *)
(* and is one action, except that requireAuth reads the user under a lock  *)
(* of its own, before the handler it guards takes it again.                *)
(***************************************************************************)
EXTENDS Startup

CONSTANTS
  Requests,  \* requests that may be between requireAuth and their handler
  Active     \* bound on the users who list items and change their profile

ASSUME AccountsAssumption == Active \subseteq UserIds

VARIABLES
  requests,  \* per request, the user that requireAuth read
  told       \* per user id, the account as last answered with a 2xx

vars == <<startVars, requests, told>>

NoRequest == [user |-> 0, seen |-> NoAccount, rating |-> {}]

Request == [user : UserIds, seen : Account,
            rating : (SUBSET ItemIds) \cup {SeededRating}]

-----------------------------------------------------------------------------
(* Registration *)

(* A wrong variant of the next definition, used to test properties. *)
FreeInTable(a) == \A u \in UserIds : userRows[u].email # a

Free(a) == idOf[a] = 0

(* register: both maps first, then the row.  What failed stays in the maps *)
(* until the process ends.                                                 *)
Register(a, outcome) ==
  LET u == nextUserID
      account == [email |-> a, profile |-> FirstProfile]
  IN /\ phase = "serving"
     /\ u <= MaxUsers
     /\ Free(a)
     /\ nextUserID' = u + 1
     /\ users' = [users EXCEPT ![u] = account]
     /\ idOf' = [idOf EXCEPT ![a] = u]
     /\ ratings' = [ratings EXCEPT ![u] = {}]
     /\ SaveUser(u, account, outcome)
     /\ told' = IF Continues(outcome) THEN [told EXCEPT ![u] = account] ELSE told
     /\ UNCHANGED <<phase, items, nextItemID, refs, unsaved, itemRows, refRows, requests>>

-----------------------------------------------------------------------------
(* Profiles *)

(* A wrong variant of the next definition, used to test properties: the    *)
(* token alone is trusted.                                                 *)
KnownByToken(u) == TRUE

Known(u) == users[u] # NoAccount

(* requireAuth, on the way to updateMe *)
Authenticate(q, u) ==
  /\ phase = "serving"
  /\ requests[q] = NoRequest
  /\ Known(u)
  /\ requests' = [requests EXCEPT ![q] =
                    [user |-> u, seen |-> users[u], rating |-> ratings[u]]]
  /\ UNCHANGED <<startVars, told>>

(* A wrong variant of the next definition: what requireAuth read. *)
RatingSeen(q) == requests[q].rating

(* The rating that updateMe puts back with the user's record *)
RatingNow(q) == ratings[requests[q].user]

(* updateMe: the record is read again, changed and written. *)
UpdateMe(q, profile, outcome) ==
  LET u == requests[q].user
      account == [users[u] EXCEPT !.profile = profile]
  IN /\ requests[q] # NoRequest
     /\ users' = [users EXCEPT ![u] = account]
     /\ ratings' = [ratings EXCEPT ![u] = RatingNow(q)]
     /\ SaveUser(u, account, outcome)
     /\ told' = IF Continues(outcome) THEN [told EXCEPT ![u] = account]
                ELSE [told EXCEPT ![u].profile = "none"]
     /\ requests' = [requests EXCEPT ![q] = NoRequest]
     /\ UNCHANGED <<phase, idOf, nextUserID, items, nextItemID, refs, unsaved,
                    itemRows, refRows>>

-----------------------------------------------------------------------------
(* What users do with items *)

(* createItem: the row first, then the map.  A user without a row cannot. *)
List(u, obsolete, outcome) ==
  LET i == nextItemID
      item == [seller |-> u, obsolete |-> obsolete]
  IN /\ phase = "serving"
     /\ i <= MaxItems
     /\ Known(u)
     /\ outcome \in ItemOutcomes(item)
     /\ nextItemID' = i + 1
     /\ SaveItem(i, item, outcome)
     /\ items' = IF Continues(outcome) THEN [items EXCEPT ![i] = item] ELSE items
     /\ UNCHANGED <<phase, users, idOf, nextUserID, ratings, refs, unsaved,
                    userRows, refRows, requests, told>>

(* A sale, a message, a like or a view that could be written. *)
Refer(kind, i) ==
  /\ phase = "serving"
  /\ items[i] # NoItem
  /\ kind \in Kinds \ {"review"}
  /\ kind = "message" => <<"sale", i>> \in refs
  /\ refs' = refs \cup {<<kind, i>>}
  /\ refRows' = refRows \cup {<<kind, i>>}
  /\ UNCHANGED <<phase, users, idOf, nextUserID, ratings, items, nextItemID, unsaved,
                 userRows, itemRows, requests, told>>

(* createReview, when the review could be written: the rating of the       *)
(* seller is recalculated and the seller's row written.                    *)
ReviewSeller(i, outcome) ==
  LET u == items[i].seller
  IN /\ phase = "serving"
     /\ "review" \in Kinds
     /\ <<"sale", i>> \in refs
     /\ <<"review", i>> \notin refs
     /\ refs' = refs \cup {<<"review", i>>}
     /\ refRows' = refRows \cup {<<"review", i>>}
     /\ ratings' = [ratings EXCEPT ![u] = Received(items, refs', u)]
     /\ SaveUser(u, users[u], outcome)
     /\ UNCHANGED <<phase, users, idOf, nextUserID, items, nextItemID, unsaved,
                    itemRows, requests, told>>

-----------------------------------------------------------------------------
(* The specification *)

Init ==
  /\ StartInit
  /\ requests = [q \in Requests |-> NoRequest]
  /\ told = NoUsers

(* A process that ends takes its requests along. *)
RequestsLeft(ends) == IF ends THEN [q \in Requests |-> NoRequest] ELSE requests

ProcessStep ==
  /\ StartStep
  /\ requests' = RequestsLeft(phase' = "down")
  /\ UNCHANGED told

Next ==
  \/ ProcessStep
  \/ \E a \in Addresses, o \in Outcomes : Register(a, o)
  \/ \E q \in Requests, u \in Active : Authenticate(q, u)
  \/ \E q \in Requests, p \in Profiles, o \in Outcomes : UpdateMe(q, p, o)
  \/ \E u \in Active, b \in BOOLEAN, o \in Outcomes \cup {"failed"} : List(u, b, o)
  \/ \E k \in Kinds, i \in ItemIds : Refer(k, i)
  \/ \E i \in ItemIds, o \in Outcomes : ReviewSeller(i, o)

Spec == Init /\ [][Next]_vars

(* The platform starts the process again whenever it has ended, and a step *)
(* of the start that is tried again and again succeeds once in a while.    *)
StartFairness ==
  /\ SF_vars(Load("ok") /\ ProcessStep)
  /\ SF_vars(Purge("ok") /\ ProcessStep)
  /\ SF_vars(Seed /\ ProcessStep)
  /\ SF_vars((\E u \in UserIds : PersistUser(u, "ok")) /\ ProcessStep)
  /\ SF_vars((\E i \in ItemIds : PersistItem(i, "ok")) /\ ProcessStep)
  /\ SF_vars(Serve /\ ProcessStep)

FairSpec == Spec /\ StartFairness

-----------------------------------------------------------------------------
(* Properties *)

(* Every variable keeps its type, and a request past requireAuth is of a   *)
(* user that the process has, so that updateMe changes an account that is  *)
(* there.                                                                  *)
TypeOK ==
  /\ StartTypeOK
  /\ requests \in [Requests -> Request \cup {NoRequest}]
  /\ \A q \in Requests : requests[q] # NoRequest =>
       phase = "serving" /\ users[requests[q].user] # NoAccount
  /\ told \in [UserIds -> [email : Addresses \cup {"none"},
                           profile : Profiles \cup {"none"}]]

(* One account per address, one address per account: usersByEmail leads to *)
(* exactly the users there are, also for registrations that failed, and    *)
(* after a restart that has forgotten them.                                *)
AccountsAgree ==
  /\ \A u \in UserIds : users[u] # NoAccount => idOf[users[u].email] = u
  /\ \A a \in Addresses : idOf[a] # 0 => users[idOf[a]].email = a

(* An account answered with a 201 keeps its id and its address, and the    *)
(* profile last answered with a 200 is what is stored and shown, until a   *)
(* later request for it fails: ids set free by a failed registration are   *)
(* not taken by two accounts, and a rating that is written does not take   *)
(* the profile back.                                                       *)
AccountAnswersHold ==
  \A u \in UserIds : told[u] # NoAccount =>
    \A table \in {userRows} \cup IF phase = "down" THEN {} ELSE {users} :
      /\ table[u].email = told[u].email
      /\ told[u].profile \in {table[u].profile, "none"}

(* A user's rating is of the reviews there are, or it is the one of the    *)
(* seed and there are none: an update of the profile that overtakes a      *)
(* review does not take the rating back, and a purged item's review no     *)
(* longer counts.                                                          *)
RatingsFollowReviews ==
  phase = "serving" => \A u \in UserIds :
    \/ ratings[u] = Received(items, refs, u)
    \/ u = 1 /\ Received(items, refs, u) = {} /\ ratings[u] = SeededRating

(* A process that begins to serve shows what the tables hold, no more and  *)
(* no less, whether it loaded, purged or seeded them.                      *)
StartServesTables ==
  [][phase # "serving" /\ phase' = "serving" =>
       users' = userRows' /\ items' = itemRows' /\ refs' = refRows']_vars

(* However often a start fails or dies half-way, some later start serves:  *)
(* no state that a cut-off purge or seeding leaves behind stops them all.  *)
ServiceReturns == []<>(phase = "serving")
=============================================================================
