------------------------------- MODULE Likes --------------------------------
(***************************************************************************)
(* Likes of items, beside the market that changes the items.  changeItem-  *)
(* Like is the one handler that takes its change of the map back when the  *)
(* write fails, each direction in its own way; it too holds store.mu       *)
(* throughout and is one action.                                           *)
(***************************************************************************)
EXTENDS Market

CONSTANT
  Newcomers \* users the process knows, but whose rows could not be written

ASSUME LikesAssumption == Newcomers \cap (Users \cup {NoUser}) = {}

VARIABLES
  likes,      \* store.itemLikes, as pairs <<user, item>>
  likeRows,   \* table item_likes
  likeAnswers \* per stored user and item, what the last request told: liked,
              \* unliked, or unknown when there was none or it failed

likeVars == <<likes, likeRows, likeAnswers>>
allVars == <<vars, likeVars>>

Pairs == Users \X ItemIds

Shown == (Users \cup Newcomers) \X ItemIds

-----------------------------------------------------------------------------
(* Mutations: wrong variants of some definitions, used to test properties *)

LikedSwapped(pair, outcome) ==
  IF Continues(outcome) THEN likes \cup {<<pair[2], pair[1]>>}
  ELSE likes \ {pair}

UnlikedAlwaysRestored(pair, outcome) ==
  IF Continues(outcome) THEN likes \ {pair} ELSE likes \cup {pair}

LikesOutlive(rows) == rows

-----------------------------------------------------------------------------
(* The handler *)

(* Only an item that others can see is liked or unliked. *)
Likeable(i) ==
  /\ items[i] # NoItem
  /\ ~items[i].hidden
  /\ items[i].status # "draft"

(* The map after a like: a failure removes the like, whoever set it. *)
Liked(pair, outcome) ==
  IF Continues(outcome) THEN likes \cup {pair} ELSE likes \ {pair}

(* The map after an unlike: a failure leaves the like there if it was. *)
Unliked(pair, outcome) ==
  IF Continues(outcome) THEN likes \ {pair} ELSE likes

(* INSERT IGNORE: a like whose user or item has no row is not stored, and  *)
(* no error tells of it.                                                   *)
RowLiked(rows, pair, outcome) ==
  IF outcome = "failed" \/ pair \notin Pairs \/ itemRows[pair[2]] = NoItem
  THEN rows ELSE rows \cup {pair}

(* DELETE *)
RowUnliked(rows, pair, outcome) ==
  IF outcome = "failed" THEN rows ELSE rows \ {pair}

(* What is told to a newcomer is not kept: the table has no row of it. *)
Answered(pair, answer, outcome) ==
  likeAnswers' = [p \in Pairs |->
    IF p # pair THEN likeAnswers[p]
    ELSE IF Continues(outcome) THEN answer ELSE "unknown"]

(* changeItemLike, called by likeItem *)
Like(u, i, outcome) ==
  /\ serving
  /\ Likeable(i)
  /\ likes' = Liked(<<u, i>>, outcome)
  /\ likeRows' = RowLiked(likeRows, <<u, i>>, outcome)
  /\ Answered(<<u, i>>, "liked", outcome)
  /\ UNCHANGED vars

(* changeItemLike, called by unlikeItem *)
Unlike(u, i, outcome) ==
  /\ serving
  /\ Likeable(i)
  /\ likes' = Unliked(<<u, i>>, outcome)
  /\ likeRows' = RowUnliked(likeRows, <<u, i>>, outcome)
  /\ Answered(<<u, i>>, "unliked", outcome)
  /\ UNCHANGED vars

-----------------------------------------------------------------------------
(* The specification *)

LikesInit ==
  /\ Init
  /\ likes = {}
  /\ likeRows = {}
  /\ likeAnswers = [pair \in Pairs |-> "unknown"]

(* Deleting an item cascades to its likes. *)
Cascaded(rows) == {pair \in rows : pair[2] \notin PurgedItems}

(* A step of the market.  A process that dies loses the map, and one that  *)
(* starts reads it back from the table; the likes of an item it purges are *)
(* as if they had been taken back.                                         *)
MarketStep ==
  /\ Next
  /\ likeRows' = Cascaded(likeRows)
  /\ likes' = CASE ~serving'            -> {}
                [] serving' /\ ~serving -> likeRows'
                [] OTHER                -> likes
  /\ likeAnswers' = [pair \in Pairs |->
       IF pair[2] \in PurgedItems THEN "unliked" ELSE likeAnswers[pair]]

LikesNext ==
  \/ MarketStep
  \/ \E u \in Users \cup Newcomers, i \in ItemIds, o \in Outcomes :
        Like(u, i, o) \/ Unlike(u, i, o)

LikesSpec == LikesInit /\ [][LikesNext]_allVars

-----------------------------------------------------------------------------
(* Properties *)

(* Every variable keeps its type. *)
LikesTypeOK ==
  /\ TypeOK
  /\ likes \subseteq Shown
  /\ likeRows \subseteq Pairs
  /\ likeAnswers \in [Pairs -> {"liked", "unliked", "unknown"}]

(* What a stored user was last told about a like is what the table says,   *)
(* and what every process says while it serves, whatever failed or died    *)
(* since: an answered like is not lost, an answered unlike does not come   *)
(* back, and neither does a like that was purged with its item, although   *)
(* the id of the item is given to another one.                             *)
LikeAnswersHold ==
  \A pair \in Pairs :
    /\ likeAnswers[pair] = "liked" =>
         pair \in likeRows /\ (serving => pair \in likes)
    /\ likeAnswers[pair] = "unliked" =>
         pair \notin likeRows /\ (serving => pair \notin likes)

(* A stored user's like that appears is stored: what a step adds to the    *)
(* map is then in the table, so taking a failed unlike back never brings   *)
(* up a like that was not there before, and neither does a restart.        *)
NewLikesAreStored ==
  [][(likes' \ likes) \cap Pairs \subseteq likeRows']_allVars

(* "failed to like item" (changeItemLike): a like that failed changed      *)
(* nothing, so that what is shown is what is stored.                       *)
FailedLikeChangesNothing == serving => likes = likeRows
=============================================================================
