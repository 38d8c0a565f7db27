---------------------------- MODULE LikesProofs -----------------------------
(***************************************************************************)
(* That the handler of likes does not disturb the market, and that the     *)
(* last answer to a stored user about a like holds in every state, until   *)
(* its item is purged, for any users, items, failures and crashes.         *)
(***************************************************************************)
EXTENDS Likes, MarketProofs

(* Every behaviour of the market with likes is one of the market, so that  *)
(* whatever is proved of the market alone is true beside the likes.        *)
THEOREM MarketUndisturbed == LikesSpec => Spec
<1>1. LikesInit => Init
  BY DEF LikesInit
<1>2. [LikesNext]_allVars => [Next]_vars
  BY DEF LikesNext, MarketStep, Like, Unlike, allVars, vars
<1>. QED
  BY <1>1, <1>2, PTL DEF LikesSpec, Spec

(* What the likes alone keep of their types *)
LikeVarsOK ==
  /\ likes \subseteq Shown
  /\ likeRows \subseteq Pairs
  /\ likeAnswers \in [Pairs -> {"liked", "unliked", "unknown"}]

(* The inductive invariant: the type of the likes is needed to know what   *)
(* an answer about one pair does to the answers about the others.          *)
LikesInv == LikeVarsOK /\ LikeAnswersHold

LEMMA LikesInitInv == LikesInit => LikesInv
  BY DEF LikesInit, LikesInv, LikeVarsOK, LikeAnswersHold, Pairs

(* An item that is shown has a row, so a stored user's like of it gets one. *)
LEMMA LikeableHasRow ==
  ASSUME SalesInv, serving, NEW i \in ItemIds, Likeable(i)
  PROVE  itemRows[i] # NoItem
<1>1. items[i] \in Item
  BY DEF Likeable, SalesInv, TypeOK, StoreTypeOK
<1>2. itemRows[i].seller = items[i].seller
  BY DEF Likeable, SalesInv, MemoryLeads
<1>. QED  BY <1>1, <1>2, StoreAssumption DEF Item, NoItem

(* Only a start takes likes off, with their items, and it reads the map    *)
(* back from what is left.                                                 *)
LEMMA MarketStepInv ==
  ASSUME TypeOK, LikesInv, MarketStep
  PROVE  LikesInv'
<1>1. /\ likeRows' = {pair \in likeRows : pair[2] \notin PurgedItems}
      /\ likeAnswers' = [pair \in Pairs |->
           IF pair[2] \in PurgedItems THEN "unliked" ELSE likeAnswers[pair]]
  BY DEF MarketStep, Cascaded
<1>2. /\ ~serving' => likes' = {}
      /\ serving' /\ ~serving => likes' = likeRows'
      /\ serving' /\ serving => likes' = likes /\ PurgedItems = {}
  BY NothingPurged DEF MarketStep
<1>3. LikeVarsOK'
  BY <1>1, <1>2 DEF MarketStep, LikesInv, LikeVarsOK, Pairs, Shown
<1>4. ASSUME NEW pair \in Pairs, likeAnswers'[pair] = "liked"
      PROVE  pair \in likeRows' /\ (serving' => pair \in likes')
  BY <1>1, <1>2, <1>4 DEF MarketStep, LikesInv, LikeVarsOK, LikeAnswersHold
<1>5. ASSUME NEW pair \in Pairs, likeAnswers'[pair] = "unliked"
      PROVE  pair \notin likeRows' /\ (serving' => pair \notin likes')
  BY <1>1, <1>2, <1>5 DEF MarketStep, LikesInv, LikeVarsOK, LikeAnswersHold
<1>. QED
  BY <1>3, <1>4, <1>5 DEF LikesInv, LikeAnswersHold

(* What a request leaves of the pairs it is not about *)
LEMMA OtherPairs ==
  ASSUME LikesInv, NEW u, NEW i, NEW o, Like(u, i, o) \/ Unlike(u, i, o),
         NEW p \in Pairs, p # <<u, i>>
  PROVE  /\ likeAnswers'[p] = likeAnswers[p]
         /\ p \in likes' <=> p \in likes
         /\ p \in likeRows' <=> p \in likeRows
  BY DEF Like, Liked, RowLiked, Unlike, Unliked, RowUnliked, Answered

LEMMA LikeInv ==
  ASSUME NEW u \in Users \cup Newcomers, NEW i \in ItemIds, NEW o,
         SalesInv, LikesInv, Like(u, i, o)
  PROVE  LikesInv'
<1>. DEFINE pair == <<u, i>>
<1>1. pair \in Shown
  BY DEF Shown
<1>2. LikeVarsOK'
  BY <1>1 DEF Like, Liked, RowLiked, Answered, LikesInv, LikeVarsOK
<1>3. ASSUME pair \in Pairs, likeAnswers'[pair] = "liked"
      PROVE  pair \in likeRows' /\ pair \in likes'
  <2>1. o = "ok"
    BY <1>3 DEF Like, Answered, Continues
  <2>2. itemRows[pair[2]] # NoItem
    BY LikeableHasRow DEF Like
  <2>. QED
    BY <1>3, <2>1, <2>2 DEF Like, Liked, RowLiked, Continues
<1>4. pair \in Pairs => likeAnswers'[pair] # "unliked"
  BY DEF Like, Answered
<1>5. serving' = serving
  BY DEF Like, vars
<1>6. LikeAnswersHold'
  BY <1>3, <1>4, <1>5, OtherPairs DEF LikesInv, LikeAnswersHold, Pairs
<1>. QED  BY <1>2, <1>6 DEF LikesInv

LEMMA UnlikeInv ==
  ASSUME NEW u \in Users \cup Newcomers, NEW i \in ItemIds, NEW o,
         LikesInv, Unlike(u, i, o)
  PROVE  LikesInv'
<1>. DEFINE pair == <<u, i>>
<1>1. LikeVarsOK'
  BY DEF Unlike, Unliked, RowUnliked, Answered, LikesInv, LikeVarsOK
<1>2. ASSUME pair \in Pairs, likeAnswers'[pair] = "unliked"
      PROVE  pair \notin likeRows' /\ pair \notin likes'
  BY <1>2 DEF Unlike, Unliked, RowUnliked, Answered, Continues
<1>3. pair \in Pairs => likeAnswers'[pair] # "liked"
  BY DEF Unlike, Answered
<1>4. serving' = serving
  BY DEF Unlike, vars
<1>5. LikeAnswersHold'
  BY <1>2, <1>3, <1>4, OtherPairs DEF LikesInv, LikeAnswersHold, Pairs
<1>. QED  BY <1>1, <1>5 DEF LikesInv

LEMMA LikesStutterInv == LikesInv /\ UNCHANGED allVars => LikesInv'
  BY DEF LikesInv, LikeVarsOK, LikeAnswersHold, allVars, vars, likeVars

LEMMA LikesInvariant == LikesSpec => []LikesInv
<1>1. ASSUME SalesInv, LikesInv, [LikesNext]_allVars PROVE LikesInv'
  <2>1. TypeOK
    BY <1>1 DEF SalesInv
  <2>. QED
    BY <1>1, <2>1, MarketStepInv, LikeInv, UnlikeInv, LikesStutterInv DEF LikesNext
<1>. QED
  BY LikesInitInv, MarketUndisturbed, SalesInvariant, <1>1, PTL DEF LikesSpec

(* A stored user's answered like is stored and shown until its item is     *)
(* purged, an answered unlike is gone, whatever failed or died since       *)
(* (changeItemLike, loadStore, purgeItemByTitle).                          *)
THEOREM LikeAnswersAreDurable == LikesSpec => []LikeAnswersHold
<1>1. LikesInv => LikeAnswersHold
  BY DEF LikesInv
<1>. QED
  BY LikesInvariant, <1>1, PTL

(* A stored user's like that appears in the map is in the table            *)
(* (changeItemLike puts the like back only when it was there, loadStore    *)
(* reads the table).                                                       *)
THEOREM LikesComeFromTheTable == LikesSpec => NewLikesAreStored
<1>1. ASSUME SalesInv, [LikesNext]_allVars
      PROVE  [(likes' \ likes) \cap Pairs \subseteq likeRows']_allVars
  <2>1. CASE MarketStep
    BY <2>1 DEF MarketStep
  <2>2. ASSUME NEW u \in Users \cup Newcomers, NEW i \in ItemIds, NEW o, Like(u, i, o)
        PROVE  (likes' \ likes) \cap Pairs \subseteq likeRows'
    <3>1. itemRows[i] # NoItem
      BY <1>1, <2>2, LikeableHasRow DEF Like
    <3>. QED  BY <2>2, <3>1 DEF Like, Liked, RowLiked, Continues
  <2>3. ASSUME NEW u \in Users \cup Newcomers, NEW i \in ItemIds, NEW o, Unlike(u, i, o)
        PROVE  (likes' \ likes) \cap Pairs \subseteq likeRows'
    BY <2>3 DEF Unlike, Unliked
  <2>. QED
    BY <1>1, <2>1, <2>2, <2>3 DEF LikesNext
<1>. QED
  BY <1>1, MarketUndisturbed, SalesInvariant, PTL DEF LikesSpec, NewLikesAreStored

(* Every variable of the market with likes keeps its type. *)
THEOREM LikesTypeCorrect == LikesSpec => []LikesTypeOK
<1>1. LikesInv /\ TypeOK => LikesTypeOK
  BY DEF LikesInv, LikeVarsOK, LikesTypeOK
<1>. QED
  BY LikesInvariant, MarketUndisturbed, TypeCorrect, <1>1, PTL
=============================================================================
