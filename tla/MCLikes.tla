------------------------------- MODULE MCLikes ------------------------------
(***************************************************************************)
(* Instances of Likes for TLC; users are interchangeable as in MCMarket.   *)
(***************************************************************************)
EXTENDS Likes, TLC

OtherUsers == Permutations(Users \ {DemoSeller})
=============================================================================
