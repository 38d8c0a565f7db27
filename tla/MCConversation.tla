---------------------------- MODULE MCConversation --------------------------
(***************************************************************************)
(* Instances of Conversation for TLC: requests are interchangeable, and so *)
(* are the users other than the owner of the seeded items.                 *)
(***************************************************************************)
EXTENDS Conversation, TLC

Symmetry == Permutations(Posts) \cup Permutations(Users \ {DemoSeller})
=============================================================================
