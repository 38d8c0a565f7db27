------------------------------ MODULE MCMarket ------------------------------
(***************************************************************************)
(* Instances of Market for TLC.  The users other than the demo seller are  *)
(* interchangeable: no handler compares user ids except for equality, and  *)
(* no definition of Market names one of them.                              *)
(***************************************************************************)
EXTENDS Market, TLC

OtherUsers == Permutations(Users \ {DemoSeller})
=============================================================================
