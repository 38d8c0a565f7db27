------------------------------- MODULE MCViews ------------------------------
(***************************************************************************)
(* Instances of Views for TLC.  Requests are interchangeable, and so are   *)
(* the guests: only equality of viewers matters.                           *)
(***************************************************************************)
EXTENDS Views

Symmetry == Permutations(Visits) \cup Permutations(Guests)
=============================================================================
