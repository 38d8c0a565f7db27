---------------------------- MODULE MCAssistant -----------------------------
(***************************************************************************)
(* Texts for TLC: without and with signals, in good and in bad condition,  *)
(* with less and with more time, at the lower and the upper cap of the     *)
(* multiplier, and one whose product of base and multiplier is whole.      *)
(***************************************************************************)
EXTENDS Assistant

Text(base, signals, risks, sought, condition, days) ==
  [base |-> base, signals |-> signals, risks |-> risks, sought |-> sought,
   condition |-> condition, days |-> days]

MCQueries ==
  {Text(1800, {}, 0, FALSE, 40, 3),
   Text(1800, {"limited"}, 3, FALSE, 40, 7),
   Text(85000, {"vintage", "era", "customShop", "brand", "model", "early"}, 0, TRUE, 80, 21)}

MCScores == {-5, 50, 101}
MCAmounts == {-1, 900, 60000}
=============================================================================
