----------------------------- MODULE Suggestion -----------------------------
(***************************************************************************)
(* The arithmetic of prices: rounding, and the price that is suggested for *)
(* the text of a listing (heuristicPriceSuggestion), which also bounds     *)
(* what Gemini suggests for a collectible item (applyCollectiblePrice-     *)
(* Floor).  A text is what the keyword tables find in it: a base price,    *)
(* the signals of a collectible item, the number of risks, and whether the *)
(* brand or the category is sought after.                                  *)
(***************************************************************************)
EXTENDS Integers

Larger(a, b) == IF a > b THEN a ELSE b
Smaller(a, b) == IF a < b THEN a ELSE b

Percent(n, p) == (n * p) \div 100

(* roundPrice: to multiples of 50 below 1000 and of 100 above *)
RoundPrice(p) ==
  LET unit == IF p < 1000 THEN 50 ELSE 100
  IN Larger(100, ((2 * p + unit) \div (2 * unit)) * unit)

-----------------------------------------------------------------------------
(* Collectible items *)

(* What each signal adds to the price, in per cent *)
Weight ==
  [vintage |-> 22, era |-> 18, discontinued |-> 18, limited |-> 14, early |-> 12,
   customShop |-> 20, madeIn |-> 10, scarce |-> 12, model |-> 8, brand |-> 14]

BasePrices ==
  {620000, 280000, 85000, 450000, 180000, 18000, 42000, 12000, 8000, 6500, 4200,
   3800, 1800, 6800}

(* suggestPriceWithAI puts a positive condition and 1 to 60 days in place  *)
(* of anything else.                                                       *)
Query ==
  [base : BasePrices, signals : SUBSET DOMAIN Weight, risks : 0 .. 10,
   sought : BOOLEAN, condition : Nat \ {0}, days : 1 .. 60]

Rare(q) == q.signals # {}

(* Every signal found counts once, and so does every risk, against it. *)
Score(q) ==
  LET Points(s) == IF s \in q.signals THEN Weight[s] ELSE 0
  IN Points("vintage") + Points("era") + Points("discontinued") + Points("limited")
     + Points("early") + Points("customShop") + Points("madeIn") + Points("scarce")
     + Points("model") + Points("brand") - 8 * q.risks

Cap(q) ==
  IF q.condition < 50 THEN 135 ELSE IF q.sought THEN 185 ELSE 155

(* collectibleProfileFor, in per cent *)
Multiplier(q) == Larger(100, Smaller(Cap(q), 100 + Score(q)))

-----------------------------------------------------------------------------
(* heuristicPriceSuggestion *)

(* int(amount * factor), in floating point: a product that is a whole      *)
(* number may come out as the one below.                                   *)
Truncated(amount, factor) ==
  LET product == amount * factor
  IN {product \div 100}
     \cup {n \in {product \div 100 - 1} : factor # 100 /\ product % 100 = 0}

(* A wrong variant of the next definition, used to test properties. *)
DayShareSwapped(days, rare) ==
  IF days <= 7 THEN IF rare THEN 85 ELSE 95 ELSE 100

(* The share of the price that is left to whoever wants to sell in days *)
DayShare(days, rare) ==
  CASE days <= 3 -> IF rare THEN 93 ELSE 85
    [] days \in 4 .. 7 -> IF rare THEN 98 ELSE 95
    [] days >= 21 -> 110
    [] OTHER -> 100

(* A suggestion and the range of the market around it *)
Market(price, days, rare) ==
  LET rounded == RoundPrice(price)
  IN [suggested |-> rounded,
      low |-> RoundPrice(Percent(rounded, IF rare THEN 88 ELSE 85)),
      high |-> RoundPrice(Percent(rounded, IF rare THEN 128 ELSE 115)),
      days |-> days]

Heuristics(q) ==
  {Market(Percent(price, DayShare(q.days, Rare(q))), q.days, Rare(q)) :
     price \in Truncated((q.base * Larger(q.condition, 50)) \div 80, Multiplier(q))}

-----------------------------------------------------------------------------
(* applyCollectiblePriceFloor *)

(* A wrong variant of the definition below: the price is left. *)
FlooredRangeOnly(answer, market, rare) ==
  IF rare THEN [answer EXCEPT !.low = Larger(@, Percent(market.low, 85)),
                              !.high = Larger(@, Percent(market.high, 85))]
  ELSE answer

(* An amount below its floor takes the floor, rounded. *)
Raised(amount, floor) == IF amount < floor THEN RoundPrice(floor) ELSE amount

Floored(answer, market, rare) ==
  LET price == Raised(answer.suggested, Percent(market.suggested, 85))
      low == Raised(answer.low, Percent(market.low, 85))
      high == Raised(answer.high, Percent(market.high, 85))
  IN IF rare
     THEN [suggested |-> price,
           low |-> IF low > price THEN RoundPrice(Percent(price, 85)) ELSE low,
           high |-> IF high < price THEN RoundPrice(Percent(price, 115)) ELSE high,
           days |-> answer.days]
     ELSE answer

-----------------------------------------------------------------------------
(* The price lies in the range of the market that is named with it. *)
InItsRange(s) == s.low <= s.suggested /\ s.suggested <= s.high
=============================================================================
