------------------------------ MODULE Pricing -------------------------------
(***************************************************************************)
(* solveDynamicPrice: a price for every day until the seller wants the     *)
(* item sold.  The first day keeps the current price; for the days after   *)
(* it, a dynamic programme over candidate prices is solved backwards from  *)
(* the last day, and its choices are then followed forwards.               *)
(*                                                                         *)
(* The chance that the item sells on a day at a price (saleIntensity) is   *)
(* any function that falls with the price and rises with the day, counted  *)
(* in parts of Parts.  An expected revenue is an integer in units that get *)
(* finer with every day, so nothing is rounded; where the code compares    *)
(* floating-point numbers that are equal up to rounding, any of the best   *)
(* prices may be chosen.                                                   *)
(***************************************************************************)
EXTENDS Suggestion, Sequences

CONSTANTS
  Requests, \* what dynamicPrice may be asked
  Parts,    \* a chance is a number of parts of Parts
  Chances   \* the chances considered

Request ==
  [current : Nat \ {0},  \* currentPrice, or the price of the item
   minimum : Nat,        \* minimumPrice, 0 when it is not given
   low : Nat, high : Nat, \* the market range, given or suggested
   rare : BOOLEAN,       \* the texts have collectible signals
   days : 1 .. 60]       \* targetSellDays

ASSUME PricingAssumption ==
  /\ Requests \subseteq Request
  /\ Parts \in Nat
  /\ Chances \subseteq 0 .. Parts

VARIABLES
  request, \* the request being answered
  day,     \* the day whose choices are made next, 0 when all are made
  chance,  \* chance[d][p]: the item sells on day d at price p
  values,  \* values[d][m]: the revenue from day d on, at prices up to m
  choices, \* choices[d][m]: the price of day d, when it may be up to m
  path     \* the prices chosen so far, the current price first

vars == <<request, day, chance, values, choices, path>>

-----------------------------------------------------------------------------
(* Prices *)

(* A floor that is not below the current price gives way to a share of it. *)
Floor(low, current, share) ==
  Larger(IF low >= current THEN Percent(current, share) ELSE low,
         Percent(current, share))

(* The lower end of the market range, raised for a collectible item that   *)
(* is offered above the range.                                             *)
MarketLow(r) ==
  IF r.rare /\ r.current > r.high THEN Larger(r.low, Percent(r.current, 75))
  ELSE r.low

(* The lowest price considered: what the seller asked for, or a floor.     *)
MinimumPrice(r) ==
  Smaller(r.current,
    Larger(100,
      CASE r.minimum > 0 -> r.minimum
        [] r.minimum = 0 /\ r.rare ->
             Floor(Percent(MarketLow(r), 95), r.current, 85)
        [] OTHER -> Floor(Percent(MarketLow(r), 90), r.current, 75)))

Steps == 15

(* A wrong variant of the next definition, used to test properties *)
CandidateUnclamped(minimum, maximum, i) ==
  RoundPrice(minimum + ((maximum - minimum) * i) \div Steps)

(* One of Steps + 1 equidistant prices, rounded, but not below the minimum *)
Candidate(minimum, maximum, i) ==
  Larger(minimum, RoundPrice(minimum + ((maximum - minimum) * i) \div Steps))

(* priceCandidates *)
PriceCandidates(minimum, maximum) ==
  IF maximum <= minimum THEN {RoundPrice(minimum)}
  ELSE {Candidate(minimum, maximum, i) : i \in 0 .. Steps}

(* A wrong variant: the current price is not added. *)
CandidatesOnly(r) == PriceCandidates(MinimumPrice(r), r.current)

Candidates(r) ==
  PriceCandidates(MinimumPrice(r), r.current) \cup {r.current}

(* saleIntensity, as far as the programme depends on it *)
MayBeChances(r, c) ==
  \A d \in DOMAIN c : \A p, q \in Candidates(r) :
    /\ p < q => c[d][p] >= c[d][q]
    /\ d + 1 \in DOMAIN c => c[d][p] <= c[d + 1][p]

-----------------------------------------------------------------------------
(* The dynamic programme *)

(* A wrong variant: the day before does not bound the price. *)
AnyPrices(r, m) == Candidates(r)

(* The prices of a day when the day before had price m *)
PricesUpTo(r, m) == {p \in Candidates(r) : p <= m}

(* The powers of Parts, as far as there are days *)
Power[n \in 0 .. 60] == IF n = 0 THEN 1 ELSE Parts * Power[n - 1]

(* Units of revenue per unit of money in values[d] *)
Units(d) == Power[request.days - d]

(* The revenue from day d on, at price p on day d, with this much after it *)
Revenue(d, p, after) ==
  chance[d][p] * p * Units(d + 1) + (Parts - chance[d][p]) * after

(* A wrong variant: the later prices are not bounded by this one. *)
ValueUnbounded(d, m, p) == Revenue(d, p, values[d + 1][m])

ValueOf(d, m, p) == Revenue(d, p, values[d + 1][p])

Best(d, m) ==
  {p \in PricesUpTo(request, m) :
     \A q \in PricesUpTo(request, m) : ValueOf(d, m, p) >= ValueOf(d, m, q)}

(* f extended to one more argument *)
With(f, d, result) ==
  [k \in DOMAIN f \cup {d} |-> IF k = d THEN result ELSE f[k]]

(* The choices of the last day that has none yet are made. *)
SolveDay ==
  /\ day >= 1
  /\ day' = day - 1
  /\ \E best \in [Candidates(request) -> Candidates(request)] :
       /\ \A m \in Candidates(request) : best[m] \in Best(day, m)
       /\ choices' = With(choices, day, best)
       /\ values' = With(values, day,
            [m \in Candidates(request) |-> ValueOf(day, m, best[m])])
  /\ UNCHANGED <<request, chance, path>>

(* The choices are followed, starting at the current price. *)
FollowDay ==
  /\ day = 0
  /\ Len(path) < request.days
  /\ path' = Append(path, choices[Len(path)][path[Len(path)]])
  /\ UNCHANGED <<request, day, chance, values, choices>>

-----------------------------------------------------------------------------
(* The specification *)

Init ==
  /\ request \in Requests
  /\ day = request.days - 1
  /\ chance \in [1 .. (request.days - 1) -> [Candidates(request) -> Chances]]
  /\ MayBeChances(request, chance)
  /\ values = [k \in {request.days} |-> [m \in Candidates(request) |-> 0]]
  /\ choices = [k \in {} |-> 0]
  /\ path = <<request.current>>

Next == SolveDay \/ FollowDay

Spec == Init /\ [][Next]_vars

-----------------------------------------------------------------------------
(* Properties *)

Days == 1 .. (request.days - 1)

(* What a path of prices earns from its second day on *)
Earned(p) ==
  LET from[d \in 1 .. request.days] ==
        IF d = request.days THEN 0 ELSE Revenue(d, p[d + 1], from[d + 1])
  IN from[1]

Falls(p) == \A d \in Days : p[d + 1] <= p[d]

(* Every path the algorithm may choose: it starts with the current price   *)
(* and never rises.                                                        *)
FallingPaths ==
  {p \in [1 .. request.days -> Candidates(request)] :
     p[1] = request.current /\ Falls(p)}

(* Every variable keeps its type: the choices made so far are candidates,  *)
(* and so are the prices of the path, the current price included.          *)
TypeOK ==
  /\ request \in Requests
  /\ day \in 0 .. (request.days - 1)
  /\ choices \in [(day + 1) .. (request.days - 1) ->
                    [Candidates(request) -> Candidates(request)]]
  /\ path \in Seq(Candidates(request))
  /\ Len(path) \in 1 .. request.days

(* The prices start with the current price and never rise, although the    *)
(* candidates reach above it when it is rounded up: TestDynamicPrice-      *)
(* StartsAtSuggestedPriceAndNeverIncreases, for every request.             *)
NeverRises ==
  /\ path[1] = request.current
  /\ \A d \in 1 .. (Len(path) - 1) : path[d + 1] <= path[d]

(* No other path that starts with the current price and never rises has a  *)
(* greater expected revenue than the one that is answered.                 *)
PathIsOptimal ==
  Len(path) = request.days => \A p \in FallingPaths : Earned(p) <= Earned(path)

(* No price is below the minimum when the current price is above it. *)
MinimumIsKept ==
  MinimumPrice(request) < request.current =>
    \A d \in DOMAIN path : path[d] >= MinimumPrice(request)

(* "if price < minimumPrice" (priceCandidates): no price is below the      *)
(* minimum.                                                                *)
NeverBelowMinimum == \A d \in DOMAIN path : path[d] >= MinimumPrice(request)
=============================================================================
