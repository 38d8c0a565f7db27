--------------------------- MODULE PricingProofs ----------------------------
(***************************************************************************)
(* For every request, and every chance of a sale: the prices start with    *)
(* the current one and never rise, and while the current price is above    *)
(* the minimum none is below it.                                           *)
(***************************************************************************)
EXTENDS Pricing, FiniteSetTheorems, TLAPS

-----------------------------------------------------------------------------
(* Prices are natural numbers *)

LEMMA LargerFact ==
  ASSUME NEW a \in Int, NEW b \in Int
  PROVE  /\ Larger(a, b) \in Int
         /\ Larger(a, b) >= a
         /\ Larger(a, b) >= b
  BY DEF Larger

LEMMA SmallerFact ==
  ASSUME NEW a \in Int, NEW b \in Int
  PROVE  /\ Smaller(a, b) \in Int
         /\ Smaller(a, b) <= a
         /\ a >= 0 /\ b >= 0 => Smaller(a, b) >= 0
  BY DEF Smaller

LEMMA PercentNat ==
  ASSUME NEW n \in Nat, NEW p \in Nat
  PROVE  Percent(n, p) \in Nat
<1>1. n * p \in Nat
  OBVIOUS
<1> QED
  BY <1>1 DEF Percent

LEMMA RoundPriceNat ==
  ASSUME NEW p \in Int
  PROVE  RoundPrice(p) \in Int /\ RoundPrice(p) >= 100
<1> DEFINE unit == IF p < 1000 THEN 50 ELSE 100
<1>1. unit \in Nat /\ unit >= 1
  OBVIOUS
<1>2. ((2 * p + unit) \div (2 * unit)) * unit \in Int
  <2>1. 2 * p + unit \in Int /\ 2 * unit \in Nat /\ 2 * unit >= 1
    BY <1>1
  <2> HIDE DEF unit
  <2>2. (2 * p + unit) \div (2 * unit) \in Int
    BY <2>1
  <2> QED
    BY <1>1, <2>2
<1> HIDE DEF unit
<1>3. RoundPrice(p) = Larger(100, ((2 * p + unit) \div (2 * unit)) * unit)
  BY DEF RoundPrice, unit
<1> QED
  BY <1>2, <1>3, LargerFact

LEMMA FloorNat ==
  ASSUME NEW low \in Nat, NEW current \in Nat, NEW share \in Nat
  PROVE  Floor(low, current, share) \in Nat
<1>1. Percent(current, share) \in Nat
  BY PercentNat
<1> QED
  BY <1>1 DEF Floor, Larger

LEMMA MinimumNat ==
  ASSUME NEW r \in Request
  PROVE  MinimumPrice(r) \in Nat /\ MinimumPrice(r) <= r.current
<1>1. r.current \in Nat /\ r.minimum \in Nat /\ r.low \in Nat /\ r.rare \in BOOLEAN
  BY DEF Request
<1>2. MarketLow(r) \in Nat
  <2>1. Percent(r.current, 75) \in Nat
    BY <1>1, PercentNat
  <2> QED
    BY <1>1, <2>1 DEF MarketLow, Larger
<1>3. Floor(Percent(MarketLow(r), 95), r.current, 85) \in Nat
  <2>1. Percent(MarketLow(r), 95) \in Nat
    BY <1>2, PercentNat
  <2> QED
    BY <1>1, <2>1, FloorNat
<1>4. Floor(Percent(MarketLow(r), 90), r.current, 75) \in Nat
  <2>1. Percent(MarketLow(r), 90) \in Nat
    BY <1>2, PercentNat
  <2> QED
    BY <1>1, <2>1, FloorNat
<1> DEFINE wanted ==
  CASE r.minimum > 0 -> r.minimum
    [] r.minimum = 0 /\ r.rare -> Floor(Percent(MarketLow(r), 95), r.current, 85)
    [] OTHER -> Floor(Percent(MarketLow(r), 90), r.current, 75)
<1>5. wanted \in Nat
  BY <1>1, <1>3, <1>4
<1>6. MinimumPrice(r) = Smaller(r.current, Larger(100, wanted))
  BY DEF MinimumPrice
<1> HIDE DEF wanted
<1>7. Larger(100, wanted) \in Nat
  BY <1>5 DEF Larger
<1> QED
  BY <1>1, <1>6, <1>7 DEF Smaller

(* priceCandidates returns numbers, and between a minimum and a greater    *)
(* maximum none below the minimum.                                         *)
LEMMA CandidatesFact ==
  ASSUME NEW r \in Request
  PROVE  /\ Candidates(r) \subseteq Int
         /\ r.current \in Candidates(r)
         /\ MinimumPrice(r) < r.current =>
              \A p \in Candidates(r) : p >= MinimumPrice(r)
<1> DEFINE low == MinimumPrice(r)
<1>1. low \in Nat /\ r.current \in Nat
  BY MinimumNat DEF Request
<1> HIDE DEF low
<1>2. ASSUME NEW i \in 0 .. Steps
      PROVE Candidate(low, r.current, i) \in Int /\ Candidate(low, r.current, i) >= low
  <2>1. (r.current - low) * i \in Int
    BY <1>1 DEF Steps
  <2>2. ((r.current - low) * i) \div Steps \in Int
    BY <2>1 DEF Steps
  <2>3. low + ((r.current - low) * i) \div Steps \in Int
    BY <1>1, <2>2
  <2>4. RoundPrice(low + ((r.current - low) * i) \div Steps) \in Int
    BY <2>3, RoundPriceNat
  <2> QED
    BY <1>1, <2>4, LargerFact DEF Candidate
<1>3. \A p \in PriceCandidates(low, r.current) : p \in Int
  BY <1>1, <1>2, RoundPriceNat DEF PriceCandidates
<1>4. low < r.current => \A p \in PriceCandidates(low, r.current) : p >= low
  BY <1>1, <1>2 DEF PriceCandidates
<1>5. Candidates(r) = PriceCandidates(low, r.current) \cup {r.current}
  BY DEF Candidates, low
<1>6. \A p \in Candidates(r) : p \in Int
  BY <1>1, <1>3, <1>5
<1>7. low < r.current => \A p \in Candidates(r) : p >= low
  BY <1>1, <1>4, <1>5
<1> QED
  BY <1>5, <1>6, <1>7 DEF low

-----------------------------------------------------------------------------
(* The inductive invariant: beside the types, a choice made for a bound is *)
(* not above it.  Without it, following a choice might raise the price.    *)

ChoicesFall ==
  \A d \in (day + 1) .. (request.days - 1) : \A m \in Candidates(request) :
    choices[d][m] <= m

PricingInv == TypeOK /\ ChoicesFall /\ NeverRises

LEMMA InitInv == Init => PricingInv
<1> SUFFICES ASSUME Init PROVE PricingInv
  OBVIOUS
<1>1. request \in Requests /\ request \in Request
  BY PricingAssumption DEF Init
<1>2. request.days \in Nat /\ request.days >= 1
  BY <1>1 DEF Request
<1>3. request.current \in Candidates(request)
  BY <1>1, CandidatesFact
<1>4. (day + 1) .. (request.days - 1) = {}
  BY <1>2 DEF Init
<1>5. choices \in [{} -> [Candidates(request) -> Candidates(request)]]
  BY DEF Init
<1>6. path \in Seq(Candidates(request)) /\ Len(path) = 1 /\ path[1] = request.current
  BY <1>3 DEF Init
<1>7. TypeOK
  <2>1. day \in 0 .. (request.days - 1)
    BY <1>2 DEF Init
  <2>2. choices \in [(day + 1) .. (request.days - 1) ->
                      [Candidates(request) -> Candidates(request)]]
    BY <1>4, <1>5
  <2>3. Len(path) \in 1 .. request.days
    BY <1>2, <1>6
  <2> QED
    BY <1>1, <1>6, <2>1, <2>2, <2>3 DEF TypeOK
<1>8. ChoicesFall
  BY <1>4 DEF ChoicesFall
<1>9. NeverRises
  BY <1>6 DEF NeverRises
<1> QED
  BY <1>7, <1>8, <1>9 DEF PricingInv

LEMMA SolveDayInv == PricingInv /\ SolveDay => PricingInv'
<1> SUFFICES ASSUME PricingInv, SolveDay PROVE PricingInv'
  OBVIOUS
<1>1. request \in Requests /\ request \in Request /\ request' = request
  BY PricingAssumption DEF PricingInv, TypeOK, SolveDay
<1>2. request.days \in Nat /\ request.days >= 1
  BY <1>1 DEF Request
<1> DEFINE prices == Candidates(request)
<1>3. PICK best \in [prices -> prices] :
        /\ \A m \in prices : best[m] \in Best(day, m)
        /\ choices' = With(choices, day, best)
  BY DEF SolveDay
<1>4. day \in 1 .. (request.days - 1) /\ day' = day - 1
  BY <1>2 DEF PricingInv, TypeOK, SolveDay
<1>5. Candidates(request)' = prices
  BY <1>1
<1>6. (day' + 1) .. (request.days - 1) = ((day + 1) .. (request.days - 1)) \cup {day}
  BY <1>2, <1>4
<1>7. DOMAIN choices = (day + 1) .. (request.days - 1)
  BY DEF PricingInv, TypeOK
<1>8. \A d \in (day' + 1) .. (request.days - 1) :
        choices'[d] = IF d = day THEN best ELSE choices[d]
  BY <1>3, <1>6, <1>7 DEF With
<1> HIDE DEF prices
<1>9. choices' \in [(day' + 1) .. (request.days - 1) -> [prices -> prices]]
  <2>1. \A d \in (day + 1) .. (request.days - 1) : choices[d] \in [prices -> prices]
    BY DEF PricingInv, TypeOK, prices
  <2>2. \A d \in (day' + 1) .. (request.days - 1) : choices'[d] \in [prices -> prices]
    BY <1>3, <1>6, <1>8, <2>1
  <2> QED
    BY <1>3, <1>6, <1>7, <2>2 DEF With
<1>10. path' = path
  BY DEF SolveDay
<1>11. TypeOK'
  <2>1. day' \in 0 .. (request'.days - 1)
    BY <1>1, <1>2, <1>4
  <2>2. path \in Seq(prices) /\ Len(path) \in 1 .. request.days
    BY DEF PricingInv, TypeOK, prices
  <2>3. path' \in Seq(prices) /\ Len(path') \in 1 .. request'.days
    BY <1>1, <1>10, <2>2
  <2>4. choices' \in [(day' + 1) .. (request'.days - 1) -> [prices -> prices]]
    BY <1>1, <1>9
  <2> QED
    BY <1>1, <1>5, <2>1, <2>3, <2>4 DEF TypeOK
<1>12. \A m \in prices : best[m] <= m
  BY <1>3 DEF Best, PricesUpTo, prices
<1>13. ChoicesFall'
  <2> SUFFICES ASSUME NEW d \in (day' + 1) .. (request.days - 1), NEW m \in prices
               PROVE choices'[d][m] <= m
    BY <1>1, <1>5 DEF ChoicesFall
  <2>1. CASE d = day
    BY <1>8, <1>12, <2>1
  <2>2. CASE d # day
    BY <1>6, <1>8, <2>2 DEF PricingInv, ChoicesFall, prices
  <2> QED
    BY <2>1, <2>2
<1>14. NeverRises'
  BY <1>1, <1>10 DEF PricingInv, NeverRises
<1> QED
  BY <1>11, <1>13, <1>14 DEF PricingInv

LEMMA FollowDayInv == PricingInv /\ FollowDay => PricingInv'
<1> SUFFICES ASSUME PricingInv, FollowDay PROVE PricingInv'
  OBVIOUS
<1>1. request \in Requests /\ request \in Request /\ request' = request
  BY PricingAssumption DEF PricingInv, TypeOK, FollowDay
<1>2. /\ request.days \in Nat /\ request.days >= 1
      /\ day = 0 /\ day' = day /\ choices' = choices
  <2>1. request.days \in Nat /\ request.days >= 1
    BY <1>1 DEF Request
  <2> QED
    BY <2>1 DEF FollowDay
<1> DEFINE prices == Candidates(request)
           last == Len(path)
           next == choices[last][path[last]]
<1>3. prices \subseteq Int
  BY <1>1, CandidatesFact
<1>4. path \in Seq(prices) /\ last \in 1 .. (request.days - 1)
  <2>1. path \in Seq(prices) /\ last \in 1 .. request.days
    BY DEF PricingInv, TypeOK
  <2>2. last < request.days
    BY DEF FollowDay
  <2> QED
    BY <1>2, <2>1, <2>2
<1>5. path[last] \in prices
  BY <1>4
<1>6. next \in prices /\ next <= path[last]
  BY <1>2, <1>4, <1>5 DEF PricingInv, TypeOK, ChoicesFall
<1>7. path' = Append(path, next)
  BY DEF FollowDay
<1> HIDE DEF prices, next
<1>8. /\ path' \in Seq(prices)
      /\ Len(path') = last + 1
      /\ path'[last + 1] = next
      /\ \A d \in 1 .. last : path'[d] = path[d]
  BY <1>4, <1>6, <1>7
<1>9. TypeOK'
  <2>1. Candidates(request)' = prices
    BY <1>1 DEF prices
  <2>2. Len(path') \in 1 .. request'.days
    BY <1>1, <1>2, <1>4, <1>8
  <2>3. /\ day \in 0 .. (request.days - 1)
        /\ choices \in [(day + 1) .. (request.days - 1) -> [prices -> prices]]
    BY DEF PricingInv, TypeOK, prices
  <2>4. /\ day' \in 0 .. (request'.days - 1)
        /\ choices' \in [(day' + 1) .. (request'.days - 1) -> [prices -> prices]]
    BY <1>1, <1>2, <2>3
  <2> QED
    BY <1>1, <1>8, <2>1, <2>2, <2>4 DEF TypeOK
<1>10. ChoicesFall'
  BY <1>1, <1>2 DEF PricingInv, ChoicesFall
<1>11. NeverRises'
  <2>1. path'[1] = request.current
    BY <1>4, <1>8 DEF PricingInv, NeverRises
  <2>2. ASSUME NEW d \in 1 .. (Len(path') - 1) PROVE path'[d + 1] <= path'[d]
    <3>1. CASE d = last
      BY <1>4, <1>6, <1>8, <3>1
    <3>2. CASE d # last
      <4>1. d \in 1 .. (last - 1) /\ d \in 1 .. last /\ d + 1 \in 1 .. last
        BY <1>4, <1>8, <2>2, <3>2
      <4>2. path[d + 1] <= path[d]
        BY <4>1 DEF PricingInv, NeverRises
      <4> QED
        BY <1>8, <4>1, <4>2
    <3> QED
      BY <3>1, <3>2
  <2> QED
    BY <1>1, <2>1, <2>2 DEF NeverRises
<1> QED
  BY <1>9, <1>10, <1>11 DEF PricingInv

LEMMA PricingInvariant == Spec => []PricingInv
<1>1. ASSUME PricingInv, UNCHANGED vars PROVE PricingInv'
  BY <1>1 DEF PricingInv, TypeOK, ChoicesFall, NeverRises, vars
<1>2. PricingInv /\ [Next]_vars => PricingInv'
  BY SolveDayInv, FollowDayInv, <1>1 DEF Next
<1> QED
  BY InitInv, <1>2, PTL DEF Spec

(* The variables of the algorithm keep their types. *)
THEOREM PricingTypeCorrect == Spec => []TypeOK
<1>1. PricingInv => TypeOK
  BY DEF PricingInv
<1> QED
  BY PricingInvariant, <1>1, PTL

(* The prices start with the current price and never rise, for every       *)
(* request (TestDynamicPriceStartsAtSuggestedPriceAndNeverIncreases).      *)
THEOREM PricesNeverRise == Spec => []NeverRises
<1>1. PricingInv => NeverRises
  BY DEF PricingInv
<1> QED
  BY PricingInvariant, <1>1, PTL

(* While the current price is above the minimum, no price is below it.     *)
THEOREM MinimumKept == Spec => []MinimumIsKept
<1>1. TypeOK => MinimumIsKept
  <2> SUFFICES ASSUME TypeOK, MinimumPrice(request) < request.current,
                      NEW d \in DOMAIN path
               PROVE path[d] >= MinimumPrice(request)
    BY DEF MinimumIsKept
  <2>1. request \in Request /\ path \in Seq(Candidates(request))
    BY PricingAssumption DEF TypeOK
  <2>2. path[d] \in Candidates(request)
    BY <2>1
  <2> QED
    BY <2>1, <2>2, CandidatesFact
<1> QED
  BY PricingTypeCorrect, <1>1, PTL

-----------------------------------------------------------------------------
(* Counting up to a number *)

(* Induction up to n, as a fact about the set of the numbers that have the *)
(* property: among the intervals 0 .. k with k outside it none is smallest. *)
LEMMA CountingUp ==
  ASSUME NEW n \in Nat, NEW S, 0 \in S,
         \A k \in 0 .. (n - 1) : k \in S => k + 1 \in S
  PROVE  \A k \in 0 .. n : k \in S
<1>1. SUFFICES ASSUME NEW m \in 0 .. n, m \notin S PROVE FALSE
  OBVIOUS
<1> DEFINE Bad == {0 .. k : k \in (0 .. n) \ S}
<1>2. IsWellFoundedOn(StrictSubsetOrdering(0 .. n), FiniteSubsetsOf(0 .. n))
  BY FS_StrictSubsetOrderingWellFounded
<1>3. Bad \subseteq FiniteSubsetsOf(0 .. n)
  <2>1. \A k \in 0 .. n : 0 .. k \in SUBSET (0 .. n) /\ IsFiniteSet(0 .. k)
    BY FS_Interval
  <2> QED
    BY <2>1 DEF FiniteSubsetsOf
<1>4. Bad # {}
  BY <1>1
<1>5. PICK x \in Bad : \A y \in Bad : ~ (<<y, x>> \in StrictSubsetOrdering(0 .. n))
  BY <1>2, <1>3, <1>4, WFMin
<1>6. PICK k \in (0 .. n) \ S : x = 0 .. k
  OBVIOUS
<1>7. k # 0 /\ k - 1 \in 0 .. (n - 1)
  BY <1>6
<1>8. k - 1 \notin S
  <2>1. (k - 1) + 1 = k
    BY <1>7
  <2> QED
    BY <1>6, <1>7, <2>1
<1>9. 0 .. (k - 1) \in Bad
  BY <1>7, <1>8
<1>10. <<0 .. (k - 1), 0 .. k>> \in StrictSubsetOrdering(0 .. n)
  <2>1. /\ 0 .. (k - 1) \in SUBSET (0 .. n) /\ 0 .. k \in SUBSET (0 .. n)
        /\ 0 .. (k - 1) \subseteq 0 .. k
        /\ k \in 0 .. k /\ k \notin 0 .. (k - 1)
    BY <1>6, <1>7
  <2> QED
    BY <2>1 DEF StrictSubsetOrdering
<1> QED
  BY <1>5, <1>6, <1>9, <1>10

(* The recursion of Power has a solution, and all its values are numbers. *)
LEMMA PowerExists ==
  \E g : g = [n \in 0 .. 60 |-> IF n = 0 THEN 1 ELSE Parts * g[n - 1]]
<1> DEFINE Solves(g, n) == g = [k \in 0 .. n |-> IF k = 0 THEN 1 ELSE Parts * g[k - 1]]
           S == {n \in 0 .. 60 : \E g : Solves(g, n)}
<1>1. 0 \in S
  <2> DEFINE g == [k \in 0 .. 0 |-> 1]
  <2>1. Solves(g, 0)
    OBVIOUS
  <2>2. 0 \in 0 .. 60
    OBVIOUS
  <2> HIDE DEF g, Solves
  <2> QED
    BY <2>1, <2>2
<1>2. ASSUME NEW n \in 0 .. 59, n \in S PROVE n + 1 \in S
  <2>1. PICK g : Solves(g, n)
    BY <1>2
  <2> DEFINE h == [k \in 0 .. (n + 1) |-> IF k = n + 1 THEN Parts * g[n] ELSE g[k]]
  <2>2. \A k \in 0 .. n : h[k] = g[k] /\ g[k] = IF k = 0 THEN 1 ELSE Parts * g[k - 1]
    BY <2>1
  <2>3. ASSUME NEW k \in 0 .. (n + 1)
        PROVE  h[k] = IF k = 0 THEN 1 ELSE Parts * h[k - 1]
    <3>1. CASE k = n + 1
      BY <2>2, <3>1
    <3>2. CASE k # n + 1
      <4>1. k \in 0 .. n /\ (k # 0 => k - 1 \in 0 .. n)
        BY <3>2
      <4> HIDE DEF h
      <4> QED
        BY <2>2, <4>1
    <3> QED
      BY <3>1, <3>2
  <2>4. h = [k \in 0 .. (n + 1) |-> h[k]]
    OBVIOUS
  <2> HIDE DEF h
  <2>5. Solves(h, n + 1)
    BY <2>3, <2>4
  <2>6. n + 1 \in 0 .. 60
    OBVIOUS
  <2> HIDE DEF Solves
  <2> QED
    BY <2>5, <2>6
<1> HIDE DEF S
<1>3. \A n \in 0 .. 60 : n \in S
  BY <1>1, <1>2, CountingUp
<1>4. 60 \in S
  BY <1>3
<1> QED
  BY <1>4 DEF S

LEMMA PowerNat == \A n \in 0 .. 60 : Power[n] \in Nat
<1> DEFINE g == CHOOSE g : g = [n \in 0 .. 60 |-> IF n = 0 THEN 1 ELSE Parts * g[n - 1]]
<1>1. g = [n \in 0 .. 60 |-> IF n = 0 THEN 1 ELSE Parts * g[n - 1]]
  BY PowerExists
<1>2. Power = g
  BY DEF Power
<1> HIDE DEF g
<1>3. \A n \in 0 .. 60 : Power[n] = IF n = 0 THEN 1 ELSE Parts * Power[n - 1]
  BY <1>1, <1>2
<1> DEFINE S == {n \in 0 .. 60 : Power[n] \in Nat}
<1>4. 0 \in S
  BY <1>3
<1>5. ASSUME NEW n \in 0 .. 59, n \in S PROVE n + 1 \in S
  <2>1. Power[n + 1] = Parts * Power[n] /\ Power[n] \in Nat
    BY <1>3, <1>5
  <2>2. Power[n + 1] \in Nat
    BY <2>1, PricingAssumption
  <2> QED
    BY <2>2
<1> HIDE DEF S
<1>6. \A n \in 0 .. 60 : n \in S
  BY <1>4, <1>5, CountingUp
<1> QED
  BY <1>6 DEF S

-----------------------------------------------------------------------------
(* The revenue of a day grows with the revenue after it *)

LEMMA ProductInt ==
  ASSUME NEW a \in Int, NEW b \in Int PROVE a * b \in Int
  OBVIOUS

LEMMA ProductMonotone ==
  ASSUME NEW a \in Nat, NEW b \in Int, NEW c \in Int, b <= c
  PROVE  a * b <= a * c
  OBVIOUS

ChancesOK == chance \in [1 .. (request.days - 1) -> [Candidates(request) -> Chances]]

LEMMA RevenueFact ==
  ASSUME request \in Request, ChancesOK, NEW d \in 1 .. (request.days - 1),
         NEW p \in Candidates(request), NEW x \in Int
  PROVE  /\ Revenue(d, p, x) \in Int
         /\ \A y \in Int : x <= y => Revenue(d, p, x) <= Revenue(d, p, y)
<1>1. request.days \in 1 .. 60 /\ p \in Int
  BY CandidatesFact DEF Request
<1>2. chance[d][p] \in 0 .. Parts /\ Parts \in Nat
  BY PricingAssumption DEF ChancesOK
<1>3. Units(d + 1) \in Int
  <2>1. request.days - (d + 1) \in 0 .. 60
    BY <1>1
  <2> QED
    BY <2>1, PowerNat DEF Units
<1>4. chance[d][p] * p * Units(d + 1) \in Int
  BY <1>1, <1>2, <1>3, ProductInt
<1>5. Parts - chance[d][p] \in Nat
  BY <1>2
<1> DEFINE now == chance[d][p] * p * Units(d + 1)
           later == Parts - chance[d][p]
<1>6. now \in Int /\ later \in Nat
  BY <1>4, <1>5
<1>7. \A y : Revenue(d, p, y) = now + later * y
  BY DEF Revenue
<1> HIDE DEF now, later
<1>8. now + later * x \in Int
  BY <1>6
<1>9. ASSUME NEW y \in Int, x <= y PROVE now + later * x <= now + later * y
  <2>1. later * x \in Int /\ later * y \in Int /\ later * x <= later * y
    BY <1>6, <1>9, ProductMonotone, ProductInt
  <2> QED
    BY <1>6, <2>1
<1> QED
  BY <1>7, <1>8, <1>9

-----------------------------------------------------------------------------
(* The inductive invariant of the optimum: the values of a day are those   *)
(* of its choices, and no other price has a greater one; the path follows  *)
(* the choices once all are made.                                          *)

Priced == [Candidates(request) -> Int]

ValuesAreBest ==
  /\ values \in [(day + 1) .. request.days -> Priced]
  /\ \A m \in Candidates(request) : values[request.days][m] = 0
  /\ \A d \in (day + 1) .. (request.days - 1) : \A m \in Candidates(request) :
       /\ values[d][m] = ValueOf(d, m, choices[d][m])
       /\ \A q \in PricesUpTo(request, m) : ValueOf(d, m, q) <= values[d][m]

PathFollows ==
  /\ day > 0 => Len(path) = 1
  /\ \A k \in 1 .. (Len(path) - 1) : path[k + 1] = choices[k][path[k]]

OptimumInv == PricingInv /\ ChancesOK /\ ValuesAreBest /\ PathFollows

LEMMA InitOptimum == Init => OptimumInv
<1> SUFFICES ASSUME Init PROVE OptimumInv
  OBVIOUS
<1>1. request \in Request /\ day = request.days - 1 /\ path = <<request.current>>
  BY PricingAssumption DEF Init
<1>2. request.days \in Nat /\ request.days >= 1
  BY <1>1 DEF Request
<1>3. ChancesOK
  BY DEF Init, ChancesOK
<1>4. /\ (day + 1) .. request.days = {request.days}
      /\ (day + 1) .. (request.days - 1) = {}
  BY <1>1, <1>2
<1>5. values = [k \in {request.days} |-> [m \in Candidates(request) |-> 0]]
  BY DEF Init
<1>6. ValuesAreBest
  BY <1>4, <1>5 DEF ValuesAreBest, Priced
<1>7. PathFollows
  BY <1>1 DEF PathFollows
<1> QED
  BY <1>3, <1>6, <1>7, InitInv DEF OptimumInv

LEMMA SolveDayOptimum == OptimumInv /\ SolveDay => OptimumInv'
<1> SUFFICES ASSUME OptimumInv, SolveDay PROVE OptimumInv'
  OBVIOUS
<1>1. /\ request \in Request /\ UNCHANGED <<request, chance, path>>
      /\ day >= 1 /\ day' = day - 1
  BY PricingAssumption DEF OptimumInv, PricingInv, TypeOK, SolveDay
<1>2. PICK prices, last, today :
        prices = Candidates(request) /\ last = request.days /\ today = day
  OBVIOUS
<1>3. /\ last \in 1 .. 60 /\ today \in 1 .. (last - 1) /\ today' = today
      /\ DOMAIN choices = (today + 1) .. (last - 1)
  BY <1>1, <1>2 DEF Request, OptimumInv, PricingInv, TypeOK
<1>4. /\ today \in Nat /\ last \in Nat /\ 1 <= today /\ today < last
      /\ today \in today .. (last - 1) /\ today + 1 \in (today + 1) .. last
      /\ last \in (today + 1) .. last
      /\ today .. last = ((today + 1) .. last) \cup {today}
      /\ today .. (last - 1) = ((today + 1) .. (last - 1)) \cup {today}
  BY <1>3
<1>5. PICK best \in [prices -> prices] :
        /\ \A m \in prices : best[m] \in Best(today, m)
        /\ choices' = With(choices, today, best)
        /\ values' = With(values, today, [m \in prices |-> ValueOf(today, m, best[m])])
  BY <1>2 DEF SolveDay
<1>6. /\ values \in [(today + 1) .. last -> [prices -> Int]]
      /\ prices \subseteq Int
  BY <1>1, <1>2, CandidatesFact DEF OptimumInv, ValuesAreBest, Priced
<1>7. PricingInv' /\ ChancesOK' /\ Candidates(request)' = prices
  BY <1>1, <1>2, SolveDayInv DEF OptimumInv, ChancesOK
<1>8. PathFollows'
  <2>1. Len(path) = 1 /\ path' = path
    BY <1>1, <1>2, <1>4 DEF OptimumInv, PathFollows
  <2>2. Len(path') = 1 /\ 1 .. (1 - 1) = {}
    BY <2>1
  <2> QED
    BY <2>2 DEF PathFollows
<1>9. \A d \in (today + 1) .. last : values'[d] = values[d]
  BY <1>3, <1>5, <1>6 DEF With
<1>10. \A m \in prices : values'[today][m] = ValueOf(today, m, best[m])
  <2>1. values'[today] = [m \in prices |-> ValueOf(today, m, best[m])]
    BY <1>5 DEF With
  <2> QED
    BY <2>1
<1>11. \A d \in (today + 1) .. (last - 1) : choices'[d] = choices[d]
  BY <1>3, <1>5 DEF With
<1>12. choices'[today] = best
  BY <1>5 DEF With
<1>13. ASSUME NEW d \in today .. (last - 1), NEW m, NEW p
       PROVE  ValueOf(d, m, p)' = ValueOf(d, m, p)
  <2>1. d + 1 \in (today + 1) .. last
    BY <1>4
  <2>2. values'[d + 1] = values[d + 1]
    BY <1>9, <2>1
  <2> QED
    BY <1>1, <2>2 DEF ValueOf, Revenue, Units
<1>14. ASSUME NEW m \in prices, NEW p \in prices
       PROVE  ValueOf(today, m, p) \in Int
  <2>1. values[today + 1][p] \in Int
    BY <1>4, <1>6
  <2>2. today \in 1 .. (request.days - 1) /\ p \in Candidates(request) /\ ChancesOK
    BY <1>2, <1>3 DEF OptimumInv
  <2> QED
    BY <1>1, <2>1, <2>2, RevenueFact DEF ValueOf
<1>15. ASSUME NEW m \in prices
       PROVE  /\ values'[today][m] = ValueOf(today, m, choices[today][m])'
              /\ \A q \in PricesUpTo(request, m) :
                    ValueOf(today, m, q)' <= values'[today][m]
  <2>1. /\ best[m] \in prices /\ best[m] \in Best(today, m)
        /\ values'[today][m] = ValueOf(today, m, best[m])
    BY <1>5, <1>10
  <2>2. \A q : ValueOf(today, m, q)' = ValueOf(today, m, q)
    BY <1>4, <1>13
  <2>3. ValueOf(today, m, choices[today][m])' = ValueOf(today, m, best[m])'
    BY <1>12 DEF ValueOf, Revenue, Units
  <2>4. ASSUME NEW q \in PricesUpTo(request, m)
        PROVE  ValueOf(today, m, q) <= ValueOf(today, m, best[m])
    <3>1. ValueOf(today, m, best[m]) >= ValueOf(today, m, q)
      BY <2>1 DEF Best
    <3>2. ValueOf(today, m, q) \in Int /\ ValueOf(today, m, best[m]) \in Int
      BY <1>2, <1>14, <2>1 DEF PricesUpTo
    <3> QED
      BY <3>1, <3>2
  <2> QED
    BY <2>1, <2>2, <2>3, <2>4
<1>16. ASSUME NEW d \in today .. (last - 1), NEW m \in prices
       PROVE  /\ values'[d][m] = ValueOf(d, m, choices[d][m])'
              /\ \A q \in PricesUpTo(request, m) : ValueOf(d, m, q)' <= values'[d][m]
  <2>1. CASE d = today
    BY <1>15, <2>1
  <2>2. CASE d # today
    <3>1. d \in (today + 1) .. (last - 1) /\ d \in (today + 1) .. last
      BY <1>4, <2>2
    <3>2. /\ values[d][m] = ValueOf(d, m, choices[d][m])
          /\ \A q \in PricesUpTo(request, m) : ValueOf(d, m, q) <= values[d][m]
      BY <1>2, <3>1 DEF OptimumInv, ValuesAreBest
    <3>3. values'[d] = values[d] /\ choices'[d] = choices[d]
      BY <1>9, <1>11, <3>1
    <3>4. \A p : ValueOf(d, m, p)' = ValueOf(d, m, p)
      BY <1>13
    <3>5. PICK p : p = choices[d][m]
      OBVIOUS
    <3>6. ValueOf(d, m, choices[d][m])' = ValueOf(d, m, p)'
      BY <3>3, <3>5 DEF ValueOf, Revenue, Units
    <3> QED
      BY <3>2, <3>3, <3>4, <3>5, <3>6
  <2> QED
    BY <2>1, <2>2
<1>17. values' \in [today .. last -> [prices -> Int]]
  <2>1. values'[today] = [m \in prices |-> ValueOf(today, m, best[m])]
    BY <1>5 DEF With
  <2>2. \A m \in prices : ValueOf(today, m, best[m]) \in Int
    BY <1>5, <1>14
  <2>3. values'[today] \in [prices -> Int]
    BY <2>1, <2>2
  <2>4. \A d \in today .. last : values'[d] \in [prices -> Int]
    BY <1>4, <1>6, <1>9, <2>3
  <2>5. DOMAIN values' = today .. last /\ values' = [d \in DOMAIN values' |-> values'[d]]
    BY <1>4, <1>5, <1>6 DEF With
  <2> QED
    BY <2>4, <2>5
<1>18. \A m \in prices : values'[last][m] = 0
  BY <1>2, <1>4, <1>9 DEF OptimumInv, ValuesAreBest
<1>19. day' + 1 = today /\ request' = request
  BY <1>1, <1>2, <1>4
<1>20. ValuesAreBest'
  BY <1>2, <1>7, <1>16, <1>17, <1>18, <1>19
  DEF ValuesAreBest, Priced, PricesUpTo
<1> QED
  BY <1>7, <1>8, <1>20 DEF OptimumInv

LEMMA FollowDayOptimum == OptimumInv /\ FollowDay => OptimumInv'
<1> SUFFICES ASSUME OptimumInv, FollowDay PROVE OptimumInv'
  OBVIOUS
<1>1. UNCHANGED <<request, day, chance, values, choices>> /\ day = 0
  BY DEF FollowDay
<1>2. PricingInv'
  BY FollowDayInv DEF OptimumInv
<1>3. ChancesOK' /\ ValuesAreBest'
  BY <1>1 DEF OptimumInv, ChancesOK, ValuesAreBest, Priced, ValueOf, Revenue, Units
<1> DEFINE last == Len(path)
           next == choices[last][path[last]]
<1>4. /\ path \in Seq(Candidates(request)) /\ last \in Nat /\ last >= 1
      /\ request \in Request
  BY PricingAssumption DEF OptimumInv, PricingInv, TypeOK
<1>5. /\ Len(path') = last + 1 /\ path'[last + 1] = next
      /\ \A k \in 1 .. last : path'[k] = path[k]
  BY <1>4 DEF FollowDay
<1>6. \A k \in 1 .. (last - 1) : path[k + 1] = choices[k][path[k]]
  BY DEF OptimumInv, PathFollows
<1> HIDE DEF last
<1>7. ASSUME NEW k \in 1 .. last PROVE path'[k + 1] = choices[k][path'[k]]
  <2>1. CASE k = last
    BY <1>4, <1>5, <2>1
  <2>2. CASE k # last
    <3>1. k \in 1 .. (last - 1) /\ k + 1 \in 1 .. last
      BY <1>4, <2>2
    <3> QED
      BY <1>5, <1>6, <3>1
  <2> QED
    BY <2>1, <2>2
<1>8. PathFollows'
  BY <1>1, <1>4, <1>5, <1>7 DEF PathFollows
<1> QED
  BY <1>2, <1>3, <1>8 DEF OptimumInv

LEMMA OptimumInvariant == Spec => []OptimumInv
<1>1. ASSUME OptimumInv, UNCHANGED vars PROVE OptimumInv'
  BY <1>1 DEF OptimumInv, PricingInv, TypeOK, ChoicesFall, NeverRises, ChancesOK,
     ValuesAreBest, Priced, PathFollows, ValueOf, Revenue, Units, vars
<1>2. OptimumInv /\ [Next]_vars => OptimumInv'
  BY SolveDayOptimum, FollowDayOptimum, <1>1 DEF Next
<1> QED
  BY InitOptimum, <1>2, PTL DEF Spec

-----------------------------------------------------------------------------
(* What a path earns, and that no path earns more than the values say *)

(* f is what path p earns from each day on. *)
Earnings(p, f) ==
  f = [d \in 1 .. request.days |->
         IF d = request.days THEN 0 ELSE Revenue(d, p[d + 1], f[d + 1])]

LEMMA EarningsExist ==
  ASSUME request \in Request, NEW p
  PROVE  \E f : Earnings(p, f)
<1>1. PICK n : n = request.days
  OBVIOUS
<1>2. n \in Nat /\ n >= 1
  BY <1>1 DEF Request
<1> DEFINE Solves(f, k) ==
             f = [d \in (n - k) .. n |-> IF d = n THEN 0 ELSE Revenue(d, p[d + 1], f[d + 1])]
           S == {k \in 0 .. (n - 1) : \E f : Solves(f, k)}
<1>3. 0 \in S
  <2> DEFINE f == [d \in (n - 0) .. n |-> 0]
  <2>1. Solves(f, 0)
    <3>1. \A d \in (n - 0) .. n : d = n
      BY <1>2
    <3> QED
      BY <3>1
  <2>2. 0 \in 0 .. (n - 1)
    BY <1>2
  <2> HIDE DEF f, Solves
  <2> QED
    BY <2>1, <2>2
<1>4. ASSUME NEW k \in 0 .. (n - 1 - 1), k \in S PROVE k + 1 \in S
  <2>1. PICK f : Solves(f, k)
    BY <1>4
  <2>2. /\ (n - (k + 1)) .. n = ((n - k) .. n) \cup {n - (k + 1)}
        /\ n - (k + 1) \notin (n - k) .. n /\ n - (k + 1) # n
        /\ (n - (k + 1)) + 1 = n - k
        /\ n - k \in (n - k) .. n
        /\ \A d \in (n - k) .. n : d # n => d + 1 \in (n - k) .. n
        /\ k + 1 \in 0 .. (n - 1)
    BY <1>2, <1>4
  <2>3. PICK first : first = n - (k + 1)
    OBVIOUS
  <2> DEFINE g == [d \in first .. n |->
                     IF d = first THEN Revenue(first, p[first + 1], f[first + 1]) ELSE f[d]]
  <2>4. g[first] = Revenue(first, p[first + 1], f[first + 1])
        /\ \A d \in (n - k) .. n : g[d] = f[d]
    BY <2>2, <2>3
  <2>5. \A d \in (n - k) .. n : f[d] = IF d = n THEN 0 ELSE Revenue(d, p[d + 1], f[d + 1])
    BY <2>1
  <2>6. g = [d \in first .. n |-> g[d]]
    OBVIOUS
  <2> HIDE DEF g
  <2>7. ASSUME NEW d \in first .. n
        PROVE  g[d] = IF d = n THEN 0 ELSE Revenue(d, p[d + 1], g[d + 1])
    <3>1. CASE d = first
      <4>1. g[first + 1] = f[first + 1] /\ first # n
        BY <2>2, <2>3, <2>4
      <4> QED
        BY <2>4, <3>1, <4>1
    <3>2. CASE d \in (n - k) .. n
      <4>1. d # n => g[d + 1] = f[d + 1]
        BY <2>2, <2>4, <3>2
      <4> QED
        BY <2>4, <2>5, <3>2, <4>1
    <3> QED
      BY <2>2, <2>3, <3>1, <3>2
  <2>8. Solves(g, k + 1)
    BY <2>3, <2>6, <2>7
  <2> HIDE DEF Solves
  <2> QED
    BY <2>2, <2>8
<1> HIDE DEF S
<1>5. n - 1 \in Nat
  BY <1>2
<1>6. \A k \in 0 .. (n - 1) : k \in S
  BY <1>3, <1>4, <1>5, CountingUp
<1>7. n - 1 \in 0 .. (n - 1) /\ n - (n - 1) = 1
  BY <1>2
<1>8. n - 1 \in S
  BY <1>6, <1>7
<1>9. PICK f : Solves(f, n - 1)
  BY <1>8 DEF S
<1> QED
  BY <1>1, <1>7, <1>9 DEF Earnings

LEMMA EarnedIs ==
  ASSUME request \in Request, NEW p
  PROVE  \E f : Earnings(p, f) /\ Earned(p) = f[1]
<1> DEFINE f == CHOOSE f : f = [d \in 1 .. request.days |->
                 IF d = request.days THEN 0 ELSE Revenue(d, p[d + 1], f[d + 1])]
<1>1. Earnings(p, f)
  BY EarningsExist DEF Earnings
<1>2. Earned(p) = f[1]
  BY DEF Earned
<1> HIDE DEF f
<1> QED
  BY <1>1, <1>2

(* From the last day back: a falling path earns at most the value of the   *)
(* price it has, and the path that follows the choices earns just that.    *)
LEMMA EarnsAtMost ==
  ASSUME OptimumInv, day = 0, NEW p \in FallingPaths, NEW f, Earnings(p, f)
  PROVE  /\ f[1] \in Int /\ f[1] <= values[1][p[1]]
         /\ (\A d \in Days : p[d + 1] = choices[d][p[d]]) => f[1] = values[1][p[1]]
<1>1. request \in Request /\ ChancesOK
  BY PricingAssumption DEF OptimumInv, PricingInv, TypeOK
<1>2. PICK n, prices : n = request.days /\ prices = Candidates(request)
  OBVIOUS
<1>3. n \in Nat /\ n >= 1
  BY <1>1, <1>2 DEF Request
<1>4. /\ p \in [1 .. n -> prices] /\ prices \subseteq Int
      /\ \A d \in 1 .. (n - 1) : p[d + 1] <= p[d]
  BY <1>1, <1>2, CandidatesFact DEF FallingPaths, Falls, Days
<1>5. \A d \in 1 .. n : f[d] = IF d = n THEN 0 ELSE Revenue(d, p[d + 1], f[d + 1])
  BY <1>2 DEF Earnings
<1>6. /\ values \in [1 .. n -> [prices -> Int]]
      /\ \A m \in prices : values[n][m] = 0
      /\ \A d \in 1 .. (n - 1) : \A m \in prices :
           /\ values[d][m] = ValueOf(d, m, choices[d][m])
           /\ \A q \in PricesUpTo(request, m) : ValueOf(d, m, q) <= values[d][m]
  BY <1>2 DEF OptimumInv, ValuesAreBest, Priced
<1> DEFINE Follows == \A d \in Days : p[d + 1] = choices[d][p[d]]
           Agrees(d) == /\ f[d] \in Int /\ f[d] <= values[d][p[d]]
                        /\ Follows => f[d] = values[d][p[d]]
           S == {k \in 0 .. (n - 1) : Agrees(n - k)}
<1>7. 0 \in S
  <2>1. n - 0 = n /\ n \in 1 .. n /\ 0 \in 0 .. (n - 1)
    BY <1>3
  <2>2. f[n] = 0 /\ values[n][p[n]] = 0
    BY <1>4, <1>5, <1>6, <2>1
  <2>3. Agrees(n)
    BY <2>2
  <2> HIDE DEF Agrees
  <2> QED
    BY <2>1, <2>3
<1>8. ASSUME NEW k \in 0 .. (n - 1 - 1), k \in S PROVE k + 1 \in S
  <2>1. PICK d : d = n - (k + 1)
    OBVIOUS
  <2>2. /\ d \in 1 .. (n - 1) /\ d \in 1 .. n /\ d + 1 \in 1 .. n /\ d # n
        /\ n - k = d + 1 /\ k + 1 \in 0 .. (n - 1)
    BY <1>3, <1>8, <2>1
  <2>3. Agrees(d + 1)
    BY <1>8, <2>2
  <2>4. PICK m, q, x, v : m = p[d] /\ q = p[d + 1] /\ x = f[d + 1] /\ v = values[d + 1][q]
    OBVIOUS
  <2>5. /\ m \in prices /\ q \in prices /\ q \in PricesUpTo(request, m)
        /\ v \in Int
    BY <1>2, <1>4, <1>6, <2>2, <2>4 DEF PricesUpTo
  <2>6. /\ x \in Int /\ x <= v /\ (Follows => x = v)
    BY <2>3, <2>4
  <2>7. f[d] = Revenue(d, q, x) /\ ValueOf(d, m, q) = Revenue(d, q, v)
    BY <1>5, <2>2, <2>4 DEF ValueOf
  <2>8. /\ Revenue(d, q, x) \in Int /\ Revenue(d, q, v) \in Int
        /\ Revenue(d, q, x) <= Revenue(d, q, v)
    BY <1>1, <1>2, <2>2, <2>5, <2>6, RevenueFact
  <2>9. ValueOf(d, m, q) <= values[d][m] /\ values[d][m] \in Int
    BY <1>6, <2>2, <2>5
  <2>10. f[d] \in Int /\ f[d] <= values[d][m]
    BY <2>7, <2>8, <2>9
  <2>11. ASSUME Follows PROVE f[d] = values[d][m]
    <3>1. q = choices[d][m]
      BY <1>2, <2>2, <2>4, <2>11 DEF Days
    <3>2. values[d][m] = ValueOf(d, m, q)
      BY <1>6, <2>2, <2>5, <3>1
    <3> QED
      BY <2>6, <2>7, <2>11, <3>2
  <2>12. Agrees(d)
    BY <2>4, <2>10, <2>11
  <2> HIDE DEF Agrees
  <2> QED
    BY <2>1, <2>2, <2>12
<1> HIDE DEF S
<1>9. n - 1 \in Nat
  BY <1>3
<1>10. \A k \in 0 .. (n - 1) : k \in S
  BY <1>7, <1>8, <1>9, CountingUp
<1>11. n - 1 \in 0 .. (n - 1) /\ n - (n - 1) = 1
  BY <1>3
<1>12. Agrees(1)
  BY <1>10, <1>11 DEF S
<1> QED
  BY <1>12

(* The programme finds the greatest revenue: of all paths that start with  *)
(* the current price and never rise, none is expected to earn more than    *)
(* the one that solveDynamicPrice answers, for every request and chance.   *)
THEOREM PathsAreOptimal == Spec => []PathIsOptimal
<1>1. ASSUME OptimumInv, Len(path) = request.days, NEW p \in FallingPaths
      PROVE  Earned(p) <= Earned(path)
  <2>1. /\ request \in Request /\ path \in Seq(Candidates(request))
        /\ day \in 0 .. (request.days - 1)
    BY <1>1, PricingAssumption DEF OptimumInv, PricingInv, TypeOK
  <2>2. request.days \in Nat /\ request.days >= 1
    <3>1. request \in Request
      BY <2>1
    <3> QED
      BY <3>1 DEF Request
  <2>3. day = 0
    BY <1>1, <2>1, <2>2 DEF OptimumInv, PathFollows
  <2>4. path \in FallingPaths
    <3>1. path \in [1 .. request.days -> Candidates(request)]
      BY <1>1, <2>1
    <3> QED
      BY <1>1, <3>1 DEF OptimumInv, PricingInv, NeverRises, FallingPaths, Falls, Days
  <2>5. \A d \in Days : path[d + 1] = choices[d][path[d]]
    BY <1>1 DEF OptimumInv, PathFollows, Days
  <2>6. PICK f : Earnings(p, f) /\ Earned(p) = f[1]
    BY <2>1, EarnedIs
  <2>7. PICK g : Earnings(path, g) /\ Earned(path) = g[1]
    BY <2>1, EarnedIs
  <2>8. f[1] <= values[1][p[1]]
    BY <1>1, <2>3, <2>6, EarnsAtMost
  <2>9. g[1] = values[1][path[1]]
    BY <1>1, <2>3, <2>4, <2>5, <2>7, EarnsAtMost
  <2>10. p[1] = path[1]
    BY <2>4 DEF FallingPaths
  <2> QED
    BY <2>6, <2>7, <2>8, <2>9, <2>10
<1>2. OptimumInv => PathIsOptimal
  BY <1>1 DEF PathIsOptimal
<1> QED
  BY <1>2, OptimumInvariant, PTL
=============================================================================
