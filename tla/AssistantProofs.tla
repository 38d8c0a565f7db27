-------------------------- MODULE AssistantProofs ---------------------------
(***************************************************************************)
(* What is answered with a price, for every text and whatever Gemini says: *)
(* the heuristics suggest a price in its range, and the floor under        *)
(* Gemini's price for a collectible item holds and leaves it in its range. *)
(***************************************************************************)
EXTENDS Assistant, TLAPS

-----------------------------------------------------------------------------
(* Rounding *)

LEMMA RoundPriceInt ==
  ASSUME NEW p \in Int
  PROVE  RoundPrice(p) \in Int /\ RoundPrice(p) >= 100
  BY DEF RoundPrice, Larger

(* A rounded price is not rounded again. *)
LEMMA RoundPriceIdempotent ==
  ASSUME NEW p \in Int
  PROVE  RoundPrice(RoundPrice(p)) = RoundPrice(p)
  BY DEF RoundPrice, Larger

LEMMA RoundPriceMonotone ==
  ASSUME NEW p \in Int, NEW q \in Int, p <= q
  PROVE  RoundPrice(p) <= RoundPrice(q)
  BY DEF RoundPrice, Larger

LEMMA RoundPriceNear ==
  ASSUME NEW p \in Int, p >= 100
  PROVE  RoundPrice(p) >= p - 50 /\ RoundPrice(p) <= p + 50
  BY DEF RoundPrice, Larger

-----------------------------------------------------------------------------
(* A suggestion of the heuristics *)

Suggestions == [suggested : Int, low : Int, high : Int, days : Int]

LEMMA PercentInt ==
  ASSUME NEW n \in Int, NEW p \in Nat
  PROVE  Percent(n, p) \in Int
<1>1. n * p \in Int
  OBVIOUS
<1> QED
  BY <1>1 DEF Percent

(* The range of the market is around its price, for every price. *)
LEMMA MarketInRange ==
  ASSUME NEW price \in Int, NEW days \in Int, NEW rare \in BOOLEAN
  PROVE  /\ Market(price, days, rare) \in Suggestions
         /\ InItsRange(Market(price, days, rare))
         /\ Market(price, days, rare).suggested = RoundPrice(price)
         /\ Market(price, days, rare).days = days
<1> DEFINE r == RoundPrice(price)
           below == Percent(r, IF rare THEN 88 ELSE 85)
           above == Percent(r, IF rare THEN 128 ELSE 115)
<1>1. r \in Int /\ r >= 100 /\ RoundPrice(r) = r
  BY RoundPriceInt, RoundPriceIdempotent
<1>2. below \in Int /\ below <= r
  BY <1>1 DEF Percent
<1>3. above \in Int /\ above >= r
  BY <1>1 DEF Percent
<1>4. RoundPrice(below) \in Int /\ RoundPrice(below) <= r
  BY <1>1, <1>2, RoundPriceInt, RoundPriceMonotone
<1>5. RoundPrice(above) \in Int /\ r <= RoundPrice(above)
  BY <1>1, <1>3, RoundPriceInt, RoundPriceMonotone
<1>6. Market(price, days, rare) =
        [suggested |-> r, low |-> RoundPrice(below), high |-> RoundPrice(above), days |-> days]
  BY DEF Market
<1> HIDE DEF r, below, above
<1> QED
  BY <1>1, <1>4, <1>5, <1>6 DEF InItsRange, Suggestions, r

(* The multiplier is from 100 to 185 per cent, whatever is in the text. *)
LEMMA MultiplierRange ==
  ASSUME NEW q \in Query
  PROVE  Multiplier(q) \in 100 .. 185
<1>1. q.risks \in 0 .. 10 /\ q.condition \in Nat \ {0} /\ q.sought \in BOOLEAN
  BY DEF Query
<1>2. Score(q) \in Int
  BY <1>1 DEF Score, Weight
<1>3. Cap(q) \in {135, 155, 185}
  BY <1>1 DEF Cap
<1> QED
  BY <1>2, <1>3 DEF Multiplier, Larger, Smaller

LEMMA ProductGrows ==
  ASSUME NEW a \in Nat, NEW b \in Nat, NEW c \in Nat, NEW d \in Nat, a >= c, b >= d
  PROVE  a * b \in Nat /\ a * b >= c * d
<1>1. a * b >= c * b
  OBVIOUS
<1>2. c * b >= c * d
  OBVIOUS
<1> QED
  BY <1>1, <1>2

(* The heuristics suggest at least 900, in a range around it. *)
LEMMA HeuristicsInRange ==
  ASSUME NEW q \in Query, NEW m \in Heuristics(q)
  PROVE  /\ m \in Suggestions
         /\ InItsRange(m)
         /\ m.suggested >= 900
         /\ m.days \in 1 .. 60
<1>1. q.base \in Nat /\ q.base >= 1800 /\ q.condition \in Nat /\ q.days \in 1 .. 60
      /\ Rare(q) \in BOOLEAN
  BY DEF Query, BasePrices, Rare
<1> DEFINE condition == Larger(q.condition, 50)
           amount == (q.base * condition) \div 80
           share == DayShare(q.days, Rare(q))
<1>2. amount \in Nat /\ amount >= 1125
  <2>1. condition \in Nat /\ condition >= 50
    BY <1>1 DEF Larger
  <2> HIDE DEF condition
  <2>2. q.base * condition \in Nat /\ q.base * condition >= 1800 * 50
    BY <1>1, <2>1, ProductGrows
  <2> QED
    BY <2>2
<1>3. share \in Nat /\ share >= 85
  BY <1>1 DEF DayShare
<1> HIDE DEF amount, share
<1>4. PICK price \in Truncated(amount, Multiplier(q)) :
        m = Market(Percent(price, share), q.days, Rare(q))
  BY DEF Heuristics, amount, share, condition
<1>5. price \in Nat /\ price >= 1124
  <2>1. Multiplier(q) \in Nat /\ Multiplier(q) >= 100
    BY MultiplierRange
  <2>2. amount * Multiplier(q) \in Nat /\ amount * Multiplier(q) >= 1125 * 100
    BY <1>2, <2>1, ProductGrows
  <2> QED
    BY <2>2 DEF Truncated
<1>6. price * share \in Nat /\ price * share >= 1124 * 85
  BY <1>3, <1>5, ProductGrows
<1>7. Percent(price, share) \in Int /\ Percent(price, share) >= 950
  BY <1>6 DEF Percent
<1>8. RoundPrice(Percent(price, share)) >= 900
  <2> DEFINE p == Percent(price, share)
  <2>1. p \in Int /\ p >= 950
    BY <1>7
  <2> HIDE DEF p
  <2>2. RoundPrice(p) \in Int /\ RoundPrice(p) >= p - 50
    BY <2>1, RoundPriceInt, RoundPriceNear
  <2>3. RoundPrice(p) >= 900
    BY <2>1, <2>2
  <2> QED
    BY <2>3 DEF p
<1> QED
  BY <1>1, <1>4, <1>7, <1>8, MarketInRange

-----------------------------------------------------------------------------
(* More signals or more time, and no lower price *)

LEMMA WeightsCount ==
  \A s \in DOMAIN Weight : Weight[s] \in Nat
  BY DEF Weight

LEMMA RareBoolean ==
  ASSUME NEW q \in Query
  PROVE  Rare(q) \in BOOLEAN
  BY DEF Rare

LEMMA DayShareGrows ==
  ASSUME NEW d \in 1 .. 60, NEW e \in 1 .. 60, d <= e,
         NEW a \in BOOLEAN, NEW b \in BOOLEAN, a => b
  PROVE  DayShare(d, a) \in 85 .. 110 /\ DayShare(d, a) <= DayShare(e, b)
  BY DEF DayShare

LEMMA DayShareRange ==
  ASSUME NEW d \in 1 .. 60, NEW a \in BOOLEAN
  PROVE  DayShare(d, a) \in 85 .. 110
  BY DEF DayShare

LEMMA PercentGrows ==
  ASSUME NEW n \in Nat, NEW m \in Nat, NEW p \in Nat, NEW r \in Nat, n <= m, p <= r
  PROVE  Percent(n, p) \in Nat /\ Percent(n, p) <= Percent(m, r)
<1>1. n * p \in Nat /\ m * r \in Nat /\ n * p <= m * r
  BY ProductGrows
<1>2. PICK x, y : x = n * p /\ y = m * r
  OBVIOUS
<1>3. x \div 100 \in Nat /\ x \div 100 <= y \div 100
  BY <1>1, <1>2
<1> QED
  BY <1>2, <1>3 DEF Percent

(* A signal counts for the score, and never against it. *)
LEMMA ScoreGrows ==
  ASSUME NEW q \in Query, NEW r \in Query,
         q.signals \subseteq r.signals, q.risks = r.risks
  PROVE  Score(q) \in Int /\ Score(r) \in Int /\ Score(q) <= Score(r)
<1> DEFINE Points(x, s) == IF s \in x.signals THEN Weight[s] ELSE 0
<1>1. \A s \in DOMAIN Weight :
        Points(q, s) \in Nat /\ Points(r, s) \in Nat /\ Points(q, s) <= Points(r, s)
  BY WeightsCount
<1>2. {"vintage", "era", "discontinued", "limited", "early", "customShop", "madeIn",
       "scarce", "model", "brand"} \subseteq DOMAIN Weight
  BY DEF Weight
<1>3. \A x \in {q, r} :
        Score(x) = Points(x, "vintage") + Points(x, "era") + Points(x, "discontinued")
                   + Points(x, "limited") + Points(x, "early") + Points(x, "customShop")
                   + Points(x, "madeIn") + Points(x, "scarce") + Points(x, "model")
                   + Points(x, "brand") - 8 * x.risks
  BY DEF Score
<1>4. q.risks \in Nat
  BY DEF Query
<1> HIDE DEF Points
<1> QED
  BY <1>1, <1>2, <1>3, <1>4

LEMMA MultiplierGrows ==
  ASSUME NEW q \in Query, NEW r \in Query,
         q.signals \subseteq r.signals, q.risks = r.risks,
         q.sought = r.sought, q.condition = r.condition
  PROVE  Multiplier(q) <= Multiplier(r)
<1>1. Score(q) \in Int /\ Score(r) \in Int /\ Score(q) <= Score(r)
  BY ScoreGrows
<1>2. Cap(q) = Cap(r) /\ Cap(q) \in {135, 155, 185}
  BY DEF Cap
<1> QED
  BY <1>1, <1>2 DEF Multiplier, Larger, Smaller

(* What is cut off a product at worst *)
Least(amount, factor) ==
  IF factor # 100 /\ (amount * factor) % 100 = 0
  THEN (amount * factor) \div 100 - 1
  ELSE (amount * factor) \div 100

LEMMA LeastOfTruncated ==
  ASSUME NEW amount \in Nat, amount >= 100, NEW factor \in 100 .. 185
  PROVE  /\ Least(amount, factor) \in Truncated(amount, factor)
         /\ Least(amount, factor) \in Nat
         /\ \A n \in Truncated(amount, factor) : n \in Nat /\ Least(amount, factor) <= n
<1>1. PICK x : x = amount * factor
  OBVIOUS
<1>2. x \in Nat /\ x >= 100
  BY <1>1, ProductGrows
<1>3. Truncated(amount, factor) =
        {x \div 100} \cup {n \in {x \div 100 - 1} : factor # 100 /\ x % 100 = 0}
  BY <1>1 DEF Truncated
<1>4. Least(amount, factor) =
        IF factor # 100 /\ x % 100 = 0 THEN x \div 100 - 1 ELSE x \div 100
  BY <1>1 DEF Least
<1> QED
  BY <1>2, <1>3, <1>4

(* Factors that differ are a whole unit apart after the division, which is *)
(* as much as the cut may cost.                                            *)
LEMMA LeastGrows ==
  ASSUME NEW amount \in Nat, amount >= 100,
         NEW f \in 100 .. 185, NEW g \in 100 .. 185, f <= g
  PROVE  Least(amount, f) <= Least(amount, g)
<1>1. CASE f = g
  BY <1>1, LeastOfTruncated
<1>2. CASE f < g
  <2>1. PICK x, y : x = amount * f /\ y = amount * g
    OBVIOUS
  <2>2. x \in Nat /\ y \in Nat
    BY <2>1, ProductGrows
  <2>3. amount * g = amount * f + amount * (g - f)
    OBVIOUS
  <2>4. amount * (g - f) >= amount * 1
    BY <1>2, ProductGrows
  <2>5. y >= x + 100
    BY <2>1, <2>2, <2>3, <2>4
  <2>6. x \div 100 \in Nat /\ y \div 100 \in Nat /\ y \div 100 >= x \div 100 + 1
    BY <2>2, <2>5
  <2>7. /\ Least(amount, f) \in {x \div 100, x \div 100 - 1}
        /\ Least(amount, g) \in {y \div 100, y \div 100 - 1}
    BY <2>1 DEF Least
  <2> QED
    BY <2>6, <2>7
<1> QED
  BY <1>1, <1>2

(* The amount that the multiplier and the share are applied to *)
Worth(q) == (q.base * Larger(q.condition, 50)) \div 80

LEMMA WorthInRange ==
  ASSUME NEW q \in Query
  PROVE  Worth(q) \in Nat /\ Worth(q) >= 1125
<1>1. q.base \in Nat /\ q.base >= 1800 /\ q.condition \in Nat
  BY DEF Query, BasePrices
<1>2. PICK condition : condition = Larger(q.condition, 50)
  OBVIOUS
<1>3. condition \in Nat /\ condition >= 50
  BY <1>1, <1>2 DEF Larger
<1>4. q.base * condition \in Nat /\ q.base * condition >= 1800 * 50
  BY <1>1, <1>3, ProductGrows
<1> QED
  BY <1>2, <1>4 DEF Worth

Low(rounded, rare) == RoundPrice(Percent(rounded, IF rare THEN 88 ELSE 85))

CheapestPrice(q) ==
  RoundPrice(Percent(Least(Worth(q), Multiplier(q)), DayShare(q.days, Rare(q))))

(* The CHOOSE of NoLess *)
TheCheapest(q) ==
  CHOOSE m \in Heuristics(q) : \A n \in Heuristics(q) : m.suggested <= n.suggested

(* The cheapest suggestion is the one of the price that is cut off most:   *)
(* two suggestions of a text with the same price are the same.             *)
LEMMA CheapestIs ==
  ASSUME NEW q \in Query
  PROVE  /\ TheCheapest(q).suggested = CheapestPrice(q)
         /\ TheCheapest(q).low = Low(CheapestPrice(q), Rare(q))
<1>1. /\ q.days \in 1 .. 60 /\ Rare(q) \in BOOLEAN /\ Multiplier(q) \in 100 .. 185
      /\ Worth(q) \in Nat /\ Worth(q) >= 100
  BY RareBoolean, MultiplierRange, WorthInRange DEF Query
<1> DEFINE share == DayShare(q.days, Rare(q))
           prices == Truncated(Worth(q), Multiplier(q))
           least == Least(Worth(q), Multiplier(q))
           Of(price) == Market(Percent(price, share), q.days, Rare(q))
<1>2. least \in prices /\ least \in Nat /\ \A n \in prices : n \in Nat /\ least <= n
  BY <1>1, LeastOfTruncated
<1>3. share \in 85 .. 110
  BY <1>1, DayShareRange
<1>4. Heuristics(q) = {Of(price) : price \in prices}
  BY DEF Heuristics, Worth
<1> HIDE DEF share, prices, least
<1>5. ASSUME NEW n \in prices
      PROVE  /\ Percent(n, share) \in Nat
             /\ Percent(least, share) <= Percent(n, share)
             /\ Of(n).suggested = RoundPrice(Percent(n, share))
             /\ Of(n).low = Low(RoundPrice(Percent(n, share)), Rare(q))
             /\ Of(n).suggested \in Int
  <2>1. Percent(n, share) \in Nat /\ Percent(least, share) <= Percent(n, share)
    BY <1>2, <1>3, PercentGrows
  <2>2. RoundPrice(Percent(n, share)) \in Int
    BY <2>1, RoundPriceInt
  <2> QED
    BY <2>1, <2>2 DEF Market, Low
<1>6. CheapestPrice(q) = RoundPrice(Percent(least, share))
  BY DEF CheapestPrice, least, share
<1>7. \A n \in prices : CheapestPrice(q) <= Of(n).suggested
  <2> TAKE n \in prices
  <2>1. Percent(least, share) \in Nat /\ Percent(n, share) \in Nat
        /\ Percent(least, share) <= Percent(n, share)
    BY <1>2, <1>5
  <2> QED
    BY <1>5, <1>6, <2>1, RoundPriceMonotone
<1>8. Of(least).suggested = CheapestPrice(q)
  BY <1>2, <1>5, <1>6
<1>9. \E m \in Heuristics(q) : \A n \in Heuristics(q) : m.suggested <= n.suggested
  BY <1>2, <1>4, <1>7, <1>8
<1>10. PICK m : m = TheCheapest(q)
  OBVIOUS
<1>11. m \in Heuristics(q) /\ \A n \in Heuristics(q) : m.suggested <= n.suggested
  BY <1>9, <1>10 DEF TheCheapest
<1>12. PICK p \in prices : m = Of(p)
  BY <1>4, <1>11
<1>13. m.suggested = CheapestPrice(q)
  <2>1. m.suggested <= CheapestPrice(q)
    BY <1>2, <1>4, <1>8, <1>11
  <2>2. CheapestPrice(q) <= m.suggested
    BY <1>7, <1>12
  <2>3. m.suggested \in Int /\ CheapestPrice(q) \in Int
    BY <1>2, <1>5, <1>8, <1>12
  <2> QED
    BY <2>1, <2>2, <2>3
<1>14. m.low = Low(m.suggested, Rare(q))
  BY <1>5, <1>12
<1> QED
  BY <1>10, <1>13, <1>14

(* What makes the price of a text no lower *)
AtLeast(r, q) ==
  /\ r.base = q.base /\ r.risks = q.risks
  /\ r.sought = q.sought /\ r.condition = q.condition
  /\ q.signals \subseteq r.signals
  /\ q.days <= r.days

LEMMA AtLeastPays ==
  ASSUME NEW q \in Query, NEW r \in Query, AtLeast(r, q)
  PROVE  NoLess(q, r)
<1>1. Rare(q) \in BOOLEAN /\ Rare(r) \in BOOLEAN /\ (Rare(q) => Rare(r))
  BY RareBoolean DEF AtLeast, Rare
<1>2. Worth(q) = Worth(r)
  BY DEF Worth, AtLeast
<1> DEFINE lq == Least(Worth(q), Multiplier(q))
           lr == Least(Worth(r), Multiplier(r))
           sq == DayShare(q.days, Rare(q))
           sr == DayShare(r.days, Rare(r))
<1>3. lq \in Nat /\ lr \in Nat /\ lq <= lr
  <2>1. Multiplier(q) \in 100 .. 185 /\ Multiplier(r) \in 100 .. 185
        /\ Multiplier(q) <= Multiplier(r)
    BY MultiplierRange, MultiplierGrows DEF AtLeast
  <2>2. Worth(q) \in Nat /\ Worth(q) >= 100
    BY WorthInRange
  <2> QED
    BY <1>2, <2>1, <2>2, LeastOfTruncated, LeastGrows
<1>4. sq \in 85 .. 110 /\ sr \in 85 .. 110 /\ sq <= sr
  <2>1. q.days \in 1 .. 60 /\ r.days \in 1 .. 60 /\ q.days <= r.days
    BY DEF Query, AtLeast
  <2>2. sq \in 85 .. 110 /\ sq <= sr
    BY <1>1, <2>1, DayShareGrows
  <2>3. sr \in 85 .. 110
    BY <1>1, <2>1, DayShareRange
  <2> QED
    BY <2>2, <2>3
<1>5. CheapestPrice(q) = RoundPrice(Percent(lq, sq))
      /\ CheapestPrice(r) = RoundPrice(Percent(lr, sr))
  BY DEF CheapestPrice
<1> HIDE DEF lq, lr, sq, sr
<1>6. Percent(lq, sq) \in Nat /\ Percent(lr, sr) \in Nat
      /\ Percent(lq, sq) <= Percent(lr, sr)
  <2>1. sq \in Nat /\ sr \in Nat
    BY <1>4
  <2>2. Percent(lr, sr) \in Nat
    BY <1>3, <2>1, PercentGrows
  <2> QED
    BY <1>3, <1>4, <2>1, <2>2, PercentGrows
<1>7. /\ CheapestPrice(q) \in Nat /\ CheapestPrice(r) \in Nat
      /\ CheapestPrice(q) <= CheapestPrice(r)
  BY <1>5, <1>6, RoundPriceInt, RoundPriceMonotone
<1>8. Low(CheapestPrice(q), Rare(q)) <= Low(CheapestPrice(r), Rare(r))
  <2> DEFINE pq == IF Rare(q) THEN 88 ELSE 85
             pr == IF Rare(r) THEN 88 ELSE 85
  <2>1. pq \in Nat /\ pr \in Nat /\ pq <= pr
    BY <1>1
  <2>2. Low(CheapestPrice(q), Rare(q)) = RoundPrice(Percent(CheapestPrice(q), pq))
        /\ Low(CheapestPrice(r), Rare(r)) = RoundPrice(Percent(CheapestPrice(r), pr))
    BY DEF Low
  <2> HIDE DEF pq, pr
  <2>3. Percent(CheapestPrice(q), pq) \in Nat /\ Percent(CheapestPrice(r), pr) \in Nat
        /\ Percent(CheapestPrice(q), pq) <= Percent(CheapestPrice(r), pr)
    <3>1. Percent(CheapestPrice(r), pr) \in Nat
      BY <1>7, <2>1, PercentGrows
    <3> QED
      BY <1>7, <2>1, <3>1, PercentGrows
  <2> QED
    BY <2>2, <2>3, RoundPriceMonotone
<1>9. NoLess(q, r) <=> /\ TheCheapest(q).suggested <= TheCheapest(r).suggested
                       /\ TheCheapest(q).low <= TheCheapest(r).low
  BY DEF NoLess, TheCheapest
<1> QED
  BY <1>7, <1>8, <1>9, CheapestIs

LEMMA SignalPays ==
  ASSUME NEW q \in Query, NEW s \in DOMAIN Weight
  PROVE  NoLess(q, [q EXCEPT !.signals = @ \cup {s}])
<1>1. PICK r : r = [q EXCEPT !.signals = @ \cup {s}]
  OBVIOUS
<1>2. r \in Query /\ AtLeast(r, q)
  BY <1>1 DEF Query, AtLeast
<1> QED
  BY <1>1, <1>2, AtLeastPays

LEMMA TimePays ==
  ASSUME NEW q \in Query, NEW d \in 1 .. 60, d >= q.days
  PROVE  NoLess(q, [q EXCEPT !.days = d])
<1>1. PICK r : r = [q EXCEPT !.days = d]
  OBVIOUS
<1>2. r \in Query /\ AtLeast(r, q)
  BY <1>1 DEF Query, AtLeast
<1> QED
  BY <1>1, <1>2, AtLeastPays

-----------------------------------------------------------------------------
(* applyCollectiblePriceFloor *)

LEMMA RaisedInt ==
  ASSUME NEW amount \in Int, NEW floor \in Int
  PROVE  /\ Raised(amount, floor) \in Int
         /\ Raised(amount, floor) >= floor \/ Raised(amount, floor) = RoundPrice(floor)
  BY RoundPriceInt DEF Raised

(* Whatever Gemini suggests for a collectible item becomes a price above   *)
(* the floor, but for its rounding, and a range around the price.          *)
LEMMA FlooredInRange ==
  ASSUME NEW s \in Suggestions, NEW m \in Suggestions, m.suggested >= 900
  PROVE  /\ Floored(s, m, TRUE) \in Suggestions
         /\ InItsRange(Floored(s, m, TRUE))
         /\ Floored(s, m, TRUE).days = s.days
         /\ Floored(s, m, TRUE).suggested > 0
         /\ Floored(s, m, TRUE).suggested >=
              Smaller(Percent(m.suggested, 85), RoundPrice(Percent(m.suggested, 85)))
<1>1. /\ s.suggested \in Int /\ s.low \in Int /\ s.high \in Int /\ s.days \in Int
      /\ m.suggested \in Int /\ m.low \in Int /\ m.high \in Int
  BY DEF Suggestions
<1> DEFINE floor == Percent(m.suggested, 85)
           price == Raised(s.suggested, floor)
           low == Raised(s.low, Percent(m.low, 85))
           high == Raised(s.high, Percent(m.high, 85))
<1>2. floor \in Int /\ floor >= 765
  BY <1>1 DEF Percent
<1>3. low \in Int /\ high \in Int
  BY <1>1, PercentInt, RaisedInt
<1>4. RoundPrice(floor) \in Int /\ RoundPrice(floor) >= 715
  BY <1>2, RoundPriceInt, RoundPriceNear
<1> HIDE DEF floor
<1>5. price \in Int /\ price >= 715 /\ price >= Smaller(floor, RoundPrice(floor))
  <2>1. /\ price \in Int
        /\ price >= floor \/ price = RoundPrice(floor)
    BY <1>1, <1>2, RaisedInt
  <2> HIDE DEF price
  <2> QED
    BY <1>2, <1>4, <2>1 DEF Smaller
<1> HIDE DEF price, low, high
<1>6. RoundPrice(Percent(price, 85)) \in Int /\ RoundPrice(Percent(price, 85)) <= price
  <2>1. Percent(price, 85) \in Int /\ Percent(price, 85) >= 100
        /\ Percent(price, 85) + 50 <= price
    BY <1>5 DEF Percent
  <2> QED
    BY <1>5, <2>1, RoundPriceInt, RoundPriceNear
<1>7. RoundPrice(Percent(price, 115)) \in Int /\ price <= RoundPrice(Percent(price, 115))
  <2>1. Percent(price, 115) \in Int /\ Percent(price, 115) >= 100
        /\ Percent(price, 115) - 50 >= price
    BY <1>5 DEF Percent
  <2> QED
    BY <1>5, <2>1, RoundPriceInt, RoundPriceNear
<1>8. Floored(s, m, TRUE) =
        [suggested |-> price,
         low |-> IF low > price THEN RoundPrice(Percent(price, 85)) ELSE low,
         high |-> IF high < price THEN RoundPrice(Percent(price, 115)) ELSE high,
         days |-> s.days]
  BY DEF Floored, floor, price, low, high
<1> DEFINE below == RoundPrice(Percent(price, 85))
           above == RoundPrice(Percent(price, 115))
           newLow == IF low > price THEN below ELSE low
           newHigh == IF high < price THEN above ELSE high
<1>9. newLow \in Int /\ newHigh \in Int /\ newLow <= price /\ price <= newHigh
  <2> HIDE DEF below, above
  <2>1. below \in Int /\ below <= price /\ above \in Int /\ price <= above
    BY <1>6, <1>7 DEF below, above
  <2> QED
    BY <1>3, <1>5, <2>1
<1>10. Floored(s, m, TRUE) =
         [suggested |-> price, low |-> newLow, high |-> newHigh, days |-> s.days]
  BY <1>8
<1> HIDE DEF newLow, newHigh
<1>11. PICK f : f = Floored(s, m, TRUE)
  OBVIOUS
<1>12. f = [suggested |-> price, low |-> newLow, high |-> newHigh, days |-> s.days]
  BY <1>10, <1>11
<1>13. /\ f \in Suggestions
       /\ f.low <= f.suggested
       /\ f.suggested <= f.high
       /\ f.days = s.days
       /\ f.suggested = price
  BY <1>1, <1>5, <1>9, <1>12 DEF Suggestions
<1>14. f.suggested > 0
  BY <1>5, <1>13
<1>15. f.suggested >= Smaller(Percent(m.suggested, 85), RoundPrice(Percent(m.suggested, 85)))
  BY <1>5, <1>13 DEF floor
<1>16. InItsRange(f)
  BY <1>13 DEF InItsRange
<1> QED
  BY <1>11, <1>13, <1>14, <1>15, <1>16

-----------------------------------------------------------------------------
(* The prices that are answered *)

PriceType ==
  [suggested : Nat \ {0}, low : Int, high : Int, days : Nat \ {0}]

KeepsFloor(q, price) ==
  /\ InItsRange(price)
  /\ \E market \in Heuristics(q) :
       price.suggested >= Smaller(Percent(market.suggested, 85),
                                  RoundPrice(Percent(market.suggested, 85)))

LEMMA HeuristicsKeepFloor ==
  ASSUME NEW q \in Query, NEW m \in Heuristics(q)
  PROVE  m \in PriceType /\ KeepsFloor(q, m)
<1>1. /\ m \in Suggestions
      /\ InItsRange(m)
      /\ m.suggested >= 900
      /\ m.days \in 1 .. 60
  BY HeuristicsInRange
<1>2. m.suggested \in Int /\ Percent(m.suggested, 85) \in Int
      /\ Percent(m.suggested, 85) <= m.suggested
  BY <1>1 DEF Suggestions, Percent
<1>3. RoundPrice(Percent(m.suggested, 85)) \in Int
  BY <1>2, RoundPriceInt
<1>4. m.suggested >= Smaller(Percent(m.suggested, 85), RoundPrice(Percent(m.suggested, 85)))
  BY <1>2, <1>3 DEF Smaller
<1>5. m.days \in Nat \ {0}
  BY <1>1
<1>6. m \in PriceType
  BY <1>1, <1>5 DEF Suggestions, PriceType
<1> QED
  BY <1>1, <1>4, <1>6 DEF KeepsFloor

LEMMA FlooredKeepsFloor ==
  ASSUME NEW q \in Query, NEW m \in Heuristics(q), NEW s \in PriceTexts, Usable(s)
  PROVE  /\ Floored(s, m, Rare(q)) \in PriceType
         /\ Rare(q) => KeepsFloor(q, Floored(s, m, Rare(q)))
<1>1. s \in Suggestions /\ s.suggested > 0 /\ s.days > 0
  <2>1. Amounts \subseteq Int /\ Days \subseteq Int
    BY AssistantAssumption
  <2>2. /\ s = [suggested |-> s.suggested, low |-> s.low, high |-> s.high, days |-> s.days]
        /\ s.suggested \in Amounts /\ s.low \in Amounts /\ s.high \in Amounts
        /\ s.days \in Days
    BY DEF PriceTexts
  <2>3. s.suggested > 0 /\ s.days > 0
    BY <2>2 DEF Usable
  <2> QED
    BY <2>1, <2>2, <2>3 DEF Suggestions
<1>2. m \in Suggestions /\ m.suggested >= 900
  BY HeuristicsInRange
<1>3. CASE Rare(q)
  <2>1. PICK f : f = Floored(s, m, TRUE)
    OBVIOUS
  <2>2. /\ f \in Suggestions
        /\ InItsRange(f)
        /\ f.days = s.days
        /\ f.suggested > 0
        /\ f.suggested >=
             Smaller(Percent(m.suggested, 85), RoundPrice(Percent(m.suggested, 85)))
    BY <1>1, <1>2, <2>1, FlooredInRange
  <2>3. f \in PriceType
    BY <1>1, <2>2 DEF Suggestions, PriceType
  <2>4. KeepsFloor(q, f)
    BY <2>2 DEF KeepsFloor
  <2>5. Rare(q) = TRUE
    BY <1>3 DEF Rare
  <2> QED
    BY <2>1, <2>3, <2>4, <2>5
<1>4. CASE ~Rare(q)
  <2>1. Floored(s, m, Rare(q)) = s
    BY <1>4 DEF Floored
  <2> QED
    BY <1>1, <1>4, <2>1 DEF Suggestions, PriceType
<1> QED
  BY <1>3, <1>4

-----------------------------------------------------------------------------
(* The answers of a call *)

AnswerType ==
  [status : {0, 200, 404, 502},
   error : {"none", "timeout", "context", "provider", "response", "absent"},
   advice : AdviceType]

(* The price of an answer, if it has one, keeps the floor. *)
Sound(a, q) ==
  a.advice.of = "price" /\ (Rare(q) \/ ~configured) => KeepsFloor(q, a.advice.price)

Plain(a) == a \in AnswerType /\ a.advice.of # "price"

LEMMA PlainAnswer ==
  ASSUME NEW status \in {0, 200, 404, 502},
         NEW error \in {"none", "timeout", "context", "provider", "response",
                        "absent"},
         NEW advice \in AdviceType, advice.of # "price"
  PROVE  Plain(Answer(status, error, advice))
<1>1. PICK a : a = Answer(status, error, advice)
  OBVIOUS
<1>2. a = [status |-> status, error |-> error, advice |-> advice]
  BY <1>1 DEF Answer
<1>3. a \in AnswerType
  BY <1>2 DEF AnswerType
<1>4. a.advice.of # "price"
  BY <1>2
<1> QED
  BY <1>1, <1>3, <1>4 DEF Plain

LEMMA NoAdvicePlain == NoAdvice \in AdviceType /\ NoAdvice.of # "price"
  BY DEF AdviceType, NoAdvice

LEMMA FailedPlain ==
  ASSUME NEW c, NEW error \in {"timeout", "context", "provider", "response"}
  PROVE  Plain(Failed(c, error))
  BY PlainAnswer, NoAdvicePlain DEF Failed

LEMMA ListingAdvicePlain ==
  ASSUME NEW id \in {0, BagID, UnknownID}, NEW label \in {"none", "bag", "odd"}, NEW n \in Int
  PROVE  Plain(Answer(200, "none", ListingAdvice(id, label, n)))
<1>1. Clamped(n) \in 0 .. 100
  BY DEF Clamped, Larger, Smaller
<1>2. /\ ListingAdvice(id, label, n) \in AdviceType
      /\ ListingAdvice(id, label, n).of # "price"
  BY <1>1 DEF AdviceType, ListingAdvice, LabelOf, IDOf, BagID, OtherID, UnknownID
<1> QED
  BY <1>2, PlainAnswer

LEMMA CheckAdvicePlain ==
  ASSUME NEW risk \in {"low", "watch", "high", "odd"}, NEW n \in 0 .. 3
  PROVE  Plain(Answer(200, "none", CheckAdvice(risk, n)))
  BY DEF Plain, AnswerType, Answer, AdviceType, CheckAdvice, Larger

LEMMA PriceAdviceTyped ==
  ASSUME NEW price \in PriceType
  PROVE  Answer(200, "none", PriceAdvice(price)) \in AnswerType
  BY DEF AnswerType, Answer, AdviceType, PriceAdvice, PriceType

LEMMA PriceAdviceSound ==
  ASSUME NEW q, NEW price, Rare(q) \/ ~configured => KeepsFloor(q, price)
  PROVE  Sound(Answer(200, "none", PriceAdvice(price)), q)
  BY DEF Sound, Answer, PriceAdvice

(* Without Gemini *)
LEMMA CannedSound ==
  ASSUME NEW k \in Kinds, NEW q, k = "price" => q \in Queries, NEW a \in Canned(k, q)
  PROVE  a \in AnswerType /\ Sound(a, q)
<1>1. CASE k = "price"
  <2>1. PICK market \in Heuristics(q) : a = Answer(200, "none", PriceAdvice(market))
    BY <1>1 DEF Canned
  <2>2. market \in PriceType /\ KeepsFloor(q, market)
    BY <1>1, HeuristicsKeepFloor, AssistantAssumption
  <2> QED
    BY <2>1, <2>2, PriceAdviceTyped, PriceAdviceSound
<1>2. CASE k # "price"
  <2>1. \/ a = Answer(200, "none", ListingAdvice(BagID, "bag", 82))
        \/ a = Answer(200, "none", CheckAdvice("low", 2))
        \/ a = Answer(200, "none", CheckAdvice("watch", 3))
        \/ a = Answer(200, "none", NoAdvice)
    BY <1>2 DEF Canned
  <2>2. Plain(a)
    BY <2>1, ListingAdvicePlain, CheckAdvicePlain, PlainAnswer, NoAdvicePlain
  <2> QED
    BY <2>2 DEF Plain, Sound
<1> QED
  BY <1>1, <1>2

(* What Gemini's text becomes *)
LEMMA ParsedSound ==
  ASSUME NEW c \in Calls, configured = TRUE, kind[c] = "price" => query[c] \in Queries,
         NEW a \in Parsed(c)
  PROVE  a \in AnswerType /\ Sound(a, query[c])
<1>1. CASE kind[c] = "price" /\ a # Failed(c, "response")
  <2>1. PICK s \in {t \in PriceTexts : Usable(t)}, market \in Heuristics(query[c]) :
          a = Answer(200, "none", PriceAdvice(Floored(s, market, Rare(query[c]))))
    BY <1>1 DEF Parsed
  <2>2. query[c] \in Query
    BY <1>1, AssistantAssumption
  <2>3. PICK f : f = Floored(s, market, Rare(query[c]))
    OBVIOUS
  <2>4. f \in PriceType /\ (Rare(query[c]) => KeepsFloor(query[c], f))
    BY <2>2, <2>3, FlooredKeepsFloor
  <2> QED
    BY <2>1, <2>3, <2>4, PriceAdviceTyped, PriceAdviceSound
<1>2. CASE kind[c] # "price" \/ a = Failed(c, "response")
  <2>1. \/ a = Failed(c, "response")
        \/ \E id \in {0, BagID, UnknownID}, label \in {"none", "bag", "odd"}, n \in Scores :
             a = Answer(200, "none", ListingAdvice(id, label, n))
        \/ \E risk \in {"low", "watch", "high", "odd"}, n \in 0 .. 1 :
             a = Answer(200, "none", CheckAdvice(risk, n))
        \/ a = Answer(200, "none", NoAdvice)
    BY <1>2 DEF Parsed
  <2>2. Scores \subseteq Int /\ 0 .. 1 \subseteq 0 .. 3
    BY AssistantAssumption
  <2>3. Plain(a)
    BY <2>1, <2>2, FailedPlain, ListingAdvicePlain, CheckAdvicePlain, PlainAnswer, NoAdvicePlain
  <2> QED
    BY <2>3 DEF Plain, Sound
<1> QED
  BY <1>1, <1>2

-----------------------------------------------------------------------------
(* The inductive invariant *)

Stages ==
  {"idle", "read", "reading", "image", "send", "gemini", "body", "refusal", "answered"}

WithGemini == {"image", "send", "gemini", "body", "refusal"}

CallsOK ==
  /\ configured \in BOOLEAN
  /\ kind \in [Calls -> Kinds \cup {"none"}]
  /\ query \in [Calls -> Queries \cup {NoQuery}]
  /\ stage \in [Calls -> Stages]
  /\ \A c \in Calls : kind[c] = "price" => query[c] \in Queries
  /\ \A c \in Calls : stage[c] \in WithGemini => configured

ContextsOK ==
  /\ ctx \in [Calls -> {"live", "deadline", "canceled"}]
  /\ readers \subseteq Calls
  /\ writer \in {"none", "waiting", "holding"}

AnswersOK ==
  /\ answer \in [Calls -> AnswerType]
  /\ \A c \in Calls : stage[c] # "answered" => Plain(answer[c])
  /\ \A c \in Calls : Sound(answer[c], query[c])

(* Only a call that has been answered has a price, and its text stays;     *)
(* Gemini is asked only where it is configured.                            *)
AInv == CallsOK /\ ContextsOK /\ AnswersOK

-----------------------------------------------------------------------------
LEMMA NoAnswerPlain == Plain(NoAnswer)
  BY PlainAnswer, NoAdvicePlain DEF NoAnswer

LEMMA PlainSound ==
  ASSUME NEW a, NEW q, Plain(a)
  PROVE  a \in AnswerType /\ Sound(a, q)
  BY DEF Plain, Sound

(* A call that is answered, with its text or with a new one *)
LEMMA AnsweredKeeps ==
  ASSUME AInv, NEW c \in Calls, NEW a \in AnswerType, NEW q,
         Sound(a, q), Answered(c, a),
         configured' = configured, query' = [query EXCEPT ![c] = q]
  PROVE  AnswersOK'
<1>1. answer' \in [Calls -> AnswerType] /\ answer' = [answer EXCEPT ![c] = a]
  BY DEF AInv, AnswersOK, Answered
<1>2. \A d \in Calls : stage'[d] # "answered" => Plain(answer'[d])
  BY <1>1 DEF AInv, AnswersOK, CallsOK, Answered, Goes, Plain
<1>3. \A d \in Calls : Sound(answer'[d], query'[d])
  BY <1>1 DEF AInv, AnswersOK, CallsOK
<1>4. \A d \in Calls : Sound(answer[d], query[d])' <=> Sound(answer'[d], query'[d])
  BY DEF Sound
<1> QED
  BY <1>1, <1>2, <1>3, <1>4 DEF AnswersOK, Plain

(* A call that goes on *)
LEMMA UnansweredKeeps ==
  ASSUME AInv, NEW c \in Calls, NEW to, NEW q,
         stage[c] # "answered", Goes(c, to), UNCHANGED <<configured, answer>>,
         query' = [query EXCEPT ![c] = q]
  PROVE  AnswersOK'
<1>1. Plain(answer[c])
  BY DEF AInv, AnswersOK
<1>2. \A d \in Calls : Sound(answer[d], query'[d])
  BY <1>1, PlainSound DEF AInv, AnswersOK, CallsOK
<1>3. \A d \in Calls : Sound(answer[d], query[d])' <=> Sound(answer[d], query'[d])
  BY DEF Sound
<1>4. \A d \in Calls : stage'[d] # "answered" => Plain(answer[d])
  BY <1>1 DEF AInv, AnswersOK, CallsOK, Goes
<1> QED
  BY <1>2, <1>3, <1>4 DEF AInv, AnswersOK, Plain

-----------------------------------------------------------------------------
(* The steps *)

LEMMA AskKeeps ==
  ASSUME AInv, NEW c \in Calls, NEW k \in Kinds, NEW q \in Queries \cup {NoQuery},
         Ask(c, k, q)
  PROVE  AInv'
<1>1. stage[c] = "idle" /\ (k = "price" => q \in Queries)
  BY DEF Ask
<1>2. kind' = [kind EXCEPT ![c] = k] /\ query' = [query EXCEPT ![c] = q]
      /\ configured' = configured
  BY DEF Ask
<1>3. \/ \E to \in Stages :
           (to \in WithGemini => configured) /\ Goes(c, to) /\ UNCHANGED answer
      \/ \E a \in Canned(k, q) : Answered(c, a)
  BY DEF Ask, Stages, WithGemini
<1>4. CallsOK'
  BY <1>1, <1>2, <1>3 DEF AInv, CallsOK, Goes, Answered, Stages, WithGemini
<1>5. ContextsOK'
  BY DEF AInv, ContextsOK, Ask
<1>6. AnswersOK'
  <2>1. CASE \E to \in Stages : Goes(c, to) /\ UNCHANGED answer
    BY <1>1, <1>2, <2>1, UnansweredKeeps
  <2>2. CASE \E a \in Canned(k, q) : Answered(c, a)
    BY <1>1, <1>2, <2>2, CannedSound, AnsweredKeeps
  <2> QED
    BY <1>3, <2>1, <2>2
<1> QED
  BY <1>4, <1>5, <1>6 DEF AInv

(* A step of a call that keeps what was asked *)
LEMMA CallStepKeeps ==
  ASSUME AInv, NEW c \in Calls,
         UNCHANGED <<configured, kind, query, ctx, writer>>, readers' \subseteq Calls,
         \/ \E to \in Stages :
              /\ stage[c] # "answered"
              /\ to \in WithGemini => configured
              /\ Goes(c, to)
              /\ UNCHANGED answer
         \/ \E a \in AnswerType : Sound(a, query[c]) /\ Answered(c, a)
  PROVE  AInv'
<1>1. CallsOK'
  BY DEF AInv, CallsOK, Goes, Answered, Stages, WithGemini
<1>2. ContextsOK'
  BY DEF AInv, ContextsOK
<1>3. query' = [query EXCEPT ![c] = query[c]]
  BY DEF AInv, CallsOK
<1>4. AnswersOK'
  BY <1>3, AnsweredKeeps, UnansweredKeeps
<1> QED
  BY <1>1, <1>2, <1>4 DEF AInv

LEMMA ReadKeeps ==
  ASSUME AInv, NEW c \in Calls, NEW found \in BOOLEAN,
         LockForReading(c) \/ ReadItem(c, found)
  PROVE  AInv'
<1>1. readers \subseteq Calls
  BY DEF AInv, ContextsOK
<1>2. CASE LockForReading(c)
  BY <1>1, <1>2, CallStepKeeps DEF LockForReading, Stages, WithGemini
<1>3. CASE ReadItem(c, found)
  <2>1. /\ UNCHANGED <<configured, kind, query, ctx, writer>>
        /\ readers' \subseteq Calls
        /\ stage[c] # "answered"
    BY <1>1, <1>3 DEF ReadItem, Unlocked
  <2>2. \/ \E a : Plain(a) /\ Answered(c, a)
        \/ configured /\ Goes(c, "image") /\ UNCHANGED answer
    <3>1. Plain(Answer(404, "absent", NoAdvice)) /\ Plain(Answer(200, "none", NoAdvice))
      BY PlainAnswer, NoAdvicePlain
    <3>2. \/ Answered(c, Answer(404, "absent", NoAdvice))
          \/ Answered(c, Answer(200, "none", NoAdvice))
          \/ configured /\ Goes(c, "image") /\ UNCHANGED answer
      BY <1>3 DEF ReadItem
    <3> QED
      BY <3>1, <3>2
  <2> QED
    BY <2>1, <2>2, PlainSound, CallStepKeeps DEF Stages
<1> QED
  BY <1>2, <1>3

LEMMA GeminiKeeps ==
  ASSUME AInv, NEW c \in Calls,
         FetchImage(c) \/ Send(c) \/ Respond(c) \/ CutOff(c)
  PROVE  AInv'
<1>1. /\ UNCHANGED <<configured, kind, query, ctx, writer>>
      /\ readers' \subseteq Calls
      /\ stage[c] # "answered"
  BY DEF AInv, ContextsOK, FetchImage, Send, Respond, CutOff
<1>2. configured
  BY DEF AInv, CallsOK, WithGemini, FetchImage, Send, Respond, CutOff
<1>3. \/ \E to \in Stages : Goes(c, to) /\ UNCHANGED answer
      \/ \E error \in {"timeout", "context", "provider", "response"} : Fails(c, error)
  BY DEF FetchImage, Send, Respond, CutOff, Failure, Stages
<1>4. \A error \in {"timeout", "context", "provider", "response"} :
        /\ Failed(c, error) \in AnswerType
        /\ Sound(Failed(c, error), query[c])
  BY FailedPlain, PlainSound
<1> QED
  BY <1>1, <1>2, <1>3, <1>4, CallStepKeeps DEF Fails

LEMMA ReadBodyKeeps ==
  ASSUME AInv, NEW c \in Calls, ReadBody(c)
  PROVE  AInv'
<1>1. /\ UNCHANGED <<configured, kind, query, ctx, writer>>
      /\ readers' \subseteq Calls
  BY DEF AInv, ContextsOK, ReadBody
<1>2. \/ \E a \in Parsed(c) : Answered(c, a)
      \/ \E error \in {"response", "provider"} : Answered(c, Failed(c, error))
  BY DEF ReadBody, Fails
<1>3. (kind[c] = "price" => query[c] \in Queries) /\ configured = TRUE
  BY DEF AInv, CallsOK, ReadBody, WithGemini
<1>4. \E a \in AnswerType : Sound(a, query[c]) /\ Answered(c, a)
  BY <1>2, <1>3, ParsedSound, FailedPlain, PlainSound
<1> QED
  BY <1>1, <1>4, CallStepKeeps

LEMMA ContextKeeps ==
  ASSUME AInv,
         \/ \E c \in Calls : Deadline(c) \/ ClientGone(c)
         \/ WriterStep
         \/ UNCHANGED vars
  PROVE  AInv'
<1>1. UNCHANGED <<configured, kind, query, stage, answer>>
  BY DEF Deadline, ClientGone, WriterStep, WriterAsks, WriterEnters, WriterLeaves,
         vars, callVars
<1>2. ContextsOK'
  BY DEF AInv, ContextsOK, Deadline, ClientGone, WriterStep, WriterAsks, WriterEnters,
         WriterLeaves, vars, callVars
<1>3. CallsOK' /\ AnswersOK'
  BY <1>1 DEF AInv, CallsOK, AnswersOK, Sound, Plain
<1> QED
  BY <1>2, <1>3 DEF AInv

LEMMA AInvInit == Init => AInv
<1> SUFFICES ASSUME Init PROVE AInv
  OBVIOUS
<1>1. Plain(NoAnswer)
  BY NoAnswerPlain
<1>2. answer \in [Calls -> AnswerType]
      /\ \A c \in Calls : Plain(answer[c]) /\ Sound(answer[c], query[c])
  BY <1>1, PlainSound DEF Init
<1>3. CallsOK /\ ContextsOK
  BY DEF Init, CallsOK, ContextsOK, Stages, WithGemini
<1> QED
  BY <1>2, <1>3 DEF AInv, AnswersOK

LEMMA AInvNext == AInv /\ [Next]_vars => AInv'
<1> SUFFICES ASSUME AInv, [Next]_vars PROVE AInv'
  OBVIOUS
<1>1. ASSUME NEW c \in Calls, HandlerStep(c)
      PROVE  AInv'
  <2>1. CASE \E k \in Kinds, q \in Queries \cup {NoQuery} : Ask(c, k, q)
    BY <2>1, AskKeeps
  <2>2. CASE LockForReading(c) \/ \E found \in BOOLEAN : ReadItem(c, found)
    BY <2>2, ReadKeeps
  <2>3. CASE FetchImage(c) \/ Send(c) \/ Respond(c) \/ CutOff(c)
    BY <2>3, GeminiKeeps
  <2>4. CASE ReadBody(c)
    BY <2>4, ReadBodyKeeps
  <2>5. CASE Deadline(c) \/ ClientGone(c)
    BY <2>5, ContextKeeps
  <2> QED
    BY <1>1, <2>1, <2>2, <2>3, <2>4, <2>5 DEF HandlerStep
<1>2. CASE WriterStep \/ UNCHANGED vars
  BY <1>2, ContextKeeps
<1> QED
  BY <1>1, <1>2 DEF Next

LEMMA AInvHolds == Spec => []AInv
<1> QED
  BY AInvInit, AInvNext, PTL DEF Spec

LEMMA AInvImplies == AInv => TypeOK /\ CollectiblesKeepTheirFloor
<1> SUFFICES ASSUME AInv PROVE TypeOK /\ CollectiblesKeepTheirFloor
  OBVIOUS
<1>1. TypeOK
  BY DEF AInv, CallsOK, ContextsOK, AnswersOK, AnswerType, Stages, TypeOK
<1>2. CollectiblesKeepTheirFloor
  BY DEF AInv, AnswersOK, Sound, KeepsFloor, CollectiblesKeepTheirFloor
<1> QED
  BY <1>1, <1>2

(* Whatever Gemini's texts are, what is answered has a known risk with a   *)
(* reason, a score from 0 to 100, or a price and a number of days above 0  *)
(* (suggestPriceWithAI, checkListingWithAI, normalizeAssistCategory).      *)
THEOREM AssistantTypeCorrect == Spec => []TypeOK
  BY AInvHolds, AInvImplies, PTL

(* Whatever Gemini suggests for a collectible item, for every text: the    *)
(* price that is answered is not below the floor that applyCollectible-    *)
(* PriceFloor takes from the heuristic's price, or not below what that     *)
(* floor is rounded to, and lies in the range that is answered with it.    *)
(* So does every price without Gemini.                                     *)
THEOREM FloorKept == Spec => []CollectiblesKeepTheirFloor
  BY AInvHolds, AInvImplies, PTL

(* For every text that a price was asked for: one more signal of a         *)
(* collectible item, or more days to sell it in, and heuristicPrice-       *)
(* Suggestion names no lower price and no lower end of the range, though   *)
(* the product may be cut off one below in the one case and not the other. *)
THEOREM SignalsAndTimeAlwaysPay == Spec => []SignalsAndTimePay
<1>1. AInv => SignalsAndTimePay
  <2> SUFFICES ASSUME AInv, NEW c \in Calls, kind[c] = "price"
               PROVE  /\ \A s \in DOMAIN Weight :
                           NoLess(query[c], [query[c] EXCEPT !.signals = @ \cup {s}])
                      /\ \A d \in {3, 4, 7, 8, 20, 21} :
                           d >= query[c].days =>
                             NoLess(query[c], [query[c] EXCEPT !.days = d])
    BY DEF SignalsAndTimePay
  <2>1. query[c] \in Query
    BY AssistantAssumption DEF AInv, CallsOK
  <2>2. \A d \in {3, 4, 7, 8, 20, 21} : d \in 1 .. 60
    OBVIOUS
  <2> QED
    BY <2>1, <2>2, SignalPays, TimePays
<1> QED
  BY <1>1, AInvHolds, PTL
=============================================================================
