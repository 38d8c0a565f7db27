------------------------------ MODULE MCPricing -----------------------------
(***************************************************************************)
(* Requests for TLC, chosen so that there are few candidate prices and     *)
(* every case of the minimum occurs: given or not, a market floor below or *)
(* above the current price, collectible or not, below 100, and a current   *)
(* price that rounds up, down or to itself.                                *)
(***************************************************************************)
EXTENDS Pricing, FiniteSets

Ask(current, minimum, low, rare, days) ==
  [current |-> current, minimum |-> minimum, low |-> low, high |-> low + 100,
   rare |-> rare, days |-> days]

ThreeDays == {Ask(current, minimum, 150, FALSE, 3) :
                current \in {180, 230}, minimum \in {0, 100, 150}}

TwoDays == {Ask(current, minimum, low, rare, 2) :
              current \in {60, 190, 240, 1030}, minimum \in {0, 100, 240, 1000},
              low \in {120, 180, 300, 1200}, rare \in BOOLEAN}

(* At most this many candidates, to keep the tables of chances few. *)
MCRequests == {r \in ThreeDays : Cardinality(Candidates(r)) <= 4}
              \cup {r \in TwoDays : Cardinality(Candidates(r)) <= 5}

AtMinimum == {Ask(1040, 1040, 900, FALSE, 2)}
=============================================================================
