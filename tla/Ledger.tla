------------------------------- MODULE Ledger -------------------------------
(***************************************************************************)
(* What the marketplace promises about sales, seen from the database only: *)
(* a record of sales that survives every crash of the process and every    *)
(* failed or half-reported write.  An item is sold at most once, the       *)
(* parties of a recorded sale never change, and a sale only moves forward  *)
(* (pending, active, done).  Only what was sold under the obsolete title   *)
(* is purged, all of it at once, an item together with its sale.  Market   *)
(* shows that the rows which the handlers write implement this             *)
(* specification.                                                          *)
(***************************************************************************)
EXTENDS Naturals

CONSTANTS
  Users,   \* the registered users
  NoUser,  \* the party of a sale that was never recorded
  ItemIds, \* the ids an item can get
  TxnIds   \* the ids a sale can get

VARIABLES
  sold,    \* the items whose row says "sold"
  doomed,  \* those of them that have the obsolete title
  ledger   \* the sale recorded under each id

vars == <<sold, doomed, ledger>>

Stages == {"pending", "active", "done"}

(* The order in which a sale passes through its stages. *)
Rank(stage) ==
  CASE stage = "pending" -> 1
    [] stage = "active"  -> 2
    [] stage = "done"    -> 3
    [] OTHER             -> 0

NoSale == [item |-> 0, buyer |-> NoUser, seller |-> NoUser, status |-> "none"]

Sale == [item : ItemIds, buyer : Users, seller : Users, status : Stages]

TypeOK ==
  /\ sold \subseteq ItemIds
  /\ doomed \subseteq sold
  /\ ledger \in [TxnIds -> Sale \cup {NoSale}]

Init ==
  /\ sold = {}
  /\ doomed = {}
  /\ ledger = [t \in TxnIds |-> NoSale]

(* The row of an item turns "sold", under the title it then keeps. *)
MarkSold(i) ==
  /\ sold' = sold \cup {i}
  /\ doomed' \in IF i \in sold THEN {doomed} ELSE {doomed, doomed \cup {i}}

(* At first the item is sold without a sale; nothing turns it back. *)
Sell(i) ==
  /\ i \notin sold
  /\ MarkSold(i)
  /\ UNCHANGED ledger

(* The only sale an item ever has is recorded.  The item is sold by the    *)
(* same step or was sold before, and the sale need not enter as "pending": *)
(* a failed first write is made good by the write of a later stage.        *)
Record(t, sale) ==
  /\ ledger[t] = NoSale
  /\ sale.buyer # sale.seller
  /\ \A other \in TxnIds : ledger[other].item # sale.item
  /\ ledger' = [ledger EXCEPT ![t] = sale]
  /\ MarkSold(sale.item)

(* A recorded sale moves forward and keeps its item and its parties. *)
Advance(t, stage) ==
  /\ ledger[t] # NoSale
  /\ Rank(stage) > Rank(ledger[t].status)
  /\ ledger' = [ledger EXCEPT ![t].status = stage]
  /\ UNCHANGED <<sold, doomed>>

(* What was sold under the obsolete title goes, the items and their sales. *)
Purge ==
  /\ sold' = sold \ doomed
  /\ doomed' = {}
  /\ ledger' = [t \in TxnIds |->
                  IF ledger[t].item \in doomed THEN NoSale ELSE ledger[t]]

(* Sales change one by one, or are purged together. *)
Next ==
  \/ \E i \in ItemIds : Sell(i)
  \/ \E t \in TxnIds :
       /\ ledger'[t] # ledger[t]
       /\ \/ \E sale \in Sale : Record(t, sale)
          \/ \E stage \in Stages : Advance(t, stage)
  \/ Purge

Spec == Init /\ [][Next]_vars
=============================================================================
