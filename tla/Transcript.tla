----------------------------- MODULE Transcript -----------------------------
(***************************************************************************)
(* What a conversation about a sale promises, seen from the tables only:   *)
(* a message comes at the end, under an id that no message had before and  *)
(* not earlier than those before it, and stays there, word for word, as    *)
(* long as the sale does.  A sale that is doomed (its item has the         *)
(* obsolete title) goes with all of its messages, and no other sale goes.  *)
(* Whoever wrote a message may be told so, by the same step or never: what *)
(* was told is in the log, in that order.  Conversation shows that the     *)
(* rows of createMessage, in the order in which a restart reads them,      *)
(* implement this specification.                                           *)
(***************************************************************************)
EXTENDS Naturals, Sequences

CONSTANTS
  TxnIds,  \* the sales
  Message  \* the messages that may be written, each with its id, sale and time

VARIABLES
  sales, \* per sale: "none" (not stored), "kept" or "doomed"
  log,   \* per sale, the messages stored
  told   \* per sale, the messages that were answered with success

vars == <<sales, log, told>>

Init ==
  /\ sales = [t \in TxnIds |-> "none"]
  /\ log = [t \in TxnIds |-> <<>>]
  /\ told = [t \in TxnIds |-> <<>>]

(* A sale is stored, under one title or the other for good. *)
Open(t) ==
  /\ sales[t] = "none"
  /\ \E kind \in {"kept", "doomed"} : sales' = [sales EXCEPT ![t] = kind]
  /\ UNCHANGED <<log, told>>

(* The id is later than every id of the conversation, and new in the others. *)
IsNew(msg) ==
  /\ \A t \in TxnIds : \A k \in DOMAIN log[t] : log[t][k].id # msg.id
  /\ \A k \in DOMAIN log[msg.txn] :
       log[msg.txn][k].id < msg.id /\ log[msg.txn][k].at <= msg.at

Write(msg) ==
  /\ sales[msg.txn] # "none"
  /\ IsNew(msg)
  /\ log' = [log EXCEPT ![msg.txn] = Append(@, msg)]
  /\ told' \in {told, [told EXCEPT ![msg.txn] = Append(@, msg)]}
  /\ UNCHANGED sales

(* The doomed sales go, each with its whole conversation. *)
Purge ==
  LET Kept(f, none) ==
        [t \in TxnIds |-> IF sales[t] = "doomed" THEN none ELSE f[t]]
  IN /\ sales' = Kept(sales, "none")
     /\ log' = Kept(log, <<>>)
     /\ told' = Kept(told, <<>>)

(* A conversation grows by the message that comes last in it. *)
Next ==
  \/ \E t \in TxnIds : Open(t)
  \/ \E t \in TxnIds :
       /\ Len(log'[t]) = Len(log[t]) + 1
       /\ \E msg \in Message : msg.txn = t /\ Write(msg)
  \/ Purge

Spec == Init /\ [][Next]_vars
=============================================================================
