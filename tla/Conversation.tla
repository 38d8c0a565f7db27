---------------------------- MODULE Conversation ----------------------------
(***************************************************************************)
(* The messages that the parties of a sale exchange, beside the market     *)
(* that makes the sales.  createMessage takes store.mu twice: it asks      *)
(* whether the sender may write (canAccessTransaction), gives the lock up, *)
(* and takes it again to number, stamp, append and write the message.      *)
(* Requests and the market's handlers interleave in between.  A message    *)
(* whose write failed stays in the map.  After a restart the messages of a *)
(* sale come in the order of their stored times, which have seconds.       *)
(***************************************************************************)
EXTENDS Market, SequencesExt

CONSTANTS
  Posts,   \* requests to write a message that may be in progress at once
  MaxMsgs, \* bound on message ids
  MaxTime  \* bound on the clock, in seconds

ASSUME ConversationAssumption ==
  IsFiniteSet(Posts) /\ MaxMsgs \in Nat /\ MaxTime \in Nat

VARIABLES
  clock,     \* the wall clock, in the seconds that a TIMESTAMP has
  posts,     \* per request, how far createMessage has come
  messages,  \* store.messages: per transaction a sequence
  nextMsgID, \* store.nextMsgID
  msgRows,   \* table messages
  answered   \* per transaction, the messages answered 201, in that order

msgVars == <<clock, posts, messages, nextMsgID, msgRows, answered>>
allVars == <<vars, msgVars>>

Message == [id : 1 .. MaxMsgs, txn : TxnIds, sender : Users, at : 0 .. MaxTime]

Idle == [sender |-> NoUser, txn |-> 0]

Post == [sender : Users, txn : TxnIds]

Admitted == {p \in Posts : posts[p] # Idle}

-----------------------------------------------------------------------------
(* The table of messages *)

(* A message with the id of a row changes what the row says, not whose and *)
(* of which sale it is.                                                    *)
Upserted(rows, msg) ==
  IF \E row \in rows : row.id = msg.id
  THEN {IF row.id = msg.id THEN [row EXCEPT !.at = msg.at] ELSE row : row \in rows}
  ELSE rows \cup {msg}

SaveMessage(msg, outcome) ==
  msgRows' = IF outcome = "failed" THEN msgRows ELSE Upserted(msgRows, msg)

(* A wrong variant of the next definition, used to test properties. *)
EarlierByTime(a, b) == a.at < b.at \/ (a.at = b.at /\ a.id > b.id)

(* ORDER BY sent_at, id *)
Earlier(a, b) == a.at < b.at \/ (a.at = b.at /\ a.id < b.id)

(* The rows in the order in which loadStore reads them: the sequences in   *)
(* that order, of which there is one.                                      *)
InOrder(rows) ==
  {s \in SetToSeqs(rows) : \A j, k \in DOMAIN s : j < k => Earlier(s[j], s[k])}

RowsOf(t) == {row \in msgRows : row.txn = t}

Loaded(t) == InOrder(RowsOf(t))

(* What loadStore makes of the table. *)
Reloaded ==
  {loaded \in [TxnIds -> UNION {Loaded(t) : t \in TxnIds}] :
     \A t \in TxnIds : loaded[t] \in Loaded(t)}

-----------------------------------------------------------------------------
(* createMessage *)

(* The first lock: canAccessTransaction.  The bound counts the messages    *)
(* under way, so that an admitted one always has an id left.               *)
Admit(p, u, t) ==
  /\ serving
  /\ posts[p] = Idle
  /\ IsParty(u, t)
  /\ nextMsgID + Cardinality(Admitted) <= MaxMsgs
  /\ posts' = [posts EXCEPT ![p] = [sender |-> u, txn |-> t]]
  /\ UNCHANGED <<vars, clock, messages, nextMsgID, msgRows, answered>>

(* The second lock: the clock is read under it.  *)
PostMessage(p, outcome) ==
  LET t == posts[p].txn
      msg == [id |-> nextMsgID, txn |-> t, sender |-> posts[p].sender, at |-> clock]
  IN /\ posts[p] # Idle
     /\ outcome \in WriteOutcomes(txnRows[t] # NoTxn)
     /\ nextMsgID' = nextMsgID + 1
     /\ messages' = [messages EXCEPT ![t] = Append(@, msg)]
     /\ SaveMessage(msg, outcome)
     /\ answered' = IF Continues(outcome)
                    THEN [answered EXCEPT ![t] = Append(@, msg)] ELSE answered
     /\ posts' = [posts EXCEPT ![p] = Idle]
     /\ UNCHANGED <<vars, clock>>

-----------------------------------------------------------------------------
(* The specification *)

ConversationInit ==
  /\ Init
  /\ clock = 0
  /\ posts = [p \in Posts |-> Idle]
  /\ messages = [t \in TxnIds |-> <<>>]
  /\ nextMsgID = 1
  /\ msgRows = {}
  /\ answered = [t \in TxnIds |-> <<>>]

(* A process that dies takes its requests along. *)
RequestsLeft(up) == IF up THEN posts ELSE [p \in Posts |-> Idle]

(* A step of the market.  A process that dies loses the map and the        *)
(* counter, and one that starts reads them back from the table, the        *)
(* counter before and the map after it purged the messages of the sales    *)
(* that go.                                                                *)
MarketStep ==
  /\ Next
  /\ posts' = RequestsLeft(serving')
  /\ msgRows' = {row \in msgRows : row.txn \notin PurgedSales}
  /\ answered' = [t \in TxnIds |->
                    IF t \in PurgedSales THEN <<>> ELSE answered[t]]
  /\ CASE ~serving' ->
            /\ messages' = [t \in TxnIds |-> <<>>]
            /\ nextMsgID' = 1
       [] serving' /\ ~serving ->
            /\ messages' \in Reloaded'
            /\ nextMsgID' \in {n \in 1 .. (MaxMsgs + 1) :
                 IsNextID(n, {row.id : row \in msgRows})}
       [] OTHER -> UNCHANGED <<messages, nextMsgID>>
  /\ UNCHANGED clock

(* The clock of the machine moves forward. *)
Tick ==
  /\ clock < MaxTime
  /\ clock' = clock + 1
  /\ UNCHANGED <<vars, posts, messages, nextMsgID, msgRows, answered>>

ConversationNext ==
  \/ MarketStep
  \/ Tick
  \/ \E p \in Posts, u \in Users, t \in TxnIds : Admit(p, u, t)
  \/ \E p \in Posts, o \in Outcomes \cup {"failed"} : PostMessage(p, o)

ConversationSpec == ConversationInit /\ [][ConversationNext]_allVars

-----------------------------------------------------------------------------
(* Properties *)

(* A sequence has every message of another one exactly once, and has them  *)
(* in the order of the other one.                                          *)
KeepsOrder(sub, seq) ==
  /\ \A k \in DOMAIN sub : \E p \in DOMAIN seq : seq[p] = sub[k]
  /\ \A j, k \in DOMAIN sub : \A p, q \in DOMAIN seq :
       seq[p] = sub[j] /\ seq[q] = sub[k] => (p < q <=> j < k)

(* Every variable keeps its type, and an admitted request is of a sale     *)
(* that is there, also while it waits for the second lock.                 *)
ConversationTypeOK ==
  /\ TypeOK
  /\ clock \in 0 .. MaxTime
  /\ posts \in [Posts -> Post \cup {Idle}]
  /\ \A p \in Admitted : serving /\ transactions[posts[p].txn] # NoTxn
  /\ messages \in [TxnIds -> Seq(Message)]
  /\ nextMsgID \in 1 .. (MaxMsgs + 1)
  /\ msgRows \subseteq Message
  /\ answered \in [TxnIds -> Seq(Message)]

(* The conversations that the table holds, as module Transcript sees them *)
Conversations ==
  INSTANCE Transcript WITH
    sales <- [t \in TxnIds |->
      IF txnRows[t] = NoTxn THEN "none"
      ELSE IF t \in ObsoleteSales THEN "doomed" ELSE "kept"],
    log <- [t \in TxnIds |-> CHOOSE stored \in Loaded(t) : TRUE],
    told <- answered

(* The tables implement the transcript: whatever write fails and however   *)
(* often the ids are counted again, a message is stored after all others   *)
(* of its sale and stays there as it was answered with a 201, until a      *)
(* start purges the whole sale because its item has the obsolete title.    *)
TranscriptsAreKept == Conversations!Spec

(* What is shown of a conversation is what the next process will show, in  *)
(* the same order, and those messages whose write failed besides: a        *)
(* restart puts nothing in another order and brings nothing up.            *)
ReloadKeepsOrder ==
  serving => \A t \in TxnIds :
    /\ \A stored \in Loaded(t) : KeepsOrder(stored, messages[t])
    /\ \A k \in DOMAIN messages[t] :
         messages[t][k] \in msgRows => messages[t][k].txn = t

(* Only the parties of a sale are heard in it: a message belongs to the    *)
(* sale it was written in, although the check and the append are under two *)
(* locks, and although the id of a sale that was never stored is given to  *)
(* another one after a restart.                                            *)
SenderIsParty ==
  /\ \A p \in Admitted : IsParty(posts[p].sender, posts[p].txn)
  /\ \A t \in TxnIds : \A k \in DOMAIN messages[t] :
       IsParty(messages[t][k].sender, t)
  /\ \A row \in msgRows : row.sender \in PartiesOf(txnRows[row.txn])
=============================================================================
