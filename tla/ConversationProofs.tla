-------------------------- MODULE ConversationProofs ------------------------
(***************************************************************************)
(* Theorems about the messages of a sale, for any users, requests, bounds, *)
(* failures and crashes: the messages do not disturb the market, those     *)
(* that were answered stay in their order, a restart keeps the order that  *)
(* was shown, and only the parties of a sale are heard in it.              *)
(***************************************************************************)
EXTENDS Conversation, SalesProofs, FiniteSetTheorems, SequenceTheorems

(* Every behaviour of the market with messages is one of the market, so    *)
(* that whatever is proved of the market alone is true beside createMessage. *)
THEOREM MarketUndisturbed == ConversationSpec => Spec
<1>1. ConversationInit => Init
  BY DEF ConversationInit
<1>2. [ConversationNext]_allVars => [Next]_vars
  BY DEF ConversationNext, MarketStep, Tick, Admit, PostMessage, allVars
<1>. QED  BY <1>1, <1>2, PTL DEF ConversationSpec, Spec

-----------------------------------------------------------------------------
(* The inductive invariant: whatever is shown, stored or told is in the    *)
(* order of the ids, and ids are in the order of the times.                *)

Numbered(seq) == \A j, k \in DOMAIN seq : j < k => seq[j].id < seq[k].id

Has(seq, msg) == \E k \in DOMAIN seq : seq[k] = msg

MessagesAreNumbered ==
  \A t \in TxnIds :
    /\ Numbered(messages[t])
    /\ \A k \in DOMAIN messages[t] :
         /\ messages[t][k].txn = t
         /\ messages[t][k].id < nextMsgID
         /\ IsParty(messages[t][k].sender, t)

RowsAreNumbered ==
  /\ IsFiniteSet(msgRows)
  /\ \A a, b \in msgRows : a.id = b.id => a = b
  /\ \A a, b \in msgRows : a.id < b.id => a.at <= b.at
  /\ \A row \in msgRows :
       /\ row.at <= clock
       /\ serving => row.id < nextMsgID
       /\ row.sender \in PartiesOf(txnRows[row.txn])

RowsAreShown ==
  serving => \A row \in msgRows : Has(messages[row.txn], row)

AnsweredAreNumbered ==
  \A t \in TxnIds :
    /\ Numbered(answered[t])
    /\ \A k \in DOMAIN answered[t] :
         answered[t][k] \in msgRows /\ answered[t][k].txn = t

RoomIsLeft ==
  /\ nextMsgID + Cardinality(Admitted) <= MaxMsgs + 1
  /\ \A p \in Admitted : IsParty(posts[p].sender, posts[p].txn)

ConversationInv ==
  /\ SalesInv
  /\ ConversationTypeOK
  /\ MessagesAreNumbered
  /\ RowsAreNumbered
  /\ RowsAreShown
  /\ AnsweredAreNumbered
  /\ RoomIsLeft

-----------------------------------------------------------------------------
(* Numbered sequences *)

(* The place of a message in a numbered sequence is given by its id. *)
LEMMA NumberedPlace ==
  ASSUME NEW seq \in Seq(Message), Numbered(seq),
         NEW p \in DOMAIN seq, NEW q \in DOMAIN seq
  PROVE  p < q <=> seq[p].id < seq[q].id
<1>1. p \in Nat /\ q \in Nat /\ seq[p] \in Message /\ seq[q] \in Message
  OBVIOUS
<1>4. seq[p].id \in Nat /\ seq[q].id \in Nat
  BY <1>1, ConversationAssumption DEF Message
<1>2. p < q => seq[p].id < seq[q].id
  BY DEF Numbered
<1>3. q < p => seq[q].id < seq[p].id
  BY DEF Numbered
<1>. QED  BY <1>1, <1>2, <1>3, <1>4

(* Of two numbered sequences, the one that has all messages of the other   *)
(* has them in the same order.                                             *)
LEMMA NumberedKeepsOrder ==
  ASSUME NEW sub \in Seq(Message), NEW seq \in Seq(Message),
         Numbered(sub), Numbered(seq),
         \A k \in DOMAIN sub : Has(seq, sub[k])
  PROVE  KeepsOrder(sub, seq)
<1>1. ASSUME NEW j \in DOMAIN sub, NEW k \in DOMAIN sub,
             NEW p \in DOMAIN seq, NEW q \in DOMAIN seq,
             seq[p] = sub[j], seq[q] = sub[k]
      PROVE  p < q <=> j < k
  <2>1. p < q <=> seq[p].id < seq[q].id
    BY NumberedPlace
  <2>2. j < k <=> sub[j].id < sub[k].id
    BY NumberedPlace
  <2>. QED  BY <1>1, <2>1, <2>2
<1>. QED  BY <1>1 DEF KeepsOrder, Has

(* What appending does to a sequence *)
LEMMA Appending ==
  ASSUME NEW seq \in Seq(Message), NEW msg \in Message
  PROVE  /\ Len(seq) \in Nat /\ DOMAIN seq = 1 .. Len(seq)
         /\ Append(seq, msg) \in Seq(Message)
         /\ DOMAIN Append(seq, msg) = 1 .. (Len(seq) + 1)
         /\ \A k \in 1 .. Len(seq) : Append(seq, msg)[k] = seq[k]
         /\ Append(seq, msg)[Len(seq) + 1] = msg
  OBVIOUS

LEMMA AppendedHas ==
  ASSUME NEW seq \in Seq(Message), NEW msg \in Message, NEW other
  PROVE  Has(Append(seq, msg), other) <=> Has(seq, other) \/ other = msg
<1> DEFINE longer == Append(seq, msg)
<1>1. /\ Len(seq) \in Nat /\ DOMAIN seq = 1 .. Len(seq)
      /\ DOMAIN longer = 1 .. (Len(seq) + 1)
      /\ \A k \in 1 .. Len(seq) : longer[k] = seq[k]
      /\ longer[Len(seq) + 1] = msg
  BY Appending
<1> HIDE DEF longer
<1>2. ASSUME Has(longer, other) PROVE Has(seq, other) \/ other = msg
  <2>1. PICK k \in 1 .. (Len(seq) + 1) : longer[k] = other
    BY <1>1, <1>2 DEF Has
  <2>2. CASE k \in 1 .. Len(seq)
    BY <1>1, <2>1, <2>2 DEF Has
  <2>3. CASE k = Len(seq) + 1
    BY <1>1, <2>1, <2>3
  <2>. QED  BY <1>1, <2>1, <2>2, <2>3
<1>3. ASSUME Has(seq, other) PROVE Has(longer, other)
  <2>1. PICK k \in 1 .. Len(seq) : seq[k] = other
    BY <1>1, <1>3 DEF Has
  <2>. QED  BY <1>1, <2>1 DEF Has
<1>4. Has(longer, msg)
  BY <1>1 DEF Has
<1>. QED  BY <1>2, <1>3, <1>4 DEF longer

LEMMA AppendedNumbered ==
  ASSUME NEW seq \in Seq(Message), NEW msg \in Message, Numbered(seq),
         \A k \in DOMAIN seq : seq[k].id < msg.id
  PROVE  Numbered(Append(seq, msg))
<1> DEFINE longer == Append(seq, msg)
<1>1. /\ Len(seq) \in Nat /\ DOMAIN seq = 1 .. Len(seq)
      /\ DOMAIN longer = 1 .. (Len(seq) + 1)
      /\ \A k \in 1 .. Len(seq) : longer[k] = seq[k]
      /\ longer[Len(seq) + 1] = msg
  BY Appending
<1> HIDE DEF longer
<1>2. SUFFICES ASSUME NEW j \in DOMAIN longer, NEW k \in DOMAIN longer, j < k
               PROVE  longer[j].id < longer[k].id
  BY DEF Numbered, longer
<1>3. j \in 1 .. Len(seq)
  BY <1>1, <1>2
<1>4. CASE k \in 1 .. Len(seq)
  BY <1>1, <1>2, <1>3, <1>4 DEF Numbered
<1>5. CASE k = Len(seq) + 1
  BY <1>1, <1>3, <1>5
<1>. QED  BY <1>1, <1>4, <1>5

-----------------------------------------------------------------------------
(* Reading the table: there is one order in which a reload can read it *)

(* Rows that can be told apart by their ids, which follow the times *)
Sortable(rows) ==
  /\ rows \subseteq Message /\ IsFiniteSet(rows)
  /\ \A a, b \in rows : a.id = b.id => a = b
  /\ \A a, b \in rows : a.id < b.id => a.at <= b.at

(* Rows up to an id can be put in the order of their ids: a row with the   *)
(* next id goes to the end.                                                *)
LEMMA NumberedExists ==
  ASSUME NEW rows, Sortable(rows)
  PROVE  \E s \in Seq(Message) :
           Numbered(s) /\ \A row : Has(s, row) <=> row \in rows
<1> DEFINE Holds(s, n) ==
             /\ s \in Seq(Message)
             /\ Numbered(s)
             /\ \A row : Has(s, row) <=> row \in rows /\ row.id <= n
           S == {n \in 0 .. MaxMsgs : \E s : Holds(s, n)}
<1>1. \A row \in rows : row \in Message /\ row.id \in 1 .. MaxMsgs
  BY DEF Sortable, Message
<1>2. MaxMsgs \in Nat
  BY ConversationAssumption
<1>3. 0 \in S
  <2>1. /\ << >> \in Seq(Message) /\ Numbered(<< >>)
        /\ \A row : ~Has(<< >>, row)
    BY DEF Numbered, Has
  <2>2. \A row \in rows : ~(row.id <= 0)
    BY <1>1
  <2>3. Holds(<< >>, 0)
    BY <2>1, <2>2
  <2>4. 0 \in 0 .. MaxMsgs
    BY <1>2
  <2> HIDE DEF Holds
  <2>. QED  BY <2>3, <2>4
<1>4. ASSUME NEW n \in 0 .. (MaxMsgs - 1), n \in S PROVE n + 1 \in S
  <2>1. PICK s : Holds(s, n)
    BY <1>4
  <2>2. n + 1 \in 0 .. MaxMsgs
    BY <1>2
  <2>3. \A row \in rows : row.id <= n + 1 <=> (row.id <= n \/ row.id = n + 1)
    BY <1>1
  <2>4. CASE \E row \in rows : row.id = n + 1
    <3>1. PICK new \in rows : new.id = n + 1
      BY <2>4
    <3>2. \A row \in rows : row.id = n + 1 => row = new
      BY <3>1 DEF Sortable
    <3>3. /\ s \in Seq(Message) /\ Numbered(s)
          /\ \A row : Has(s, row) <=> row \in rows /\ row.id <= n
      BY <2>1
    <3>4. \A k \in DOMAIN s : s[k].id < new.id
      <4> SUFFICES ASSUME NEW k \in DOMAIN s PROVE s[k].id < new.id
        OBVIOUS
      <4>1. Has(s, s[k])
        BY DEF Has
      <4>2. s[k] \in rows /\ s[k].id <= n
        BY <3>3, <4>1
      <4>. QED  BY <1>1, <3>1, <4>2
    <3>5. new \in Message
      BY <1>1
    <3>6. Append(s, new) \in Seq(Message) /\ Numbered(Append(s, new))
      BY <3>3, <3>4, <3>5, AppendedNumbered
    <3>7. \A row : Has(Append(s, new), row) <=> Has(s, row) \/ row = new
      BY <3>3, <3>5, AppendedHas
    <3>8. \A row : Has(Append(s, new), row) <=> row \in rows /\ row.id <= n + 1
      BY <2>3, <3>1, <3>2, <3>3, <3>7
    <3>9. Holds(Append(s, new), n + 1)
      BY <3>6, <3>8
    <3>. QED  BY <2>2, <3>9
  <2>5. CASE ~ \E row \in rows : row.id = n + 1
    <3>1. Holds(s, n + 1)
      BY <2>1, <2>3, <2>5
    <3>. QED  BY <2>2, <3>1
  <2>. QED  BY <2>4, <2>5
<1> HIDE DEF S
<1>5. MaxMsgs \in S
  BY <1>2, <1>3, <1>4, CountingUp
<1>6. PICK s : Holds(s, MaxMsgs)
  BY <1>5 DEF S
<1>. QED  BY <1>1, <1>6

(* The order of the ids is an order that a reload may read. *)
LEMMA NumberedIsInOrder ==
  ASSUME NEW rows, Sortable(rows), NEW s \in Seq(Message), Numbered(s),
         \A row : Has(s, row) <=> row \in rows
  PROVE  s \in InOrder(rows)
<1>0. PICK n : n = Len(s)
  OBVIOUS
<1>1. n \in Nat /\ DOMAIN s = 1 .. n /\ s \in [1 .. n -> Message]
  BY <1>0
<1>2. \A k \in 1 .. n : s[k] \in rows
  BY <1>1 DEF Has
<1>3. s \in [1 .. n -> rows]
  BY <1>1, <1>2
<1>4. \A j, k \in 1 .. n : j < k => s[j].id < s[k].id
  BY <1>1 DEF Numbered
<1>5. \A k \in 1 .. n : s[k].id \in Nat /\ s[k].at \in Nat
  <2>1. \A msg \in Message : msg.id \in Nat /\ msg.at \in Nat
    BY ConversationAssumption DEF Message
  <2>. QED  BY <1>1, <2>1
<1>6. \A j, k \in 1 .. n : j # k => s[j] # s[k]
  <2> SUFFICES ASSUME NEW j \in 1 .. n, NEW k \in 1 .. n, j # k PROVE s[j] # s[k]
    OBVIOUS
  <2>1. j < k \/ k < j
    BY <1>1
  <2>. QED  BY <1>4, <1>5, <2>1
<1>7. \A row \in rows : \E k \in 1 .. n : s[k] = row
  BY <1>1 DEF Has
<1>8. Cardinality(rows) = n
  <2>1. s \in Surjection(1 .. n, rows) /\ s \in Injection(1 .. n, rows)
    BY <1>3, <1>6, <1>7 DEF Surjection, Injection, IsInjective
  <2>2. n \in Nat
    BY <1>1
  <2>3. IsFiniteSet(1 .. n) /\ Cardinality(1 .. n) = n
    BY <2>2, FS_Interval
  <2>. QED  BY <2>1, <2>3, FS_Surjection
<1>9. s \in SetToSeqs(rows)
  BY <1>3, <1>6, <1>8 DEF SetToSeqs
<1>10. \A j, k \in DOMAIN s : j < k => Earlier(s[j], s[k])
  <2> SUFFICES ASSUME NEW j \in 1 .. n, NEW k \in 1 .. n, j < k
               PROVE  Earlier(s[j], s[k])
    BY <1>1
  <2>1. s[j].id < s[k].id /\ s[j] \in rows /\ s[k] \in rows
    BY <1>2, <1>4
  <2>2. s[j].at <= s[k].at
    BY <2>1 DEF Sortable
  <2>. QED  BY <1>5, <2>1, <2>2 DEF Earlier
<1>. QED  BY <1>9, <1>10 DEF InOrder

(* Two numbered sequences of the same messages are the same. *)
LEMMA NumberedIsUnique ==
  ASSUME NEW r \in Seq(Message), NEW s \in Seq(Message), Numbered(r), Numbered(s),
         \A row : Has(r, row) <=> Has(s, row)
  PROVE  r = s
<1>1. /\ Len(r) \in Nat /\ DOMAIN r = 1 .. Len(r)
      /\ Len(s) \in Nat /\ DOMAIN s = 1 .. Len(s)
  OBVIOUS
<1>0. /\ \A k \in DOMAIN r : r[k].id \in Nat
      /\ \A k \in DOMAIN s : s[k].id \in Nat
  <2>1. \A msg \in Message : msg.id \in Nat
    BY ConversationAssumption DEF Message
  <2>. QED  BY <2>1
(* What comes after a common beginning of two sequences begins alike. *)
<1>2. ASSUME NEW a \in Seq(Message), NEW b \in Seq(Message), Numbered(a), Numbered(b),
             \A row : Has(a, row) => Has(b, row),
             NEW k \in Nat, k + 1 \in DOMAIN a,
             \A j \in 1 .. k : j \in DOMAIN a => j \in DOMAIN b /\ a[j] = b[j]
      PROVE  \E p \in DOMAIN b : b[p] = a[k + 1] /\ p >= k + 1
  <2>1. /\ Len(a) \in Nat /\ DOMAIN a = 1 .. Len(a)
        /\ Len(b) \in Nat /\ DOMAIN b = 1 .. Len(b)
    OBVIOUS
  <2>2. PICK p \in DOMAIN b : b[p] = a[k + 1]
    BY <1>2 DEF Has
  <2>3. ASSUME p < k + 1 PROVE FALSE
    <3>1. p \in 1 .. k /\ p \in DOMAIN a
      BY <1>2, <2>1, <2>3
    <3>2. a[p] = a[k + 1]
      BY <1>2, <2>2, <3>1
    <3>3. a[p].id < a[k + 1].id
      BY <1>2, <2>3, <3>1 DEF Numbered
    <3>4. a[p].id \in Nat
      <4>1. a[p] \in Message
        BY <3>1
      <4>. QED  BY <4>1, ConversationAssumption DEF Message
    <3>. QED  BY <3>2, <3>3, <3>4
  <2>. QED  BY <2>1, <2>2, <2>3
<1> PICK n : n = Len(r)
  OBVIOUS
<1> DEFINE S == {k \in 0 .. n : \A j \in 1 .. k : j \in DOMAIN s /\ r[j] = s[j]}
<1>3. 0 \in S
  BY <1>1
<1>4. ASSUME NEW k \in 0 .. (n - 1), k \in S PROVE k + 1 \in S
  <2>1. k \in Nat /\ k + 1 \in DOMAIN r /\ k + 1 \in 0 .. n
        /\ \A j \in 1 .. k : j \in DOMAIN r /\ j \in DOMAIN s /\ r[j] = s[j]
    BY <1>1, <1>4
  <2>2. PICK p \in DOMAIN s : s[p] = r[k + 1] /\ p >= k + 1
    BY <1>2, <2>1
  <2>3. k + 1 \in DOMAIN s
    BY <1>1, <2>1, <2>2
  <2>4. PICK q \in DOMAIN r : r[q] = s[k + 1] /\ q >= k + 1
    BY <1>2, <2>1, <2>3
  <2>5. s[k + 1].id <= s[p].id
    <3>1. CASE p = k + 1
      BY <1>0, <2>3, <3>1
    <3>2. CASE p > k + 1
      <4>1. s[k + 1].id < s[p].id
        BY <2>2, <2>3, <3>2 DEF Numbered
      <4>. QED  BY <1>0, <2>2, <2>3, <4>1
    <3>. QED  BY <1>1, <2>1, <2>2, <3>1, <3>2
  <2>6. r[k + 1].id <= r[q].id
    <3>1. CASE q = k + 1
      BY <1>0, <2>1, <3>1
    <3>2. CASE q > k + 1
      <4>1. r[k + 1].id < r[q].id
        BY <2>1, <2>4, <3>2 DEF Numbered
      <4>. QED  BY <1>0, <2>1, <2>4, <4>1
    <3>. QED  BY <1>1, <2>1, <2>4, <3>1, <3>2
  <2>7. s[k + 1].id = s[p].id
    BY <1>0, <2>1, <2>2, <2>3, <2>4, <2>5, <2>6
  <2>8. p = k + 1
    <3>1. ~(p > k + 1)
      <4> SUFFICES ASSUME p > k + 1 PROVE FALSE
        OBVIOUS
      <4>1. s[k + 1].id < s[p].id
        BY <2>2, <2>3 DEF Numbered
      <4>. QED  BY <1>0, <2>2, <2>3, <2>7, <4>1
    <3>. QED  BY <1>1, <2>1, <2>2, <3>1
  <2>9. \A j \in 1 .. (k + 1) : j \in 1 .. k \/ j = k + 1
    BY <2>1
  <2>10. \A j \in 1 .. (k + 1) : j \in DOMAIN s /\ r[j] = s[j]
    BY <2>1, <2>2, <2>8, <2>9
  <2>. QED  BY <2>1, <2>10
<1> HIDE DEF S
<1>5. n \in S
  <2>1. n \in Nat /\ n \in 0 .. n
    BY <1>1
  <2>2. \A k \in 0 .. (n - 1) : k \in S => k + 1 \in S
    BY <1>4
  <2>3. \A k \in 0 .. n : k \in S
    BY <1>3, <2>1, <2>2, CountingUp
  <2>. QED  BY <2>1, <2>3
<1>6. \A j \in 1 .. n : j \in DOMAIN s /\ r[j] = s[j]
  BY <1>5 DEF S
<1>7. ~(Len(s) > n)
  <2> SUFFICES ASSUME Len(s) > n PROVE FALSE
    OBVIOUS
  <2>1. n \in Nat /\ n + 1 \in DOMAIN s
    BY <1>1
  <2>2. PICK q \in DOMAIN r : r[q] = s[n + 1] /\ q >= n + 1
    BY <1>2, <1>6, <2>1
  <2>. QED  BY <1>1, <2>2
<1>8. n <= Len(s)
  BY <1>1, <1>6
<1>9. Len(s) = n
  BY <1>1, <1>7, <1>8
<1>. QED  BY <1>1, <1>6, <1>9

(* What a reload reads is in the order of the ids. *)
LEMMA InOrderIsNumbered ==
  ASSUME NEW rows, Sortable(rows), NEW s \in InOrder(rows)
  PROVE  /\ s \in Seq(Message)
         /\ Numbered(s)
         /\ \A row : Has(s, row) <=> row \in rows
<1> PICK n : n = Cardinality(rows)
  OBVIOUS
<1>1. IsFiniteSet(rows) /\ n \in Nat /\ rows \subseteq Message
  BY FS_CardinalityType DEF Sortable
<1>2. /\ s \in [1 .. n -> rows]
      /\ \A j, k \in 1 .. n : j # k => s[j] # s[k]
      /\ \A j, k \in DOMAIN s : j < k => Earlier(s[j], s[k])
  BY DEF InOrder, SetToSeqs
<1>3. DOMAIN s = 1 .. n /\ s \in Seq(Message)
  <2>1. s \in [1 .. n -> Message]
    BY <1>1, <1>2
  <2>. QED  BY <1>1, <2>1
<1>4. s \in Surjection(1 .. n, rows)
  <2>1. s \in Injection(1 .. n, rows)
    BY <1>2 DEF Injection, IsInjective
  <2>2. Cardinality(1 .. n) = n
    BY <1>1, FS_Interval
  <2>. QED  BY <1>1, <2>1, <2>2, FS_Injection
<1>5. \A row : Has(s, row) <=> row \in rows
  BY <1>2, <1>3, <1>4 DEF Surjection, Has
<1>6. Numbered(s)
  <2> SUFFICES ASSUME NEW j \in DOMAIN s, NEW k \in DOMAIN s, j < k
               PROVE  s[j].id < s[k].id
    BY DEF Numbered
  <2>1. s[j] \in rows /\ s[k] \in rows /\ s[j] # s[k] /\ Earlier(s[j], s[k])
    BY <1>1, <1>2, <1>3
  <2>2. /\ s[j].id \in Nat /\ s[j].at \in Nat
        /\ s[k].id \in Nat /\ s[k].at \in Nat
    BY <1>1, <2>1, ConversationAssumption DEF Message
  <2>. QED  BY <2>1, <2>2 DEF Sortable, Earlier
<1>. QED  BY <1>3, <1>5, <1>6

(* A reload reads the rows in exactly one order. *)
LEMMA OneOrder ==
  ASSUME NEW rows, Sortable(rows)
  PROVE  \E s \in Seq(Message) :
           /\ InOrder(rows) = {s}
           /\ Numbered(s)
           /\ \A row : Has(s, row) <=> row \in rows
<1>1. PICK s \in Seq(Message) : Numbered(s) /\ \A row : Has(s, row) <=> row \in rows
  BY NumberedExists
<1>2. s \in InOrder(rows)
  BY <1>1, NumberedIsInOrder
<1>3. ASSUME NEW r \in InOrder(rows) PROVE r = s
  <2>1. /\ r \in Seq(Message) /\ Numbered(r)
        /\ \A row : Has(r, row) <=> Has(s, row)
    BY <1>1, InOrderIsNumbered
  <2>. QED  BY <1>1, <2>1, NumberedIsUnique
<1>. QED  BY <1>1, <1>2, <1>3

(* A row with a later id and no earlier time comes last. *)
LEMMA LastInOrder ==
  ASSUME NEW rows, Sortable(rows), NEW msg \in Message,
         \A row \in rows : row.id < msg.id /\ row.at <= msg.at,
         NEW s, InOrder(rows) = {s}
  PROVE  InOrder(rows \cup {msg}) = {Append(s, msg)}
<1>1. /\ s \in Seq(Message) /\ Numbered(s)
      /\ \A row : Has(s, row) <=> row \in rows
  BY InOrderIsNumbered
<1>2. \A row \in rows \cup {msg} : row \in Message /\ row.id \in Nat /\ row.at \in Nat
  BY ConversationAssumption DEF Sortable, Message
<1>3. Sortable(rows \cup {msg})
  <2>1. IsFiniteSet(rows \cup {msg})
    BY FS_AddElement DEF Sortable
  <2>2. \A a, b \in rows \cup {msg} : a.id = b.id => a = b
    BY <1>2 DEF Sortable
  <2>3. \A a, b \in rows \cup {msg} : a.id < b.id => a.at <= b.at
    BY <1>2 DEF Sortable
  <2>. QED  BY <1>2, <2>1, <2>2, <2>3 DEF Sortable
<1>4. Append(s, msg) \in Seq(Message) /\ Numbered(Append(s, msg))
  <2>1. \A k \in DOMAIN s : s[k].id < msg.id
    BY <1>1 DEF Has
  <2>. QED  BY <1>1, <2>1, AppendedNumbered
<1>5. \A row : Has(Append(s, msg), row) <=> row \in rows \cup {msg}
  BY <1>1, AppendedHas
<1>6. PICK r \in Seq(Message) :
        /\ InOrder(rows \cup {msg}) = {r}
        /\ Numbered(r)
        /\ \A row : Has(r, row) <=> row \in rows \cup {msg}
  BY <1>3, OneOrder
<1>7. r = Append(s, msg)
  BY <1>4, <1>5, <1>6, NumberedIsUnique
<1>. QED  BY <1>6, <1>7

LEMMA RowsAreSortable ==
  ASSUME msgRows \subseteq Message, RowsAreNumbered
  PROVE  Sortable(msgRows)
  BY DEF Sortable, RowsAreNumbered

(* The rows of one sale *)
OfSale(rows, t) == {row \in rows : row.txn = t}

LEMMA SaleIsSortable ==
  ASSUME NEW rows, Sortable(rows), NEW t
  PROVE  Sortable(OfSale(rows, t))
<1>1. IsFiniteSet(OfSale(rows, t))
  BY FS_Subset DEF OfSale, Sortable
<1>. QED  BY <1>1 DEF OfSale, Sortable

(* A reload of a sale shows its rows, each once, in the order of the ids:  *)
(* it sorts by time first, and times are in the order of the ids.          *)
LEMMA LoadedIsNumbered ==
  ASSUME NEW rows, Sortable(rows), NEW t, NEW stored \in InOrder(OfSale(rows, t))
  PROVE  /\ stored \in Seq(Message)
         /\ Numbered(stored)
         /\ \A k \in DOMAIN stored : stored[k] \in rows /\ stored[k].txn = t
         /\ \A row \in rows : row.txn = t => Has(stored, row)
<1>1. Sortable(OfSale(rows, t))
  BY SaleIsSortable
<1>2. /\ stored \in Seq(Message) /\ Numbered(stored)
      /\ \A row : Has(stored, row) <=> row \in OfSale(rows, t)
  BY <1>1, InOrderIsNumbered
<1>3. \A k \in DOMAIN stored : Has(stored, stored[k])
  BY DEF Has
<1>. QED  BY <1>2, <1>3 DEF OfSale

-----------------------------------------------------------------------------
(* The market keeps the parties of a sale *)

KeepsParties(old, new) ==
  \A t \in TxnIds : old[t] # NoTxn => SameTxn(new[t], old[t])

LEMMA SavedTransactionParties ==
  ASSUME TypeOK, NEW t \in TxnIds, NEW txn \in Txn, NEW o,
         txnRows[t] # NoTxn => SameTxn(txn, txnRows[t]),
         SaveTransaction(t, txn, o)
  PROVE  KeepsParties(txnRows, txnRows')
<1>1. txnRows \in [TxnIds -> Txn \cup {NoTxn}]
  BY DEF TypeOK, StoreTypeOK
<1>2. txnRows[t] # NoTxn => SameTxn(UpsertedTxn(txnRows[t], txn), txnRows[t])
  BY <1>1 DEF UpsertedTxn, SameTxn, Txn
<1>3. \A s \in TxnIds : \/ txnRows'[s] = txnRows[s]
                        \/ s = t /\ txnRows'[s] = UpsertedTxn(txnRows[t], txn)
  <2>1. \/ txnRows' = txnRows
        \/ txnRows' = [txnRows EXCEPT ![t] = UpsertedTxn(txnRows[t], txn)]
    BY DEF SaveTransaction
  <2>. QED  BY <1>1, <2>1
<1>4. ASSUME NEW s \in TxnIds, txnRows[s] # NoTxn
      PROVE  SameTxn(txnRows'[s], txnRows[s])
  <2>1. CASE txnRows'[s] = txnRows[s]
    BY <2>1 DEF SameTxn
  <2>2. CASE s = t /\ txnRows'[s] = UpsertedTxn(txnRows[t], txn)
    BY <1>2, <1>4, <2>2
  <2>. QED  BY <1>3, <2>1, <2>2
<1>. QED  BY <1>4 DEF KeepsParties

(* A record with the parties of the one in the map is put there and written. *)
LEMMA ChangedTransactionParties ==
  ASSUME SalesInv, serving, NEW t \in TxnIds, NEW txn \in Txn, NEW o,
         transactions[t] # NoTxn, SameTxn(txn, transactions[t]),
         SaveTransaction(t, txn, o)
  PROVE  /\ KeepsParties(txnRows, txnRows')
         /\ KeepsParties(transactions, [transactions EXCEPT ![t] = txn])
<1>1. TypeOK /\ IdsAreFresh /\ transactions \in [TxnIds -> Txn \cup {NoTxn}]
  BY DEF SalesInv, TypeOK, StoreTypeOK
<1>2. txnRows[t] # NoTxn => SameTxn(txn, txnRows[t])
  BY <1>1 DEF IdsAreFresh, SameTxn
<1>3. KeepsParties(transactions, [transactions EXCEPT ![t] = txn])
  BY <1>1 DEF KeepsParties, SameTxn
<1>. QED  BY <1>1, <1>2, <1>3, SavedTransactionParties

LEMMA SaleStepParties ==
  ASSUME SalesInv, NEW u \in Users, NEW t \in TxnIds, SaleStep(u, t)
  PROVE  /\ KeepsParties(txnRows, txnRows')
         /\ KeepsParties(transactions, transactions')
<1>1. transactions \in [TxnIds -> Txn \cup {NoTxn}]
  BY DEF SalesInv, TypeOK, StoreTypeOK
<1>2. ASSUME serving, NEW txn \in Txn, NEW o, IsParty(u, t),
             SameTxn(txn, transactions[t]), ChangeTransaction(t, txn, o)
      PROVE  /\ KeepsParties(txnRows, txnRows')
             /\ KeepsParties(transactions, transactions')
  BY <1>2, ChangedTransactionParties DEF IsParty, ChangeTransaction, WithTransaction
<1>3. ASSUME NEW o, Pay(u, t, o)
      PROVE  /\ KeepsParties(txnRows, txnRows')
             /\ KeepsParties(transactions, transactions')
  <2> DEFINE txn == [transactions[t] EXCEPT !.status = "active"]
  <2>1. txn \in Txn /\ SameTxn(txn, transactions[t])
    BY <1>1, <1>3 DEF Pay, Payable, IsParty, Txn, SameTxn
  <2>. QED  BY <1>2, <1>3, <2>1 DEF Pay, Payable
<1>4. ASSUME NEW o, Complete(u, t, o)
      PROVE  /\ KeepsParties(txnRows, txnRows')
             /\ KeepsParties(transactions, transactions')
  <2> DEFINE txn == [transactions[t] EXCEPT !.status = "done"]
  <2>1. txn \in Txn /\ SameTxn(txn, transactions[t])
    BY <1>1, <1>4 DEF Complete, IsParty, Txn, SameTxn
  <2>. QED  BY <1>2, <1>4, <2>1 DEF Complete
<1>5. ASSUME NEW o, DeleteTransaction(u, t, o)
      PROVE  /\ KeepsParties(txnRows, txnRows')
             /\ KeepsParties(transactions, transactions')
  <2> DEFINE txn == [transactions[t] EXCEPT
                       !.buyerHidden = @ \/ transactions[t].buyer = u,
                       !.sellerHidden = @ \/ transactions[t].seller = u]
  <2>1. transactions[t] \in Txn
    BY <1>1, <1>5 DEF DeleteTransaction, IsParty
  <2>2. txn \in Txn /\ SameTxn(txn, transactions[t])
    BY <2>1 DEF Txn, SameTxn
  <2>. QED  BY <1>2, <1>5, <2>2 DEF DeleteTransaction
<1>6. ASSUME NEW o1, NEW o2, CreateReview(u, t, o1, o2)
      PROVE  /\ KeepsParties(txnRows, txnRows')
             /\ KeepsParties(transactions, transactions')
  BY <1>6 DEF CreateReview, KeepsParties, SameTxn
<1>. QED  BY <1>3, <1>4, <1>5, <1>6 DEF SaleStep

LEMMA ItemStepParties ==
  ASSUME SalesInv, NEW u \in Users, NEW i \in ItemIds, ItemStep(u, i)
  PROVE  /\ KeepsParties(txnRows, txnRows')
         /\ serving' => KeepsParties(transactions, transactions')
<1>1. /\ TypeOK /\ IdsAreFresh
      /\ transactions \in [TxnIds -> Txn \cup {NoTxn}]
      /\ nextTxnID \in 1 .. (MaxTxns + 1) /\ MaxTxns \in Nat
  BY StoreAssumption DEF SalesInv, TypeOK, StoreTypeOK
<1>2. CASE UNCHANGED <<txnRows, transactions>>
  BY <1>2 DEF KeepsParties, SameTxn
<1>3. CASE PurchaseKilled(u, i)
  BY <1>3 DEF PurchaseKilled, Forget, KeepsParties, SameTxn
<1>4. ASSUME NEW t \in TxnIds, serving, SaleClosed(u, i, t)
      PROVE  LET txn == [transactions[t] EXCEPT !.sellerHidden = TRUE]
             IN  /\ transactions[t] # NoTxn /\ txn \in Txn
                 /\ SameTxn(txn, transactions[t])
  <2>1. transactions[t] \in Txn /\ transactions[t] # NoTxn
    BY <1>1, <1>4 DEF SaleClosed, NoTxn
  <2>. QED  BY <2>1 DEF Txn, SameTxn
<1>5. ASSUME NEW t \in TxnIds, NEW o1, NEW o2, DeleteSoldItem(u, i, t, o1, o2)
      PROVE  /\ KeepsParties(txnRows, txnRows')
             /\ KeepsParties(transactions, transactions')
  BY <1>4, <1>5, ChangedTransactionParties DEF DeleteSoldItem
<1>6. ASSUME NEW t \in TxnIds, DeleteSoldItemKilled(u, i, t)
      PROVE  KeepsParties(txnRows, txnRows') /\ ~serving'
  BY <1>4, <1>6, ChangedTransactionParties DEF DeleteSoldItemKilled, Forget
<1>7. ASSUME NEW status \in {"active", "pending"}, NEW o1, NEW o2,
             Purchase(u, i, status, o1, o2)
      PROVE  /\ KeepsParties(txnRows, txnRows')
             /\ KeepsParties(transactions, transactions')
  <2> DEFINE t == nextTxnID
             txn == SoldTo(u, i, status)
  <2>1. serving /\ t \in TxnIds /\ txnRows[t] = NoTxn /\ transactions[t] = NoTxn
    BY <1>1, <1>7 DEF Purchase, IdsAreFresh, TxnIds
  <2>2. txn \in Txn
    BY <1>7, BuyableItem, <1>1 DEF Purchase, SoldTo, Txn, Item
  <2>3. CASE UNCHANGED <<txnRows, transactions>>
    BY <2>3 DEF KeepsParties, SameTxn
  <2>4. CASE /\ transactions' = [transactions EXCEPT ![t] = txn]
             /\ SaveTransaction(t, txn, o2)
    <3>1. KeepsParties(txnRows, txnRows')
      BY <1>1, <2>1, <2>2, <2>4, SavedTransactionParties
    <3>2. KeepsParties(transactions, transactions')
      BY <1>1, <2>1, <2>4 DEF KeepsParties, SameTxn
    <3>. QED  BY <3>1, <3>2
  <2>. QED  BY <1>7, <2>3, <2>4 DEF Purchase
<1>8. \/ UNCHANGED <<txnRows, transactions>>
      \/ PurchaseKilled(u, i)
      \/ \E t \in TxnIds, o1, o2 \in Outcomes : DeleteSoldItem(u, i, t, o1, o2)
      \/ \E t \in TxnIds : DeleteSoldItemKilled(u, i, t)
      \/ \E status \in {"active", "pending"}, o1, o2 \in Outcomes :
            Purchase(u, i, status, o1, o2)
  BY DEF ItemStep, UpdateItem, DeleteUnsoldItem
<1>. QED  BY <1>2, <1>3, <1>5, <1>6, <1>7, <1>8

(* A sale keeps its parties: in the table until it is purged, in the map   *)
(* until the process dies.                                                 *)
LEMMA PartiesStay ==
  ASSUME SalesInv, Next
  PROVE  /\ \A t \in TxnIds : txnRows[t] # NoTxn =>
              t \in PurgedSales \/ SameTxn(txnRows'[t], txnRows[t])
         /\ serving /\ serving' => KeepsParties(transactions, transactions')
<1>1. CASE UNCHANGED <<txnRows, transactions>>
  BY <1>1 DEF KeepsParties, SameTxn
<1>2. CASE ProcessStep
  <2>1. CASE Crash
    BY <2>1 DEF Crash, Forget, tables, SameTxn
  <2>2. CASE PurgeTables /\ ~serving
    BY <2>2 DEF PurgeTables, PurgedSales, SameTxn
  <2>. QED  BY <1>2, <2>1, <2>2 DEF ProcessStep, Restart, RestartCutOff
<1>3. \/ UNCHANGED <<txnRows, transactions>>
      \/ ProcessStep
      \/ \E u \in Users, i \in ItemIds : ItemStep(u, i)
      \/ \E u \in Users, t \in TxnIds : SaleStep(u, t)
  <2>1. ASSUME NEW u \in Users, NEW status \in {"draft", "published", "sold"},
               NEW ready \in BOOLEAN, NEW obsolete \in BOOLEAN, NEW o \in Outcomes,
               CreateItem(u, status, ready, obsolete, o)
        PROVE  UNCHANGED <<txnRows, transactions>>
    BY <2>1 DEF CreateItem
  <2>. QED  BY <2>1 DEF Next
<1>4. ASSUME NEW u \in Users, NEW i \in ItemIds, ItemStep(u, i)
      PROVE  /\ KeepsParties(txnRows, txnRows')
             /\ serving' => KeepsParties(transactions, transactions')
  BY <1>4, ItemStepParties
<1>5. ASSUME NEW u \in Users, NEW t \in TxnIds, SaleStep(u, t)
      PROVE  /\ KeepsParties(txnRows, txnRows')
             /\ KeepsParties(transactions, transactions')
  BY <1>5, SaleStepParties
<1>. QED  BY <1>1, <1>2, <1>3, <1>4, <1>5 DEF KeepsParties

LEMMA SamePartiesOf ==
  ASSUME NEW new, NEW old, SameTxn(new, old)
  PROVE  PartiesOf(new) = PartiesOf(old)
  BY DEF SameTxn, PartiesOf

(* Who is a party of a sale stays one while the process serves. *)
LEMMA StaysParty ==
  ASSUME SalesInv, Next, serving, serving', NEW u \in Users, NEW t \in TxnIds,
         IsParty(u, t)
  PROVE  IsParty(u, t)'
<1>1. transactions[t] # NoTxn /\ u \in PartiesOf(transactions[t])
  BY DEF IsParty
<1>2. SameTxn(transactions'[t], transactions[t])
  BY <1>1, PartiesStay DEF KeepsParties
<1>3. u \in PartiesOf(transactions'[t])
  BY <1>1, <1>2, SamePartiesOf
<1>4. transactions'[t] # NoTxn
  BY <1>3, StoreAssumption DEF PartiesOf, NoTxn
<1>. QED  BY <1>3, <1>4 DEF IsParty, PartiesOf

-----------------------------------------------------------------------------
(* Every step keeps the invariant *)

LEMMA InitConversation == ConversationInit => ConversationInv
<1>. SUFFICES ASSUME ConversationInit PROVE ConversationInv
  OBVIOUS
<1>1. SalesInv /\ TypeOK /\ serving
  BY InitSales DEF ConversationInit, SalesInv, Init, StoreInit
<1>2. /\ clock = 0 /\ nextMsgID = 1 /\ msgRows = {}
      /\ \A t \in TxnIds : messages[t] = <<>> /\ answered[t] = <<>>
      /\ messages \in [TxnIds -> Seq(Message)] /\ answered \in [TxnIds -> Seq(Message)]
      /\ posts \in [Posts -> Post \cup {Idle}]
  BY DEF ConversationInit
<1>3. Admitted = {}
  BY DEF ConversationInit, Admitted
<1>4. ConversationTypeOK
  BY <1>1, <1>2, <1>3, ConversationAssumption DEF ConversationTypeOK
<1>5. RoomIsLeft
  BY <1>2, <1>3, FS_EmptySet, ConversationAssumption DEF RoomIsLeft
<1>6. MessagesAreNumbered /\ AnsweredAreNumbered
  BY <1>2 DEF MessagesAreNumbered, AnsweredAreNumbered, Numbered
<1>7. RowsAreNumbered /\ RowsAreShown
  BY <1>2, FS_EmptySet DEF RowsAreNumbered, RowsAreShown
<1>. QED  BY <1>1, <1>4, <1>5, <1>6, <1>7 DEF ConversationInv

LEMMA TickConversation ==
  ASSUME ConversationInv, SalesInv', Tick PROVE ConversationInv'
<1>1. UNCHANGED <<vars, posts, messages, nextMsgID, msgRows, answered>>
  BY DEF Tick
<1>2. clock \in 0 .. MaxTime /\ clock' = clock + 1 /\ clock' \in 0 .. MaxTime
  BY ConversationAssumption DEF Tick, ConversationInv, ConversationTypeOK
<1>3. SalesInv'
  OBVIOUS
<1>4. UNCHANGED <<serving, transactions, txnRows>>
  BY <1>1 DEF vars, memory, tables
<1>5. Admitted' = Admitted /\ \A u, t : IsParty(u, t)' = IsParty(u, t)
  BY <1>1, <1>4 DEF Admitted, IsParty, PartiesOf
<1>6. ConversationTypeOK'
  BY <1>1, <1>2, <1>3, <1>4, <1>5 DEF ConversationInv, ConversationTypeOK, SalesInv
<1>7. RowsAreNumbered'
  <2>1. \A row \in msgRows : row.at \in Nat
    BY ConversationAssumption DEF ConversationInv, ConversationTypeOK, Message
  <2>2. \A row \in msgRows : row.at <= clock'
    BY <1>2, <2>1 DEF ConversationInv, RowsAreNumbered
  <2>. QED
    BY <1>1, <1>4, <2>2 DEF ConversationInv, RowsAreNumbered, PartiesOf
<1>8. MessagesAreNumbered' /\ AnsweredAreNumbered' /\ RowsAreShown'
  BY <1>1, <1>4, <1>5 DEF ConversationInv, MessagesAreNumbered,
     AnsweredAreNumbered, RowsAreShown
<1>9. RoomIsLeft'
  BY <1>1, <1>5 DEF ConversationInv, RoomIsLeft
<1>. QED  BY <1>3, <1>6, <1>7, <1>8, <1>9 DEF ConversationInv

LEMMA AdmittedRequests == IsFiniteSet(Admitted) /\ Cardinality(Admitted) \in Nat
<1>1. Admitted \in SUBSET Posts
  BY DEF Admitted
<1>. QED  BY <1>1, ConversationAssumption, FS_Subset, FS_CardinalityType

LEMMA AdmitConversation ==
  ASSUME ConversationInv, SalesInv', NEW p \in Posts, NEW u \in Users,
         NEW t \in TxnIds, Admit(p, u, t)
  PROVE  ConversationInv'
<1> DEFINE post == [sender |-> u, txn |-> t]
<1>1. /\ UNCHANGED <<vars, clock, messages, nextMsgID, msgRows, answered>>
      /\ serving /\ posts[p] = Idle /\ IsParty(u, t)
      /\ nextMsgID + Cardinality(Admitted) <= MaxMsgs
      /\ posts' = [posts EXCEPT ![p] = post]
  BY DEF Admit
<1>2. SalesInv'
  OBVIOUS
<1>3. UNCHANGED <<serving, transactions, txnRows>>
  BY <1>1 DEF vars, memory, tables
<1>4. posts \in [Posts -> Post \cup {Idle}] /\ nextMsgID \in 1 .. (MaxMsgs + 1)
  BY DEF ConversationInv, ConversationTypeOK
<1>5. post \in Post /\ post # Idle
  BY StoreAssumption DEF Post, Idle
<1>6. posts'[p] = post /\ \A q \in Posts : q # p => posts'[q] = posts[q]
  BY <1>1, <1>4
<1>7. Admitted' = Admitted \cup {p} /\ p \notin Admitted
  BY <1>1, <1>5, <1>6 DEF Admitted
<1>8. \A v, s : IsParty(v, s)' = IsParty(v, s)
  BY <1>3 DEF IsParty, PartiesOf
<1>9. RoomIsLeft'
  <2>1. Cardinality(Admitted') = Cardinality(Admitted) + 1
    BY <1>7, AdmittedRequests, FS_AddElement
  <2>2. nextMsgID' + Cardinality(Admitted') <= MaxMsgs + 1
    BY <1>1, <1>4, <2>1, AdmittedRequests, ConversationAssumption
  <2>3. \A q \in Admitted' : IsParty(posts'[q].sender, posts'[q].txn)
    BY <1>1, <1>6, <1>7 DEF ConversationInv, RoomIsLeft, Admitted
  <2>4. \A q \in Admitted' : IsParty(posts[q].sender, posts[q].txn)'
    BY <1>3, <2>3 DEF IsParty, PartiesOf
  <2>. QED  BY <2>2, <2>4 DEF RoomIsLeft
<1>10. ConversationTypeOK'
  <2>1. posts' \in [Posts -> Post \cup {Idle}]
    BY <1>1, <1>4, <1>5
  <2>2. \A q \in Admitted' : serving' /\ transactions'[posts'[q].txn] # NoTxn
    BY <1>1, <1>3, <1>9 DEF RoomIsLeft, IsParty
  <2>. QED
    BY <1>1, <1>2, <1>3, <2>1, <2>2 DEF ConversationInv, ConversationTypeOK, SalesInv
<1>11. MessagesAreNumbered' /\ AnsweredAreNumbered' /\ RowsAreShown'
  BY <1>1, <1>3, <1>8 DEF ConversationInv, MessagesAreNumbered,
     AnsweredAreNumbered, RowsAreShown
<1>12. RowsAreNumbered'
  BY <1>1, <1>3 DEF ConversationInv, RowsAreNumbered, PartiesOf
<1>. QED  BY <1>2, <1>9, <1>10, <1>11, <1>12 DEF ConversationInv

(* What createMessage does under its second lock: the id is fresh, so the  *)
(* upsert adds a row, and only when the sale has one.                      *)
LEMMA PostedMessage ==
  ASSUME ConversationInv, NEW p \in Posts, NEW o, PostMessage(p, o)
  PROVE  LET t == posts[p].txn
             msg == [id |-> nextMsgID, txn |-> t, sender |-> posts[p].sender,
                     at |-> clock]
         IN  /\ serving /\ p \in Admitted
             /\ t \in TxnIds /\ msg \in Message /\ IsParty(msg.sender, t)
             /\ nextMsgID' = nextMsgID + 1
             /\ messages' = [messages EXCEPT ![t] = Append(@, msg)]
             /\ \/ msgRows' = msgRows /\ answered' = answered
                \/ /\ msgRows' = msgRows \cup {msg}
                   /\ txnRows[t] # NoTxn
                   /\ answered' \in {answered, [answered EXCEPT ![t] = Append(@, msg)]}
<1> DEFINE t == posts[p].txn
           msg == [id |-> nextMsgID, txn |-> t, sender |-> posts[p].sender,
                   at |-> clock]
<1>1. /\ posts \in [Posts -> Post \cup {Idle}] /\ nextMsgID \in 1 .. (MaxMsgs + 1)
      /\ clock \in 0 .. MaxTime /\ msgRows \subseteq Message
      /\ ~serving => Admitted = {}
  BY DEF ConversationInv, ConversationTypeOK
<1>2. p \in Admitted /\ posts[p] \in Post /\ serving
  BY <1>1 DEF PostMessage, Admitted
<1>3. t \in TxnIds /\ posts[p].sender \in Users
  BY <1>2 DEF Post
<1>4. nextMsgID \in 1 .. MaxMsgs
  <2>1. Cardinality(Admitted) # 0
    BY <1>2, AdmittedRequests, FS_EmptySet
  <2>. QED
    BY <1>1, <2>1, AdmittedRequests, ConversationAssumption
    DEF ConversationInv, RoomIsLeft
<1>5. msg \in Message
  BY <1>1, <1>3, <1>4 DEF Message
<1>6. IsParty(posts[p].sender, t)
  BY <1>2 DEF ConversationInv, RoomIsLeft
<1>7. Upserted(msgRows, msg) = msgRows \cup {msg}
  <2>1. \A row \in msgRows : row.id \in Nat /\ row.id < nextMsgID
    BY <1>1, <1>2, ConversationAssumption DEF ConversationInv, RowsAreNumbered, Message
  <2>2. ~ \E row \in msgRows : row.id = msg.id
    BY <1>1, <2>1
  <2>. QED  BY <2>2 DEF Upserted
<1>8. /\ nextMsgID' = nextMsgID + 1
      /\ messages' = [messages EXCEPT ![t] = Append(@, msg)]
      /\ SaveMessage(msg, o)
      /\ o \in WriteOutcomes(txnRows[t] # NoTxn)
      /\ answered' = IF Continues(o) THEN [answered EXCEPT ![t] = Append(@, msg)]
                     ELSE answered
  BY DEF PostMessage
<1> HIDE DEF t, msg
<1>9. CASE o = "failed"
  BY <1>2, <1>3, <1>5, <1>6, <1>8, <1>9 DEF SaveMessage, Continues, t, msg
<1>10. CASE o # "failed"
  <2>1. msgRows' = msgRows \cup {msg} /\ txnRows[t] # NoTxn
    BY <1>7, <1>8, <1>10 DEF SaveMessage, WriteOutcomes
  <2>2. answered' \in {answered, [answered EXCEPT ![t] = Append(@, msg)]}
    BY <1>8
  <2>. QED  BY <1>2, <1>3, <1>5, <1>6, <1>8, <2>1, <2>2 DEF t, msg
<1>. QED  BY <1>9, <1>10

LEMMA PostMessageConversation ==
  ASSUME ConversationInv, SalesInv', NEW p \in Posts, NEW o, PostMessage(p, o)
  PROVE  ConversationInv'
<1> DEFINE t == posts[p].txn
           msg == [id |-> nextMsgID, txn |-> t, sender |-> posts[p].sender,
                   at |-> clock]
<1>1. /\ serving /\ p \in Admitted
      /\ t \in TxnIds /\ msg \in Message /\ IsParty(msg.sender, t)
      /\ nextMsgID' = nextMsgID + 1
      /\ messages' = [messages EXCEPT ![t] = Append(@, msg)]
      /\ \/ msgRows' = msgRows /\ answered' = answered
         \/ /\ msgRows' = msgRows \cup {msg}
            /\ txnRows[t] # NoTxn
            /\ answered' \in {answered, [answered EXCEPT ![t] = Append(@, msg)]}
  BY PostedMessage
<1>2. UNCHANGED <<vars, clock>> /\ posts' = [posts EXCEPT ![p] = Idle]
  BY DEF PostMessage
<1>3. msg.id = nextMsgID /\ msg.txn = t /\ msg.at = clock
  OBVIOUS
<1> HIDE DEF t, msg
<1>4. UNCHANGED <<serving, transactions, txnRows>>
  BY <1>2 DEF vars, memory, tables
<1>5. SalesInv'
  OBVIOUS
<1>6. /\ posts \in [Posts -> Post \cup {Idle}] /\ nextMsgID \in 1 .. (MaxMsgs + 1)
      /\ messages \in [TxnIds -> Seq(Message)] /\ answered \in [TxnIds -> Seq(Message)]
      /\ clock \in 0 .. MaxTime /\ msgRows \subseteq Message
  BY DEF ConversationInv, ConversationTypeOK
<1>7. \A v, s : IsParty(v, s)' = IsParty(v, s)
  BY <1>4 DEF IsParty, PartiesOf
<1>8. /\ messages'[t] = Append(messages[t], msg)
      /\ \A s \in TxnIds : s # t => messages'[s] = messages[s]
      /\ messages' \in [TxnIds -> Seq(Message)]
  <2>1. Append(messages[t], msg) \in Seq(Message)
    BY <1>1, <1>6, Appending
  <2>. QED  BY <1>1, <1>6, <2>1
<1>9. RoomIsLeft' /\ Admitted' = Admitted \ {p}
  <2>1. posts'[p] = Idle /\ \A q \in Posts : q # p => posts'[q] = posts[q]
    BY <1>2, <1>6
  <2>2. Admitted' = Admitted \ {p}
    BY <2>1 DEF Admitted
  <2>3. Cardinality(Admitted') = Cardinality(Admitted) - 1
    BY <1>1, <2>2, AdmittedRequests, FS_RemoveElement
  <2>4. nextMsgID' + Cardinality(Admitted') <= MaxMsgs + 1
    BY <1>1, <1>6, <2>3, AdmittedRequests, ConversationAssumption
    DEF ConversationInv, RoomIsLeft
  <2>5. \A q \in Admitted' : IsParty(posts'[q].sender, posts'[q].txn)
    BY <2>1, <2>2 DEF ConversationInv, RoomIsLeft, Admitted
  <2>6. \A q \in Admitted' : IsParty(posts[q].sender, posts[q].txn)'
    BY <1>4, <2>5 DEF IsParty, PartiesOf
  <2>. QED  BY <2>2, <2>4, <2>6 DEF RoomIsLeft
<1>10. /\ msgRows' \subseteq Message
       /\ msgRows \subseteq msgRows'
       /\ \A row \in msgRows' : row \in msgRows \/ (row = msg /\ txnRows[t] # NoTxn)
  BY <1>1, <1>6
<1>11. \A row \in msgRows : /\ row.id \in Nat /\ row.at \in Nat
                            /\ row.id < nextMsgID /\ row.at <= clock
  BY <1>1, <1>6, ConversationAssumption
  DEF ConversationInv, RowsAreNumbered, Message
<1>12. MessagesAreNumbered'
  <2> SUFFICES ASSUME NEW s \in TxnIds
               PROVE  /\ Numbered(messages'[s])
                      /\ \A k \in DOMAIN messages'[s] :
                           /\ messages'[s][k].txn = s
                           /\ messages'[s][k].id < nextMsgID'
                           /\ IsParty(messages'[s][k].sender, s)
    BY <1>7 DEF MessagesAreNumbered, IsParty, PartiesOf
  <2>1. /\ Numbered(messages[s]) /\ messages[s] \in Seq(Message)
        /\ \A k \in DOMAIN messages[s] :
             /\ messages[s][k].txn = s
             /\ messages[s][k].id < nextMsgID
             /\ IsParty(messages[s][k].sender, s)
    BY <1>6 DEF ConversationInv, MessagesAreNumbered
  <2>2. \A k \in DOMAIN messages[s] : messages[s][k].id \in Nat
    <3>1. \A k \in DOMAIN messages[s] : messages[s][k] \in Message
      BY <2>1
    <3>. QED  BY <3>1, ConversationAssumption DEF Message
  <2>3. CASE s # t
    BY <1>1, <1>6, <1>8, <2>1, <2>2, <2>3
  <2>4. CASE s = t
    <3> DEFINE longer == Append(messages[s], msg)
    <3>1. Numbered(longer)
      BY <1>1, <1>3, <2>1, AppendedNumbered
    <3>2. /\ Len(messages[s]) \in Nat
          /\ DOMAIN messages[s] = 1 .. Len(messages[s])
          /\ DOMAIN longer = 1 .. (Len(messages[s]) + 1)
          /\ \A k \in 1 .. Len(messages[s]) : longer[k] = messages[s][k]
          /\ longer[Len(messages[s]) + 1] = msg
      BY <1>1, <2>1, Appending
    <3> HIDE DEF longer
    <3>3. ASSUME NEW k \in 1 .. (Len(messages[s]) + 1)
          PROVE  /\ longer[k].txn = s
                 /\ longer[k].id < nextMsgID'
                 /\ IsParty(longer[k].sender, s)
      <4>1. CASE k \in 1 .. Len(messages[s])
        <5>1. /\ longer[k] = messages[s][k] /\ messages[s][k].txn = s
              /\ messages[s][k].id \in Nat /\ messages[s][k].id < nextMsgID
              /\ IsParty(messages[s][k].sender, s)
          BY <2>1, <2>2, <3>2, <4>1
        <5>. QED  BY <1>1, <1>6, <5>1
      <4>2. CASE k = Len(messages[s]) + 1
        BY <1>1, <1>3, <1>6, <2>4, <3>2, <4>2
      <4>. QED  BY <3>2, <4>1, <4>2
    <3>4. messages'[s] = longer
      BY <1>8, <2>4 DEF longer
    <3>. QED  BY <3>1, <3>2, <3>3, <3>4
  <2>. QED  BY <2>3, <2>4
<1>13. RowsAreNumbered'
  <2>1. IsFiniteSet(msgRows')
    BY <1>1, FS_AddElement DEF ConversationInv, RowsAreNumbered
  <2>2. ASSUME NEW a \in msgRows', NEW b \in msgRows'
        PROVE  (a.id = b.id => a = b) /\ (a.id < b.id => a.at <= b.at)
    <3>1. CASE a \in msgRows /\ b \in msgRows
      BY <3>1 DEF ConversationInv, RowsAreNumbered
    <3>2. CASE a = msg \/ b = msg
      BY <1>3, <1>6, <1>10, <1>11, <3>2
    <3>. QED  BY <1>10, <3>1, <3>2
  <2>3. ASSUME NEW row \in msgRows'
        PROVE  /\ row.at <= clock /\ row.id < nextMsgID'
               /\ row.sender \in PartiesOf(txnRows[row.txn])
    <3>1. CASE row \in msgRows
      BY <1>1, <1>6, <1>11, <3>1 DEF ConversationInv, RowsAreNumbered
    <3>2. CASE row = msg /\ txnRows[t] # NoTxn
      <4>1. SameTxn(txnRows[t], transactions[t])
        BY <1>1, <3>2 DEF ConversationInv, SalesInv, IdsAreFresh
      <4>. QED
        BY <1>1, <1>3, <1>6, <3>2, <4>1, SamePartiesOf DEF IsParty
    <3>. QED  BY <1>10, <3>1, <3>2
  <2>4. ASSUME NEW row \in msgRows'
        PROVE  row.sender \in PartiesOf(txnRows[row.txn])'
    BY <1>4, <2>3 DEF PartiesOf
  <2>. QED  BY <1>2, <2>1, <2>2, <2>3, <2>4 DEF RowsAreNumbered
<1>14. RowsAreShown'
  <2> SUFFICES ASSUME NEW row \in msgRows' PROVE Has(messages'[row.txn], row)
    BY DEF RowsAreShown, Has
  <2>1. row.txn \in TxnIds
    BY <1>10 DEF Message
  <2>2. row \in msgRows => Has(messages[row.txn], row)
    BY <1>1 DEF ConversationInv, RowsAreShown
  <2>3. CASE row.txn = t
    BY <1>1, <1>6, <1>8, <1>10, <2>2, <2>3, AppendedHas
  <2>4. CASE row.txn # t
    BY <1>3, <1>8, <1>10, <2>1, <2>2, <2>4
  <2>. QED  BY <2>3, <2>4
<1>15. AnsweredAreNumbered' /\ answered' \in [TxnIds -> Seq(Message)]
  <2>1. CASE answered' = answered
    BY <1>6, <1>10, <2>1 DEF ConversationInv, AnsweredAreNumbered
  <2>2. CASE answered' # answered
    <3> DEFINE longer == Append(answered[t], msg)
    <3>1. /\ msg \in msgRows'
          /\ answered' = [answered EXCEPT ![t] = longer]
      BY <1>1, <2>2
    <3>2. /\ answered[t] \in Seq(Message) /\ Numbered(answered[t])
          /\ \A k \in DOMAIN answered[t] :
               answered[t][k] \in msgRows /\ answered[t][k].txn = t
      BY <1>1, <1>6 DEF ConversationInv, AnsweredAreNumbered
    <3>3. longer \in Seq(Message) /\ Numbered(longer)
      BY <1>1, <1>3, <1>11, <3>2, Appending, AppendedNumbered
    <3>4. /\ Len(answered[t]) \in Nat
          /\ DOMAIN answered[t] = 1 .. Len(answered[t])
          /\ DOMAIN longer = 1 .. (Len(answered[t]) + 1)
          /\ \A k \in 1 .. Len(answered[t]) : longer[k] = answered[t][k]
          /\ longer[Len(answered[t]) + 1] = msg
      BY <1>1, <3>2, Appending
    <3> HIDE DEF longer
    <3>5. ASSUME NEW k \in 1 .. (Len(answered[t]) + 1)
          PROVE  longer[k] \in msgRows' /\ longer[k].txn = t
      <4>1. CASE k \in 1 .. Len(answered[t])
        BY <1>10, <3>2, <3>4, <4>1
      <4>2. CASE k = Len(answered[t]) + 1
        BY <1>3, <3>1, <3>4, <4>2
      <4>. QED  BY <3>4, <4>1, <4>2
    <3>6. answered'[t] = longer /\ \A s \in TxnIds : s # t => answered'[s] = answered[s]
      BY <1>1, <1>6, <3>1
    <3>7. \A s \in TxnIds : s # t =>
            /\ Numbered(answered[s])
            /\ \A k \in DOMAIN answered[s] :
                 answered[s][k] \in msgRows' /\ answered[s][k].txn = s
      BY <1>10 DEF ConversationInv, AnsweredAreNumbered
    <3>8. AnsweredAreNumbered'
      BY <3>3, <3>4, <3>5, <3>6, <3>7 DEF AnsweredAreNumbered, Numbered
    <3>9. answered' \in [TxnIds -> Seq(Message)]
      BY <1>1, <1>6, <3>1, <3>3
    <3>. QED  BY <3>8, <3>9
  <2>. QED  BY <2>1, <2>2
<1>16. ConversationTypeOK'
  <2>1. posts' \in [Posts -> Post \cup {Idle}]
    BY <1>2, <1>6
  <2>2. nextMsgID' \in 1 .. (MaxMsgs + 1)
    BY <1>1, <1>3, <1>6, ConversationAssumption DEF Message
  <2>3. \A q \in Admitted' : serving' /\ transactions'[posts'[q].txn] # NoTxn
    BY <1>1, <1>4, <1>9 DEF RoomIsLeft, IsParty
  <2>. QED
    BY <1>1, <1>2, <1>4, <1>5, <1>6, <1>8, <1>10, <1>15, <2>1, <2>2, <2>3
    DEF ConversationTypeOK, SalesInv
<1>. QED
  BY <1>5, <1>9, <1>12, <1>13, <1>14, <1>15, <1>16 DEF ConversationInv

(* A step of the market takes only the messages of purged sales away. *)
LEMMA MarketKeepsRows ==
  ASSUME ConversationInv, MarketStep
  PROVE  /\ msgRows' \subseteq msgRows
         /\ \A row \in msgRows' : row.sender \in PartiesOf(txnRows'[row.txn])
         /\ answered' \in [TxnIds -> Seq(Message)]
         /\ AnsweredAreNumbered'
         /\ serving => UNCHANGED <<msgRows, answered>>
<1>1. /\ Next
      /\ msgRows' = {row \in msgRows : row.txn \notin PurgedSales}
      /\ answered' = [t \in TxnIds |-> IF t \in PurgedSales THEN <<>> ELSE answered[t]]
  BY DEF MarketStep
<1>2. msgRows \subseteq Message /\ answered \in [TxnIds -> Seq(Message)] /\ TypeOK
  BY DEF ConversationInv, ConversationTypeOK
<1>3. ASSUME NEW row \in msgRows'
      PROVE  row.sender \in PartiesOf(txnRows'[row.txn])
  <2>1. row \in msgRows /\ row.txn \notin PurgedSales
    BY <1>1
  <2>2. row.txn \in TxnIds /\ row.sender \in Users
    BY <1>2, <2>1 DEF Message
  <2>3. row.sender \in PartiesOf(txnRows[row.txn])
    BY <2>1 DEF ConversationInv, RowsAreNumbered
  <2>4. txnRows[row.txn] # NoTxn
    BY <2>2, <2>3, StoreAssumption DEF PartiesOf, NoTxn
  <2>5. SameTxn(txnRows'[row.txn], txnRows[row.txn])
    BY <1>1, <2>1, <2>2, <2>4, PartiesStay DEF ConversationInv
  <2>. QED  BY <2>3, <2>5, SamePartiesOf
<1>4. serving => PurgedSales = {}
  BY <1>1, <1>2, NothingPurged
<1>. HIDE DEF PurgedSales
<1>5. answered' \in [TxnIds -> Seq(Message)]
  BY <1>1, <1>2
<1>6. serving => UNCHANGED <<msgRows, answered>>
  BY <1>1, <1>2, <1>4
<1>7. ASSUME NEW t \in TxnIds
      PROVE  /\ Numbered(answered'[t])
             /\ \A k \in DOMAIN answered'[t] :
                  answered'[t][k] \in msgRows' /\ answered'[t][k].txn = t
  <2>1. CASE t \in PurgedSales
    BY <1>1, <2>1 DEF Numbered
  <2>2. CASE t \notin PurgedSales
    BY <1>1, <2>2 DEF ConversationInv, AnsweredAreNumbered
  <2>. QED  BY <2>1, <2>2
<1>8. AnsweredAreNumbered'
  BY <1>7 DEF AnsweredAreNumbered, Numbered
<1>. QED  BY <1>1, <1>3, <1>5, <1>6, <1>8

LEMMA RowsWhenMarketSteps ==
  ASSUME ConversationInv, MarketStep,
         serving' => \A row \in msgRows : row.id < nextMsgID'
  PROVE  RowsAreNumbered' /\ msgRows' \subseteq Message
<1>1. clock' = clock /\ msgRows' \subseteq msgRows
  BY MarketKeepsRows DEF MarketStep
<1>2. \A row \in msgRows' : row.sender \in PartiesOf(txnRows[row.txn])'
  BY MarketKeepsRows DEF PartiesOf
<1>3. IsFiniteSet(msgRows')
  BY <1>1, FS_Subset DEF ConversationInv, RowsAreNumbered
<1>. QED
  BY <1>1, <1>2, <1>3 DEF ConversationInv, ConversationTypeOK, RowsAreNumbered

(* No request outlives its process. *)
LEMMA NoRequestLeft ==
  ASSUME posts' = [p \in Posts |-> Idle]
  PROVE  Admitted' = {} /\ Cardinality(Admitted') = 0
<1>1. Admitted' = {}
  BY DEF Admitted
<1>. QED  BY <1>1, FS_EmptySet

LEMMA DeathConversation ==
  ASSUME ConversationInv, SalesInv', MarketStep, ~serving'
  PROVE  ConversationInv'
<1>1. /\ clock' = clock
      /\ posts' = [p \in Posts |-> Idle]
      /\ messages' = [t \in TxnIds |-> <<>>]
      /\ nextMsgID' = 1
  BY DEF MarketStep, RequestsLeft
<1>2. /\ SalesInv' /\ AnsweredAreNumbered'
      /\ answered' \in [TxnIds -> Seq(Message)]
  BY MarketKeepsRows
<1>3. RowsAreNumbered' /\ msgRows' \subseteq Message
  BY RowsWhenMarketSteps
<1>4. Admitted' = {} /\ Cardinality(Admitted') = 0
  BY <1>1, NoRequestLeft
<1>5. \A t \in TxnIds : messages'[t] = <<>>
  BY <1>1
<1>6. MessagesAreNumbered'
  BY <1>5 DEF MessagesAreNumbered, Numbered
<1>7. RowsAreShown'
  BY DEF RowsAreShown
<1>8. RoomIsLeft'
  BY <1>1, <1>4, ConversationAssumption DEF RoomIsLeft
<1>9. ConversationTypeOK'
  BY <1>1, <1>2, <1>3, <1>4, ConversationAssumption
  DEF ConversationInv, ConversationTypeOK, SalesInv
<1>. QED  BY <1>2, <1>3, <1>6, <1>7, <1>8, <1>9 DEF ConversationInv

LEMMA StartConversation ==
  ASSUME ConversationInv, SalesInv', MarketStep, ~serving, serving'
  PROVE  ConversationInv'
<1>1. /\ clock' = clock /\ posts' = posts
      /\ messages' \in Reloaded'
      /\ nextMsgID' \in 1 .. (MaxMsgs + 1)
      /\ IsNextID(nextMsgID', {row.id : row \in msgRows})
  BY DEF MarketStep, RequestsLeft
<1>2. /\ SalesInv' /\ AnsweredAreNumbered'
      /\ answered' \in [TxnIds -> Seq(Message)]
      /\ msgRows' \subseteq msgRows
      /\ \A row \in msgRows' : row.sender \in PartiesOf(txnRows'[row.txn])
  BY MarketKeepsRows
<1>3. \A row \in msgRows : row.id < nextMsgID'
  BY <1>1 DEF IsNextID
<1>4. RowsAreNumbered' /\ msgRows' \subseteq Message
  BY <1>3, RowsWhenMarketSteps
<1>5. Admitted' = {} /\ Cardinality(Admitted') = 0
  <2>1. Admitted = {} /\ Admitted' = Admitted
    BY <1>1 DEF ConversationInv, ConversationTypeOK, Admitted
  <2>. QED  BY <2>1, FS_EmptySet
<1>6. transactions' = txnRows'
  <2>1. ASSUME NEW u, NEW i, ItemStep(u, i) PROVE serving
    BY <2>1 DEF ItemStep, UpdateItem, DeleteUnsoldItem, DeleteSoldItem,
       DeleteSoldItemKilled, Purchase, PurchaseKilled
  <2>2. ASSUME NEW u, NEW t, SaleStep(u, t) PROVE serving
    BY <2>2 DEF SaleStep, Pay, Complete, DeleteTransaction, CreateReview
  <2>3. ProcessStep
    BY <2>1, <2>2, Zenon DEF MarketStep, Next, CreateItem
  <2>. QED  BY <2>3 DEF ProcessStep, Crash, Restart, RestartCutOff
<1>7. Sortable(msgRows')
  BY <1>4 DEF Sortable, RowsAreNumbered
<1>8. ASSUME NEW t \in TxnIds
      PROVE  /\ messages'[t] \in Seq(Message)
             /\ Numbered(messages'[t])
             /\ \A k \in DOMAIN messages'[t] :
                  messages'[t][k] \in msgRows' /\ messages'[t][k].txn = t
             /\ \A row \in msgRows' : row.txn = t => Has(messages'[t], row)
  <2>1. messages'[t] \in InOrder(OfSale(msgRows', t))
    BY <1>1 DEF Reloaded, Loaded, RowsOf, OfSale
  <2>. QED  BY <1>7, <2>1, LoadedIsNumbered
<1>9. messages' \in [TxnIds -> Seq(Message)]
  <2>1. DOMAIN messages' = TxnIds /\ messages' = [t \in DOMAIN messages' |-> messages'[t]]
    BY <1>1 DEF Reloaded
  <2>. QED  BY <1>8, <2>1
<1>10. MessagesAreNumbered'
  <2>1. ASSUME NEW t \in TxnIds, NEW k \in DOMAIN messages'[t]
        PROVE  IsParty(messages[t][k].sender, t)'
    <3>1. /\ messages'[t][k].sender \in PartiesOf(transactions'[t])
          /\ messages'[t][k].sender \in Users
      BY <1>2, <1>4, <1>6, <1>8 DEF Message
    <3>2. transactions'[t] # NoTxn
      BY <3>1, StoreAssumption DEF PartiesOf, NoTxn
    <3>. QED  BY <3>1, <3>2 DEF IsParty, PartiesOf
  <2>. QED  BY <1>2, <1>3, <1>8, <2>1 DEF MessagesAreNumbered, Numbered
<1>11. RowsAreShown'
  <2>1. \A row \in msgRows' : row.txn \in TxnIds
    BY <1>4 DEF Message
  <2>. QED  BY <1>1, <1>8, <2>1 DEF RowsAreShown, Has
<1>12. RoomIsLeft'
  BY <1>1, <1>5, ConversationAssumption DEF RoomIsLeft
<1>13. ConversationTypeOK'
  BY <1>1, <1>2, <1>4, <1>5, <1>9 DEF ConversationInv, ConversationTypeOK, SalesInv
<1>. QED
  BY <1>2, <1>4, <1>10, <1>11, <1>12, <1>13 DEF ConversationInv

LEMMA SalesConversation ==
  ASSUME ConversationInv, SalesInv', MarketStep, serving, serving'
  PROVE  ConversationInv'
<1>1. Next /\ UNCHANGED <<clock, msgRows, answered, posts, messages, nextMsgID>>
  BY MarketKeepsRows DEF MarketStep, RequestsLeft
<1>2. SalesInv' /\ AnsweredAreNumbered'
  BY MarketKeepsRows
<1>3. RowsAreNumbered'
  BY <1>1, RowsWhenMarketSteps DEF ConversationInv, RowsAreNumbered
<1>4. /\ posts \in [Posts -> Post \cup {Idle}]
      /\ messages \in [TxnIds -> Seq(Message)]
  BY DEF ConversationInv, ConversationTypeOK
<1>5. ASSUME NEW t \in TxnIds, NEW k \in DOMAIN messages[t]
      PROVE  IsParty(messages[t][k].sender, t)'
  <2>1. messages[t][k] \in Message /\ IsParty(messages[t][k].sender, t)
    BY <1>4 DEF ConversationInv, MessagesAreNumbered
  <2>2. messages[t][k].sender \in Users
    BY <2>1 DEF Message
  <2>3. messages[t][k].sender \in PartiesOf(transactions'[t]) /\ transactions'[t] # NoTxn
    BY <1>1, <2>1, <2>2, StaysParty DEF ConversationInv, IsParty, PartiesOf
  <2>. QED  BY <1>1, <2>3 DEF IsParty, PartiesOf
<1>6. MessagesAreNumbered'
  BY <1>1, <1>5 DEF ConversationInv, MessagesAreNumbered
<1>7. RowsAreShown'
  BY <1>1 DEF ConversationInv, RowsAreShown
<1>8. Admitted' = Admitted
  BY <1>1 DEF Admitted
<1>9. RoomIsLeft'
  <2>1. ASSUME NEW p \in Admitted
        PROVE  IsParty(posts[p].sender, posts[p].txn)'
    <3>1. posts[p] \in Post /\ IsParty(posts[p].sender, posts[p].txn)
      BY <1>4 DEF ConversationInv, RoomIsLeft, Admitted
    <3>2. posts[p].sender \in Users /\ posts[p].txn \in TxnIds
      BY <3>1 DEF Post
    <3>3. /\ posts[p].sender \in PartiesOf(transactions'[posts[p].txn])
          /\ transactions'[posts[p].txn] # NoTxn
      BY <1>1, <3>1, <3>2, StaysParty DEF ConversationInv, IsParty, PartiesOf
    <3>. QED  BY <1>1, <3>3 DEF IsParty, PartiesOf
  <2>. QED  BY <1>1, <1>8, <2>1 DEF ConversationInv, RoomIsLeft
<1>10. ConversationTypeOK'
  <2>1. \A p \in Admitted' : transactions'[posts'[p].txn] # NoTxn
    BY <1>9 DEF RoomIsLeft, IsParty
  <2>. QED
    BY <1>1, <1>2, <1>8, <2>1 DEF ConversationInv, ConversationTypeOK, SalesInv
<1>. QED  BY <1>2, <1>3, <1>6, <1>7, <1>9, <1>10 DEF ConversationInv

LEMMA NextConversation ==
  ConversationInv /\ SalesInv' /\ [ConversationNext]_allVars => ConversationInv'
<1>. SUFFICES ASSUME ConversationInv, SalesInv', [ConversationNext]_allVars
              PROVE  ConversationInv'
  OBVIOUS
<1>1. CASE UNCHANGED allVars
  <2>1. /\ UNCHANGED vars /\ UNCHANGED <<serving, transactions, txnRows>>
        /\ UNCHANGED <<clock, posts, messages, nextMsgID, msgRows, answered>>
    BY <1>1 DEF allVars, msgVars, vars, memory, tables
  <2>2. SalesInv'
    OBVIOUS
  <2>3. Admitted' = Admitted
    BY <2>1 DEF Admitted
  <2>. QED
    BY <2>1, <2>2, <2>3 DEF ConversationInv, ConversationTypeOK, SalesInv,
       MessagesAreNumbered, RowsAreNumbered, RowsAreShown, AnsweredAreNumbered,
       RoomIsLeft, IsParty, PartiesOf
<1>. QED
  BY <1>1, TickConversation, AdmitConversation, PostMessageConversation,
     DeathConversation, StartConversation, SalesConversation
  DEF ConversationNext

(* The invariant of the conversations beside the market. *)
THEOREM ConversationInvariant == ConversationSpec => []ConversationInv
  BY InitConversation, NextConversation, MarketUndisturbed, SalesInvariant, PTL
  DEF ConversationSpec

-----------------------------------------------------------------------------
(* What follows from the invariant *)

(* Every variable keeps its type, and an admitted request is of a sale     *)
(* that is there, also while it waits for the second lock (createMessage). *)
THEOREM ConversationTypeCorrect == ConversationSpec => []ConversationTypeOK
<1>1. ConversationInv => ConversationTypeOK
  BY DEF ConversationInv
<1>. QED  BY <1>1, ConversationInvariant, PTL

(* A restart can read the messages of a sale in one order only, so that    *)
(* what clients see of a conversation does not depend on how MySQL sorts.  *)
THEOREM ReloadIsDetermined ==
  ConversationSpec => [](\A t \in TxnIds : \E stored \in Seq(Message) : Loaded(t) = {stored})
<1>1. ASSUME ConversationInv, NEW t \in TxnIds
      PROVE  \E stored \in Seq(Message) : Loaded(t) = {stored}
  <2>1. Sortable(OfSale(msgRows, t))
    BY <1>1, RowsAreSortable, SaleIsSortable DEF ConversationInv, ConversationTypeOK
  <2>. QED  BY <2>1, OneOrder DEF Loaded, RowsOf, OfSale
<1>2. ConversationInv => \A t \in TxnIds : \E stored \in Seq(Message) : Loaded(t) = {stored}
  BY <1>1
<1>. QED  BY <1>2, ConversationInvariant, PTL

(* Messages answered with a 201 are there, word for word, and in the order *)
(* in which they were answered, in the table and in what is shown.         *)
AnsweredInOrder ==
  \A t \in TxnIds :
    /\ \A stored \in Loaded(t) : KeepsOrder(answered[t], stored)
    /\ serving => KeepsOrder(answered[t], messages[t])

(* Until a start purges their sale, answered messages stay, in the order   *)
(* in which they were answered, in every order that loadStore may read and *)
(* in what is shown.                                                       *)
THEOREM AnsweredStayInOrder == ConversationSpec => []AnsweredInOrder
<1>1. ASSUME ConversationInv, NEW t \in TxnIds
      PROVE  /\ \A stored \in Loaded(t) : KeepsOrder(answered[t], stored)
             /\ serving => KeepsOrder(answered[t], messages[t])
  <2>1. /\ messages[t] \in Seq(Message) /\ answered[t] \in Seq(Message)
        /\ Sortable(msgRows)
    BY <1>1, RowsAreSortable DEF ConversationInv, ConversationTypeOK
  <2>2. /\ Numbered(answered[t]) /\ Numbered(messages[t])
        /\ \A k \in DOMAIN answered[t] :
             answered[t][k] \in msgRows /\ answered[t][k].txn = t
    BY <1>1 DEF ConversationInv, AnsweredAreNumbered, MessagesAreNumbered
  <2>3. ASSUME NEW stored \in Loaded(t) PROVE KeepsOrder(answered[t], stored)
    <3>1. stored \in InOrder(OfSale(msgRows, t))
      BY DEF Loaded, RowsOf, OfSale
    <3>. QED  BY <2>1, <2>2, <3>1, LoadedIsNumbered, NumberedKeepsOrder
  <2>4. ASSUME serving PROVE KeepsOrder(answered[t], messages[t])
    <3>1. \A k \in DOMAIN answered[t] : Has(messages[t], answered[t][k])
      BY <1>1, <2>2, <2>4 DEF ConversationInv, RowsAreShown
    <3>. QED  BY <2>1, <2>2, <3>1, NumberedKeepsOrder
  <2>. QED  BY <2>3, <2>4
<1>2. ConversationInv => AnsweredInOrder
  BY <1>1 DEF AnsweredInOrder
<1>. QED  BY <1>2, ConversationInvariant, PTL

(* A restart puts the messages of a sale in no other order than they were  *)
(* shown in, although it sorts them by seconds and the map by arrival.     *)
THEOREM ReloadsKeepOrder == ConversationSpec => []ReloadKeepsOrder
<1>1. ASSUME ConversationInv, serving, NEW t \in TxnIds
      PROVE  /\ \A stored \in Loaded(t) : KeepsOrder(stored, messages[t])
             /\ \A k \in DOMAIN messages[t] : messages[t][k].txn = t
  <2>1. /\ messages[t] \in Seq(Message) /\ Numbered(messages[t])
        /\ Sortable(msgRows)
        /\ \A k \in DOMAIN messages[t] : messages[t][k].txn = t
    BY <1>1, RowsAreSortable
    DEF ConversationInv, ConversationTypeOK, MessagesAreNumbered
  <2>2. ASSUME NEW stored \in Loaded(t) PROVE KeepsOrder(stored, messages[t])
    <3>0. stored \in InOrder(OfSale(msgRows, t))
      BY DEF Loaded, RowsOf, OfSale
    <3>1. /\ stored \in Seq(Message) /\ Numbered(stored)
          /\ \A k \in DOMAIN stored : stored[k] \in msgRows /\ stored[k].txn = t
      BY <2>1, <3>0, LoadedIsNumbered
    <3>2. \A k \in DOMAIN stored : Has(messages[t], stored[k])
      BY <1>1, <3>1 DEF ConversationInv, RowsAreShown
    <3>. QED  BY <2>1, <3>1, <3>2, NumberedKeepsOrder
  <2>. QED  BY <2>1, <2>2
<1>2. ConversationInv => ReloadKeepsOrder
  BY <1>1 DEF ReloadKeepsOrder
<1>. QED  BY <1>2, ConversationInvariant, PTL

(* Only the parties of a sale are heard in it, although createMessage asks *)
(* under one lock and writes under another.                                *)
THEOREM SendersAreParties == ConversationSpec => []SenderIsParty
<1>1. ConversationInv => SenderIsParty
  BY DEF ConversationInv, RoomIsLeft, MessagesAreNumbered, RowsAreNumbered,
     SenderIsParty
<1>. QED  BY <1>1, ConversationInvariant, PTL

-----------------------------------------------------------------------------
(* The transcript *)

(* The sales of module Transcript, for any rows of the tables *)
KindsOf(its, txns) ==
  [t \in TxnIds |->
     IF txns[t] = NoTxn THEN "none"
     ELSE IF its[txns[t].item].obsolete THEN "doomed" ELSE "kept"]

Kinds ==
  [t \in TxnIds |->
     IF txnRows[t] = NoTxn THEN "none"
     ELSE IF t \in ObsoleteSales THEN "doomed" ELSE "kept"]

LEMMA KindsMapped ==
  /\ SalesInv => Kinds = KindsOf(itemRows, txnRows)
  /\ SalesInv' => Kinds' = KindsOf(itemRows', txnRows')
<1>. USE DEF Kinds, KindsOf, ObsoleteSales, ObsoleteItems, SalesInv, TypeOK,
             StoreTypeOK, Txn
<1>1. SalesInv => Kinds = KindsOf(itemRows, txnRows)
  OBVIOUS
<1>2. SalesInv' => Kinds' = KindsOf(itemRows', txnRows')
  OBVIOUS
<1>. QED  BY <1>1, <1>2

(* The item of a sale and its title decide what kind of sale it is. *)
LEMMA SameKind ==
  ASSUME SalesInv, SalesInv', NEW t \in TxnIds,
         SaleRows'[t].item = SaleRows[t].item,
         SaleRows[t].item \in DoomedRows <=> SaleRows[t].item \in DoomedRows'
  PROVE  Kinds'[t] = Kinds[t]
<1>1. SaleRows[t].item = txnRows[t].item /\ SaleRows'[t].item = txnRows'[t].item
  BY DEF SaleRows, SaleOf
<1>2. txnRows'[t] = NoTxn <=> txnRows[t] = NoTxn
  BY <1>1, StoreAssumption DEF SalesInv, TypeOK, StoreTypeOK, Txn, NoTxn, ItemIds
<1>3. txnRows[t] # NoTxn =>
        /\ txnRows[t].item \in ItemIds /\ txnRows'[t].item = txnRows[t].item
        /\ itemRows[txnRows[t].item].status = "sold"
        /\ itemRows'[txnRows[t].item].status = "sold"
  BY <1>1, <1>2
  DEF SalesInv, TypeOK, StoreTypeOK, Txn, SaleMatchesItem, SaleMatchesItemIn
<1>4. txnRows[t] # NoTxn =>
        /\ txnRows[t].item \in DoomedRows <=> itemRows[txnRows[t].item].obsolete
        /\ txnRows[t].item \in DoomedRows' <=> itemRows'[txnRows[t].item].obsolete
  BY <1>3 DEF DoomedRows, SoldRows
<1>. QED  BY <1>1, <1>2, <1>3, <1>4, KindsMapped DEF KindsOf

LEMMA KindsAreSales ==
  ASSUME SalesInv, NEW t \in TxnIds
  PROVE  /\ SaleRows[t].item \in ItemIds => SaleRows[t].item \in SoldRows
         /\ Kinds[t] = "none" <=> SaleRows[t].item \notin ItemIds
<1>1. SaleRows[t].item = txnRows[t].item
  BY DEF SaleRows, SaleOf
<1>2. Kinds[t] = "none" <=> txnRows[t] = NoTxn
  BY DEF Kinds
<1>3. CASE txnRows[t] = NoTxn
  BY <1>1, <1>2, <1>3, StoreAssumption DEF NoTxn, ItemIds
<1>4. CASE txnRows[t] # NoTxn
  BY <1>1, <1>2, <1>4
  DEF SoldRows, SalesInv, TypeOK, StoreTypeOK, Txn, SaleMatchesItem, SaleMatchesItemIn
<1>. QED  BY <1>3, <1>4

(* Of the handlers only the one that records a sale changes what kind a    *)
(* sale is, and that of the recorded sale only.                            *)
LEMMA OpenedSale ==
  ASSUME SalesInv, SalesInv', serving, Next
  PROVE  \/ Kinds' = Kinds
         \/ \E t \in TxnIds :
              /\ Kinds[t] = "none"
              /\ \E kind \in {"kept", "doomed"} : Kinds' = [Kinds EXCEPT ![t] = kind]
<1>1. [Sales!Next]_(Sales!vars)
  BY NextLedger
<1>2. RowsStay
  BY NothingPurged DEF SalesInv
<1>3. /\ SoldRows = {i \in ItemIds : itemRows[i].status = "sold"}
      /\ DoomedRows = {i \in ItemIds : itemRows[i].status = "sold" /\ itemRows[i].obsolete}
      /\ SaleRows = [t \in TxnIds |->
                       [item |-> txnRows[t].item, buyer |-> txnRows[t].buyer,
                        seller |-> txnRows[t].seller, status |-> txnRows[t].status]]
  BY DEF SoldRows, DoomedRows, SaleRows, SaleOf
<1>4. /\ SoldRows' = {i \in ItemIds : itemRows'[i].status = "sold"}
      /\ DoomedRows' = {i \in ItemIds : itemRows'[i].status = "sold" /\ itemRows'[i].obsolete}
      /\ SaleRows' = [t \in TxnIds |->
                       [item |-> txnRows'[t].item, buyer |-> txnRows'[t].buyer,
                        seller |-> txnRows'[t].seller, status |-> txnRows'[t].status]]
  BY DEF SoldRows, DoomedRows, SaleRows, SaleOf
<1>5. (\A t \in TxnIds : Kinds'[t] = Kinds[t]) => Kinds' = Kinds
  BY DEF Kinds
<1>6. CASE UNCHANGED Sales!vars
  <2>1. SaleRows' = SaleRows /\ DoomedRows' = DoomedRows
    BY <1>3, <1>4, <1>6 DEF Sales!vars
  <2>. QED  BY <1>5, <2>1, SameKind
<1>7. ASSUME NEW i \in ItemIds, Sales!Sell(i) PROVE Kinds' = Kinds
  <2>1. /\ SaleRows' = SaleRows /\ i \notin SoldRows
        /\ DoomedRows' \in {DoomedRows, DoomedRows \cup {i}}
    BY <1>3, <1>4, <1>7 DEF Sales!Sell, Sales!MarkSold
  <2>2. \A t \in TxnIds : SaleRows[t].item # i
    BY <2>1, KindsAreSales
  <2>. QED  BY <1>5, <2>1, <2>2, SameKind
<1>8. ASSUME NEW t \in TxnIds, NEW stage, Sales!Advance(t, stage)
      PROVE  Kinds' = Kinds
  <2>1. DoomedRows' = DoomedRows /\ SaleRows' = [SaleRows EXCEPT ![t].status = stage]
    BY <1>3, <1>4, <1>8 DEF Sales!Advance
  <2>2. ASSUME NEW s \in TxnIds PROVE SaleRows'[s].item = SaleRows[s].item
    <3>1. SaleRows[s] = SaleOf(txnRows[s])
      BY DEF SaleRows
    <3>2. SaleRows'[s] \in {SaleRows[s], [SaleRows[s] EXCEPT !.status = stage]}
      BY <2>1 DEF SaleRows
    <3>. QED  BY <3>1, <3>2 DEF SaleOf
  <2>. QED  BY <1>5, <2>1, <2>2, SameKind
<1>9. ASSUME NEW t \in TxnIds, NEW sale \in Sales!Sale, Sales!Record(t, sale)
      PROVE  /\ Kinds[t] = "none"
             /\ \E kind \in {"kept", "doomed"} : Kinds' = [Kinds EXCEPT ![t] = kind]
  <2>1. /\ SaleRows' = [SaleRows EXCEPT ![t] = sale] /\ SaleRows[t] = Sales!NoSale
        /\ \A s \in TxnIds : SaleRows[s].item # sale.item
        /\ DoomedRows' \in {DoomedRows, DoomedRows \cup {sale.item}}
    BY <1>3, <1>4, <1>9 DEF Sales!Record, Sales!MarkSold
  <2>2. Kinds[t] = "none"
    BY <2>1, KindsAreSales, StoreAssumption DEF Sales!NoSale, ItemIds
  <2>3. \A s \in TxnIds \ {t} : Kinds'[s] = Kinds[s]
    BY <2>1, SameKind DEF SaleRows
  <2>4. Kinds'[t] \in {"kept", "doomed"}
    <3>1. SaleRows'[t].item = txnRows'[t].item /\ SaleRows'[t] = sale
      BY <2>1 DEF SaleRows, SaleOf
    <3>2. txnRows'[t] # NoTxn
      BY <3>1, StoreAssumption DEF NoTxn, Sales!Sale, ItemIds
    <3>. QED  BY <3>2 DEF Kinds
  <2>5. Kinds' = [Kinds EXCEPT ![t] = Kinds'[t]]
    BY <2>3 DEF Kinds
  <2>. QED  BY <2>2, <2>4, <2>5
<1>10. CASE Sales!Purge
  <2>1. /\ SaleRows' = [t \in TxnIds |-> IF SaleRows[t].item \in DoomedRows
                                         THEN Sales!NoSale ELSE SaleRows[t]]
        /\ DoomedRows' = {}
    BY <1>3, <1>4, <1>10 DEF Sales!Purge
  <2>2. ASSUME NEW t \in TxnIds PROVE SaleRows[t].item \notin DoomedRows
    <3>. SUFFICES ASSUME SaleRows[t].item \in DoomedRows PROVE FALSE
      OBVIOUS
    <3>1. Kinds[t] # "none"
      BY KindsAreSales DEF DoomedRows, SoldRows
    <3>2. txnRows'[t] # NoTxn
      BY <1>2, <3>1 DEF RowsStay, Kinds
    <3>3. txnRows'[t].item \in ItemIds
      BY <3>2 DEF SalesInv, TypeOK, StoreTypeOK, Txn
    <3>4. txnRows'[t].item = 0
      BY <2>1 DEF SaleRows, SaleOf, Sales!NoSale
    <3>. QED  BY <3>3, <3>4, StoreAssumption DEF ItemIds
  <2>. QED  BY <1>5, <2>1, <2>2, SameKind
<1>. QED  BY <1>1, <1>6, <1>7, <1>8, <1>9, <1>10 DEF Sales!Next

(* A step of the market in which the process does not serve is a start,    *)
(* and purges the sales that are doomed and no others.                     *)
LEMMA PurgedKinds ==
  ASSUME SalesInv, ~serving, Next
  PROVE  /\ PurgedSales = {t \in TxnIds : Kinds[t] = "doomed"}
         /\ Kinds' = [t \in TxnIds |->
                       IF Kinds[t] = "doomed" THEN "none" ELSE Kinds[t]]
<1>1. PurgeTables
  <2>1. ASSUME NEW u \in Users, NEW i \in ItemIds, ItemStep(u, i)
        PROVE  serving
    BY <2>1 DEF ItemStep, UpdateItem, DeleteUnsoldItem, DeleteSoldItem,
                DeleteSoldItemKilled, Purchase, PurchaseKilled
  <2>2. ASSUME NEW u \in Users, NEW t \in TxnIds, SaleStep(u, t)
        PROVE  serving
    BY <2>2 DEF SaleStep, Pay, Complete, DeleteTransaction, ChangeTransaction,
                CreateReview
  <2>3. ProcessStep
    BY <2>1, <2>2 DEF Next, CreateItem
  <2>. QED  BY <2>3 DEF ProcessStep, Crash, Restart, RestartCutOff
<1>2. ASSUME NEW t \in TxnIds
      PROVE  /\ txnRows'[t] = IF t \in ObsoleteSales THEN NoTxn ELSE txnRows[t]
             /\ t \in ObsoleteSales => txnRows[t] # NoTxn
             /\ t \notin ObsoleteSales'
  <2>1. txnRows'[t] = IF t \in ObsoleteSales THEN NoTxn ELSE txnRows[t]
    BY <1>1 DEF PurgeTables
  <2>2. ObsoleteItems' = {}
    BY <1>1 DEF PurgeTables, ObsoleteItems, NoItem
  <2>. QED  BY <2>1, <2>2, StoreAssumption DEF ObsoleteSales, ObsoleteItems, NoTxn, ItemIds
<1>3. PurgedSales = {t \in TxnIds : Kinds[t] = "doomed"}
  BY <1>2 DEF PurgedSales, ObsoleteSales, Kinds
<1>. HIDE DEF ObsoleteSales
<1>4. ASSUME NEW t \in TxnIds
      PROVE  Kinds'[t] = IF Kinds[t] = "doomed" THEN "none" ELSE Kinds[t]
  BY <1>2 DEF Kinds
<1>. QED  BY <1>3, <1>4 DEF Kinds

(* The log of module Transcript, for any rows of the table *)
LogOf(rows) ==
  [t \in TxnIds |-> CHOOSE stored \in InOrder({row \in rows : row.txn = t}) : TRUE]

LEMMA LogIsFunction ==
  ASSUME NEW rows, NEW log, log = LogOf(rows)
  PROVE  log = [t \in TxnIds |-> log[t]]
  BY DEF LogOf

(* What a restart reads of a sale without messages *)
LEMMA NoMessages ==
  ASSUME NEW rows, rows = {}
  PROVE  (CHOOSE stored \in InOrder(rows) : TRUE) = << >>
<1>1. Sortable(rows)
  BY FS_EmptySet DEF Sortable
<1>2. PICK s \in Seq(Message) :
        InOrder(rows) = {s} /\ \A row : Has(s, row) <=> row \in rows
  BY <1>1, OneOrder
<1>3. \A k \in DOMAIN s : Has(s, s[k])
  BY DEF Has
<1>4. DOMAIN s = {}
  BY <1>2, <1>3
<1>5. s = << >>
  BY <1>4
<1>. QED  BY <1>2, <1>5

LEMMA InitTranscript == ConversationInit => Conversations!Init
<1> SUFFICES ASSUME ConversationInit PROVE Conversations!Init
  OBVIOUS
<1>1. \A t \in TxnIds : (CHOOSE stored \in Loaded(t) : TRUE) = << >>
  <2>1. \A t \in TxnIds : RowsOf(t) = {}
    BY DEF ConversationInit, RowsOf
  <2>. QED  BY <2>1, NoMessages DEF Loaded
<1>2. \A t \in TxnIds : txnRows[t] = NoTxn
  BY DEF ConversationInit, Init, StoreInit, NoTxns
<1>. QED  BY <1>1, <1>2 DEF ConversationInit, Conversations!Init

(* A message that is stored comes last in its sale. *)
LEMMA WriteTranscript ==
  ASSUME ConversationInv, serving, NEW msg \in Message, msg.id = nextMsgID,
         msg.at = clock, msgRows' = msgRows \cup {msg},
         answered' \in {answered, [answered EXCEPT ![msg.txn] = Append(@, msg)]},
         txnRows[msg.txn] # NoTxn, UNCHANGED <<txnRows, itemRows>>
  PROVE  Conversations!Next
<1>1. msgRows \subseteq Message /\ RowsAreNumbered /\ msg.txn \in TxnIds
  BY DEF ConversationInv, ConversationTypeOK, Message
<1>2. \A row \in msgRows : row.id < msg.id /\ row.at <= msg.at
  BY <1>1 DEF RowsAreNumbered
<1> DEFINE t == msg.txn
           log == LogOf(msgRows)
           new == LogOf(msgRows')
<1>3. ASSUME NEW s \in TxnIds
      PROVE  /\ InOrder(RowsOf(s)) = {log[s]}
             /\ log[s] \in Seq(Message)
             /\ \A k \in DOMAIN log[s] : log[s][k] \in msgRows
             /\ new[s] = IF s = t THEN Append(log[s], msg) ELSE log[s]
  <2>1. Sortable(RowsOf(s))
    <3>1. Sortable(OfSale(msgRows, s))
      BY <1>1, RowsAreSortable, SaleIsSortable
    <3>. QED  BY <3>1 DEF OfSale, RowsOf
  <2>2. PICK q \in Seq(Message) :
          InOrder(RowsOf(s)) = {q} /\ \A row : Has(q, row) <=> row \in RowsOf(s)
    BY <2>1, OneOrder
  <2>3. log[s] = q
    BY <2>2 DEF LogOf, RowsOf
  <2>4. \A k \in DOMAIN q : q[k] \in msgRows
    BY <2>2 DEF Has, RowsOf
  <2>5. CASE s = t
    <3>1. {row \in msgRows' : row.txn = s} = RowsOf(s) \cup {msg}
      BY <2>5 DEF RowsOf
    <3>2. \A row \in RowsOf(s) : row.id < msg.id /\ row.at <= msg.at
      BY <1>2 DEF RowsOf
    <3>3. InOrder(RowsOf(s) \cup {msg}) = {Append(q, msg)}
      BY <2>1, <2>2, <3>2, LastInOrder
    <3>4. new[s] = Append(q, msg)
      BY <3>1, <3>3 DEF LogOf
    <3>. QED  BY <2>2, <2>3, <2>4, <2>5, <3>4
  <2>6. CASE s # t
    <3>1. {row \in msgRows' : row.txn = s} = RowsOf(s)
      BY <2>6 DEF RowsOf
    <3>2. new[s] = q
      BY <2>2, <3>1 DEF LogOf
    <3> HIDE DEF log, new, t
    <3>. QED  BY <2>2, <2>3, <2>4, <2>6, <3>2
  <2>. QED  BY <2>5, <2>6
<1>4. log \in [TxnIds -> Seq(Message)] /\ new = [log EXCEPT ![t] = Append(@, msg)]
  <2>1. log = [s \in TxnIds |-> log[s]]
    BY LogIsFunction
  <2>2. new = [s \in TxnIds |-> new[s]]
    BY LogIsFunction
  <2> HIDE DEF log, new
  <2>3. log \in [TxnIds -> Seq(Message)]
    BY <1>3, <2>1
  <2>. QED  BY <1>1, <1>3, <2>2, <2>3
<1>5. \A s \in TxnIds : \A k \in DOMAIN log[s] :
        log[s][k].id # msg.id /\ log[s][k].id < msg.id /\ log[s][k].at <= msg.at
  <2> HIDE DEF log, new
  <2>1. \A row \in msgRows : row.id \in Nat /\ row.id # msg.id
    BY <1>1, <1>2, ConversationAssumption DEF Message
  <2>. QED  BY <1>2, <1>3, <2>1
<1>6. Len(new[t]) = Len(log[t]) + 1
  <2> HIDE DEF log, new
  <2>1. t \in TxnIds /\ log[t] \in Seq(Message) /\ new[t] = Append(log[t], msg)
    BY <1>1, <1>3
  <2>. QED  BY <2>1
<1>7. /\ log = [s \in TxnIds |-> CHOOSE stored \in Loaded(s) : TRUE]
      /\ new = [s \in TxnIds |-> CHOOSE stored \in Loaded(s) : TRUE]'
  BY DEF LogOf, Loaded, RowsOf
<1> HIDE DEF log, new, t
<1>8. Kinds[t] # "none" /\ Kinds' = Kinds
  BY <1>1 DEF Kinds, ObsoleteSales, ObsoleteItems, t
<1>9. Conversations!IsNew(msg)
  BY <1>1, <1>5, <1>7 DEF Conversations!IsNew
<1>10. Conversations!Write(msg)
  BY <1>1, <1>4, <1>7, <1>8, <1>9 DEF Conversations!Write, Kinds, t
<1>. QED  BY <1>1, <1>6, <1>7, <1>10 DEF Conversations!Next, t

(* A start takes the conversations of the sales that it purges along. *)
LEMMA PurgeTranscript ==
  ASSUME ConversationInv, MarketStep, ~serving
  PROVE  Conversations!Purge
<1>1. /\ PurgedSales = {t \in TxnIds : Kinds[t] = "doomed"}
      /\ Kinds' = [t \in TxnIds |-> IF Kinds[t] = "doomed" THEN "none" ELSE Kinds[t]]
  BY PurgedKinds DEF MarketStep, ConversationInv
<1>2. /\ msgRows' = {row \in msgRows : row.txn \notin PurgedSales}
      /\ answered' = [t \in TxnIds |-> IF t \in PurgedSales THEN <<>> ELSE answered[t]]
  BY DEF MarketStep
<1>. HIDE DEF Kinds, PurgedSales
<1>3. answered' = [t \in TxnIds |-> IF Kinds[t] = "doomed" THEN <<>> ELSE answered[t]]
  BY <1>1, <1>2
<1>4. ASSUME NEW t \in TxnIds
      PROVE  LogOf(msgRows')[t] = IF Kinds[t] = "doomed" THEN <<>> ELSE LogOf(msgRows)[t]
  <2>1. CASE Kinds[t] = "doomed"
    <3>1. {row \in msgRows' : row.txn = t} = {}
      BY <1>1, <1>2, <2>1
    <3>. QED  BY <2>1, <3>1, NoMessages DEF LogOf
  <2>2. CASE Kinds[t] # "doomed"
    <3>1. {row \in msgRows' : row.txn = t} = {row \in msgRows : row.txn = t}
      BY <1>1, <1>2, <2>2
    <3>2. LogOf(msgRows')[t] =
            CHOOSE stored \in InOrder({row \in msgRows' : row.txn = t}) : TRUE
      BY DEF LogOf
    <3>3. LogOf(msgRows)[t] =
            CHOOSE stored \in InOrder({row \in msgRows : row.txn = t}) : TRUE
      BY DEF LogOf
    <3>. QED  BY <2>2, <3>1, <3>2, <3>3
  <2>. QED  BY <2>1, <2>2
<1>5. LogOf(msgRows') = [t \in TxnIds |->
                          IF Kinds[t] = "doomed" THEN <<>> ELSE LogOf(msgRows)[t]]
  BY <1>4 DEF LogOf
<1>6. /\ LogOf(msgRows) = [t \in TxnIds |-> CHOOSE stored \in Loaded(t) : TRUE]
      /\ LogOf(msgRows') = [t \in TxnIds |-> CHOOSE stored \in Loaded(t) : TRUE]'
  BY DEF LogOf, Loaded, RowsOf
<1>7. /\ Kinds = [t \in TxnIds |->
                    IF txnRows[t] = NoTxn THEN "none"
                    ELSE IF t \in ObsoleteSales THEN "doomed" ELSE "kept"]
      /\ Kinds' = [t \in TxnIds |->
                    IF txnRows[t] = NoTxn THEN "none"
                    ELSE IF t \in ObsoleteSales THEN "doomed" ELSE "kept"]'
  BY DEF Kinds
<1>. QED  BY <1>1, <1>3, <1>5, <1>6, <1>7 DEF Conversations!Purge

LEMMA NextTranscript ==
  ConversationInv /\ SalesInv' /\ [ConversationNext]_allVars =>
    [Conversations!Next]_(Conversations!vars)
<1> SUFFICES ASSUME ConversationInv, SalesInv', [ConversationNext]_allVars
             PROVE  [Conversations!Next]_(Conversations!vars)
  OBVIOUS
<1>1. UNCHANGED <<msgRows, answered>> =>
        UNCHANGED [t \in TxnIds |-> CHOOSE stored \in Loaded(t) : TRUE]
  BY DEF Loaded, RowsOf
<1>2. /\ Kinds = [t \in TxnIds |->
                    IF txnRows[t] = NoTxn THEN "none"
                    ELSE IF t \in ObsoleteSales THEN "doomed" ELSE "kept"]
      /\ Kinds' = [t \in TxnIds |->
                    IF txnRows[t] = NoTxn THEN "none"
                    ELSE IF t \in ObsoleteSales THEN "doomed" ELSE "kept"]'
  BY DEF Kinds
<1>3. UNCHANGED <<msgRows, answered, Kinds>> => UNCHANGED Conversations!vars
  BY <1>1, <1>2 DEF Conversations!vars
<1>4. UNCHANGED <<txnRows, itemRows>> => UNCHANGED Kinds
  BY DEF Kinds, ObsoleteSales, ObsoleteItems
<1>5. CASE UNCHANGED <<msgRows, answered, txnRows, itemRows>>
  BY <1>3, <1>4, <1>5
<1>6. ASSUME NEW p \in Posts, NEW o, PostMessage(p, o)
      PROVE  [Conversations!Next]_(Conversations!vars)
  <2> DEFINE msg == [id |-> nextMsgID, txn |-> posts[p].txn,
                     sender |-> posts[p].sender, at |-> clock]
  <2>1. /\ serving /\ msg \in Message
        /\ \/ msgRows' = msgRows /\ answered' = answered
           \/ /\ msgRows' = msgRows \cup {msg}
              /\ txnRows[posts[p].txn] # NoTxn
              /\ answered' \in {answered,
                                [answered EXCEPT ![posts[p].txn] = Append(@, msg)]}
    BY <1>6, PostedMessage
  <2>2. msg.id = nextMsgID /\ msg.txn = posts[p].txn /\ msg.at = clock
    OBVIOUS
  <2>3. UNCHANGED <<txnRows, itemRows>>
    BY <1>6 DEF PostMessage, vars, tables
  <2> HIDE DEF msg
  <2>. QED  BY <1>5, <2>1, <2>2, <2>3, WriteTranscript
<1>7. ASSUME MarketStep, serving
      PROVE  [Conversations!Next]_(Conversations!vars)
  <2>1. UNCHANGED <<msgRows, answered>>
    BY <1>7, MarketKeepsRows
  <2>2. CASE Kinds' = Kinds
    BY <1>3, <2>1, <2>2
  <2>3. ASSUME NEW t \in TxnIds, Kinds[t] = "none",
               NEW kind \in {"kept", "doomed"}, Kinds' = [Kinds EXCEPT ![t] = kind]
        PROVE  [Conversations!Next]_(Conversations!vars)
    <3>1. Conversations!Open(t)
      BY <1>1, <1>2, <2>1, <2>3 DEF Conversations!Open
    <3>. QED  BY <3>1 DEF Conversations!Next
  <2>. QED
    BY <1>7, <2>2, <2>3, OpenedSale DEF MarketStep, ConversationInv
<1>8. ASSUME MarketStep, ~serving
      PROVE  [Conversations!Next]_(Conversations!vars)
  BY <1>8, PurgeTranscript DEF Conversations!Next
<1>9. \/ UNCHANGED <<msgRows, answered, txnRows, itemRows>>
      \/ MarketStep
      \/ \E p \in Posts, o \in Outcomes \cup {"failed"} : PostMessage(p, o)
  BY DEF ConversationNext, Tick, Admit, allVars, msgVars, vars, tables
<1>. QED  BY <1>5, <1>6, <1>7, <1>8, <1>9

(* The table of messages, read in the order in which a restart reads it,   *)
(* implements the transcript: createMessage stores a message after all     *)
(* others of its sale, whatever failed before, and tells its sender by the *)
(* same step or never; what is stored neither moves nor changes, and goes  *)
(* only with the whole conversation, when a start purges the sale.         *)
THEOREM TranscriptRefined == ConversationSpec => TranscriptsAreKept
  BY InitTranscript, NextTranscript, ConversationInvariant, MarketUndisturbed,
     SalesInvariant, PTL
  DEF ConversationSpec, TranscriptsAreKept, Conversations!Spec
=============================================================================
