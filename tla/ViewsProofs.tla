----------------------------- MODULE ViewsProofs ----------------------------
(***************************************************************************)
(* Theorems about the visits of item pages, for any users, guests, window, *)
(* delay, failures and crashes: the visits do not disturb the market, what *)
(* is shown is stored, and a viewer counts once in a window less the wait. *)
(***************************************************************************)
EXTENDS Views, MarketProofs, FiniteSetTheorems, SequenceTheorems

(* Every behaviour of the market with visits is one of the market, so that *)
(* whatever is proved of the market alone is true beside the visits.       *)
THEOREM MarketUndisturbed == ViewsSpec => Spec
<1>1. ViewsInit => Init
  BY DEF ViewsInit
<1>2. [ViewsNext]_allVars => [Next]_vars
  BY DEF ViewsNext, MarketStep, Tick, Enter, Stamp, RecordView, Answer, allVars
<1>. QED  BY <1>1, <1>2, PTL DEF ViewsSpec, Spec

-----------------------------------------------------------------------------
(* Orderings of a table *)

(* The numbers of the rows, each once: what SetToSeqs makes of an index    *)
(* set is a permutation of it.                                             *)
LEMMA Orderings ==
  ASSUME NEW n \in Nat, NEW p \in SetToSeqs(1 .. n)
  PROVE  /\ p \in [1 .. n -> 1 .. n]
         /\ \A j, k \in 1 .. n : p[j] = p[k] => j = k
         /\ \A m \in 1 .. n : \E k \in 1 .. n : p[k] = m
<1>1. IsFiniteSet(1 .. n) /\ Cardinality(1 .. n) = n
  BY FS_Interval
<1>2. p \in [1 .. n -> 1 .. n] /\ \A j, k \in 1 .. n : p[j] = p[k] => j = k
  BY <1>1 DEF SetToSeqs
<1>3. p \in Injection(1 .. n, 1 .. n)
  BY <1>2 DEF Injection, IsInjective
<1>4. p \in Surjection(1 .. n, 1 .. n)
  BY <1>1, <1>3, FS_Injection
<1>. QED  BY <1>2, <1>4 DEF Surjection

(* A sequence shows no row twice. *)
Shows(seq, rows) ==
  \E p \in [DOMAIN seq -> DOMAIN rows] :
    /\ \A j, k \in DOMAIN seq : p[j] = p[k] => j = k
    /\ \A k \in DOMAIN seq : seq[k] = rows[p[k]]

(* A sequence shows every row. *)
ShowsAll(seq, rows) ==
  \A m \in DOMAIN rows : \E k \in DOMAIN seq : seq[k] = rows[m]

(* A reload shows every stored view once, in the order of time. *)
LEMMA ByTimeIsSorted ==
  ASSUME NEW rows \in Seq(View), NEW seq \in ByTime(rows)
  PROVE  /\ seq \in Seq(View)
         /\ Shows(seq, rows)
         /\ ShowsAll(seq, rows)
         /\ \A j, k \in DOMAIN seq : j < k => seq[j].at <= seq[k].at
<1>1. PICK n \in Nat : n = Len(rows) /\ DOMAIN rows = 1 .. n
  OBVIOUS
<1>2. PICK p \in SetToSeqs(1 .. n) :
        /\ \A j, k \in 1 .. n : j < k => rows[p[j]].at <= rows[p[k]].at
        /\ seq = [k \in 1 .. n |-> rows[p[k]]]
  BY <1>1 DEF ByTime
<1>3. /\ p \in [1 .. n -> 1 .. n]
      /\ \A j, k \in 1 .. n : p[j] = p[k] => j = k
      /\ \A m \in 1 .. n : \E k \in 1 .. n : p[k] = m
  BY Orderings
<1>4. \A k \in 1 .. n : rows[k] \in View
  BY <1>1
<1>5. seq \in [1 .. n -> View]
  BY <1>2, <1>3, <1>4
<1>6. seq \in Seq(View) /\ DOMAIN seq = 1 .. n
  BY <1>5
<1>7. \A k \in 1 .. n : seq[k] = rows[p[k]]
  BY <1>2
<1>8. Shows(seq, rows)
  <2>1. p \in [DOMAIN seq -> DOMAIN rows]
    BY <1>1, <1>3, <1>6
  <2>2. \A j, k \in DOMAIN seq : p[j] = p[k] => j = k
    BY <1>3, <1>6
  <2>3. \A k \in DOMAIN seq : seq[k] = rows[p[k]]
    BY <1>6, <1>7
  <2>. QED  BY <2>1, <2>2, <2>3, Zenon DEF Shows
<1>9. ShowsAll(seq, rows)
  BY <1>1, <1>3, <1>6, <1>7 DEF ShowsAll
<1>10. \A j, k \in DOMAIN seq : j < k => seq[j].at <= seq[k].at
  BY <1>2, <1>6, <1>7
<1>. QED  BY <1>6, <1>8, <1>9, <1>10

LEMMA ViewTimes ==
  ASSUME NEW seq \in Seq(View), NEW k \in DOMAIN seq
  PROVE  seq[k] \in View /\ seq[k].at \in Nat
<1>1. seq[k] \in View
  OBVIOUS
<1>. QED  BY <1>1, ViewsAssumption DEF View

(* A time has its place in a row of times that are in order. *)
LEMMA PlaceOfTime ==
  ASSUME NEW n \in Nat, NEW time, \A k \in 1 .. n : time[k] \in Nat,
         \A j, k \in 1 .. n : j < k => time[j] <= time[k],
         NEW t \in Nat
  PROVE  \E j \in 0 .. n :
           (\A k \in 1 .. n : k <= j => time[k] <= t) /\ \A k \in 1 .. n : k > j => t <= time[k]
<1> DEFINE Splits(j, m) ==
             /\ \A k \in 1 .. m : k <= j => time[k] <= t
             /\ \A k \in 1 .. m : k > j => t <= time[k]
           S == {m \in 0 .. n : \E j \in 0 .. m : Splits(j, m)}
<1>1. 0 \in S
  OBVIOUS
<1>2. ASSUME NEW m \in 0 .. (n - 1), m \in S
      PROVE  m + 1 \in S
  <2>1. m + 1 \in 1 .. n /\ m \in 0 .. n
    OBVIOUS
  <2>2. PICK j \in 0 .. m : Splits(j, m)
    BY <1>2
  <2>3. CASE time[m + 1] <= t
    <3>1. \A k \in 1 .. (m + 1) : k \in 1 .. n /\ time[k] <= time[m + 1]
      BY <2>1
    <3>2. Splits(m + 1, m + 1)
      BY <2>1, <2>3, <3>1
    <3>. QED  BY <2>1, <3>2
  <2>4. CASE ~(time[m + 1] <= t)
    <3>1. Splits(j, m + 1)
      BY <2>1, <2>2, <2>4
    <3>2. j \in 0 .. (m + 1)
      OBVIOUS
    <3> HIDE DEF Splits
    <3>. QED  BY <2>1, <3>1, <3>2
  <2>. QED  BY <2>3, <2>4
<1>3. n \in S
  <2> HIDE DEF S
  <2>. QED  BY <1>1, <1>2, CountingUp
<1>. QED  BY <1>3

(* The numbers of the first n times, each once, in the order of the times *)
SortedNumbers(time, n) ==
  {p \in [1 .. n -> 1 .. n] :
     /\ \A j, k \in 1 .. n : p[j] = p[k] => j = k
     /\ \A j, k \in 1 .. n : j < k => time[p[j]] <= time[p[k]]}

(* One more time is put into its place. *)
LEMMA SortOneMore ==
  ASSUME NEW n \in Nat, NEW time, \A k \in 1 .. (n + 1) : time[k] \in Nat,
         NEW p \in SortedNumbers(time, n)
  PROVE  SortedNumbers(time, n + 1) # {}
<1>1. /\ p \in [1 .. n -> 1 .. n]
      /\ \A j, k \in 1 .. n : p[j] = p[k] => j = k
      /\ \A j, k \in 1 .. n : j < k => time[p[j]] <= time[p[k]]
  BY DEF SortedNumbers
<1> DEFINE past == [k \in 1 .. n |-> time[p[k]]]
<1>2. \A k \in 1 .. n : past[k] \in Nat /\ p[k] \in 1 .. (n + 1)
  BY <1>1
<1>3. PICK j \in 0 .. n :
        /\ \A k \in 1 .. n : k <= j => past[k] <= time[n + 1]
        /\ \A k \in 1 .. n : k > j => time[n + 1] <= past[k]
  <2>1. \A i, k \in 1 .. n : i < k => past[i] <= past[k]
    BY <1>1
  <2>2. time[n + 1] \in Nat
    OBVIOUS
  <2> HIDE DEF past
  <2>. QED  BY <1>2, <2>1, <2>2, PlaceOfTime
<1> DEFINE q == [k \in 1 .. (n + 1) |->
                  IF k <= j THEN p[k] ELSE IF k = j + 1 THEN n + 1 ELSE p[k - 1]]
<1>4. /\ \A k \in 1 .. (n + 1) : k <= j => k \in 1 .. n
      /\ \A k \in 1 .. (n + 1) : k > j + 1 => k - 1 \in 1 .. n /\ k - 1 > j
  OBVIOUS
<1>5. q \in [1 .. (n + 1) -> 1 .. (n + 1)]
  BY <1>2, <1>4
<1>6. ASSUME NEW i \in 1 .. (n + 1), NEW k \in 1 .. (n + 1), i < k
      PROVE  q[i] # q[k] /\ time[q[i]] <= time[q[k]]
  <2>1. \A m \in 1 .. n : p[m] # n + 1
    BY <1>1
  <2>2. CASE k <= j
    <3>1. /\ i \in 1 .. n /\ q[i] = p[i]
          /\ k \in 1 .. n /\ q[k] = p[k]
      BY <1>4, <1>6, <2>2
    <3> HIDE DEF q
    <3>. QED  BY <1>1, <1>6, <3>1
  <2>3. CASE k = j + 1
    <3>1. i <= j /\ i \in 1 .. n /\ q[i] = p[i] /\ q[k] = n + 1
      BY <1>4, <1>6, <2>3
    <3>. QED  BY <1>3, <2>1, <3>1
  <2>4. CASE k > j + 1
    <3>1. k - 1 \in 1 .. n /\ k - 1 > j /\ q[k] = p[k - 1]
      BY <1>4, <2>4
    <3>2. CASE i <= j
      <4>1. i \in 1 .. n /\ q[i] = p[i] /\ i < k - 1
        BY <1>4, <1>6, <2>4, <3>2
      <4> HIDE DEF q
      <4>. QED  BY <1>1, <3>1, <4>1
    <3>3. CASE i = j + 1
      <4>1. q[i] = n + 1
        BY <3>3
      <4>. QED  BY <1>3, <2>1, <3>1, <4>1
    <3>4. CASE i > j + 1
      <4>1. i - 1 \in 1 .. n /\ q[i] = p[i - 1] /\ i - 1 < k - 1
        BY <1>4, <1>6, <3>4
      <4> HIDE DEF q
      <4>. QED  BY <1>1, <3>1, <4>1
    <3>. QED  BY <3>2, <3>3, <3>4
  <2>. QED  BY <2>2, <2>3, <2>4
<1> HIDE DEF q
<1>7. \A i, k \in 1 .. (n + 1) : q[i] = q[k] => i = k
  BY <1>6
<1>8. n + 1 \in Nat /\ q \in SortedNumbers(time, n + 1)
  BY <1>5, <1>6, <1>7 DEF SortedNumbers
<1>. QED  BY <1>8

(* Every table of views has an order of time, so that a restart that reads *)
(* it has something to read.                                               *)
LEMMA ByTimeExists ==
  ASSUME NEW rows \in Seq(View)
  PROVE  ByTime(rows) # {}
<1>1. PICK n \in Nat : n = Len(rows) /\ DOMAIN rows = 1 .. n
  OBVIOUS
<1> DEFINE time == [k \in 1 .. n |-> rows[k].at]
<1>2. \A k \in 1 .. n : rows[k] \in View /\ time[k] = rows[k].at /\ time[k] \in Nat
  BY <1>1, ViewTimes
<1> HIDE DEF time
<1> DEFINE S == {m \in 0 .. n : SortedNumbers(time, m) # {}}
<1>3. 0 \in S
  <2>1. [k \in 1 .. 0 |-> k] \in SortedNumbers(time, 0)
    BY DEF SortedNumbers
  <2>. QED  BY <2>1
<1>4. ASSUME NEW m \in 0 .. (n - 1), m \in S
      PROVE  m + 1 \in S
  <2>1. m \in Nat /\ m + 1 \in 0 .. n /\ \A k \in 1 .. (m + 1) : time[k] \in Nat
    BY <1>2
  <2>2. PICK p : p \in SortedNumbers(time, m)
    BY <1>4
  <2>. QED  BY <2>1, <2>2, SortOneMore
<1>5. n \in S
  <2> HIDE DEF S
  <2>1. \A m \in 0 .. n : m \in S
    BY <1>3, <1>4, CountingUp
  <2>. QED  BY <2>1
<1>6. PICK p : p \in SortedNumbers(time, n)
  BY <1>5
<1>7. /\ p \in [1 .. n -> 1 .. n]
      /\ \A j, k \in 1 .. n : p[j] = p[k] => j = k
      /\ \A j, k \in 1 .. n : j < k => time[p[j]] <= time[p[k]]
  BY <1>6 DEF SortedNumbers
<1>8. IsFiniteSet(1 .. n) /\ Cardinality(1 .. n) = n
  BY FS_Interval
<1>9. p \in SetToSeqs(1 .. n)
  BY <1>7, <1>8 DEF SetToSeqs
<1>10. \A j, k \in 1 .. n : j < k => rows[p[j]].at <= rows[p[k]].at
  BY <1>2, <1>7
<1>11. [k \in DOMAIN rows |-> rows[p[k]]] \in ByTime(rows)
  BY <1>1, <1>9, <1>10 DEF ByTime
<1>. QED  BY <1>11

(* What appending does to a sequence *)
LEMMA Appending ==
  ASSUME NEW seq \in Seq(View), NEW view \in View
  PROVE  /\ Len(seq) \in Nat /\ DOMAIN seq = 1 .. Len(seq)
         /\ Append(seq, view) \in Seq(View)
         /\ DOMAIN Append(seq, view) = 1 .. (Len(seq) + 1)
         /\ \A k \in 1 .. Len(seq) : Append(seq, view)[k] = seq[k]
         /\ Append(seq, view)[Len(seq) + 1] = view
  OBVIOUS

(* Taking off the last element undoes it. *)
LEMMA CutAgain ==
  ASSUME NEW seq \in Seq(View), NEW view \in View
  PROVE  Front(Append(seq, view)) = seq
  BY DEF Front

LEMMA ShowsStored ==
  ASSUME NEW seq \in Seq(View), NEW rows \in Seq(View), NEW view \in View,
         Shows(seq, rows)
  PROVE  Shows(seq, Append(rows, view))
<1>1. PICK p \in [DOMAIN seq -> DOMAIN rows] :
        /\ \A j, k \in DOMAIN seq : p[j] = p[k] => j = k
        /\ \A k \in DOMAIN seq : seq[k] = rows[p[k]]
  BY DEF Shows
<1>2. p \in [DOMAIN seq -> DOMAIN Append(rows, view)]
  BY Appending
<1>3. \A k \in DOMAIN seq : seq[k] = Append(rows, view)[p[k]]
  BY <1>1, Appending
<1>. QED  BY <1>1, <1>2, <1>3, Zenon DEF Shows

LEMMA ShowsAppended ==
  ASSUME NEW seq \in Seq(View), NEW rows \in Seq(View), NEW view \in View,
         Shows(seq, rows)
  PROVE  Shows(Append(seq, view), Append(rows, view))
<1>. DEFINE n == Len(seq)
            m == Len(rows)
            longer == Append(seq, view)
            table == Append(rows, view)
<1>1. PICK p \in [DOMAIN seq -> DOMAIN rows] :
        /\ \A j, k \in DOMAIN seq : p[j] = p[k] => j = k
        /\ \A k \in DOMAIN seq : seq[k] = rows[p[k]]
  BY DEF Shows
<1>2. /\ n \in Nat /\ DOMAIN seq = 1 .. n /\ DOMAIN longer = 1 .. (n + 1)
      /\ \A k \in 1 .. n : longer[k] = seq[k]
      /\ longer[n + 1] = view
  BY Appending
<1>3. /\ m \in Nat /\ DOMAIN rows = 1 .. m /\ DOMAIN table = 1 .. (m + 1)
      /\ \A k \in 1 .. m : table[k] = rows[k]
      /\ table[m + 1] = view
  BY Appending
<1> HIDE DEF n, m, longer, table
<1> DEFINE f == [k \in 1 .. (n + 1) |-> IF k = n + 1 THEN m + 1 ELSE p[k]]
<1>4. \A k \in 1 .. n : p[k] \in 1 .. m
  BY <1>2, <1>3
<1>5. f \in [DOMAIN longer -> DOMAIN table]
  BY <1>2, <1>3, <1>4
<1>6. \A k \in 1 .. n : f[k] = p[k]
  BY <1>2
<1>7. f[n + 1] = m + 1
  BY <1>2
<1> HIDE DEF f
<1>8. \A j, k \in DOMAIN longer : f[j] = f[k] => j = k
  <2> SUFFICES ASSUME NEW j \in 1 .. (n + 1), NEW k \in 1 .. (n + 1),
                      f[j] = f[k]
               PROVE  j = k
    BY <1>2
  <2>1. CASE j \in 1 .. n /\ k \in 1 .. n
    BY <1>1, <1>2, <1>6, <2>1
  <2>2. CASE j = n + 1 /\ k \in 1 .. n
    BY <1>3, <1>4, <1>6, <1>7, <2>2
  <2>3. CASE k = n + 1 /\ j \in 1 .. n
    BY <1>3, <1>4, <1>6, <1>7, <2>3
  <2>. QED  BY <1>2, <2>1, <2>2, <2>3
<1>9. \A k \in DOMAIN longer : longer[k] = table[f[k]]
  <2> SUFFICES ASSUME NEW k \in 1 .. (n + 1) PROVE longer[k] = table[f[k]]
    BY <1>2
  <2>1. CASE k \in 1 .. n
    <3>1. longer[k] = seq[k] /\ seq[k] = rows[p[k]] /\ f[k] = p[k]
      BY <1>1, <1>2, <1>6, <2>1
    <3>2. table[p[k]] = rows[p[k]]
      BY <1>3, <1>4, <2>1
    <3>. QED  BY <3>1, <3>2
  <2>2. CASE k = n + 1
    BY <1>2, <1>3, <1>7, <2>2
  <2>. QED  BY <1>2, <2>1, <2>2
<1>10. Shows(longer, table)
  BY <1>5, <1>8, <1>9, Zenon DEF Shows
<1>. QED  BY <1>10 DEF longer, table

LEMMA ShowsNothing == ASSUME NEW rows PROVE Shows(<<>>, rows)
<1>1. <<>> \in [DOMAIN <<>> -> DOMAIN rows]
  OBVIOUS
<1>2. \A k \in DOMAIN <<>> : FALSE
  OBVIOUS
<1>. QED  BY <1>1, <1>2, Zenon DEF Shows

(* A view that is shown is stored at least as often. *)
LEMMA ShownIsStored ==
  ASSUME NEW seq \in Seq(View), NEW rows \in Seq(View), Shows(seq, rows),
         NEW view
  PROVE  CountIn(seq, view) <= CountIn(rows, view)
<1>. DEFINE S == {k \in DOMAIN seq : seq[k] = view}
            T == {k \in DOMAIN rows : rows[k] = view}
<1>1. PICK p \in [DOMAIN seq -> DOMAIN rows] :
        /\ \A j, k \in DOMAIN seq : p[j] = p[k] => j = k
        /\ \A k \in DOMAIN seq : seq[k] = rows[p[k]]
  BY DEF Shows
<1>2. [k \in S |-> p[k]] \in Injection(S, T)
  BY <1>1 DEF Injection, IsInjective
<1>3. IsFiniteSet(T)
  <2>1. IsFiniteSet(1 .. Len(rows))
    BY FS_Interval
  <2>. QED  BY <2>1, FS_Subset
<1>. QED  BY <1>2, <1>3, FS_Injection DEF CountIn

-----------------------------------------------------------------------------
(* What the market does to the visits *)

(* No handler takes an item away from a process that goes on. *)
LEMMA ItemsStay ==
  ASSUME TypeOK, TypeOK', Next, serving, serving', NEW i \in ItemIds,
         items[i] # NoItem
  PROVE  items'[i] # NoItem
<1>1. items[i].seller \in Users
  BY DEF TypeOK, StoreTypeOK, Item
<1>2. NoItem.seller \notin Users
  BY StoreAssumption DEF NoItem
<1>3. SUFFICES items'[i].seller \in Users
  BY <1>2
<1>4. CASE items' = items
  BY <1>1, <1>4
<1>5. ASSUME NEW u \in Users, NEW j \in ItemIds, ItemStep(u, j)
      PROVE  items'[i].seller \in Users
  <2> DEFINE sold == [items[j] EXCEPT !.status = "sold"]
  <2>1. /\ \A status, ready, obsolete : Mutated(items[j], status, ready, obsolete).seller = items[j].seller
        /\ Deleted(items[j]).seller = items[j].seller
        /\ sold.seller = items[j].seller
    BY DEF TypeOK, StoreTypeOK, Mutated, Deleted, Item, NoItem
  <2>2. ASSUME NEW item, items' = [items EXCEPT ![j] = item],
               item.seller = items[j].seller
        PROVE  items'[i].seller \in Users
    BY <1>1, <2>2 DEF TypeOK, StoreTypeOK
  <2>3. ASSUME NEW status, NEW ready, NEW obsolete, NEW o,
               UpdateItem(u, j, status, ready, obsolete, o)
        PROVE  items'[i].seller \in Users
    BY <1>4, <2>1, <2>2, <2>3 DEF UpdateItem
  <2>4. ASSUME NEW o, DeleteUnsoldItem(u, j, o)
        PROVE  items'[i].seller \in Users
    BY <2>1, <2>2, <2>4 DEF DeleteUnsoldItem
  <2>5. ASSUME NEW t, NEW o1, NEW o2, DeleteSoldItem(u, j, t, o1, o2)
        PROVE  items'[i].seller \in Users
    BY <1>4, <2>1, <2>2, <2>5 DEF DeleteSoldItem
  <2>6. ASSUME NEW status, NEW o1, NEW o2, Purchase(u, j, status, o1, o2)
        PROVE  items'[i].seller \in Users
    BY <2>1, <2>2, <2>6 DEF Purchase
  <2>7. ~PurchaseKilled(u, j) /\ \A t \in TxnIds : ~DeleteSoldItemKilled(u, j, t)
    BY DEF PurchaseKilled, DeleteSoldItemKilled, Forget
  <2>. QED  BY <1>5, <2>3, <2>4, <2>5, <2>6, <2>7 DEF ItemStep
<1>6. ASSUME NEW u \in Users, NEW status, NEW ready, NEW obsolete, NEW o,
             CreateItem(u, status, ready, obsolete, o)
      PROVE  items'[i].seller \in Users
  BY <1>1, <1>6 DEF CreateItem, TypeOK, StoreTypeOK
<1>7. ASSUME NEW u \in Users, NEW t \in TxnIds, SaleStep(u, t)
      PROVE  items' = items
  BY <1>7 DEF SaleStep, Pay, Complete, DeleteTransaction, ChangeTransaction,
              CreateReview
<1>8. ~ProcessStep
  BY DEF ProcessStep, Crash, Restart, RestartCutOff, Forget
<1>. QED  BY <1>4, <1>5, <1>6, <1>7, <1>8 DEF Next

-----------------------------------------------------------------------------
(* The inductive invariant *)

(* No time is in the future, and a stamp is no older than a wait. *)
TimesArePast ==
  /\ \A v \in Visits : visits[v].stage = "stamped" =>
       visits[v].at <= now /\ now - visits[v].at <= MaxDelay
  /\ \A i \in ItemIds : \A k \in DOMAIN views[i] : views[i][k].at <= now
  /\ \A i \in ItemIds : \A k \in DOMAIN viewRows[i] : viewRows[i][k].at <= now

(* The views are out of the order of their times by a wait at most. *)
NearlySorted ==
  \A i \in ItemIds : \A j, k \in DOMAIN views[i] :
    j < k => views[i][j].at <= views[i][k].at + MaxDelay

ViewsInv ==
  /\ ViewsTypeOK
  /\ ~serving => \A v \in Visits : visits[v] = Idle
  /\ TimesArePast
  /\ NearlySorted
  /\ \A i \in ItemIds : Shows(views[i], viewRows[i])

LEMMA VisitStages ==
  /\ Idle.stage = "idle"
  /\ \A visit \in Visit : visit # Idle
  BY DEF Idle, Visit

LEMMA ViewsInitInv == ViewsInit => ViewsInv
<1>. SUFFICES ASSUME ViewsInit PROVE ViewsInv
  OBVIOUS
<1>1. TypeOK
  BY InitType DEF ViewsInit
<1>2. /\ now \in 0 .. MaxTime
      /\ visits \in [Visits -> Visit \cup {Idle}]
      /\ \A v \in Visits : visits[v] = Idle
      /\ views \in [ItemIds -> Seq(View)]
      /\ viewRows \in [ItemIds -> Seq(View)]
      /\ \A i \in ItemIds : views[i] = <<>> /\ viewRows[i] = <<>>
  BY ViewsAssumption DEF ViewsInit
<1>3. TimesArePast /\ NearlySorted
  BY <1>2, VisitStages DEF TimesArePast, NearlySorted
<1>. QED  BY <1>1, <1>2, <1>3, ShowsNothing DEF ViewsInv, ViewsTypeOK

LEMMA TickInv == ViewsInv /\ Tick => ViewsInv'
<1>. SUFFICES ASSUME ViewsInv, Tick PROVE ViewsInv'
  OBVIOUS
<1>1. TypeOK'
  BY NextType DEF ViewsInv, ViewsTypeOK, Tick
<1>2. now \in 0 .. MaxTime /\ now' = now + 1 /\ now' \in 0 .. MaxTime
  BY ViewsAssumption DEF ViewsInv, ViewsTypeOK, Tick
<1>3. UNCHANGED <<vars, visits, views, viewRows>>
  BY DEF Tick
<1>4. /\ \A v \in Visits : visits[v] \in Visit => visits[v].at \in Nat
      /\ \A i \in ItemIds : \A k \in DOMAIN views[i] : views[i][k].at \in Nat
      /\ \A i \in ItemIds : \A k \in DOMAIN viewRows[i] : viewRows[i][k].at \in Nat
  BY ViewTimes, ViewsAssumption DEF ViewsInv, ViewsTypeOK, Visit
<1>5. \A v \in Visits : visits[v].stage = "stamped" => visits[v] \in Visit
  BY VisitStages DEF ViewsInv, ViewsTypeOK
<1>6. TimesArePast'
  BY <1>2, <1>3, <1>4, <1>5, ViewsAssumption DEF ViewsInv, TimesArePast, Tick
<1>7. NearlySorted'
  BY <1>3 DEF ViewsInv, NearlySorted
<1>. QED
  BY <1>1, <1>2, <1>3, <1>6, <1>7
  DEF ViewsInv, ViewsTypeOK, vars, memory

(* A step of a visit that leaves the views alone *)
LEMMA VisitInv ==
  ASSUME ViewsInv, NEW v \in Visits, NEW visit \in Visit \cup {Idle},
         visits' = [visits EXCEPT ![v] = visit],
         visit # Idle => serving /\ items[visit.item] # NoItem,
         visit.stage = "stamped" => visit.at = now,
         UNCHANGED <<vars, now, views, viewRows>>
  PROVE  ViewsInv'
<1>1. TypeOK'
  BY NextType DEF ViewsInv, ViewsTypeOK
<1>2. UNCHANGED <<serving, items>>
  BY DEF vars, memory
<1>3. \A w \in Visits : visits'[w] = IF w = v THEN visit ELSE visits[w]
  BY DEF ViewsInv, ViewsTypeOK
<1>4. now \in Nat /\ now - now <= MaxDelay
  BY ViewsAssumption DEF ViewsInv, ViewsTypeOK
<1>5. TimesArePast'
  BY <1>3, <1>4 DEF ViewsInv, TimesArePast
<1>6. NearlySorted'
  BY DEF ViewsInv, NearlySorted
<1>7. visits' \in [Visits -> Visit \cup {Idle}]
  BY DEF ViewsInv, ViewsTypeOK
<1>8. \A w \in Visits : visits'[w] # Idle => serving /\ items[visits'[w].item] # NoItem
  BY <1>3 DEF ViewsInv, ViewsTypeOK
<1>. QED
  BY <1>1, <1>2, <1>5, <1>6, <1>7, <1>8 DEF ViewsInv, ViewsTypeOK

LEMMA EnterInv ==
  ASSUME ViewsInv, NEW v \in Visits, NEW u \in Viewers, NEW i \in ItemIds,
         Enter(v, u, i)
  PROVE  ViewsInv'
<1>. DEFINE visit ==
       [stage |-> IF u = items[i].seller THEN "recorded" ELSE "admitted",
        viewer |-> u, item |-> i, at |-> 0]
<1>1. visit \in Visit
  BY ViewsAssumption DEF Visit
<1>2. serving /\ items[visit.item] # NoItem /\ visit.stage # "stamped"
  BY DEF Enter, IsPublic
<1>3. visits' = [visits EXCEPT ![v] = visit] /\ UNCHANGED <<vars, now, views, viewRows>>
  BY DEF Enter
<1> HIDE DEF visit
<1>. QED  BY <1>1, <1>2, <1>3, VisitInv

LEMMA StampInv ==
  ASSUME ViewsInv, NEW v \in Visits, Stamp(v)
  PROVE  ViewsInv'
<1>. DEFINE visit == [visits[v] EXCEPT !.stage = "stamped", !.at = now]
<1>1. visits[v] \in Visit /\ serving /\ items[visits[v].item] # NoItem
  BY VisitStages DEF Stamp, ViewsInv, ViewsTypeOK
<1>2. visit \in Visit /\ visit.at = now /\ visit.item = visits[v].item
  BY <1>1 DEF Visit, ViewsInv, ViewsTypeOK
<1>3. visits' = [visits EXCEPT ![v] = visit] /\ UNCHANGED <<vars, now, views, viewRows>>
  BY DEF Stamp
<1> HIDE DEF visit
<1>. QED  BY <1>1, <1>2, <1>3, VisitInv

LEMMA AnswerInv ==
  ASSUME ViewsInv, NEW v \in Visits, Answer(v)
  PROVE  ViewsInv'
<1>1. Idle.stage # "stamped"
  BY DEF Idle
<1>. QED  BY <1>1, VisitInv DEF Answer

(* The step that appends: what the appended view must satisfy *)
LEMMA AppendedView ==
  ASSUME ViewsInv, NEW i \in ItemIds, NEW view \in View,
         view.at <= now, now - view.at <= MaxDelay,
         views' \in {views, [views EXCEPT ![i] = Append(@, view)]},
         viewRows' = [viewRows EXCEPT ![i] = Append(@, view)],
         UNCHANGED <<vars, now>>
  PROVE  /\ views' \in [ItemIds -> Seq(View)]
         /\ viewRows' \in [ItemIds -> Seq(View)]
         /\ NearlySorted'
         /\ \A j \in ItemIds :
              /\ \A k \in DOMAIN views'[j] : views'[j][k].at <= now
              /\ \A k \in DOMAIN viewRows'[j] : viewRows'[j][k].at <= now
              /\ Shows(views'[j], viewRows'[j])
<1>1. /\ views[i] \in Seq(View) /\ viewRows[i] \in Seq(View)
      /\ views \in [ItemIds -> Seq(View)] /\ viewRows \in [ItemIds -> Seq(View)]
  BY DEF ViewsInv, ViewsTypeOK
<1>. DEFINE longer == Append(views[i], view)
            table == Append(viewRows[i], view)
<1>2. /\ Len(views[i]) \in Nat /\ DOMAIN views[i] = 1 .. Len(views[i])
      /\ longer \in Seq(View)
      /\ DOMAIN longer = 1 .. (Len(views[i]) + 1)
      /\ \A k \in 1 .. Len(views[i]) : longer[k] = views[i][k]
      /\ longer[Len(views[i]) + 1] = view
  BY <1>1, Appending
<1>3. /\ Len(viewRows[i]) \in Nat /\ DOMAIN viewRows[i] = 1 .. Len(viewRows[i])
      /\ table \in Seq(View)
      /\ DOMAIN table = 1 .. (Len(viewRows[i]) + 1)
      /\ \A k \in 1 .. Len(viewRows[i]) : table[k] = viewRows[i][k]
      /\ table[Len(viewRows[i]) + 1] = view
  BY <1>1, Appending
<1>4. Shows(longer, table) /\ Shows(views[i], table)
  BY <1>1, ShowsAppended, ShowsStored DEF ViewsInv
<1> HIDE DEF longer, table
<1>5. /\ views'[i] \in {views[i], longer} /\ viewRows'[i] = table
      /\ \A j \in ItemIds : j # i => views'[j] = views[j] /\ viewRows'[j] = viewRows[j]
  BY <1>1 DEF longer, table
<1>6. views' \in [ItemIds -> Seq(View)] /\ viewRows' \in [ItemIds -> Seq(View)]
  BY <1>1, <1>2, <1>3 DEF longer, table
<1>7. \A j \in ItemIds : /\ \A k \in DOMAIN views[j] : views[j][k].at <= now
                         /\ \A k \in DOMAIN viewRows[j] : viewRows[j][k].at <= now
  BY DEF ViewsInv, TimesArePast
<1>8. /\ \A k \in DOMAIN longer : longer[k].at <= now
      /\ \A k \in DOMAIN table : table[k].at <= now
  <2>1. ASSUME NEW k \in DOMAIN longer PROVE longer[k].at <= now
    <3>1. CASE k \in 1 .. Len(views[i])
      BY <1>2, <1>7, <3>1
    <3>2. CASE k = Len(views[i]) + 1
      BY <1>2, <3>2
    <3>. QED  BY <1>2, <2>1, <3>1, <3>2
  <2>2. ASSUME NEW k \in DOMAIN table PROVE table[k].at <= now
    <3>1. CASE k \in 1 .. Len(viewRows[i])
      BY <1>3, <1>7, <3>1
    <3>2. CASE k = Len(viewRows[i]) + 1
      BY <1>3, <3>2
    <3>. QED  BY <1>3, <2>2, <3>1, <3>2
  <2>. QED  BY <2>1, <2>2
<1>9. \A j, k \in DOMAIN longer : j < k => longer[j].at <= longer[k].at + MaxDelay
  <2> SUFFICES ASSUME NEW j \in DOMAIN longer, NEW k \in DOMAIN longer, j < k
               PROVE  longer[j].at <= longer[k].at + MaxDelay
    OBVIOUS
  <2>1. CASE k \in 1 .. Len(views[i])
    BY <1>2, <2>1 DEF ViewsInv, NearlySorted
  <2>2. CASE k = Len(views[i]) + 1
    <3>1. longer[j].at <= now /\ longer[k] = view
      BY <1>2, <1>8, <2>2
    <3>2. longer[j].at \in Nat
      BY <1>2, ViewTimes
    <3>3. view.at \in Nat /\ now \in Nat
      BY ViewsAssumption DEF View, ViewsInv, ViewsTypeOK
    <3>. QED  BY <3>1, <3>2, <3>3, ViewsAssumption
  <2>. QED  BY <1>2, <2>1, <2>2
<1>10. NearlySorted'
  BY <1>5, <1>9 DEF ViewsInv, NearlySorted
<1>11. \A j \in ItemIds :
         /\ \A k \in DOMAIN views'[j] : views'[j][k].at <= now
         /\ \A k \in DOMAIN viewRows'[j] : viewRows'[j][k].at <= now
  BY <1>5, <1>7, <1>8
<1>12. \A j \in ItemIds : Shows(views'[j], viewRows'[j])
  BY <1>4, <1>5 DEF ViewsInv
<1>. QED  BY <1>6, <1>10, <1>11, <1>12

(* The view that a visit is about to record *)
LEMMA RecordedView ==
  ASSUME ViewsInv, NEW v \in Visits, NEW o, RecordView(v, o)
  PROVE  LET i == visits[v].item
             view == [viewer |-> visits[v].viewer, at |-> visits[v].at]
         IN /\ i \in ItemIds /\ view \in View /\ serving
            /\ view.at <= now /\ now - view.at <= MaxDelay
            /\ \/ UNCHANGED <<views, viewRows>>
               \/ /\ ShouldRecord(i, view.viewer, view.at)
                  /\ viewRows' = [viewRows EXCEPT ![i] = Append(@, view)]
                  /\ \/ views' = [views EXCEPT ![i] = Append(@, view)]
                     \/ views' = views /\ o = "lost"
<1>1. visits[v] \in Visit /\ serving
  BY VisitStages DEF RecordView, ViewsInv, ViewsTypeOK
<1>2. visits[v].at <= now /\ now - visits[v].at <= MaxDelay
  BY DEF RecordView, ViewsInv, TimesArePast
<1>3. /\ visits[v].item \in ItemIds
      /\ [viewer |-> visits[v].viewer, at |-> visits[v].at] \in View
  BY <1>1 DEF Visit, View
<1>4. o \in {"ok", "failed", "lost"}
  BY StoreAssumption DEF RecordView, WriteOutcomes
<1>. DEFINE i == visits[v].item
            view == [viewer |-> visits[v].viewer, at |-> visits[v].at]
<1>5. /\ o = "ok" => Appended(i, view, o) = [views EXCEPT ![i] = Append(@, view)]
      /\ o # "ok" => Appended(i, view, o) = views
  <2>1. views \in [ItemIds -> Seq(View)]
    BY DEF ViewsInv, ViewsTypeOK
  <2>2. Front(Append(views[i], view)) = views[i]
    BY <1>3, <2>1, CutAgain
  <2>. QED  BY <2>1, <2>2 DEF Appended, Continues
<1>. QED
  BY <1>1, <1>2, <1>3, <1>4, <1>5 DEF RecordView

LEMMA RecordViewInv ==
  ASSUME ViewsInv, NEW v \in Visits, NEW o, RecordView(v, o)
  PROVE  ViewsInv'
<1>. DEFINE i == visits[v].item
            view == [viewer |-> visits[v].viewer, at |-> visits[v].at]
            visit == [visits[v] EXCEPT !.stage = "recorded", !.at = 0]
<1>1. /\ i \in ItemIds /\ view \in View /\ serving
      /\ view.at <= now /\ now - view.at <= MaxDelay
      /\ \/ UNCHANGED <<views, viewRows>>
         \/ /\ viewRows' = [viewRows EXCEPT ![i] = Append(@, view)]
            /\ views' \in {views, [views EXCEPT ![i] = Append(@, view)]}
  BY RecordedView
<1>2. visits[v] \in Visit /\ items[visits[v].item] # NoItem
  BY VisitStages DEF RecordView, ViewsInv, ViewsTypeOK
<1>3. /\ visit \in Visit /\ visit.item = visits[v].item
      /\ visit.stage # "stamped"
  <2>1. 0 \in 0 .. MaxTime
    BY ViewsAssumption
  <2>2. visit.item = visits[v].item /\ visit.stage = "recorded"
    BY <1>2 DEF Visit
  <2>. QED  BY <1>2, <2>1, <2>2 DEF Visit
<1>4. /\ visits' = [visits EXCEPT ![v] = visit]
      /\ UNCHANGED <<vars, now>>
  BY DEF RecordView
<1> HIDE DEF i, view, visit
<1>5. CASE UNCHANGED <<views, viewRows>>
  BY <1>1, <1>2, <1>3, <1>4, <1>5, VisitInv
<1>6. CASE ~UNCHANGED <<views, viewRows>>
  <2>1. TypeOK' /\ UNCHANGED <<serving, items>>
    BY <1>4, NextType DEF ViewsInv, ViewsTypeOK, vars, memory
  <2>2. /\ visits' \in [Visits -> Visit \cup {Idle}]
        /\ \A w \in Visits : visits'[w] = IF w = v THEN visit ELSE visits[w]
    BY <1>3, <1>4 DEF ViewsInv, ViewsTypeOK
  <2>3. /\ views' \in [ItemIds -> Seq(View)]
        /\ viewRows' \in [ItemIds -> Seq(View)]
        /\ NearlySorted'
        /\ \A j \in ItemIds :
             /\ \A k \in DOMAIN views'[j] : views'[j][k].at <= now
             /\ \A k \in DOMAIN viewRows'[j] : viewRows'[j][k].at <= now
             /\ Shows(views'[j], viewRows'[j])
    BY <1>1, <1>4, <1>6, AppendedView
  <2>4. \A w \in Visits : visits'[w].stage = "stamped" =>
          visits'[w].at <= now /\ now - visits'[w].at <= MaxDelay
    BY <1>3, <2>2 DEF ViewsInv, TimesArePast
  <2>5. TimesArePast'
    BY <1>4, <2>3, <2>4 DEF TimesArePast
  <2>6. \A w \in Visits : visits'[w] # Idle => items[visits'[w].item] # NoItem
    BY <1>2, <1>3, <2>2 DEF ViewsInv, ViewsTypeOK
  <2>. QED
    BY <1>1, <1>4, <2>1, <2>2, <2>3, <2>5, <2>6 DEF ViewsInv, ViewsTypeOK
<1>. QED  BY <1>5, <1>6

(* The views of an item go with the item, and only when a start purges it. *)
LEMMA MarketStepRows ==
  ASSUME ViewsInv, MarketStep
  PROVE  /\ viewRows' \in [ItemIds -> Seq(View)]
         /\ \A i \in ItemIds : viewRows'[i] \in {viewRows[i], <<>>}
         /\ serving => viewRows' = viewRows
<1>1. TypeOK /\ viewRows \in [ItemIds -> Seq(View)] /\ Next
  BY DEF ViewsInv, ViewsTypeOK, MarketStep
<1>2. serving => PurgedItems = {}
  BY <1>1, NothingPurged
<1>3. viewRows' = [i \in ItemIds |-> IF i \in PurgedItems THEN <<>> ELSE viewRows[i]]
  BY DEF MarketStep
<1>4. <<>> \in Seq(View)
  OBVIOUS
<1>. HIDE DEF PurgedItems
<1>. QED  BY <1>1, <1>2, <1>3, <1>4

LEMMA MarketStepInv ==
  ASSUME ViewsInv, MarketStep
  PROVE  ViewsInv'
<1>1. TypeOK /\ TypeOK' /\ Next /\ now' = now
  BY NextType DEF ViewsInv, ViewsTypeOK, MarketStep
<1>2. /\ visits \in [Visits -> Visit \cup {Idle}]
      /\ views \in [ItemIds -> Seq(View)] /\ viewRows \in [ItemIds -> Seq(View)]
      /\ now \in 0 .. MaxTime
      /\ \A v \in Visits : visits[v] # Idle => serving /\ items[visits[v].item] # NoItem
  BY DEF ViewsInv, ViewsTypeOK
<1>3. /\ viewRows' \in [ItemIds -> Seq(View)]
      /\ serving => viewRows' = viewRows
      /\ \A i \in ItemIds : \A k \in DOMAIN viewRows'[i] : viewRows'[i][k].at <= now
      /\ \A i \in ItemIds : Shows(views[i], viewRows[i])
  BY MarketStepRows DEF ViewsInv, TimesArePast
<1>4. \A v \in Visits : visits'[v] = IF serving' THEN visits[v] ELSE Idle
  BY <1>2 DEF MarketStep
<1>5. \A v \in Visits : visits'[v] # Idle => serving' /\ items'[visits'[v].item] # NoItem
  <2> SUFFICES ASSUME NEW v \in Visits, visits'[v] # Idle
               PROVE  serving' /\ items'[visits'[v].item] # NoItem
    OBVIOUS
  <2>1. serving' /\ visits'[v] = visits[v] /\ visits[v] \in Visit
    BY <1>2, <1>4
  <2>2. visits[v].item \in ItemIds
    BY <2>1 DEF Visit
  <2>. QED  BY <1>1, <1>2, <2>1, <2>2, ItemsStay
<1>6. visits' \in [Visits -> Visit \cup {Idle}]
  BY <1>2, <1>4 DEF MarketStep
<1>7. \A v \in Visits : visits'[v].stage = "stamped" =>
        visits'[v].at <= now /\ now - visits'[v].at <= MaxDelay
  BY <1>4, VisitStages DEF ViewsInv, TimesArePast
<1>8. ASSUME views' \in [ItemIds -> Seq(View)],
             \A i \in ItemIds : \A k \in DOMAIN views'[i] : views'[i][k].at <= now,
             NearlySorted',
             \A i \in ItemIds : Shows(views'[i], viewRows'[i])
      PROVE  ViewsInv'
  <2>1. TimesArePast'
    BY <1>1, <1>3, <1>7, <1>8 DEF TimesArePast
  <2>. QED
    BY <1>1, <1>2, <1>3, <1>5, <1>6, <1>8, <2>1 DEF ViewsInv, ViewsTypeOK
<1>9. CASE ~serving'
  <2>. views' = [i \in ItemIds |-> <<>>]
    BY <1>9 DEF MarketStep
  <2>1. views' \in [ItemIds -> Seq(View)] /\ \A i \in ItemIds : views'[i] = <<>>
    OBVIOUS
  <2>2. NearlySorted'
    BY <2>1 DEF NearlySorted
  <2>3. \A i \in ItemIds : Shows(views'[i], viewRows'[i])
    BY <2>1, ShowsNothing
  <2>. QED  BY <1>8, <2>1, <2>2, <2>3
<1>10. CASE serving' /\ ~serving
  <2>1. \A i \in ItemIds : views'[i] \in ByTime(viewRows'[i])
    BY <1>10 DEF MarketStep, Reloaded
  <2>2. ASSUME NEW i \in ItemIds
        PROVE  /\ views'[i] \in Seq(View)
               /\ Shows(views'[i], viewRows'[i])
               /\ \A j, k \in DOMAIN views'[i] :
                    j < k => views'[i][j].at <= views'[i][k].at
    BY <1>3, <2>1, ByTimeIsSorted
  <2>3. DOMAIN views' = ItemIds /\ views' = [i \in DOMAIN views' |-> views'[i]]
    BY <1>10 DEF MarketStep, Reloaded
  <2>4. views' \in [ItemIds -> Seq(View)]
    BY <2>2, <2>3
  <2>5. ASSUME NEW i \in ItemIds, NEW k \in DOMAIN views'[i]
        PROVE  views'[i][k].at <= now
    BY <1>3, <2>2 DEF Shows
  <2>6. NearlySorted'
    <3> SUFFICES ASSUME NEW i \in ItemIds, NEW j \in DOMAIN views'[i],
                        NEW k \in DOMAIN views'[i], j < k
                 PROVE  views'[i][j].at <= views'[i][k].at + MaxDelay
      BY DEF NearlySorted
    <3>1. views'[i][j].at \in Nat /\ views'[i][k].at \in Nat
      BY <2>2, ViewTimes
    <3>. QED  BY <2>2, <3>1, ViewsAssumption
  <2>. QED  BY <1>8, <2>2, <2>4, <2>5, <2>6
<1>11. CASE serving' /\ serving
  <2>1. views' = views /\ viewRows' = viewRows
    BY <1>3, <1>11 DEF MarketStep
  <2>2. NearlySorted'
    BY <2>1 DEF ViewsInv, NearlySorted
  <2>3. \A i \in ItemIds : \A k \in DOMAIN views'[i] : views'[i][k].at <= now
    BY <2>1 DEF ViewsInv, TimesArePast
  <2>. QED
    BY <1>2, <1>3, <1>8, <2>1, <2>2, <2>3
<1>. QED  BY <1>9, <1>10, <1>11

LEMMA ViewsNextInv == ViewsInv /\ [ViewsNext]_allVars => ViewsInv'
<1>. SUFFICES ASSUME ViewsInv, [ViewsNext]_allVars PROVE ViewsInv'
  OBVIOUS
<1>1. CASE UNCHANGED allVars
  <2>1. TypeOK' /\ UNCHANGED <<serving, items, now, visits, views, viewRows>>
    BY <1>1, NextType DEF ViewsInv, ViewsTypeOK, allVars, viewVars, vars, memory
  <2>. QED
    BY <2>1 DEF ViewsInv, ViewsTypeOK, TimesArePast, NearlySorted
<1>. QED
  BY <1>1, MarketStepInv, TickInv, EnterInv, StampInv, RecordViewInv, AnswerInv
  DEF ViewsNext

(* The invariant the other theorems of this module rest on: the types, and *)
(* on the views of an item that times are past, that the list was appended *)
(* in nearly the order of time, and that all that is shown has a row.      *)
THEOREM ViewsInvariant == ViewsSpec => []ViewsInv
  BY ViewsInitInv, ViewsNextInv, PTL DEF ViewsSpec

(* Every variable keeps its type, and no visit is of an item that is not   *)
(* there: getItem looks before it locks again, and items stay.             *)
THEOREM ViewsTypeCorrect == ViewsSpec => []ViewsTypeOK
<1>1. ViewsInv => ViewsTypeOK
  BY DEF ViewsInv
<1>. QED  BY <1>1, ViewsInvariant, PTL

(* Whatever is stored of the views, a start can read it in the order of    *)
(* their times, views of one time in some order (loadStore).               *)
THEOREM ReloadIsPossible == ViewsSpec => [](Reloaded # {})
<1>1. ViewsInv => Reloaded # {}
  <2> SUFFICES ASSUME ViewsInv PROVE Reloaded # {}
    OBVIOUS
  <2> DEFINE loaded == [i \in ItemIds |-> CHOOSE seq : seq \in ByTime(viewRows[i])]
  <2>1. ASSUME NEW i \in ItemIds
        PROVE  loaded[i] \in ByTime(viewRows[i])
    <3>1. viewRows[i] \in Seq(View)
      BY DEF ViewsInv, ViewsTypeOK
    <3>2. \E seq : seq \in ByTime(viewRows[i])
      BY <3>1, ByTimeExists
    <3>. QED  BY <3>2
  <2>2. loaded \in [ItemIds -> UNION {ByTime(viewRows[i]) : i \in ItemIds}]
    BY <2>1
  <2> HIDE DEF loaded
  <2>. QED  BY <2>1, <2>2 DEF Reloaded
<1>. QED  BY <1>1, ViewsInvariant, PTL

(* Every view that is shown is stored, in every state and whatever writes  *)
(* did: recordItemView takes back only the view it appended.               *)
THEOREM ShownViewsStayStored == ViewsSpec => []ShownViewsAreStored
<1>1. ViewsInv => ShownViewsAreStored
  BY ShownIsStored DEF ViewsInv, ViewsTypeOK, ShownViewsAreStored, Views
<1>. QED  BY <1>1, ViewsInvariant, PTL

-----------------------------------------------------------------------------
(* The window, when no write is executed and answered with an error *)

SpacingInv ==
  /\ serving => \A i \in ItemIds : ShowsAll(views[i], viewRows[i])
  /\ ViewsSpaced

(* A view that shouldRecordView lets in is a window less a wait later than *)
(* those of its viewer: it is compared with them, or with a later one that *)
(* is older by a wait at most.                                             *)
LEMMA RecordedIsSpaced ==
  ASSUME ViewsInv, NEW i \in ItemIds, NEW view \in View,
         ShouldRecord(i, view.viewer, view.at),
         NEW k \in DOMAIN views[i], views[i][k].viewer = view.viewer
  PROVE  view.at - views[i][k].at > Window - MaxDelay
<1>1. view.at \in Nat /\ Window \in Nat /\ MaxDelay \in Nat
  BY ViewsAssumption DEF View
<1>2. \A m \in DOMAIN views[i] : views[i][m].at \in Nat
  BY ViewTimes DEF ViewsInv, ViewsTypeOK
<1>3. CASE IsOld(views[i][k], view.at)
  BY <1>1, <1>2, <1>3 DEF IsOld
<1>4. CASE ~IsOld(views[i][k], view.at)
  <2>1. PICK m \in DOMAIN views[i] : m > k /\ IsOld(views[i][m], view.at)
    BY <1>4 DEF ShouldRecord, Views
  <2>2. views[i][k].at <= views[i][m].at + MaxDelay
    <3>1. k \in Nat /\ m \in Nat
      BY DEF ViewsInv, ViewsTypeOK
    <3>. QED  BY <2>1, <3>1 DEF ViewsInv, NearlySorted
  <2>. QED  BY <1>1, <1>2, <2>1, <2>2 DEF IsOld
<1>. QED  BY <1>3, <1>4

LEMMA AppendSpaced ==
  ASSUME NEW seq \in Seq(View), NEW view \in View, SpacedIn(seq),
         \A k \in DOMAIN seq : seq[k].viewer = view.viewer =>
           view.at - seq[k].at > Window - MaxDelay
  PROVE  SpacedIn(Append(seq, view))
<1>. DEFINE n == Len(seq)
            longer == Append(seq, view)
<1>1. /\ n \in Nat /\ DOMAIN seq = 1 .. n /\ DOMAIN longer = 1 .. (n + 1)
      /\ \A k \in 1 .. n : longer[k] = seq[k]
      /\ longer[n + 1] = view
  BY Appending
<1> HIDE DEF n, longer
<1>2. SUFFICES ASSUME NEW j \in DOMAIN longer, NEW k \in DOMAIN longer, j # k,
                      longer[j].viewer = longer[k].viewer
               PROVE  \/ longer[j].at - longer[k].at > Window - MaxDelay
                      \/ longer[k].at - longer[j].at > Window - MaxDelay
  BY DEF SpacedIn, longer
<1>3. CASE j \in 1 .. n /\ k \in 1 .. n
  BY <1>1, <1>2, <1>3 DEF SpacedIn
<1>4. CASE j = n + 1 /\ k \in 1 .. n
  BY <1>1, <1>2, <1>4
<1>5. CASE j \in 1 .. n /\ k = n + 1
  BY <1>1, <1>2, <1>5
<1>. QED  BY <1>1, <1>2, <1>3, <1>4, <1>5

(* Showing no row twice keeps the distances of the table. *)
LEMMA ShownIsSpaced ==
  ASSUME NEW seq, NEW rows, Shows(seq, rows), SpacedIn(rows)
  PROVE  SpacedIn(seq)
<1>1. PICK p \in [DOMAIN seq -> DOMAIN rows] :
        /\ \A j, k \in DOMAIN seq : p[j] = p[k] => j = k
        /\ \A k \in DOMAIN seq : seq[k] = rows[p[k]]
  BY DEF Shows
<1>2. ASSUME NEW j \in DOMAIN seq, NEW k \in DOMAIN seq, j # k,
             seq[j].viewer = seq[k].viewer
      PROVE  \/ seq[j].at - seq[k].at > Window - MaxDelay
             \/ seq[k].at - seq[j].at > Window - MaxDelay
  <2>1. /\ p[j] \in DOMAIN rows /\ p[k] \in DOMAIN rows /\ p[j] # p[k]
        /\ seq[j] = rows[p[j]] /\ seq[k] = rows[p[k]]
    BY <1>1, <1>2
  <2>. QED  BY <1>2, <2>1 DEF SpacedIn
<1>. QED  BY <1>2 DEF SpacedIn

LEMMA RecordViewSpacing ==
  ASSUME Outcomes \subseteq {"ok", "failed"}, ViewsInv, SpacingInv,
         NEW v \in Visits, NEW o, RecordView(v, o)
  PROVE  SpacingInv'
<1>. DEFINE i == visits[v].item
            view == [viewer |-> visits[v].viewer, at |-> visits[v].at]
<1>1. o # "lost"
  BY DEF RecordView, WriteOutcomes
<1>2. /\ i \in ItemIds /\ view \in View /\ serving
      /\ \/ UNCHANGED <<views, viewRows>>
         \/ /\ ShouldRecord(i, view.viewer, view.at)
            /\ viewRows' = [viewRows EXCEPT ![i] = Append(@, view)]
            /\ views' = [views EXCEPT ![i] = Append(@, view)]
  BY <1>1, RecordedView
<1>3. UNCHANGED serving
  BY DEF RecordView, vars
<1> HIDE DEF i, view
<1>4. CASE UNCHANGED <<views, viewRows>>
  BY <1>3, <1>4 DEF SpacingInv, ViewsSpaced
<1>5. CASE ~UNCHANGED <<views, viewRows>>
  <2>1. views[i] \in Seq(View) /\ viewRows[i] \in Seq(View)
    BY <1>2 DEF ViewsInv, ViewsTypeOK
  <2> DEFINE longer == Append(views[i], view)
             table == Append(viewRows[i], view)
  <2>2. \A k \in DOMAIN views[i] : views[i][k].viewer = view.viewer =>
          view.at - views[i][k].at > Window - MaxDelay
    BY <1>2, <1>5, RecordedIsSpaced
  <2>3. ShowsAll(views[i], viewRows[i]) /\ SpacedIn(views[i]) /\ SpacedIn(viewRows[i])
    BY <1>2 DEF SpacingInv, ViewsSpaced
  <2>4. \A k \in DOMAIN viewRows[i] : viewRows[i][k].viewer = view.viewer =>
          view.at - viewRows[i][k].at > Window - MaxDelay
    BY <2>2, <2>3 DEF ShowsAll
  <2>5. SpacedIn(longer) /\ SpacedIn(table)
    BY <1>2, <2>1, <2>2, <2>3, <2>4, AppendSpaced
  <2>6. /\ Len(views[i]) \in Nat /\ DOMAIN views[i] = 1 .. Len(views[i])
        /\ DOMAIN longer = 1 .. (Len(views[i]) + 1)
        /\ \A k \in 1 .. Len(views[i]) : longer[k] = views[i][k]
        /\ longer[Len(views[i]) + 1] = view
    BY <1>2, <2>1, Appending
  <2>7. /\ Len(viewRows[i]) \in Nat /\ DOMAIN viewRows[i] = 1 .. Len(viewRows[i])
        /\ DOMAIN table = 1 .. (Len(viewRows[i]) + 1)
        /\ \A k \in 1 .. Len(viewRows[i]) : table[k] = viewRows[i][k]
        /\ table[Len(viewRows[i]) + 1] = view
    BY <1>2, <2>1, Appending
  <2>8. views'[i] = longer /\ viewRows'[i] = table
    BY <1>2, <1>5 DEF ViewsInv, ViewsTypeOK
  <2>9. \A j \in ItemIds : j # i => views'[j] = views[j] /\ viewRows'[j] = viewRows[j]
    BY <1>2, <1>5 DEF ViewsInv, ViewsTypeOK
  <2> HIDE DEF longer, table
  <2>10. ShowsAll(longer, table)
    <3> SUFFICES ASSUME NEW m \in DOMAIN table
                 PROVE  \E k \in DOMAIN longer : longer[k] = table[m]
      BY DEF ShowsAll
    <3>1. CASE m \in 1 .. Len(viewRows[i])
      <4>1. PICK k \in DOMAIN views[i] : views[i][k] = viewRows[i][m]
        BY <2>3, <2>7, <3>1 DEF ShowsAll
      <4>. QED  BY <2>6, <2>7, <3>1, <4>1
    <3>2. CASE m = Len(viewRows[i]) + 1
      BY <2>6, <2>7, <3>2
    <3>. QED  BY <2>7, <3>1, <3>2
  <2>. QED
    BY <1>2, <1>3, <2>5, <2>8, <2>9, <2>10 DEF SpacingInv, ViewsSpaced
<1>. QED  BY <1>4, <1>5

LEMMA MarketStepSpacing ==
  ASSUME ViewsInv, SpacingInv, MarketStep
  PROVE  SpacingInv'
<1>1. serving => viewRows' = viewRows
  BY MarketStepRows
<1>2. \A i \in ItemIds : SpacedIn(views[i]) /\ SpacedIn(viewRows'[i])
  BY MarketStepRows DEF SpacingInv, ViewsSpaced, SpacedIn
<1>3. CASE ~serving'
  <2>. views' = [i \in ItemIds |-> <<>>]
    BY <1>3 DEF MarketStep
  <2>1. \A i \in ItemIds : SpacedIn(views'[i])
    BY DEF SpacedIn
  <2>. QED  BY <1>1, <1>2, <1>3, <2>1 DEF SpacingInv, ViewsSpaced
<1>4. CASE serving' /\ ~serving
  <2>1. \A i \in ItemIds : views'[i] \in ByTime(viewRows'[i])
    BY <1>4 DEF MarketStep, Reloaded
  <2>2. \A i \in ItemIds : viewRows'[i] \in Seq(View)
    BY MarketStepRows
  <2>3. \A i \in ItemIds : /\ ShowsAll(views'[i], viewRows'[i])
                           /\ Shows(views'[i], viewRows'[i])
    BY <2>1, <2>2, ByTimeIsSorted
  <2>4. \A i \in ItemIds : SpacedIn(views'[i])
    BY <1>2, <2>3, ShownIsSpaced
  <2>. QED  BY <1>1, <1>2, <2>3, <2>4 DEF SpacingInv, ViewsSpaced
<1>5. CASE serving' /\ serving
  <2>1. views' = views
    BY <1>5 DEF MarketStep
  <2>. QED  BY <1>1, <1>5, <2>1 DEF SpacingInv, ViewsSpaced
<1>. QED  BY <1>3, <1>4, <1>5

LEMMA ViewsInitSpacing == ViewsInit => SpacingInv
<1>. SUFFICES ASSUME ViewsInit PROVE SpacingInv
  OBVIOUS
<1>1. \A i \in ItemIds : views[i] = <<>> /\ viewRows[i] = <<>>
  BY DEF ViewsInit
<1>2. SpacedIn(<<>>) /\ ShowsAll(<<>>, <<>>)
  BY DEF SpacedIn, ShowsAll
<1>. QED  BY <1>1, <1>2 DEF SpacingInv, ViewsSpaced

LEMMA ViewsNextSpacing ==
  ASSUME Outcomes \subseteq {"ok", "failed"}
  PROVE  ViewsInv /\ SpacingInv /\ [ViewsNext]_allVars => SpacingInv'
<1>. SUFFICES ASSUME ViewsInv, SpacingInv, [ViewsNext]_allVars PROVE SpacingInv'
  OBVIOUS
<1>1. CASE UNCHANGED <<serving, views, viewRows>>
  BY <1>1 DEF SpacingInv, ViewsSpaced
<1>2. \/ UNCHANGED <<serving, views, viewRows>>
      \/ MarketStep
      \/ \E v \in Visits, o \in Outcomes \cup {"failed"} : RecordView(v, o)
  BY DEF ViewsNext, Tick, Enter, Stamp, Answer, allVars, viewVars, vars
<1>. QED  BY <1>1, <1>2, MarketStepSpacing, RecordViewSpacing

(* A viewer counts once in a window less the time that a request may wait, *)
(* in memory and in the table and across restarts, although views are      *)
(* appended out of the order of their times (shouldRecordView).            *)
THEOREM ViewsStaySpaced ==
  ASSUME Outcomes \subseteq {"ok", "failed"}
  PROVE  ViewsSpec => []ViewsSpaced
<1>1. SpacingInv => ViewsSpaced
  BY DEF SpacingInv
<1>2. ViewsInv /\ SpacingInv /\ [ViewsNext]_allVars => SpacingInv'
  BY ViewsNextSpacing
<1>. QED  BY <1>1, <1>2, ViewsInitSpacing, ViewsInvariant, PTL DEF ViewsSpec
=============================================================================
