------------------------------- MODULE Views --------------------------------
(***************************************************************************)
(* Visits of an item's page (getItem) and the views they leave, beside the *)
(* market that changes the item.  getItem takes store.mu three times: it   *)
(* looks whether the item is public, records the view, and reads the item  *)
(* again to answer; the time of the view is read before the second lock is *)
(* waited for.  Several visits and the market's handlers interleave there. *)
(* A viewer counts once in Window: shouldRecordView.                       *)
(***************************************************************************)
EXTENDS Market, Integers, SequencesExt

CONSTANTS
  Visits,   \* requests for an item page that may be in progress at once
  Guests,   \* viewers without an account, one per client hash
  Window,   \* the time in which a viewer counts once (30 minutes)
  MaxDelay, \* bound on the wait between reading the clock and the lock
  MaxTime,  \* bound on the clock
  MaxViews  \* bound on the rows of item_views per item

ASSUME ViewsAssumption ==
  /\ Window \in Nat /\ MaxDelay \in Nat /\ MaxTime \in Nat /\ MaxViews \in Nat
  /\ Guests \cap (Users \cup {NoUser}) = {}

VARIABLES
  now,     \* the wall clock
  visits,  \* per request, how far getItem has come
  views,   \* store.itemViews: per item a sequence
  viewRows \* table item_views: per item the rows in the order of insertion

viewVars == <<now, visits, views, viewRows>>
allVars == <<vars, viewVars>>

Viewers == Users \cup Guests

View == [viewer : Viewers, at : 0 .. MaxTime]

Idle == [stage |-> "idle", viewer |-> NoUser, item |-> 0, at |-> 0]

Visit == [stage : {"admitted", "stamped", "recorded"}, viewer : Viewers,
          item : ItemIds, at : 0 .. MaxTime]

Views(i) == DOMAIN views[i]

-----------------------------------------------------------------------------
(* Whether a view counts *)

(* The view is too old to hold back one at time t. *)
IsOld(view, t) == t - view.at > Window

(* A wrong variant of the next definition, used to test properties: the    *)
(* scan starts with the first view.                                        *)
ShouldRecordFromFirst(i, u, t) ==
  \A k \in Views(i) :
    views[i][k].viewer = u /\ ~IsOld(views[i][k], t) =>
      \E m \in Views(i) : m < k /\ IsOld(views[i][m], t)

(* shouldRecordView scans the views from the last: an old view ends the    *)
(* scan with yes, a view of the same viewer with no.                       *)
ShouldRecord(i, u, t) ==
  \A k \in Views(i) :
    views[i][k].viewer = u /\ ~IsOld(views[i][k], t) =>
      \E m \in Views(i) : m > k /\ IsOld(views[i][m], t)

(* A wrong variant: after a failed write the first view is taken off.  *)
AppendedFirstCut(i, view, outcome) ==
  LET appended == Append(views[i], view)
  IN [views EXCEPT ![i] = IF Continues(outcome) THEN appended ELSE Tail(appended)]

(* The views after one was appended, and the last one taken off again if   *)
(* the write of the row failed.                                            *)
Appended(i, view, outcome) ==
  LET appended == Append(views[i], view)
  IN [views EXCEPT ![i] = IF Continues(outcome) THEN appended ELSE Front(appended)]

(* The sequences that ORDER BY created_at may return: views with the same  *)
(* time come in any order.                                                 *)
ByTime(rows) ==
  {[k \in DOMAIN rows |-> rows[order[k]]] : order \in
     {p \in SetToSeqs(DOMAIN rows) :
        \A j, k \in DOMAIN rows : j < k => rows[p[j]].at <= rows[p[k]].at}}

(* What loadStore may make of the table. *)
Reloaded ==
  {loaded \in [ItemIds -> UNION {ByTime(viewRows[i]) : i \in ItemIds}] :
     \A i \in ItemIds : loaded[i] \in ByTime(viewRows[i])}

-----------------------------------------------------------------------------
(* getItem *)

(* A wrong variant: an absent id is not told from an item. *)
IsPublicWhenAbsent(item) == ~item.hidden /\ item.status # "draft"

IsPublic(item) == item # NoItem /\ ~item.hidden /\ item.status # "draft"

(* The first look.  The seller's own visit skips the view. *)
Enter(v, u, i) ==
  /\ serving
  /\ visits[v] = Idle
  /\ IsPublic(items[i])
  /\ visits' = [visits EXCEPT ![v] =
       [stage |-> IF u = items[i].seller THEN "recorded" ELSE "admitted",
        viewer |-> u, item |-> i, at |-> 0]]
  /\ UNCHANGED <<vars, now, views, viewRows>>

(* recordItemView reads the clock before it has the lock. *)
Stamp(v) ==
  /\ visits[v].stage = "admitted"
  /\ visits' = [visits EXCEPT ![v].stage = "stamped", ![v].at = now]
  /\ UNCHANGED <<vars, now, views, viewRows>>

(* recordItemView has the lock.  A failure is logged and the page answered. *)
RecordView(v, outcome) ==
  LET i == visits[v].item
      view == [viewer |-> visits[v].viewer, at |-> visits[v].at]
  IN /\ visits[v].stage = "stamped"
     /\ outcome \in WriteOutcomes(itemRows[i] # NoItem)
     /\ visits' = [visits EXCEPT ![v].stage = "recorded", ![v].at = 0]
     /\ IF ShouldRecord(i, view.viewer, view.at)
        THEN /\ Len(viewRows[i]) < MaxViews
             /\ views' = Appended(i, view, outcome)
             /\ viewRows' = IF outcome = "failed" THEN viewRows
                            ELSE [viewRows EXCEPT ![i] = Append(@, view)]
        ELSE UNCHANGED <<views, viewRows>>
     /\ UNCHANGED <<vars, now>>

(* The second look: the item is answered as it is now. *)
Answer(v) ==
  /\ visits[v].stage = "recorded"
  /\ visits' = [visits EXCEPT ![v] = Idle]
  /\ UNCHANGED <<vars, now, views, viewRows>>

-----------------------------------------------------------------------------
(* The specification *)

ViewsInit ==
  /\ Init
  /\ now = 0
  /\ visits = [v \in Visits |-> Idle]
  /\ views = [i \in ItemIds |-> <<>>]
  /\ viewRows = [i \in ItemIds |-> <<>>]

(* A step of the market.  A process that dies loses its requests and its   *)
(* map, and one that starts reads the map back from the table.  Deleting   *)
(* an item cascades to its views.                                          *)
MarketStep ==
  /\ Next
  /\ viewRows' = [i \in ItemIds |->
                    IF i \in PurgedItems THEN <<>> ELSE viewRows[i]]
  /\ visits' = IF serving' THEN visits ELSE [v \in Visits |-> Idle]
  /\ CASE ~serving' -> views' = [i \in ItemIds |-> <<>>]
       [] serving' /\ ~serving -> views' \in Reloaded'
       [] OTHER -> views' = views
  /\ UNCHANGED now

(* Time passes, but no request waits for the lock longer than MaxDelay. *)
Tick ==
  /\ now < MaxTime
  /\ \A v \in Visits : visits[v].stage = "stamped" => now - visits[v].at < MaxDelay
  /\ now' = now + 1
  /\ UNCHANGED <<vars, visits, views, viewRows>>

ViewsNext ==
  \/ MarketStep
  \/ Tick
  \/ \E v \in Visits, u \in Viewers, i \in ItemIds : Enter(v, u, i)
  \/ \E v \in Visits : Stamp(v)
  \/ \E v \in Visits, o \in Outcomes \cup {"failed"} : RecordView(v, o)
  \/ \E v \in Visits : Answer(v)

ViewsSpec == ViewsInit /\ [][ViewsNext]_allVars

-----------------------------------------------------------------------------
(* Properties *)

SpacedIn(seq) ==
  \A j, k \in DOMAIN seq :
    j # k /\ seq[j].viewer = seq[k].viewer =>
      \/ seq[j].at - seq[k].at > Window - MaxDelay
      \/ seq[k].at - seq[j].at > Window - MaxDelay

CountIn(seq, view) == Cardinality({k \in DOMAIN seq : seq[k] = view})

(* Every variable keeps its type, and a visit in progress is of an item    *)
(* that the process has: an absent id never gets past the first look.      *)
ViewsTypeOK ==
  /\ TypeOK
  /\ now \in 0 .. MaxTime
  /\ visits \in [Visits -> Visit \cup {Idle}]
  /\ \A v \in Visits : visits[v] # Idle => items[visits[v].item] # NoItem
  /\ views \in [ItemIds -> Seq(View)]
  /\ viewRows \in [ItemIds -> Seq(View)]

(* One viewer's views of an item are spaced by the window, less the time   *)
(* that a request may wait for the lock: a view stamped early and appended *)
(* late may end the scan before it reaches the viewer's own.  It holds     *)
(* across restarts when no write is executed and answered with an error.   *)
ViewsSpaced ==
  \A i \in ItemIds : SpacedIn(views[i]) /\ SpacedIn(viewRows[i])

(* Every view that is shown is stored, so no restart lowers a view count,  *)
(* although concurrent visits append to and take off the same sequence.    *)
ShownViewsAreStored ==
  \A i \in ItemIds : \A k \in Views(i) :
    CountIn(views[i], views[i][k]) <= CountIn(viewRows[i], views[i][k])

(* "item not found" (getItem's first look, for a draft or a deleted item)  *)
(* and "expected draft to be hidden from another user" (the test of the    *)
(* seller's page): an item answered to a viewer who is not its seller is   *)
(* public when it is answered.                                             *)
PageIsPublic ==
  [][\A v \in Visits :
       /\ visits[v].stage = "recorded"
       /\ visits'[v] = Idle
       /\ serving'
       /\ visits[v].viewer # items[visits[v].item].seller
       => IsPublic(items[visits[v].item])]_allVars
=============================================================================
