# CapCycle backend: formal model

TLA+ modules, TLC configurations and TLAPS proofs for the Go API in
`cmd/api` and its tables in `migrations/001_init.sql`. Source lines are given as
`file:line` under `src/cmd/api/` unless the path says otherwise.

- [The system](#the-system)
- [Inventory](#inventory)
- [Modules and how they correspond to the code](#modules-and-how-they-correspond-to-the-code)
- [Runs](#runs)
- [What the runs found](#what-the-runs-found)
- [Fairness and liveness](#fairness-and-liveness)
- [Proofs](#proofs)
- [Abstractions](#abstractions)
- [What is not modelled](#what-is-not-modelled)
- [Plan](#plan)

## The system

One process serves a marketplace: users list items, buy them from each other,
pay, confirm, review, like and look, write messages about a sale, and ask Gemini
for help. All reads are answered from maps in memory (`store`, types.go:16). They
are loaded from MySQL once, at the start (db.go:87), and every handler that changes
a map also writes the changed record to its table
(`INSERT ... ON DUPLICATE KEY UPDATE`). One read-write lock, `store.mu`, guards
all the maps; the handlers that change something hold it for writing from the
first look to the last database write, with the exceptions of `getItem` (three
separate critical sections), `createMessage` (two) and the handlers behind
`requireAuth` (the user is read under a lock of its own). The start takes
no lock: nothing is served yet.

There are no background threads, queues, timers or retries that touch the store:
whatever happens to it, happens because a client sends a request, a database write
ends in one of its ways, or the process dies and is started again. Requests
to Gemini run beside all that, keep no state and wait for other servers.

So what can go wrong is, besides the interleaving of the handlers that give the lock up,

- a **write that fails after the map was changed**. Most handlers leave the change
  in the map: from then on the process decides on a state that no table holds;
- a **write that is executed and answered with an error** (a lost connection);
- a **process that dies between two writes** of one handler, or half-way through
  a start that purges or seeds;
- a **restart**, which forgets the first, reveals the second, takes its id
  counters from the largest ids it finds, and puts lists in the order of their times;
- a **purge** at every start (main.go:24, db.go:396), which deletes the items of one
  title with their sales, reviews, messages, likes and views, whatever was answered
  about them. Nothing stops a user from giving an item that title, so nothing in this
  program stays for good without that exception;
- time that is read before the lock is waited for;
- a **server that never answers**, and a context that ends while it is waited for;
- rounding at the boundaries of the price algorithms.

## Inventory

| Component | State | Operations | Hard behaviour | Correct when |
| --- | --- | --- | --- | --- |
| Store and tables (store.go, db.go, types.go, SQL) | maps and id counters; tables | upserts, `loadStore` | failed and half-reported writes, restart, id reuse | maps are never behind the tables; no id is used twice; with healthy writes maps and tables agree |
| Item handlers (handlers_items.go) | `items` | create, update, delete | several users edit, delete, republish and buy in any order | a published item is complete and not deleted; a sold item is not sold again |
| Sale handlers (handlers_transactions.go) | `transactions`, `reviews`, users' ratings | purchase, pay, complete, delete, review | two writes per handler, retries after a 500 | one sale per item, a sale agrees with its item and only moves forward; what was answered stays until a purge and counts in the rating; reviews follow the sale |
| Messages (handlers_transactions.go:169-215) | `messages` | list, create | check and append under different locks; order after a reload; reused sale ids | messages stay in order and with the parties of their sale |
| Likes (handlers_items.go:392-432) | `itemLikes` | like, unlike | a rollback in each direction; an insert that ignores errors | the last answer stays true; what appears is stored |
| Views (handlers_items.go:161-262) | `itemViews` | `getItem` | the lock is taken three times; the clock is read outside it; order of appending and of time | a viewer counts once in 30 minutes; what is shown is stored; a draft is not shown |
| Dynamic pricing (pricing.go:84-248) | local tables | `dynamicPrice` | rounding, candidates, indices of the dynamic programme | prices never rise, keep the minimum, earn the most |
| Price suggestion (pricing.go:22-83, :190-213, :250-348; ai.go:31) | none | `heuristicPriceSuggestion`, `applyCollectiblePriceFloor` | shares, caps and floors that meet at boundaries, rounded in two steps | a price lies in its range and not below its floor; a better text or more time costs nothing |
| Accounts (handlers_auth.go) | `users`, `usersByEmail`, ratings | register, login, update, statistics | failed write leaves an account in memory only; a record read under an earlier lock | one account per address; what was answered stays; ratings follow the reviews |
| Start and migration (main.go, db.go, seed.go) | tables and maps | migrate, load, purge, seed | a start that dies half-way through | it serves what the tables hold, and some later start always serves |
| AI assistance (ai.go, handlers_ai.go) | none of the store | assist, price, check, question, status | servers that hang, contexts that end, answers that are no valid text | answers are sound whatever Gemini says; calls end; no writer waits for Gemini |
| Categories (categories.go) | none | lookups | unknown ids from Gemini | an id and a label that belong together |
| Uploads, HTTP layer | none of the store | I/O | - | - |
| Deployment (`.github/workflows`) | revisions | rollout | two instances for a moment | one writer at a time |

Components interact through the store alone: the sale handlers read and write
`items`, `deleteItem` reads `transactions` and `reviews`, likes and views ask
`items` whether an item is public, messages ask `transactions` who may write,
reviews write the rating into the user's record that accounts write too, a purge
removes an item with everything that refers to it, `dynamicPrice` and
`itemQuestion` read an item. The help with prices shares its arithmetic
(`Suggestion`) with the answers that are given without Gemini.

`PROJECT.json` lists every component with its status and every hazard with its
line and the properties that cover it, or why none does.

## Modules and how they correspond to the code

| Module | Models | Uses |
| --- | --- | --- |
| `Ledger` | the abstract promise about sales, in the tables' terms only | |
| `Transcript` | the abstract promise about a conversation, in the table's terms only | |
| `Store` | maps, counters, tables, one operator per save, load, purge, crash | |
| `Market` | item, sale and review handlers; the properties; the refinement of `Ledger` | EXTENDS `Store`, INSTANCE `Ledger` |
| `Likes` | `changeItemLike`, beside all steps of the market | EXTENDS `Market` |
| `Views` | `getItem` and `recordItemView` in their steps, beside all steps of the market | EXTENDS `Market` |
| `Conversation` | `createMessage` in its two critical sections, beside all steps of the market; the refinement of `Transcript` | EXTENDS `Market`, INSTANCE `Transcript` |
| `Startup` | `initializeStore`: load, purge, seed, each write a step | |
| `Accounts` | registration, profiles, ratings, and what users do with items as far as the next start depends on it | EXTENDS `Startup` |
| `Pricing` | `solveDynamicPrice` | EXTENDS `Suggestion` |
| `Suggestion` | the arithmetic of suggested prices and their floors | |
| `Assistant` | the five kinds of requests to Gemini, `store.mu` and contexts | EXTENDS `Suggestion` |
| `MC...` | instances for TLC | |
| `MarketProofs`, `SalesProofs`, `LikesProofs`, `ViewsProofs`, `ConversationProofs`, `PricingProofs`, `AccountsProofs`, `AssistantProofs` | theorems | |

**Store.** `items`, `transactions`, `reviews` and the three counters are the fields
of `store`; `itemRows`, `txnRows`, `reviewRows` are the tables. A map lookup of
an absent id gives Go's zero value, so an absent record is `NoItem`, `NoTxn` or
`NoReview` in a total function. `SaveItem`, `SaveTransaction` and `SaveReview`
take the outcome of the write: `"ok"` (executed, no error), `"failed"` (not
executed, error), `"lost"` (executed, error). What an upsert changes of a row that
exists is exactly its `ON DUPLICATE KEY UPDATE` list: an item's seller, a
transaction's parties and a review never change. A write whose foreign key
has no row always fails (`WriteOutcomes`). `Crash` forgets every map.

A start is one step of the market, `Restart`: `loadStore`, with the counters after the
largest id loaded, and the purge of main.go:24 in the tables and in what was loaded
(`PurgeTables`). Of a title the model keeps whether it is the one that is purged
(`obsolete`); any seller may give it to an item or take it away, when the item is
created or edited. `RestartCutOff` is a start that ends after the purge was committed.
One that ends before has changed nothing and is a stuttering step. `Startup` has the
steps of a start one by one.

The seed gives its seller a rating of 4.8 without a review (seed.go:13), and nothing
recalculates it before the first process serves: that process shows 4.8 where
`recalculateUserRating` gives 5 (store.go:46), and the next one shows 5. A rating is the
set of reviews it was averaged from, so the seeded one is a set of no review that exists
(`SeededRating`), different from the empty one; the process of `StoreInit` has it.

**Market.** Each handler is one action, because it holds `store.mu` throughout;
its parameters are the caller, the request and the outcome of each of its
writes, in the handler's order, and a write after one that failed is not made.
A process that dies inside a handler leaves the tables as if its remaining
writes had failed and a `Crash` had followed; for the runs in which no write
fails, `PurchaseKilled` and `DeleteSoldItemKilled` are the deaths between two
writes. `receipts` and `reviewReceipts` record what a client was told with a 2xx, until
a start purges the item it was told about (`PurgeReceipts`). The rating of a user as a
set of reviews tells apart when it was computed, not the average. `approveTransaction` answers 410 and
changes nothing; the read-only handlers have no action.

| Action | Handler |
| --- | --- |
| `CreateItem`, `UpdateItem` | handlers_items.go:264, :290 (row first, then the map) |
| `DeleteUnsoldItem`, `DeleteSoldItem` | handlers_items.go:338 (map first, then the row) |
| `Purchase` | handlers_transactions.go:9 |
| `Pay`, `Complete`, `DeleteTransaction` | handlers_transactions.go:119, :123, :79 |
| `CreateReview` | handlers_transactions.go:217, with `recalculateUserRating` |
| `Crash`, `Restart`, `RestartCutOff` | the process dies; main.go:9 with db.go:87 and db.go:396 |

**Ledger, Transcript.** What the tables alone promise. `Ledger` has the items that are
stored as sold, those of them that are doomed (they have the obsolete title, which a sold
item keeps), and the sale recorded under each id; `Purge` takes all that is doomed, items
and sales together, and nothing else ever goes. `Transcript` has for each sale whether it is
stored and doomed, and the log of its messages, which only grows at its end until `Purge`
takes it with the sale.

**Likes.** `likes` is the map as a set of pairs, `likeRows` the table,
`likeAnswers` what each user with a row was last told. `Liked` and `Unliked` are the two
branches of `changeItemLike` with their different rollbacks. The insertion is an
`INSERT IGNORE` (db.go:366): it tells nothing of a foreign key without a row. That concerns
users whose registration could not be written and who are in the map of users all the
same, `Newcomers`: what they like is answered with success, shown and not stored
(`RowLiked`). Deleting an item cascades to its likes (`Cascaded`), and what was told about
them is then as if they had been taken back.

**Views.** A request goes through `Enter` (first look, handlers_items.go:168),
`Stamp` (`time.Now()`, :225), `RecordView` (under the lock, :227) and `Answer`
(second look, :180); market steps and other requests come in between. `now`
is the wall clock; `Tick` moves it and lets no request wait longer than
`MaxDelay` between its stamp and the lock. A view is appended before its row is written,
and the last element is cut off when the write fails (`Appended`). After a restart the views are in an
order of time (db.go:167), any of those there are (`ByTime`), instead of the order in
which they were appended.

**Conversation.** `Admit` is the first lock of `createMessage`
(`canAccessTransaction`, handlers_transactions.go:186), `PostMessage` the second: the
id, the time, the append and the write. In between the market goes on and the
process may die, which takes the request along. `Loaded` is the set of orders in which
`loadStore` may read the rows of a sale (db.go:206), by stored seconds and id: there is
exactly one, which is a theorem. The counter of the ids is that of the rows before the
purge. `answered` records what was answered with a 201, until the sale is purged.

**Startup.** `phase` says how far `initializeStore` (main.go:29) has come. `Load`,
`Purge`, `Seed`, `PersistUser`, `PersistItem` and `Serve` are its steps; a step whose
write returns an error ends the process, and `Die` ends it between any two. What
refers to an item is a set of pairs of a kind and an item, because the purge tells no more
apart; its foreign keys (with and without `ON DELETE CASCADE`) decide whether the
deletion can succeed (`PurgeOutcomes`). Seeding leaves the seller the seeded rating.
A start that dies between the writes of the seed leaves part of it for good: the next one
finds a user and seeds nothing, the buyer of the demo or its items may be missing for ever,
and their ids go to others. README.md:29-34 of the repository names both users without
saying so; the model has it, and no property claims otherwise. `SavedUser` has the two ways of an upsert
on a table with two unique keys: by id, and by address.

**Accounts.** `Register` changes both maps before the write. `Authenticate` is
`requireAuth` on the way to `updateMe`, under its own lock; `UpdateMe` reads the
record again (handlers_auth.go:85). `List`, `Refer` and `ReviewSeller` stand for the
handlers that make items, references and ratings; they are modelled whole in
`Market`, `Likes`, `Views` and `Conversation` and appear here only as far as the start and the
user's row depend on them, with writes that succeed except for items and ratings. `told` records
accounts as last answered.

**Assistant.** A call goes through `stage`: arriving (`Ask`), for a question the lock and the
item, the image, the token and the request (`Send`), Gemini's answer (`Respond`)
and its body (`ReadBody`). A status that is not asked to be live is answered at once,
as are all but the questions when Gemini is not configured. `ctx` says why a context has ended: the client is gone,
or the time limit that only `assist` has (ai.go:151). A wait for a server
that hangs is a stage that nothing leaves. `writer` is any handler that locks
`store.mu` for writing: a reader that comes later waits behind one that waits, as
Go's `RWMutex` has it. What Gemini may say is a set of texts (`Parsed`): ids,
labels, scores, prices, days and risks, known and unknown, in range and out of it. The
days until a sale are answered as Gemini names them when they are above 0 (ai.go:71),
however many: the instance has 90, more than a request may ask for.

**Suggestion.** A text is what the keyword tables find in it: a base price, the
signals of a collectible item, the number of risks. A float product that is a
whole number may be truncated to the one below (`Truncated`).

**Pricing.** `Init` fixes a request and a chance of sale for every day and price;
`SolveDay` fills one day of `values` and `choices`, from the last to the second;
`FollowDay` appends one price. Revenues are exact integers, in units that get
finer with each day, in the place of `float64`; the code takes the first of equal
values, the model any of the best, which covers every way rounding breaks a tie.

## Runs

Every passing run explores its whole state space; a run that expects a violation stops at
the first one.

| Run | Bounds | Checks |
| --- | --- | --- |
| `MarketFaults` | 2 users, 2 seeded items, an id for 1 sale, 3 reviews; every outcome, crashes, purges | `TypeOK`, `DeletedSaleIsHidden`, `AcknowledgedIsDurable`, `OneReviewPerParty`, `RatingsCountAnswers` |
| `MarketHealthy` | 3 users, 1 seeded + 1 created item, 2 sales, 4 reviews; writes succeed, deaths anywhere, purges | `WriteThrough`, `ReviewsFollowTheSale`, `RatingsCurrent`, `HiddenSaleIsClosed` |
| `LikesFaults` | 3 users and a newcomer, 1 created item, ids for 2 sales; every outcome, crashes, purges | `LikesTypeOK`, `SaleMatchesItem`, `IdsAreFresh`, `LikeAnswersHold`, `OneSalePerItem`, `ListedCanBeSold`, `MemoryLeads`, `NewLikesAreStored`, refinement `SalesAreRecorded` |
| `ViewsSpacing` | 1 user, 2 guests, 1 created item, 2 requests at once, window 2, delay 1, time 0..6, 3 views; ok and failed, crashes, purges | `ViewsTypeOK`, `ViewsSpaced`, `ShownViewsAreStored` |
| `ConversationOrder` | 3 users, 1 seeded item, an id for 1 sale, 2 requests at once, 3 messages, time 0..1; every outcome, crashes, purges | `ConversationTypeOK`, `ReloadKeepsOrder`, `SenderIsParty`, refinement `TranscriptsAreKept` |
| `AccountsStart` | from empty tables: 3 user ids, 4 addresses, 2 profiles, a seed of 2 users and 1 item, 2 item ids, sales, reviews and likes, 1 request, listing and profiles by user 3; every outcome, deaths anywhere | `TypeOK`, `AccountsAgree`, `AccountAnswersHold`, `RatingsFollowReviews`, `StartServesTables`, liveness `ServiceReturns` |
| `PricingPaths` | two or three days, at most 5 candidate prices, chances 1/10, 3/10, 8/10 | `TypeOK`, `NeverRises`, `PathIsOptimal`, `MinimumIsKept` |
| `AssistantCalls` | 2 calls of any kind, 1 writer, 3 texts, days 0 and 90, with Gemini and without; servers that hang, contexts that end | `TypeOK`, `CollectiblesKeepTheirFloor`, `SignalsAndTimePay`, liveness `AssistEnds`, `WriterProceeds` |
| `MarketReviewOrder`, `LikesFailed`, `ViewsDraft`, `PricingMinimum` | the smallest instance that shows it | one expectation of the code's own text each, which is violated |

*Why the bounds are enough.* The handlers compare ids for equality only, and the
properties relate at most two records of a kind. Two ids for sales are the smallest
number with which an id can be reused, an item sold twice and one record's write hit
another's row: with every outcome in `LikesFaults`, where an item that was purged
may be listed and sold again, and with two items whose sales exist at once in
`MarketHealthy`. The reviews multiply the states, so `MarketFaults` has one id for a sale,
which either of two items may have, also one after the other when a purge or a failed write sets
it free; its third review is one that was refused or stored and is sent again. Three users are a seller, a buyer and a
rival. Four reviews let both parties review both sales. The items with the id in
`Purgeable` may get the obsolete title: in every run the first, so that with two items one
can go and the other stay. One sale id is enough for the conversations: a sale that was
never stored gives its id to a sale of another buyer, once its item was purged. Of three messages two
can be swapped by a reload, in the same second or in different ones, beside a third that
was not stored. Three views of one item let two of one viewer have another between them. For the accounts, two users come from the seed, and the third
id is the one that a failed registration sets free for the other of two addresses;
two item ids are the seeded item and one that is listed, may be obsolete, and is purged by a
later start. Two calls and a writer let one call hold the lock while another waits
behind the writer. Counters are bounded in the guards (`MaxItems`, `MaxTxns`,
`MaxReviews`, `MaxViews`, `MaxMsgs`, `MaxUsers`, `MaxTime`), and `Active` names the users who list
and edit. The passing runs have between 70 thousand and 0.9 million states
(`ViewsSpacing`) and take at most three minutes each. For the views, the time covers three windows, and with two requests at once
one can be stamped before and appended after another. The spacing is tight: with
`Window` in the place of `Window - MaxDelay` TLC finds a violation. The requests of
`PricingPaths` are chosen so that each case of the minimum and each direction of
rounding occurs; the texts of `MCAssistant` so that both caps of the multiplier, a
whole product and each share of the days occur. The theorems below hold for all values.

*Symmetry.* Users other than the owner of the seeded items, guests and requests are
interchangeable. The three temporal properties checked with it
(`SalesAreRecorded`, `NewLikesAreStored`, `TranscriptsAreKept`) are box-action formulas that name no user,
so a permutation of users maps a step that satisfies them to another that does.
The two runs with liveness properties use no symmetry.

*Outcomes left out, and why.* `ViewsSpaced` is about writes that fail without being
executed. A write that is executed and answered with an error leaves a view
stored and not shown, so the same viewer may be counted again: the code does
not promise otherwise. For likes the same case may leave one stored and not shown, or
after an unlike shown and not stored; what survives it is that the last answer is
true (`LikeAnswersHold`) and that no step makes a like appear that is not stored
(`NewLikesAreStored`), both for users who have a row: of a newcomer's like the code
promises nothing that a restart keeps. `RatingsCurrent` is about writes that succeed:
a review that was not written counts in the rating only with the next one. What survives
failing writes is `RatingsCountAnswers`: a review that was answered with success counts, and
nothing counts that is not shown. A profile that was answered with an error may be stored or
not, so `AccountAnswersHold` says no more of it until the next success.

*Deadlock.* `CHECK_DEADLOCK FALSE` is used for the price algorithm, which returns,
and for `AssistantCalls`, whose calls end or wait for ever for a server.

## What the runs found

1. `MarketReviewOrder`: a buyer's review that could not be written admits the
   seller's review, which is all that is left after a restart. A completion that
   could not be written admits a review in the same way.
2. `LikesFailed`: liking an item again, with a write that fails, removes the like
   that was there from the map (handlers_items.go:416); the unlike branch restores
   the earlier state, the like branch does not look at it.
3. `ViewsDraft`: `getItem` answers the item it reads the second time without
   checking it, so a visitor admitted before may see the draft
   (handlers_items.go:181).
4. `PricingMinimum`: when the minimum is the current price, `priceCandidates`
   returns it rounded and skips its own clamp (pricing.go:218): with both at 1040,
   1000 is a candidate and may be the advice.

Behaviour that no text of the repository rules out, and that the models contain:

- a process that dies between the two writes of a purchase leaves an item sold without a
  transaction, which its seller can neither sell again nor delete (handlers_items.go:365);
- every start deletes the items with the title "Persistence Test Jacket" and all that was
  sold, written, liked and reviewed about them, also when a user chose that title;
- a start that dies while seeding leaves part of the seed, which no later start completes;
- the process that seeded shows its seller with a rating of 4.8 (seed.go:13), the next one
  with 5, although nobody reviewed the seller;
- a like of a user whose registration could not be written is answered with success and
  gone after a restart (db.go:366);
- a category id from Gemini that is not in the table is kept with the label of another
  category (categories.go:84).

## Fairness and liveness

The store does nothing by itself: a request that is never sent is never handled, a
sale that nobody pays stays pending for ever, and a database call has no timeout. So
the modules of the market state no fairness. Two parts have something that must
eventually happen.

*The start.* Cloud Run starts a process again that has ended, and each step of a start
that is tried again and again succeeds once in a while: strong fairness of the
successful `Load`, `Purge`, `Seed`, `PersistUser`, `PersistItem` and of `Serve`
(`StartFairness`). Strong, because `Die` and the failing outcomes disable a step
again and again. Nothing is assumed of the handlers or of when a process dies.
Under it `ServiceReturns` says that no state of the tables stops every start: a
purge that could not delete a row because another refers to it would.

*The calls to Gemini.* Weak fairness of the timer (`Deadline`), of the waits that are
abandoned once their context has ended (Go's HTTP client returns then), of the step that sends
a request, of reading an item in memory, and of a writer that may take a free lock.
None of Gemini, of the server of the image, or of clients: they may hang for ever.
The token is assumed to come or be refused. `AssistEnds` then rests on the time
limit alone; a price or a check has none and may wait for ever, so no such property is
stated for them. `WriterProceeds` says that a question does not hold the lock while
it waits for Gemini.

## Proofs

TLAPS proves, for any users, bounds and sets of outcomes, texts and amounts (the
assumptions `StoreAssumption`, `ViewsAssumption`, `ConversationAssumption`,
`LikesAssumption`, `StartupAssumption`, `AccountsAssumption`, `PricingAssumption`, `AssistantAssumption`: a
zero value is no user or address, guests and newcomers are not users with rows, bounds and windows are naturals,
outcomes are among the three, amounts are integers, requests that write messages are finitely many):

| Theorem | Says |
| --- | --- |
| `TypeCorrect`, `ListedIsSellable`, `SoldOnce`, `SaleAgreesWithItem`, `MemoryNeverLags`, `AnswersAreDurable`, `IdsStayFresh` (MarketProofs) | `[]TypeOK`, `[]ListedCanBeSold`, `[]OneSalePerItem`, `[]SaleMatchesItem`, `[]MemoryLeads`, `[]AcknowledgedIsDurable`, `[]IdsAreFresh` |
| `ReviewedOnce`, `DeletedSaleStaysHidden`, `AnsweredReviewsCount` (SalesProofs) | `[]OneReviewPerParty`, `[]DeletedSaleIsHidden`, `[]RatingsCountAnswers` |
| `WritesGoThrough`, `RatingsStayCurrent`, `ReviewsComeInOrder`, `HiddenSalesAreClosed` (SalesProofs) | when `Outcomes = {"ok"}`: `[]WriteThrough`, `[]RatingsCurrent`, `[]ReviewsFollowTheSale`, `[]HiddenSaleIsClosed` |
| `LedgerRefined` (SalesProofs) | `Spec => SalesAreRecorded` |
| `MarketUndisturbed`, `LikesTypeCorrect`, `LikeAnswersAreDurable`, `LikesComeFromTheTable` (LikesProofs) | `LikesSpec => Spec`, `[]LikesTypeOK`, `[]LikeAnswersHold`, `NewLikesAreStored` |
| `MarketUndisturbed`, `ViewsTypeCorrect`, `ShownViewsStayStored`, `ReloadIsPossible` (ViewsProofs) | `ViewsSpec => Spec`, `[]ViewsTypeOK`, `[]ShownViewsAreStored`, a start always finds an order of time |
| `ViewsStaySpaced` (ViewsProofs) | when `Outcomes` has no `"lost"`: `[]ViewsSpaced` |
| `MarketUndisturbed`, `ConversationTypeCorrect`, `SendersAreParties`, `ReloadsKeepOrder`, `AnsweredStayInOrder` (ConversationProofs) | `ConversationSpec => Spec`, `[]ConversationTypeOK`, `[]SenderIsParty`, `[]ReloadKeepsOrder`, what was answered is shown in that order until a start purges the sale |
| `TranscriptRefined`, `ReloadIsDetermined` (ConversationProofs) | `ConversationSpec => TranscriptsAreKept`; in every reachable state there is one order of reload |
| `AccountsTypeCorrect`, `OneAccountPerAddress`, `AccountAnswersAreDurable`, `RatingsAreCurrent`, `WhatIsServedIsStored` (AccountsProofs) | `[]TypeOK`, `[]AccountsAgree`, `[]AccountAnswersHold`, `[]RatingsFollowReviews`, `StartServesTables` |
| `PricingTypeCorrect`, `PricesNeverRise`, `MinimumKept`, `PathsAreOptimal` (PricingProofs) | `[]TypeOK`, `[]NeverRises`, `[]MinimumIsKept`, `[]PathIsOptimal` |
| `AssistantTypeCorrect`, `FloorKept`, `SignalsAndTimeAlwaysPay` (AssistantProofs) | `[]TypeOK`, `[]CollectiblesKeepTheirFloor`, `[]SignalsAndTimePay` |

*The sales.* `OneSalePerItem` is not inductive alone: that a published item has no
sale follows from `SaleMatchesItem` (a sale's item has a sold row) and
`MemoryLeads` (an item with a sold row is sold in memory); that a write changes
no other record's row follows from `IdsAreFresh`, which in turn needs that a
failed write leaves the id used up in memory. Their conjunction `SalesInv` is
inductive. Its proof has one lemma per kind of step: those that change an unsold
item only, those that change one sale, purchase, review, crash, restart. That what
was answered is durable is proved in the same invariant, because a later upsert
could turn a row back if the map were behind.

*The purge.* A step that is not a start purges nothing (`NothingPurged`: no handler makes a row
absent). A start reads empty maps (`EmptyWhenDown`) and deletes from the tables the items with the
title and the sales that name them, with their reviews; what is left satisfies the invariant
because a sale names one item, whose row is sold or gone, and the receipts of the sales that
go are given up in the same step (`SalesAfterPurge`). That memory and row agree on
the title of a sold item is part of `MemoryLeads`, or a later write could doom a sale that
was not.

*Reviews and deleted sales.* Both are inductive relative to `SalesInv`. The rows of
the reviews are among those in memory (`IdsAreFresh`), so a handler that finds no
review in the map has also looked at the rows. A sale once hidden stays so in every step
(`HiddenStays`) until it is purged with its item, in the map because later versions keep it and
in the row because the map leads; an item becomes sold and deleted only after its sale was hidden with success.

*Answered reviews.* `RatingsCountAnswers` is inductive with `SalesInv`. A review whose write failed
stays in the map without being counted; the next review of the same user averages over it
too, so a rating only gains reviews, all of them shown. The seeded rating is no exception for an
answered review: the first review of the seller replaces it.

*Healthy writes.* With `SalesInv`, `WriteThrough` is inductive when every outcome is
`"ok"`: a write that must fail by its foreign key never comes up, because a sale's
item and a review's sale have rows. Then each step changes the rows of sales and reviews in one of
a few ways (`RowsStep`: nothing, a sale made, a sale changed, a review made), of which
each keeps the order of the reviews and hides only what is closed.

*The ledger.* In every state that satisfies `SalesInv`, each action maps to
`Sell`, `Record`, `Advance` or a stuttering step of `Ledger`. The interesting ones are
`Pay` and `Complete` of a sale whose first write had failed: their upsert inserts the
row, so a sale may enter the ledger as active or done, and `Record` says so. A start
maps to `Purge` (`PurgeLedger`).

*Likes.* `LikeAnswersHold` is inductive with the types: a like that was answered
is in the map and the table, and only a request for the same pair changes either, or the
purge of the item, which answers it as taken back; a restart reads the table. A pair with a row has a stored
user, so what newcomers do disturbs no other pair.

*Views.* A view is appended out of the order of its time when its request waited for the
lock longer than another, but never by more than a wait: a stamp is not in the future and not older
than `MaxDelay` (`TimesArePast`), so the views are sorted up to `MaxDelay` (`NearlySorted`).
That is what the backward search of `shouldRecordView` needs. It stops at the first
view that is older than the window; one of the same viewer before it is older by a window less a
wait. `Shows` says that the map is the table under an injection of places, which appending, cutting the last
element off and reloading keep: a reload is a permutation of the rows, because an injection of a finite set into
itself is onto, and there is one, by induction over the rows (`ByTimeExists`). For the spacing each row must be shown too (`ShowsAll`), or the
search would not see it; a write that is executed and answered with an error breaks
that, which is why `ViewsStaySpaced` excludes `"lost"` and nothing else.

*Conversations.* The invariant says that ids and times come in the same order in the table
(the clock is read under the lock that gives the id), that every row is shown by a
serving process, and that shown and answered messages are in the order of their ids. The
order by time and id that a restart reads is then the order of ids, of which there is
exactly one (`OneOrder`), so a restart moves nothing of what it keeps, and keeps or takes the
messages of a sale together. That a sender is a
party rests on the sales: parties of a stored sale never change (`PartiesStay`), and a message is only
stored when its sale is, by the foreign key; a request that was admitted to a sale that
no table holds does not survive the restart that gives the sale's id away. For the
transcript, a step that stores a message appends it to the order of reload (`LastInOrder`), and
every step of the market maps to `Open`, `Purge` or a stuttering step, because a step of
the ledger opens one sale at most (`OpenedSale`) and a start takes exactly the doomed ones (`PurgedKinds`).

*Accounts and starts.* The invariant `IInv` says what the tables keep whether a process
is up or not (one row per address, items with sellers, references with items,
accounts as told), how the two maps of users lead the table once it is loaded, what
the maps and the tables share in each phase of a start, and that a request belongs to a
user there is. That an upsert never meets a row with the same address under
another id, the second way of `SavedUser`, follows from the map of addresses having every row's.
The rating of the seed is of no review, so it is replaced by the first, and the invariant has that
only its seller may have it. That seeding meets empty tables follows from items having sellers: without users
there are no items. `StartServesTables` needs it for the step in which a start begins to serve.

*Prices.* The invariant says that the choices made so far are functions from
candidates to candidates that never rise and that the path follows them; that
every candidate is at least the minimum is a lemma about `PriceCandidates`, with the
clamp as its last step.

*The best path.* That `values` holds the best revenue of every suffix is an induction over
the days. The library's induction takes an operator as a parameter, which the provers
cannot instantiate; `CountingUp` says the same of a set of numbers, and follows from the
well-foundedness of inclusion on the finite sets `0 .. k`. With it three facts are
proved by induction: the units of a revenue are positive, no path earns more than `values`, and the
path that is followed earns that. Nothing is assumed of which of equal candidates is chosen.

*Gemini's prices.* The lemmas are about the arithmetic: rounding is monotone and
idempotent, a market's price lies in its range and in a bounded interval for every text, and the floors
leave a price in its range even when each of the three amounts is raised or not. Of the
floors only the one under the price is kept, up to rounding: raising the price takes the range
along, and the low end may come to lie below its own floor (72300 against 74800).
The invariant carries the text and the answer through the stages of a call.

*Signals and time.* `SignalsAndTimePay` compares the answers for two texts. Each step of the
arithmetic is monotone by a lemma of its own: the weight of a set of signals, the share of the days, the
score, the multiplier and its caps, the rounding. Truncation may take a whole product to the number
below, for one text and not for the other; the lemmas show that factors which differ at all
differ by a unit, which is more than a truncation can take back.

*Only model-checked:* the three liveness properties (`ServiceReturns`, `AssistEnds`,
`WriterProceeds`), since fairness and `ENABLED` are out of the prover's reach, and the violated
expectations. Every invariant,
action property and refinement that a passing run checks is stated by a theorem.

## Abstractions

- In the modules of the market, users are fixed, registered and stored; `Accounts`
  has them come and go. The rating column of a user's row is never read back:
  `loadStore` recalculates it. A rating is the set of reviews it was averaged from.
- `ready` stands for an item's title, description, price and so on being fit to
  publish (`validateItemMutation`); texts, prices, images and categories are left
  out of `Item`, `completed_at` out of `Txn`, grade and comment out of `Review`, the text
  out of `Message`.
- Requests that a handler refuses change nothing and have no action; refusals
  appear as the guards of the actions.
- `StoreInit` is a served store with any number of seeded items and the seeded rating, as the
  process that seeded has it; that a start leads to one is the subject of `Startup`.
- Which item ids may get the purged title is a parameter (`Purgeable`); the proofs hold for all.
- The times of views and messages are stored in a `TIMESTAMP` of whole seconds. In `Views` one
  tick of the clock stands for longer than that, and views of the same time may be
  loaded in any order, which does not change what `shouldRecordView` answers. In
  `Conversation` a tick is a second, and messages of one second go by their ids. The clock of the
  machine is not set back: if it were, a reload would show messages in another order.
- Different addresses are different for the table too, which compares them without
  regard to case; what two spellings of one address should be is left open, as in the code.
- `saveItem` writes the item and its images in one database transaction, so it is
  one write; so is the purge of one title with its six tables.
- An item of `Accounts` is its seller and whether its title is the obsolete one; a
  purge takes all such items, as the code does for its one title.
- `requireAuth` also precedes the calls to Gemini; its short lock is not modelled
  there, where a writer may hold and leave the lock at any time anyway.
- A price that Gemini suggests for an item that is not collectible is passed on as it is, in the
  code as in the model; no property is stated of it.
- `migrateDB` runs idempotent data definitions before anything is read, and is left out.
- The mode without a database (`ALLOW_IN_MEMORY_STORE`) is for local use, has no
  tables and no restart, and is not modelled.

## What is not modelled

- *Uploads*: one file under a name of user and nanoseconds, in a bucket or on disk; no state
  of the program is read or changed.
- *Deployment and the overlap of two revisions*: nothing in the code takes part in
  it. Two processes that hand out the same ids overwrite each other's rows, whatever the
  interleaving; that there is one is an assumption of every module.
- *Listings, statistics, login* (`listItems`, `listMyItems`, `itemMetrics`, `me`, `recommendations`):
  they read. That an item may be on two pages when the map's order changes between two requests
  is a hazard without a property; what `recommendations` takes for granted of a
  published item is `ListedCanBeSold`.
- *Passwords and tokens*: hashing and signing.
- *The HTTP layer*: decoding, CORS, the envelope of an answer; its routes are the
  disjuncts of the next-state relations.
- *Prompts and keyword tables*: which words are looked for.

`PROJECT.json` gives for each hazard that no property covers the reason.

## Plan

Done, in this order: `Ledger`, `Store`, `Market` with their proofs; `Likes` with its
proofs; `Views`; `Pricing` with its proofs; `Conversation`; `Startup` and `Accounts` with their
proofs and liveness; `Suggestion` and `Assistant` with their proofs and liveness; reviews,
deleted sales and the properties of healthy writes proved; the proofs of `Views` and
`Conversation`, of the best path and of signals and time; `Transcript` and its refinement;
the purge of every start, the seeded rating, and likes of users without a row in the modules
of the market and their proofs.

Left, in this order:

1. An abstract specification of the accounts, refined by theirs.
2. A composition of `Accounts` and `Market`: a user whose registration could not be
   written may buy and review until the next restart, with writes that fail by their foreign
   key; the market has those failures, among any others, but not the user's disappearance.
3. Two processes over one set of tables: which of the properties need `max-instances=1`.
