------------------------------ MODULE Assistant -----------------------------
(***************************************************************************)
(* The requests that ask Gemini: help with a listing, a price, a check of  *)
(* a listing, a question about an item, and the check of the connection.   *)
(* A request runs beside all others, waits for servers that may never      *)
(* answer, and is given up when its context ends: by the client going      *)
(* away, or by the time limit that only the help with a listing has.       *)
(* The question reads its item under store.mu, for which writers wait.     *)
(***************************************************************************)
EXTENDS Suggestion

CONSTANTS
  Calls,    \* requests
  Queries,  \* the texts that a price may be asked for
  Amounts,  \* numbers that Gemini may name as prices
  Days,     \* numbers that Gemini may name as the days until a sale
  Scores    \* numbers that Gemini may name as the condition

ASSUME AssistantAssumption ==
  /\ Queries \subseteq Query
  /\ Amounts \subseteq Int
  /\ Days \subseteq Int
  /\ Scores \subseteq Int

VARIABLES
  configured, \* geminiConfigured
  kind,       \* what a call asks for
  query,      \* the text of a call for a price
  stage,      \* how far the handler of a call has come
  ctx,        \* why the context of a call has ended, or "live"
  answer,     \* what a call was answered
  readers,    \* the calls that hold store.mu for reading
  writer      \* another handler and store.mu: "none", "waiting", "holding"

callVars == <<kind, query, stage, ctx, answer>>
vars == <<configured, callVars, readers, writer>>

Kinds == {"assist", "price", "check", "question", "status"}

(* Kinds with a time limit, and a wrong variant *)
Unlimited == {}
Limited == {"assist"}

NoQuery == [base |-> 0]

(* Answers: without an error, and with advice for the kinds that have one. *)
NoAdvice == [of |-> "none"]
Answer(status, error, advice) == [status |-> status, error |-> error, advice |-> advice]
NoAnswer == Answer(0, "none", NoAdvice)

InFlight(c) == stage[c] \notin {"idle", "answered"}

-----------------------------------------------------------------------------
(* What Gemini's texts become *)

BagID == 103
OtherID == 801
UnknownID == 999  \* stands for every id that is not in categoryDefs

(* categoryIDByLabel, categoryLabelByID *)
IDOf(label) == IF label = "bag" THEN BagID ELSE OtherID
LabelOf(id) == IF id = BagID THEN "bag" ELSE "other"

Clamped(n) == Larger(0, Smaller(100, n))

(* normalizeAssistCategory *)
ListingAdvice(id, label, score) ==
  LET known == IF id # 0 THEN id ELSE IF label # "none" THEN IDOf(label) ELSE OtherID
  IN [of |-> "assist", id |-> known, label |-> LabelOf(known), score |-> Clamped(score)]

(* A wrong variant of the next definition, used to test properties. *)
CheckAdviceAsIs(risk, reasons) == [of |-> "check", risk |-> risk, reasons |-> reasons]

(* checkListingWithAI: what is not a risk is "watch". *)
CheckAdvice(risk, reasons) ==
  [of |-> "check", risk |-> IF risk \in {"low", "watch", "high"} THEN risk ELSE "watch",
   reasons |-> Larger(1, reasons)]

PriceAdvice(s) == [of |-> "price", price |-> s]

(* suggestPriceWithAI: a price or a number of days that is not positive is *)
(* an error, as is a range that has not two numbers (then it is no text).  *)
(* The days are answered as Gemini named them, however many they are.      *)
Usable(s) == s.suggested > 0 /\ s.days > 0

PriceTexts == [suggested : Amounts, low : Amounts, high : Amounts, days : Days]

(* geminiStatus answers every error with a 200. *)
Failed(c, error) ==
  Answer(IF kind[c] = "status" THEN 200 ELSE 502, error, NoAdvice)

(* The answers that the text of a 200 from Gemini may lead to.  Text that  *)
(* cannot be parsed, or is no text, is an error of every kind.             *)
Parsed(c) ==
  {Failed(c, "response")} \cup
  CASE kind[c] = "assist" ->
         {Answer(200, "none", ListingAdvice(id, label, n)) :
            id \in {0, BagID, UnknownID}, label \in {"none", "bag", "odd"}, n \in Scores}
    [] kind[c] = "check" ->
         {Answer(200, "none", CheckAdvice(risk, n)) :
            risk \in {"low", "watch", "high", "odd"}, n \in 0 .. 1}
    [] kind[c] = "price" ->
         {Answer(200, "none", PriceAdvice(Floored(s, market, Rare(query[c])))) :
            s \in {t \in PriceTexts : Usable(t)}, market \in Heuristics(query[c])}
    [] OTHER -> {Answer(200, "none", NoAdvice)}

(* The answers without Gemini.  The check of a listing watches high prices *)
(* and the word for counterfeit.                                           *)
Canned(k, q) ==
  CASE k = "assist" -> {Answer(200, "none", ListingAdvice(BagID, "bag", 82))}
    [] k = "price" -> {Answer(200, "none", PriceAdvice(market)) : market \in Heuristics(q)}
    [] k = "check" -> {Answer(200, "none", CheckAdvice("low", 2)),
                       Answer(200, "none", CheckAdvice("watch", 3))}
    [] OTHER -> {Answer(200, "none", NoAdvice)}

-----------------------------------------------------------------------------
(* A call *)

Goes(c, to) == stage' = [stage EXCEPT ![c] = to]

Answered(c, a) == Goes(c, "answered") /\ answer' = [answer EXCEPT ![c] = a]

Fails(c, error) == Answered(c, Failed(c, error))

(* friendlyTimeoutError, for the one kind that has a time limit *)
Failure(c) == IF ctx[c] = "deadline" THEN "timeout" ELSE "context"

(* A request arrives.  Without Gemini all but the question are answered    *)
(* at once, and so is a status that is not asked to be live; a question    *)
(* reads its item first.                                                   *)
Ask(c, k, q) ==
  /\ stage[c] = "idle"
  /\ q \in IF k = "price" THEN Queries ELSE {NoQuery}
  /\ kind' = [kind EXCEPT ![c] = k]
  /\ query' = [query EXCEPT ![c] = q]
  /\ \/ k = "question" /\ Goes(c, "read") /\ UNCHANGED answer
     \/ /\ k # "question"
        /\ ~configured \/ k = "status"
        /\ \E a \in Canned(k, q) : Answered(c, a)
     \/ configured /\ k = "status" /\ Goes(c, "send") /\ UNCHANGED answer
     \/ /\ configured
        /\ k \notin {"question", "status"}
        /\ Goes(c, "image")
        /\ UNCHANGED answer
  /\ UNCHANGED <<configured, ctx, readers, writer>>

(* itemQuestion: RLock, which waits behind a waiting writer *)
LockForReading(c) ==
  /\ stage[c] = "read"
  /\ writer = "none"
  /\ Goes(c, "reading")
  /\ readers' = readers \cup {c}
  /\ UNCHANGED <<configured, kind, query, ctx, answer, writer>>

(* The readers after RUnlock, and a wrong variant: unlocked at the end *)
UnlockedLater(c) == readers
Unlocked(c) == readers \ {c}

(* itemQuestion: the item is read, or is not there. *)
ReadItem(c, found) ==
  /\ stage[c] = "reading"
  /\ readers' = Unlocked(c)
  /\ CASE ~found -> Answered(c, Answer(404, "absent", NoAdvice))
       [] found /\ ~configured -> Answered(c, Answer(200, "none", NoAdvice))
       [] found /\ configured -> Goes(c, "image") /\ UNCHANGED answer
  /\ UNCHANGED <<configured, kind, query, ctx, writer>>

(* fetchGeminiImage: the call goes on with an image or without. *)
FetchImage(c) ==
  /\ stage[c] = "image"
  /\ Goes(c, "send")
  /\ UNCHANGED <<configured, kind, query, ctx, answer, readers, writer>>

(* callGeminiWithImages: a token, and the request.  Either may fail. *)
Send(c) ==
  /\ stage[c] = "send"
  /\ \/ ctx[c] = "live" /\ Goes(c, "gemini") /\ UNCHANGED answer
     \/ Fails(c, "provider")
     \/ ctx[c] # "live" /\ Fails(c, Failure(c))
  /\ UNCHANGED <<configured, kind, query, ctx, readers, writer>>

(* Gemini begins to answer, with a status below 300 or not. *)
Respond(c) ==
  /\ stage[c] = "gemini"
  /\ ctx[c] = "live"
  /\ \E to \in {"body", "refusal"} : Goes(c, to)
  /\ UNCHANGED <<configured, kind, query, ctx, answer, readers, writer>>

(* The connection fails, or the context ends, before Gemini answers. *)
CutOff(c) ==
  /\ stage[c] = "gemini"
  /\ Fails(c, IF ctx[c] = "live" THEN "provider" ELSE Failure(c))
  /\ UNCHANGED <<configured, kind, query, ctx, readers, writer>>

(* The body is read and parsed.  An error while it is read is not looked   *)
(* at: what has arrived of it cannot be parsed.                            *)
ReadBody(c) ==
  /\ \/ stage[c] = "body" /\ ctx[c] = "live" /\ \E a \in Parsed(c) : Answered(c, a)
     \/ stage[c] = "body" /\ ctx[c] # "live" /\ Fails(c, "response")
     \/ stage[c] = "refusal" /\ Fails(c, "provider")
  /\ UNCHANGED <<configured, kind, query, ctx, readers, writer>>

-----------------------------------------------------------------------------
(* The end of a context *)

(* context.WithTimeout *)
Deadline(c) ==
  /\ InFlight(c)
  /\ kind[c] \in Limited
  /\ ctx[c] = "live"
  /\ ctx' = [ctx EXCEPT ![c] = "deadline"]
  /\ UNCHANGED <<configured, kind, query, stage, answer, readers, writer>>

ClientGone(c) ==
  /\ InFlight(c)
  /\ ctx[c] = "live"
  /\ ctx' = [ctx EXCEPT ![c] = "canceled"]
  /\ UNCHANGED <<configured, kind, query, stage, answer, readers, writer>>

-----------------------------------------------------------------------------
(* The other handlers, as far as store.mu is concerned *)

WriterAsks ==
  /\ writer = "none"
  /\ writer' = "waiting"
  /\ UNCHANGED <<configured, callVars, readers>>

WriterEnters ==
  /\ writer = "waiting"
  /\ readers = {}
  /\ writer' = "holding"
  /\ UNCHANGED <<configured, callVars, readers>>

WriterLeaves ==
  /\ writer = "holding"
  /\ writer' = "none"
  /\ UNCHANGED <<configured, callVars, readers>>

-----------------------------------------------------------------------------
(* The specification *)

Init ==
  /\ configured \in BOOLEAN
  /\ kind = [c \in Calls |-> "none"]
  /\ query = [c \in Calls |-> NoQuery]
  /\ stage = [c \in Calls |-> "idle"]
  /\ ctx = [c \in Calls |-> "live"]
  /\ answer = [c \in Calls |-> NoAnswer]
  /\ readers = {}
  /\ writer = "none"

HandlerStep(c) ==
  \/ \E k \in Kinds, q \in Queries \cup {NoQuery} : Ask(c, k, q)
  \/ LockForReading(c)
  \/ \E found \in BOOLEAN : ReadItem(c, found)
  \/ FetchImage(c)
  \/ Send(c)
  \/ Respond(c)
  \/ CutOff(c)
  \/ ReadBody(c)
  \/ Deadline(c)
  \/ ClientGone(c)

WriterStep == WriterAsks \/ WriterEnters \/ WriterLeaves

Next == (\E c \in Calls : HandlerStep(c)) \/ WriterStep

Spec == Init /\ [][Next]_vars

(* A wait for a server ends when the context has ended; nothing says that  *)
(* a server answers.  (The token is assumed to come or to be refused.)     *)
Abandon(c) == ctx[c] # "live" /\ (FetchImage(c) \/ CutOff(c) \/ ReadBody(c))

Fairness ==
  /\ \A c \in Calls :
       /\ WF_vars(Deadline(c))
       /\ WF_vars(Abandon(c))
       /\ WF_vars(Send(c))
       /\ WF_vars(\E found \in BOOLEAN : ReadItem(c, found))
  /\ WF_vars(WriterEnters)

FairSpec == Spec /\ Fairness

-----------------------------------------------------------------------------
(* Properties *)

AdviceType ==
  {NoAdvice}
  \cup [of : {"assist"}, id : {BagID, OtherID, UnknownID}, label : {"bag", "other"},
        score : 0 .. 100]
  \cup [of : {"check"}, risk : {"low", "watch", "high"}, reasons : 1 .. 3]
  \cup [of : {"price"}, price : [suggested : Nat \ {0}, low : Int, high : Int,
                                 days : Nat \ {0}]]

(* Every variable keeps its type: whatever Gemini says, what is answered   *)
(* has a known risk with a reason, a score from 0 to 100, or a price and a *)
(* number of days above 0.                                                 *)
TypeOK ==
  /\ configured \in BOOLEAN
  /\ kind \in [Calls -> Kinds \cup {"none"}]
  /\ query \in [Calls -> Queries \cup {NoQuery}]
  /\ stage \in [Calls -> {"idle", "read", "reading", "image", "send", "gemini",
                          "body", "refusal", "answered"}]
  /\ ctx \in [Calls -> {"live", "deadline", "canceled"}]
  /\ answer \in [Calls -> [status : {0, 200, 404, 502},
                           error : {"none", "timeout", "context", "provider",
                                    "response", "absent"},
                           advice : AdviceType]]
  /\ readers \subseteq Calls
  /\ writer \in {"none", "waiting", "holding"}

(* Whatever Gemini suggests for a collectible item, the answer is a price  *)
(* in a range around it, and not below its floor or what the floor is      *)
(* rounded to: a price that is raised to the floor takes the range along.  *)
(* So is every answer without Gemini.  (Of the range nothing else is said: *)
(* its low end may come to lie below the floor that it has of its own.)    *)
CollectiblesKeepTheirFloor ==
  \A c \in Calls : answer[c].advice.of = "price" =>
    LET price == answer[c].advice.price
    IN Rare(query[c]) \/ ~configured =>
         /\ InItsRange(price)
         /\ \E market \in Heuristics(query[c]) :
              price.suggested >= Smaller(Percent(market.suggested, 85),
                                         RoundPrice(Percent(market.suggested, 85)))

(* A collectible item is not suggested a lower price than the same item    *)
(* without one of its signals, and whoever can wait longer gets no less:   *)
(* TestHeuristicPriceSuggestionAppliesCollectiblePremium, with the         *)
(* rounding of prices and ranges.                                          *)
NoLess(q, r) ==
  LET Cheapest(x) ==
        CHOOSE m \in Heuristics(x) : \A n \in Heuristics(x) : m.suggested <= n.suggested
  IN Cheapest(q).suggested <= Cheapest(r).suggested /\ Cheapest(q).low <= Cheapest(r).low

SignalsAndTimePay ==
  \A c \in Calls : kind[c] = "price" /\ stage[c] = "answered" =>
    /\ \A s \in DOMAIN Weight :
         NoLess(query[c], [query[c] EXCEPT !.signals = @ \cup {s}])
    /\ \A d \in {3, 4, 7, 8, 20, 21} :
         d >= query[c].days => NoLess(query[c], [query[c] EXCEPT !.days = d])

(* The help with a listing ends, though the image and Gemini may hang. *)
AssistEnds ==
  \A c \in Calls : kind[c] = "assist" ~> stage[c] = "answered"

(* A handler that waits to write gets the lock, though a question that     *)
(* holds it may go on to wait for Gemini for ever.                         *)
WriterProceeds == writer = "waiting" ~> writer = "holding"
=============================================================================
