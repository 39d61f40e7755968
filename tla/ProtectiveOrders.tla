-------------------------- MODULE ProtectiveOrders --------------------------
(***************************************************************************)
(* The protective orders of one symbol as BinanceExecutionClient places,   *)
(* verifies and cancels them (backend/app/core/execution/                  *)
(* binance_client.py), against an exchange that accepts, refuses and       *)
(* forgets to answer.                                                      *)
(*                                                                         *)
(* A call of the engine is a sequence of HTTP requests, one action each.   *)
(* Between two requests the exchange moves: an order triggers, is          *)
(* cancelled by hand, or the rules of the symbol change.  The engine reads *)
(* a request that raised as "not done"; the exchange may have done it.     *)
(*                                                                         *)
(* BFATEngine sees these calls as one step with the fault kinds "place",   *)
(* "unverified" and "cancel"; this module is what is behind them.          *)
(***************************************************************************)
EXTENDS OrderRules, Sequences, FiniteSets

CONSTANTS
  Faults,        \* the failures the environment may produce
  RuleSet,       \* filter records the exchange may have in force for the symbol
  Quantities,    \* raw quantities the engine asks to protect
  Triggers,      \* raw trigger prices
  FilterTtl,     \* _EXCHANGE_INFO_TTL, in ticks
  VerifyDelays,  \* number of attempts of verify_algo_order_with_backoff
  MaxOrders,     \* bound: orders the exchange ever accepts
  MaxRules       \* bound: changes of the rules

FaultKind == {
  "refuse",   \* a request is refused: a status outside 200..299
  "body",     \* nothing is done, and a status within 200..299 carries an error
  "lose",     \* it is carried out, but the answer is lost or has no id
  "unread",   \* a list of open orders cannot be read
  "lag",      \* a list does not show the newest order yet
  "info" }    \* exchangeInfo cannot be fetched

ASSUME ClientAssumption ==
  /\ Faults \subseteq FaultKind
  /\ RuleSet \subseteq [qtyStep : Nat \ {0}, qtyMin : Nat, priceStep : Nat \ {0}]
  /\ RuleSet # {}
  /\ Quantities \subseteq Nat
  /\ Triggers \subseteq Nat
  /\ FilterTtl \in Nat \ {0}
  /\ VerifyDelays \in Nat \ {0}
  /\ MaxOrders \in Nat
  /\ MaxRules \in Nat

VARIABLES
  \* ---- the exchange
  book,       \* every conditional order it ever accepted, by id
  rules,      \* the filters in force
  changes,    \* how often they changed
  \* ---- the client
  cache,      \* _symbol_filters[symbol], NoFilters before the first fetch, and
              \* its age, now - _exchange_info_ts
  call,       \* the running call and its local variables
  sweep,      \* the loop of cancel_all_algo_orders around it
  \* ---- history, read by the properties only
  tracked,    \* ids a placement has returned
  silent,     \* ids accepted or cancelled behind an unusable answer
  answer      \* what the last call returned

exchange == <<book, rules, changes>>
history  == <<tracked, silent, answer>>
vars == <<exchange, cache, call, sweep, history>>

-----------------------------------------------------------------------------
Fault(f) == f \in Faults
Kind   == {"STOP_MARKET", "TAKE_PROFIT_MARKET"}
Status == {"NEW", "DONE"}
Order  == [api : {"algo", "classic"}, status : Status]
Id     == DOMAIN book
Live   == {i \in Id : book[i].status = "NEW"}
LiveIn(api) == {i \in Live : book[i].api = api}

\* Mutant: every tier sends the quantity.
TiersOfQuantity == << [api |-> "algo",    scope |-> "quantity"],
                      [api |-> "classic", scope |-> "quantity"] >>

\* The four ways a placement is tried, in this order.
Tiers == << [api |-> "algo",    scope |-> "quantity"],
            [api |-> "algo",    scope |-> "position"],
            [api |-> "classic", scope |-> "quantity"],
            [api |-> "classic", scope |-> "position"] >>

NoCall == [op |-> "none", qty |-> 0, trigger |-> 0, step |-> 0, id |-> 0,
           read |-> FALSE, clean |-> TRUE, wasLive |-> FALSE]
NoSweep == [on |-> FALSE, api |-> "algo", todo |-> {}, count |-> 0, clean |-> TRUE, from |-> {}]
Answer(op, value, id) == [op |-> op, value |-> value, id |-> id, clean |-> call.clean,
                          wasLive |-> call.wasLive]

NoAnswer == [op |-> "none", value |-> "ok", id |-> 0, clean |-> TRUE, wasLive |-> FALSE]

Idle == call.op = "none" /\ ~sweep.on

-----------------------------------------------------------------------------
(***************************************************************************)
(* Exchange rules, cached.                                                 *)
(***************************************************************************)
\* _load_exchange_info: a failed fetch keeps what is there, however old.
LoadExchangeInfo(c) ==
  IF c.filters # NoFilters /\ c.age < FilterTtl THEN {c}
  ELSE {[filters |-> rules, age |-> 0]} \cup (IF Fault("info") THEN {c} ELSE {})

\* What the exchange checks of the numbers of an order.
WellFormed(scope) ==
  /\ call.trigger % rules.priceStep = 0
  /\ scope = "position" \/ (call.qty % rules.qtyStep = 0 /\ call.qty >= rules.qtyMin)

RulesChange ==
  /\ changes < MaxRules
  /\ rules' \in RuleSet \ {rules}
  /\ changes' = changes + 1
  /\ UNCHANGED <<book, cache, call, sweep, history>>

TimePasses ==
  /\ cache.filters # NoFilters
  /\ cache.age < FilterTtl
  /\ cache' = [cache EXCEPT !.age = @ + 1]
  /\ UNCHANGED <<exchange, call, sweep, history>>

\* An order triggers, expires, or is cancelled in the exchange's own UI.
OrderEnds(i) ==
  /\ i \in Live
  /\ book' = [book EXCEPT ![i].status = "DONE"]
  /\ UNCHANGED <<rules, changes, cache, call, sweep, history>>

-----------------------------------------------------------------------------
(***************************************************************************)
(* place_stop_market_order and place_take_profit_market_order.             *)
(***************************************************************************)
\* format_quantity and format_price each look the filters up; a quantity or
\* a trigger of 0 is refused up front.  One side: SHORT mirrors the rounding.
BeginPlace(kind, raw, price) ==
  /\ Idle
  /\ Len(book) + Len(Tiers) <= MaxOrders
  /\ \E c \in LoadExchangeInfo(cache) : \E d \in LoadExchangeInfo(c) :
       LET qty     == FormatQuantity(c.filters, raw)
           trigger == IF kind = "STOP_MARKET" THEN StopTrigger(d.filters, "LONG", price)
                      ELSE TakeTrigger(d.filters, "LONG", price)
       IN /\ cache' = d
          /\ IF qty <= 0 \/ trigger <= 0
               THEN /\ answer' = Answer("place", "raise", 0)
                    /\ UNCHANGED call
               ELSE /\ call' = [NoCall EXCEPT !.op = "place", !.qty = qty,
                                              !.trigger = trigger, !.step = 1]
                    /\ answer' = NoAnswer
  /\ UNCHANGED <<exchange, sweep, tracked, silent>>

\* A tier that raises or answers without an id falls to the next; after the
\* last one the placement has failed.
NextTier(clean) ==
  IF call.step < Len(Tiers)
    THEN /\ call' = [call EXCEPT !.step = @ + 1, !.clean = @ /\ clean]
         /\ UNCHANGED answer
    ELSE /\ call' = NoCall
         /\ answer' = [Answer("place", "raise", 0) EXCEPT !.clean = @ /\ clean]

Accept ==
  book' = Append(book, [api |-> Tiers[call.step].api, status |-> "NEW"])

\* Mutant: an accepted order is not the answer of the placement.
PlaceAcceptedIgnored ==
  /\ Accept
  /\ NextTier(TRUE)
  /\ UNCHANGED <<tracked, silent>>

PlaceAccepted ==
  /\ Accept
  /\ tracked' = tracked \cup {Len(book')}
  /\ call' = NoCall
  /\ answer' = Answer("place", "id", Len(book'))
  /\ UNCHANGED silent

PlaceAnswerLost ==
  /\ Fault("lose")
  /\ Accept
  /\ silent' = silent \cup {Len(book')}
  /\ NextTier(FALSE)
  /\ UNCHANGED tracked

\* An error in the body is seen: _post_algo_order reads the code, and the
\* classic tiers miss the id.
PlaceRefused ==
  /\ UNCHANGED <<book, tracked, silent>>
  /\ \/ ~WellFormed(Tiers[call.step].scope) /\ NextTier(TRUE)
     \/ (Fault("refuse") \/ Fault("body")) /\ NextTier(FALSE)

PlaceTier ==
  /\ call.op = "place"
  /\ \/ /\ WellFormed(Tiers[call.step].scope)
        /\ PlaceAccepted \/ PlaceAnswerLost
     \/ PlaceRefused
  /\ UNCHANGED <<rules, changes, cache, sweep>>

-----------------------------------------------------------------------------
(***************************************************************************)
(* verify_algo_order_with_backoff: verify_algo_order_active after each     *)
(* delay.  step counts the attempts; read says that one of them ended      *)
(* without an exception.                                                   *)
(***************************************************************************)
BeginVerify(i) ==
  /\ Idle
  /\ i \in tracked
  /\ call' = [NoCall EXCEPT !.op = "verifyAlgo", !.id = i, !.step = 1,
                            !.wasLive = i \in Live]
  /\ answer' = NoAnswer
  /\ UNCHANGED <<exchange, cache, sweep, tracked, silent>>

Return(op, value) ==
  /\ call' = NoCall
  /\ answer' = Answer(op, value, call.id)

\* The attempt is over: the order was not found, not NEW, or nothing was read.
AttemptFails(read, clean) ==
  LET seen == call.read \/ read IN
  IF call.step < VerifyDelays
    THEN /\ call' = [call EXCEPT !.op = "verifyAlgo", !.step = @ + 1, !.read = seen,
                                 !.clean = @ /\ clean]
         /\ UNCHANGED answer
    ELSE /\ call' = NoCall
         /\ answer' = [Answer("verify", IF seen THEN "false" ELSE "raise", call.id)
                         EXCEPT !.clean = @ /\ clean]

\* What a list shows: finished orders have left it, or are shown as such.  A
\* body that is no list is read as an empty one.
Shown(api) ==
  IF book[call.id].api # api THEN {"absent"}
  ELSE IF call.id \in Live
    THEN {"NEW"} \cup (IF Fault("body") \/ (Fault("lag") /\ call.id = Len(book))
                         THEN {"absent"} ELSE {})
    ELSE {"absent", "DONE"}

\* Lagged: the order is live, and the list that should show it does not.
Lagged(api, shown) == call.id \in LiveIn(api) /\ shown = "absent"

VerifyAlgoList ==
  /\ call.op = "verifyAlgo"
  /\ \/ \E shown \in Shown("algo") :
          \/ shown = "NEW"  /\ Return("verify", "true")
          \/ shown = "DONE" /\ AttemptFails(TRUE, TRUE)
          \/ /\ shown = "absent"
             /\ call' = [call EXCEPT !.op = "verifyClassic",
                           !.clean = @ /\ ~Lagged("algo", shown)]
             /\ UNCHANGED answer
     \/ /\ Fault("unread")
        /\ call' = [call EXCEPT !.op = "verifyBlind", !.clean = FALSE]
        /\ UNCHANGED answer
  /\ UNCHANGED <<exchange, cache, sweep, tracked, silent>>

\* verifyBlind: the algo list could not be read in this attempt.
VerifyClassicList ==
  /\ call.op \in {"verifyClassic", "verifyBlind"}
  /\ \/ \E shown \in Shown("classic") :
          \/ shown = "NEW" /\ Return("verify", "true")
          \/ shown \in {"DONE", "absent"} /\ AttemptFails(TRUE, ~Lagged("classic", shown))
     \/ Fault("unread") /\ AttemptFails(call.op = "verifyClassic", FALSE)
  /\ UNCHANGED <<exchange, cache, sweep, tracked, silent>>

-----------------------------------------------------------------------------
(***************************************************************************)
(* cancel_order, alone or in the loop of cancel_all_algo_orders.           *)
(***************************************************************************)
StartCancel(i) == call' = [NoCall EXCEPT !.op = "cancelAlgo", !.id = i, !.wasLive = i \in Live]

BeginCancel(i) ==
  /\ Idle
  /\ i \in tracked
  /\ StartCancel(i)
  /\ answer' = NoAnswer
  /\ UNCHANGED <<exchange, cache, sweep, tracked, silent>>

\* Inside the loop an exception is swallowed and success is counted.
CancelReturns(done, clean) ==
  /\ call' = NoCall
  /\ IF sweep.on
       THEN /\ sweep' = [sweep EXCEPT !.count = IF done THEN @ + 1 ELSE @,
                                      !.clean = @ /\ clean]
            /\ UNCHANGED answer
       ELSE /\ answer' = [Answer("cancel", IF done THEN "ok" ELSE "raise", call.id)
                            EXCEPT !.clean = clean]
            /\ UNCHANGED sweep

Delete(i) == book' = [book EXCEPT ![i].status = "DONE"]

DeleteAnswered(api) ==
  /\ call.id \in LiveIn(api)
  /\ Delete(call.id)
  /\ CancelReturns(TRUE, TRUE)
  /\ UNCHANGED silent

DeleteAnswerLost(api) ==
  /\ Fault("lose")
  /\ call.id \in LiveIn(api)
  /\ Delete(call.id)
  /\ silent' = silent \cup {call.id}
  /\ CancelReturns(FALSE, FALSE)

DeleteRefused ==
  /\ Fault("refuse")
  /\ CancelReturns(FALSE, FALSE)
  /\ UNCHANGED <<book, silent>>

\* cancel_order returns what it is answered: an error in the body is a success
\* to whoever called it.
DeleteMisread ==
  /\ Fault("body")
  /\ CancelReturns(TRUE, FALSE)
  /\ UNCHANGED <<book, silent>>

\* Mutant: an unknown algo order counts as cancelled.
CancelUnknownIsDone ==
  /\ call.id \notin LiveIn("algo")
  /\ CancelReturns(TRUE, TRUE)
  /\ UNCHANGED <<book, silent>>

\* The algo service does not know the order: it may be a classic one.
CancelUnknown ==
  /\ call.id \notin LiveIn("algo")
  /\ call' = [call EXCEPT !.op = "cancelClassic"]
  /\ UNCHANGED <<book, silent, sweep, answer>>

CancelAlgo ==
  /\ call.op = "cancelAlgo"
  /\ \/ DeleteAnswered("algo") \/ DeleteAnswerLost("algo")
     \/ DeleteRefused \/ DeleteMisread \/ CancelUnknown
  /\ UNCHANGED <<rules, changes, cache, tracked>>

\* The second answer is not examined: an unknown order raises.
CancelClassic ==
  /\ call.op = "cancelClassic"
  /\ \/ DeleteAnswered("classic") \/ DeleteAnswerLost("classic")
     \/ DeleteRefused \/ DeleteMisread
     \/ /\ call.id \notin LiveIn("classic")
        /\ CancelReturns(FALSE, TRUE)
        /\ UNCHANGED <<book, silent>>
  /\ UNCHANGED <<rules, changes, cache, tracked>>

\* What get_open_algo_orders or get_open_orders shows to the loop.
Listed(api) ==
  {LiveIn(api)} \cup (IF Fault("lag") THEN {LiveIn(api) \ {Len(book)}} ELSE {})
                \cup (IF Fault("body") THEN {{}} ELSE {})

BeginSweep ==
  /\ Idle
  /\ \/ \E todo \in Listed("algo") :
          sweep' = [NoSweep EXCEPT !.on = TRUE, !.todo = todo, !.from = Live,
                                   !.clean = todo = LiveIn("algo")]
     \/ /\ Fault("unread")
        /\ sweep' = [NoSweep EXCEPT !.on = TRUE, !.from = Live, !.clean = FALSE]
  /\ answer' = NoAnswer
  /\ UNCHANGED <<exchange, cache, call, tracked, silent>>

SweepOne(i) ==
  /\ sweep.on /\ call.op = "none"
  /\ i \in sweep.todo
  /\ StartCancel(i)
  /\ sweep' = [sweep EXCEPT !.todo = @ \ {i}]
  /\ UNCHANGED <<exchange, cache, tracked, silent, answer>>

\* Mutant: the classic list is not read.
SweepAlgoOnly ==
  /\ sweep.on /\ call.op = "none"
  /\ sweep.todo = {} /\ sweep.api = "algo"
  /\ sweep' = [sweep EXCEPT !.api = "classic"]
  /\ UNCHANGED <<exchange, cache, call, history>>

\* The algo orders are done: the classic list is read next.
SweepClassic ==
  /\ sweep.on /\ call.op = "none"
  /\ sweep.todo = {} /\ sweep.api = "algo"
  /\ \/ \E todo \in Listed("classic") :
          sweep' = [sweep EXCEPT !.api = "classic", !.todo = todo,
                                 !.clean = @ /\ todo = LiveIn("classic")]
     \/ /\ Fault("unread")
        /\ sweep' = [sweep EXCEPT !.api = "classic", !.clean = FALSE]
  /\ UNCHANGED <<exchange, cache, call, history>>

SweepEnds ==
  /\ sweep.on /\ call.op = "none"
  /\ sweep.todo = {} /\ sweep.api = "classic"
  /\ sweep' = NoSweep
  /\ answer' = [op |-> "sweep", value |-> "ok", id |-> sweep.count, clean |-> sweep.clean,
                wasLive |-> sweep.from \cap Live # {}]
  /\ UNCHANGED <<exchange, cache, call, tracked, silent>>

-----------------------------------------------------------------------------
Init ==
  /\ book = <<>>
  /\ rules \in RuleSet
  /\ changes = 0
  /\ cache = [filters |-> NoFilters, age |-> 0]
  /\ call = NoCall
  /\ sweep = NoSweep
  /\ tracked = {}
  /\ silent = {}
  /\ answer = NoAnswer

Engine ==
  \/ \E kind \in Kind, raw \in Quantities, price \in Triggers : BeginPlace(kind, raw, price)
  \/ \E i \in tracked : BeginVerify(i) \/ BeginCancel(i)
  \/ BeginSweep
Client ==
  \/ PlaceTier \/ VerifyAlgoList \/ VerifyClassicList
  \/ CancelAlgo \/ CancelClassic
  \/ \E i \in sweep.todo : SweepOne(i)
  \/ SweepClassic \/ SweepEnds
Environment ==
  RulesChange \/ TimePasses \/ (\E i \in Id : OrderEnds(i))

Next == Engine \/ Client \/ Environment

Spec == Init /\ [][Next]_vars
=============================================================================
