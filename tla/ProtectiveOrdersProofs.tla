------------------------ MODULE ProtectiveOrdersProofs ------------------------
(***************************************************************************)
(* The promises of BinanceExecutionClient for every set of faults, any     *)
(* number of orders, attempts and rule changes, and all rules.             *)
(*                                                                         *)
(* The inductive invariant (ClientInv) adds to the properties what the     *)
(* running call knows of its order (CallKnows), what the sweep has left to *)
(* do (SweepKnows) and that a placement is not answered while it runs.     *)
(* All rest on one fact, OrdersOnlyEnd: an order that is not live never    *)
(* becomes live, so that what was read stays true.                         *)
(***************************************************************************)
EXTENDS ProtectiveOrdersProperties, TLAPS

Verifies == {"verifyAlgo", "verifyClassic", "verifyBlind"}
Cancels  == {"cancelAlgo", "cancelClassic"}
Services == {"algo", "classic"}

(***************************************************************************)
(* The book grows at its end, and its orders only end.                     *)
(***************************************************************************)
LEMMA BookGrows ==
  ASSUME book \in Seq(Order), NEW o \in Order, book' = Append(book, o)
  PROVE  /\ book' \in Seq(Order)
         /\ Len(book') = Len(book) + 1
         /\ Id' = Id \cup {Len(book')} /\ Len(book') \notin Id
         /\ \A i \in Id : book'[i] = book[i]
         /\ Live' \subseteq Live \cup {Len(book')}
         /\ \A api \in Services : \A i \in Id : i \in LiveIn(api)' <=> i \in LiveIn(api)
<1>1. /\ book' \in Seq(Order) /\ Len(book') = Len(book) + 1
      /\ \A i \in 1..Len(book) : book'[i] = book[i]
      /\ Id = 1..Len(book) /\ Id' = 1..(Len(book) + 1)
  BY DEF Id
<1>2. QED
  BY <1>1 DEF Live, LiveIn, Services

LEMMA BookEnds ==
  ASSUME book \in Seq(Order), NEW i \in Id, book' = [book EXCEPT ![i].status = "DONE"]
  PROVE  /\ book' \in Seq(Order)
         /\ Len(book') = Len(book)
         /\ Id' = Id
         /\ Live' = Live \ {i}
         /\ \A api \in Services : LiveIn(api)' = LiveIn(api) \ {i}
<1>1. Id = 1..Len(book) /\ \A j \in Id : book[j] \in Order
  BY DEF Id
<1>2. /\ book' \in Seq(Order) /\ Len(book') = Len(book) /\ Id' = Id
      /\ \A j \in Id : book'[j] = IF j = i THEN [book[j] EXCEPT !.status = "DONE"] ELSE book[j]
  BY <1>1 DEF Id, Order, Status
<1>3. Live' = Live \ {i}
  BY <1>1, <1>2 DEF Live, Order
<1>4. \A api \in Services : LiveIn(api)' = LiveIn(api) \ {i}
  BY <1>1, <1>2, <1>3 DEF LiveIn, Order, Services
<1>5. QED
  BY <1>2, <1>3, <1>4

(***************************************************************************)
(* The quantity and the trigger of a request are integers.                 *)
(***************************************************************************)
LEMMA FormattedInt ==
  ASSUME NEW f \in Filters, NEW v \in Int
  PROVE  /\ FormatQuantity(f, v) \in Int
         /\ StopTrigger(f, "LONG", v) \in Int /\ TakeTrigger(f, "LONG", v) \in Int
<1>1. f.qtyStep \in Nat /\ f.priceStep \in Nat /\ f.qtyMin \in Nat
  BY DEF Filters
<1>2. ASSUME NEW w \in Int, NEW step \in Nat
      PROVE  FloorToStep(w, step) \in Int /\ CeilToStep(w, step) \in Int
  <2>1. CASE step <= 0
    BY <2>1 DEF FloorToStep, CeilToStep
  <2>2. CASE step > 0
    <3>1. w \div step \in Int /\ (-w) \div step \in Int
      BY <2>2
    <3>2. QED
      BY <2>2, <3>1 DEF FloorToStep, CeilToStep
  <2>3. QED
    BY <2>1, <2>2
<1>3. FormatQuantity(f, v) \in Int
  <2>1. FloorToStep(v, f.qtyStep) \in Int
    BY <1>1, <1>2
  <2>2. QED
    BY <1>1, <2>1 DEF FormatQuantity
<1>4. QED
  BY <1>1, <1>2, <1>3 DEF StopTrigger, TakeTrigger, FormatPrice

\* The filters a lookup returns are a rule set of the exchange, or none.
LEMMA LoadedFilters ==
  ASSUME ClientAssumption, NEW c \in [filters : RuleSet \cup {NoFilters}, age : 0..FilterTtl],
         rules \in RuleSet, NEW d \in LoadExchangeInfo(c)
  PROVE  d \in [filters : RuleSet \cup {NoFilters}, age : 0..FilterTtl] /\ d.filters \in Filters
<1>1. d \in [filters : RuleSet \cup {NoFilters}, age : 0..FilterTtl]
  BY DEF LoadExchangeInfo, ClientAssumption
<1>2. QED
  BY <1>1 DEF ClientAssumption, Filters, NoFilters

-----------------------------------------------------------------------------
\* The running call and the last answer are about orders of the book; what
\* a call has read, or was told when it began, is still true.
CallKnows ==
  /\ call.op \in Verifies \cup Cancels => call.id \in Id /\ (call.id \in Live => call.wasLive)
  /\ call.op = "verifyClassic" /\ call.clean => call.id \notin LiveIn("algo")
  /\ call.op = "verifyBlind" => ~call.clean
  /\ call.op = "cancelClassic" => call.id \notin LiveIn("algo")
  /\ answer.op \in {"verify", "cancel"} => answer.id \in Id

\* Each order that was live when the sweep began is gone, or still ahead.
SweepKnows ==
  sweep.on =>
    /\ call.op \in {"none"} \cup Cancels
    /\ sweep.clean => \A i \in sweep.from \cap Live :
         \/ i \in sweep.todo
         \/ call.op \in Cancels /\ call.id = i
         \/ sweep.api = "algo" /\ book[i].api = "classic"

\* A placement has not been answered while it runs.
PlacingUnanswered == call.op = "place" => answer = NoAnswer

ClientInv ==
  /\ ClientTypeOK
  /\ CallKnows
  /\ SweepKnows
  /\ PlacingUnanswered
  /\ StraysOnlyBehindLostAnswers
  /\ ClientIsHonest
  /\ SweepLeavesNothing

-----------------------------------------------------------------------------
\* What Accept and Delete do to the book.
LEMMA AcceptGrows ==
  ASSUME ClientTypeOK, call.op = "place", Accept
  PROVE  /\ book' \in Seq(Order)
         /\ Len(book') \in Nat
         /\ Id' = Id \cup {Len(book')}
         /\ \A i \in Id : book'[i] = book[i] /\ (i \in Live' <=> i \in Live)
         /\ Live' \subseteq Live \cup {Len(book')}
         /\ \A api \in Services : \A i \in Id : i \in LiveIn(api)' <=> i \in LiveIn(api)
<1>1. call.step \in 1..4
  BY DEF ClientTypeOK, Tiers
<1>2. Tiers[call.step].api \in Services
  BY <1>1 DEF Tiers, Services
<1>3. [api |-> Tiers[call.step].api, status |-> "NEW"] \in Order
  BY <1>2 DEF Order, Status, Services
<1>4. PICK o \in Order : book' = Append(book, o)
  BY <1>3 DEF Accept
<1>5. book \in Seq(Order) /\ Len(book) \in Nat
  BY DEF ClientTypeOK
<1>6. /\ book' \in Seq(Order)
      /\ Len(book') = Len(book) + 1
      /\ Id' = Id \cup {Len(book')}
      /\ \A i \in Id : book'[i] = book[i]
      /\ Live' \subseteq Live \cup {Len(book')}
      /\ \A api \in Services : \A i \in Id : i \in LiveIn(api)' <=> i \in LiveIn(api)
  BY <1>4, <1>5, BookGrows
<1>7. \A i \in Id : i \in Live' <=> i \in Live
  BY <1>6 DEF Live
<1>8. QED
  BY <1>5, <1>6, <1>7

\* An order that is not live never becomes live, and stays in the book.
LEMMA OrdersOnlyEnd ==
  ASSUME ClientTypeOK, CallKnows, [Next]_vars
  PROVE  /\ book' \in Seq(Order)
         /\ Id \subseteq Id' /\ (PlaceTier \/ Id' = Id)
         /\ \A i \in Id : book'[i].api = book[i].api
         /\ \A i \in Id : i \in Live' => i \in Live
         /\ \A api \in Services : \A i \in Id : i \in LiveIn(api)' => i \in LiveIn(api)
<1>1. CASE UNCHANGED book
  BY <1>1 DEF ClientTypeOK, Id, Live, LiveIn
<1>2. CASE PlaceTier /\ Accept
  <2>1. call.op = "place"
    BY <1>2 DEF PlaceTier
  <2>2. QED
    BY <1>2, <2>1, AcceptGrows
<1>3. ASSUME NEW i \in Id, Delete(i)
      PROVE  /\ book' \in Seq(Order)
             /\ Id' = Id
             /\ \A j \in Id : book'[j].api = book[j].api
             /\ \A j \in Id : j \in Live' => j \in Live
             /\ \A api \in Services : \A j \in Id : j \in LiveIn(api)' => j \in LiveIn(api)
  <2>1. book \in Seq(Order)
    BY DEF ClientTypeOK
  <2>2. /\ book' \in Seq(Order) /\ Id' = Id /\ Live' = Live \ {i}
        /\ \A api \in Services : LiveIn(api)' = LiveIn(api) \ {i}
    BY <1>3, <2>1, BookEnds DEF Delete
  <2>3. \A j \in Id : book'[j].api = book[j].api
    BY <1>3, <2>1 DEF Delete, Id, Order
  <2>4. QED
    BY <2>2, <2>3
<1>4. CASE call.op \in Cancels /\ (CancelAlgo \/ CancelClassic)
  <2>1. UNCHANGED book \/ Delete(call.id)
    BY <1>4 DEF CancelAlgo, CancelClassic, DeleteAnswered, DeleteAnswerLost, DeleteRefused,
                DeleteMisread, CancelUnknown
  <2>2. call.id \in Id
    BY <1>4 DEF CallKnows
  <2>3. QED
    BY <1>1, <1>3, <2>1, <2>2
<1>5. CASE PlaceTier
  BY <1>1, <1>2, <1>5 DEF PlaceTier, PlaceAccepted, PlaceAnswerLost, PlaceRefused
<1>6. CASE Environment
  <2>1. UNCHANGED book \/ \E i \in Id : Delete(i)
    BY <1>6 DEF Environment, RulesChange, TimePasses, OrderEnds, Delete, exchange
  <2>2. QED
    BY <1>1, <1>3, <2>1
<1>7. QED
  BY <1>1, <1>4, <1>5, <1>6
     DEF Next, vars, exchange, Engine, Client, BeginPlace, BeginVerify, BeginCancel, BeginSweep,
         VerifyAlgoList, VerifyClassicList, CancelAlgo, CancelClassic, Cancels, SweepOne,
         SweepClassic, SweepEnds

\* The record types with BOOLEAN written out: the form the proofs below use.
Flag      == {TRUE, FALSE}
CallRec   == [op : {"none", "place", "verifyAlgo", "verifyClassic", "verifyBlind",
                    "cancelAlgo", "cancelClassic"},
              qty : Nat, trigger : Nat, step : Nat, id : Nat,
              read : Flag, clean : Flag, wasLive : Flag]
SweepRec  == [on : Flag, api : {"algo", "classic"}, todo : SUBSET Int, count : Nat,
              clean : Flag, from : SUBSET Int]
ResultRec == [op : {"none", "place", "verify", "cancel", "sweep"},
              value : {"ok", "raise", "id", "true", "false"},
              id : Nat, clean : Flag, wasLive : Flag]

LEMMA RecordTypes == Call = CallRec /\ Sweep = SweepRec /\ Result = ResultRec
<1>1. BOOLEAN = Flag
  BY DEF Flag
<1>2. QED
  BY <1>1 DEF Call, CallRec, Sweep, SweepRec, Result, ResultRec

LEMMA Blank ==
  /\ NoCall \in CallRec /\ NoCall.op = "none"
  /\ NoAnswer \in ResultRec /\ NoAnswer.op = "none" /\ NoAnswer.value = "ok"
  /\ NoSweep \in SweepRec /\ NoSweep.on = FALSE /\ NoSweep.todo = {} /\ NoSweep.from = {}
BY DEF NoCall, CallRec, Flag, NoAnswer, ResultRec, NoSweep, SweepRec

-----------------------------------------------------------------------------
(***************************************************************************)
(* What the parts of a step leave behind: the call goes on or is over, and *)
(* what it answers.                                                        *)
(***************************************************************************)
LEMMA NextTierEffect ==
  ASSUME call \in CallRec, call.op = "place", call.step \in 1..4,
         NEW clean \in Flag, NextTier(clean)
  PROVE  \/ /\ call' \in CallRec /\ call'.op = "place" /\ call'.step \in 1..4
            /\ answer' = answer
         \/ /\ call' = NoCall
            /\ call.step = 4
            /\ answer' \in ResultRec /\ answer'.op = "place"
            /\ answer'.clean => clean
<1> DEFINE good == call.clean /\ clean
<1>1. good \in Flag
  BY DEF CallRec, Flag
<1>2. good => clean
  OBVIOUS
<1>3. Len(Tiers) = 4
  BY DEF Tiers
<1>4. CASE call.step < 4
  <2>1. call' = [call EXCEPT !.step = call.step + 1, !.clean = good] /\ answer' = answer
    BY <1>3, <1>4 DEF NextTier
  <2>2. call.step + 1 \in 1..4 /\ call.step + 1 \in Nat
    BY <1>4
  <2> HIDE DEF good
  <2>3. QED
    BY <1>1, <2>1, <2>2 DEF CallRec
<1>5. CASE ~(call.step < 4)
  <2>1. call' = NoCall /\ answer' = [Answer("place", "raise", 0) EXCEPT !.clean = @ /\ clean]
    BY <1>3, <1>5 DEF NextTier
  <2>2. Answer("place", "raise", 0).clean = call.clean
    BY DEF Answer
  <2>3. answer' = [Answer("place", "raise", 0) EXCEPT !.clean = good]
    BY <2>1, <2>2
  <2> HIDE DEF good
  <2>4. QED
    BY <1>1, <1>2, <1>5, <2>1, <2>3 DEF Answer, CallRec, ResultRec
<1>6. QED
  BY <1>4, <1>5

LEMMA PlaceAcceptedEffect ==
  ASSUME call \in CallRec, Len(book') \in Nat, PlaceAccepted
  PROVE  /\ call' = NoCall
         /\ answer' \in ResultRec /\ answer'.op = "place" /\ answer'.value = "id"
BY DEF PlaceAccepted, Answer, CallRec, ResultRec

LEMMA AttemptEffect ==
  ASSUME call \in CallRec, NEW read \in Flag, NEW clean \in Flag, AttemptFails(read, clean)
  PROVE  \/ /\ call' \in CallRec /\ call'.op = "verifyAlgo"
            /\ call'.id = call.id /\ call'.wasLive = call.wasLive
            /\ answer' = answer
         \/ /\ call' = NoCall
            /\ answer' \in ResultRec /\ answer'.op = "verify" /\ answer'.id = call.id
            /\ answer'.value \in {"false", "raise"} /\ answer'.wasLive = call.wasLive
            /\ answer'.clean => call.clean /\ clean
<1> DEFINE seen == call.read \/ read
           good == call.clean /\ clean
           value == IF seen THEN "false" ELSE "raise"
<1>1. seen \in Flag 
  BY DEF CallRec, Flag
<1>2. good \in Flag
  BY DEF CallRec, Flag
<1>3. call.step + 1 \in Nat /\ call.id \in Nat
  BY DEF CallRec
<1>4. good => call.clean /\ clean
  OBVIOUS
<1>5. value \in {"false", "raise"}
  OBVIOUS
<1>6. CASE call.step < VerifyDelays
  <2>1. call' = [call EXCEPT !.op = "verifyAlgo", !.step = call.step + 1, !.read = seen, !.clean = good]
        /\ answer' = answer
    BY <1>6 DEF AttemptFails
  <2> HIDE DEF seen, good
  <2>2. QED
    BY <1>1, <1>2, <1>3, <2>1 DEF CallRec
<1>7. CASE ~(call.step < VerifyDelays)
  <2>1. call' = NoCall /\ answer' = [Answer("verify", value, call.id) EXCEPT !.clean = @ /\ clean]
    BY <1>7 DEF AttemptFails
  <2>3. Answer("verify", value, call.id).clean = call.clean
    BY DEF Answer
  <2>4. answer' = [Answer("verify", value, call.id) EXCEPT !.clean = good]
    BY <2>1, <2>3
  <2> HIDE DEF seen, good, value
  <2>2. QED
    BY <1>2, <1>3, <1>4, <1>5, <2>1, <2>4 DEF Answer, CallRec, ResultRec
<1>8. QED
  BY <1>6, <1>7
LEMMA ReturnEffect ==
  ASSUME call \in CallRec, Return("verify", "true")
  PROVE  /\ call' = NoCall
         /\ answer' \in ResultRec /\ answer'.op = "verify" /\ answer'.id = call.id
         /\ answer'.value = "true" /\ answer'.wasLive = call.wasLive
BY DEF Return, Answer, CallRec, ResultRec

LEMMA VerifyMoved ==
  ASSUME call \in CallRec, NEW op \in {"verifyClassic", "verifyBlind"}, NEW clean \in Flag,
         call' = [call EXCEPT !.op = op, !.clean = clean]
  PROVE  /\ call' \in CallRec /\ call'.op = op /\ call'.clean = clean
         /\ call'.id = call.id /\ call'.wasLive = call.wasLive
BY DEF CallRec

LEMMA CancelEffect ==
  ASSUME call \in CallRec, sweep \in SweepRec, NEW done \in Flag, NEW clean \in Flag,
         CancelReturns(done, clean)
  PROVE  /\ call' = NoCall
         /\ sweep' \in SweepRec
         /\ sweep'.on = sweep.on /\ sweep'.api = sweep.api
         /\ sweep'.todo = sweep.todo /\ sweep'.from = sweep.from
         /\ IF sweep.on
              THEN (sweep'.clean => sweep.clean /\ clean) /\ answer' = answer
              ELSE /\ sweep' = sweep
                   /\ answer' \in ResultRec /\ answer'.op = "cancel" /\ answer'.id = call.id
                   /\ answer'.value = IF done THEN "ok" ELSE "raise"
                   /\ answer'.clean = clean /\ answer'.wasLive = call.wasLive
<1> DEFINE good  == sweep.clean /\ clean
           count == IF done THEN sweep.count + 1 ELSE sweep.count
           value == IF done THEN "ok" ELSE "raise"
<1>1. good \in Flag
  BY DEF SweepRec, Flag
<1>2. count \in Nat
  BY DEF SweepRec
<1>3. value \in {"ok", "raise"}
  OBVIOUS
<1>4. good => sweep.clean /\ clean
  OBVIOUS
<1>5. call' = NoCall
  BY DEF CancelReturns
<1>6. CASE sweep.on
  <2>1. sweep' = [sweep EXCEPT !.count = count, !.clean = good] /\ answer' = answer
    BY <1>6 DEF CancelReturns
  <2> HIDE DEF good, count
  <2>2. /\ sweep' \in SweepRec /\ sweep'.on = sweep.on /\ sweep'.api = sweep.api
        /\ sweep'.todo = sweep.todo /\ sweep'.from = sweep.from /\ sweep'.clean = good
    BY <1>1, <1>2, <2>1 DEF SweepRec
  <2>3. QED
    BY <1>4, <1>5, <1>6, <2>1, <2>2
<1>7. CASE ~sweep.on
  <2>1. sweep' = sweep /\ answer' = [Answer("cancel", value, call.id) EXCEPT !.clean = clean]
    BY <1>7 DEF CancelReturns
  <2> HIDE DEF value
  <2>2. /\ answer' \in ResultRec /\ answer'.op = "cancel" /\ answer'.id = call.id
        /\ answer'.value = value /\ answer'.clean = clean /\ answer'.wasLive = call.wasLive
    BY <1>3, <2>1 DEF Answer, CallRec, ResultRec
  <2>3. QED
    BY <1>5, <1>7, <2>1, <2>2 DEF value
<1>8. QED
  BY <1>6, <1>7

LEMMA LiveFlag ==
  ASSUME NEW i
  PROVE  (i \in Live) \in Flag
<1>1. (i \in Live) \in BOOLEAN
  OBVIOUS
<1>2. QED
  BY <1>1 DEF Flag

LEMMA StartCancelEffect ==
  ASSUME NEW i \in Nat, StartCancel(i)
  PROVE  call' \in CallRec /\ call'.op = "cancelAlgo" /\ call'.id = i /\ (i \in Live => call'.wasLive)
<1>1. PICK live \in Flag : live = (i \in Live)
  BY LiveFlag
<1>2. call' = [NoCall EXCEPT !.op = "cancelAlgo", !.id = i, !.wasLive = live]
  BY <1>1 DEF StartCancel
<1>3. call' \in CallRec /\ call'.op = "cancelAlgo" /\ call'.id = i /\ call'.wasLive = live
  BY <1>2 DEF NoCall, CallRec, Flag
<1>4. QED
  BY <1>1, <1>3

LEMMA StartVerifyEffect ==
  ASSUME NEW i \in Nat, BeginVerify(i)
  PROVE  call' \in CallRec /\ call'.op = "verifyAlgo" /\ call'.id = i /\ (i \in Live => call'.wasLive)
<1>1. PICK live \in Flag : live = (i \in Live)
  BY LiveFlag
<1>2. call' = [NoCall EXCEPT !.op = "verifyAlgo", !.id = i, !.step = 1, !.wasLive = live]
  BY <1>1 DEF BeginVerify
<1>3. call' \in CallRec /\ call'.op = "verifyAlgo" /\ call'.id = i /\ call'.wasLive = live
  BY <1>2 DEF NoCall, CallRec, Flag
<1>4. QED
  BY <1>1, <1>3

\* A placement sends whole numbers, or raises before it begins.
LEMMA BeginPlaceEffect ==
  ASSUME ClientTypeOK, NEW kind \in Kind, NEW raw \in Quantities, NEW price \in Triggers,
         BeginPlace(kind, raw, price)
  PROVE  /\ cache' \in [filters : RuleSet \cup {NoFilters}, age : 0..FilterTtl]
         /\ \/ call' = call /\ answer' \in ResultRec /\ answer'.op = "place"
            \/ call' \in CallRec /\ call'.op = "place" /\ call'.step = 1 /\ answer' = NoAnswer
<1> DEFINE Begun(c, d, qty, trigger) ==
      /\ cache' = d
      /\ IF qty <= 0 \/ trigger <= 0
           THEN answer' = Answer("place", "raise", 0) /\ call' = call
           ELSE /\ call' = [NoCall EXCEPT !.op = "place", !.qty = qty, !.trigger = trigger, !.step = 1]
                /\ answer' = NoAnswer
           Trigger(d) == IF kind = "STOP_MARKET" THEN StopTrigger(d.filters, "LONG", price)
                         ELSE TakeTrigger(d.filters, "LONG", price)
<1>1. \E c \in LoadExchangeInfo(cache) : \E d \in LoadExchangeInfo(c) :
        Begun(c, d, FormatQuantity(c.filters, raw), Trigger(d))
  BY DEF BeginPlace
<1>2. PICK c \in LoadExchangeInfo(cache) : \E d \in LoadExchangeInfo(c) :
        Begun(c, d, FormatQuantity(c.filters, raw), Trigger(d))
  BY <1>1
<1>3. PICK d \in LoadExchangeInfo(c) : Begun(c, d, FormatQuantity(c.filters, raw), Trigger(d))
  BY <1>2
<1>4. /\ c \in [filters : RuleSet \cup {NoFilters}, age : 0..FilterTtl] /\ c.filters \in Filters
      /\ d \in [filters : RuleSet \cup {NoFilters}, age : 0..FilterTtl] /\ d.filters \in Filters
  BY LoadedFilters, ClientAssumption DEF ClientTypeOK
<1>5. raw \in Int /\ price \in Int
  BY ClientAssumption DEF ClientAssumption
<1>6. FormatQuantity(c.filters, raw) \in Int /\ Trigger(d) \in Int
  <2>1. FormatQuantity(c.filters, raw) \in Int
    BY <1>4, <1>5, FormattedInt
  <2>2. StopTrigger(d.filters, "LONG", price) \in Int /\ TakeTrigger(d.filters, "LONG", price) \in Int
    BY <1>4, <1>5, FormattedInt
  <2>3. QED
    BY <2>1, <2>2
<1>7. PICK qty \in Int, trigger \in Int : Begun(c, d, qty, trigger)
  BY <1>3, <1>6
<1>8. call \in CallRec
  BY RecordTypes DEF ClientTypeOK
<1>9. CASE qty <= 0 \/ trigger <= 0
  <2>1. answer' = Answer("place", "raise", 0)
    BY <1>7, <1>9
  <2>2. answer' \in ResultRec /\ answer'.op = "place"
    BY <1>8, <2>1 DEF Answer, CallRec, ResultRec
  <2>3. QED
    BY <1>4, <1>7, <1>9, <2>2
<1>10. CASE ~(qty <= 0 \/ trigger <= 0)
  <2>1. call' = [NoCall EXCEPT !.op = "place", !.qty = qty, !.trigger = trigger, !.step = 1]
    BY <1>7, <1>10
  <2>2. qty \in Nat /\ trigger \in Nat
    BY <1>7, <1>10
  <2>3. call' \in CallRec /\ call'.op = "place" /\ call'.step = 1
    BY <2>1, <2>2 DEF NoCall, CallRec, Flag
  <2>4. QED
    BY <1>4, <1>7, <1>10, <2>3
<1>11. QED
  BY <1>9, <1>10

\* One look at a list: found, not found or unread.
LEMMA VerifyListEffect ==
  ASSUME call \in CallRec, answer \in ResultRec, VerifyAlgoList \/ VerifyClassicList
  PROVE  /\ call' \in CallRec /\ answer' \in ResultRec /\ call'.op # "place"
         /\ call' = NoCall \/ answer' = answer
         /\ answer' = answer \/ answer'.op = "verify"
         /\ call' # NoCall => call'.op \in Verifies /\ call'.id = call.id /\ call'.wasLive = call.wasLive
<1>1. ASSUME NEW read \in Flag, NEW clean \in Flag, AttemptFails(read, clean)
      PROVE  /\ call' \in CallRec /\ answer' \in ResultRec /\ call'.op # "place"
             /\ call' = NoCall \/ answer' = answer
             /\ answer' = answer \/ answer'.op = "verify"
             /\ call' # NoCall => call'.op \in Verifies /\ call'.id = call.id /\ call'.wasLive = call.wasLive
  BY <1>1, AttemptEffect, Blank DEF Verifies
<1>2. CASE Return("verify", "true")
  BY <1>2, ReturnEffect, Blank
<1>3. ASSUME NEW op \in {"verifyClassic", "verifyBlind"}, NEW clean \in Flag,
             call' = [call EXCEPT !.op = op, !.clean = clean], answer' = answer
      PROVE  /\ call' \in CallRec /\ answer' \in ResultRec /\ call'.op # "place"
             /\ call' = NoCall \/ answer' = answer
             /\ answer' = answer \/ answer'.op = "verify"
             /\ call' # NoCall => call'.op \in Verifies /\ call'.id = call.id /\ call'.wasLive = call.wasLive
  BY <1>3, VerifyMoved DEF Verifies
<1>4. TRUE \in Flag /\ FALSE \in Flag
  BY DEF Flag
<1>5. \A api : \A shown : (~Lagged(api, shown)) \in Flag /\ (call.clean /\ ~Lagged(api, shown)) \in Flag
  <2>1. ASSUME NEW b \in BOOLEAN PROVE b \in Flag
    BY DEF Flag
  <2>2. \A api : \A shown : (~Lagged(api, shown)) \in BOOLEAN /\ (call.clean /\ ~Lagged(api, shown)) \in BOOLEAN
    OBVIOUS
  <2>3. QED
    BY <2>1, <2>2
<1>6. CASE VerifyAlgoList
  <2>1. CASE AttemptFails(TRUE, TRUE)
    BY <1>1, <1>4, <2>1
  <2>2. CASE call' = [call EXCEPT !.op = "verifyBlind", !.clean = FALSE] /\ answer' = answer
    BY <1>3, <1>4, <2>2
  <2>3. CASE /\ call' = [call EXCEPT !.op = "verifyClassic", !.clean = @ /\ ~Lagged("algo", "absent")]
             /\ answer' = answer
    <3>1. PICK clean \in Flag : clean = (call.clean /\ ~Lagged("algo", "absent"))
      BY <1>5
    <3>2. call' = [call EXCEPT !.op = "verifyClassic", !.clean = clean]
      BY <2>3, <3>1
    <3>3. QED
      BY <1>3, <2>3, <3>2
  <2>4. QED
    BY <1>2, <1>6, <2>1, <2>2, <2>3 DEF VerifyAlgoList
<1>7. CASE VerifyClassicList
  <2>1. ASSUME NEW shown, AttemptFails(TRUE, ~Lagged("classic", shown))
        PROVE  \E clean \in Flag : AttemptFails(TRUE, clean)
    <3>1. PICK clean \in Flag : clean = ~Lagged("classic", shown)
      BY <1>5
    <3>2. QED
      BY <2>1, <3>1
  <2>2. CASE AttemptFails(call.op = "verifyClassic", FALSE)
    BY <1>1, <1>4, <2>2
  <2>3. QED
    BY <1>1, <1>2, <1>4, <1>7, <2>1, <2>2 DEF VerifyClassicList
<1>8. QED
  BY <1>6, <1>7

\* A sweep starts from the orders that are live, with those a list shows.
LEMMA BeginSweepEffect ==
  ASSUME Id \subseteq Nat, BeginSweep
  PROVE  /\ sweep' \in SweepRec /\ sweep'.todo \subseteq Id /\ sweep'.from \subseteq Id
         /\ sweep'.from = Live /\ sweep'.api = "algo"
         /\ sweep'.clean => sweep'.todo = LiveIn("algo")
<1>1. \A todo \in Listed("algo") : todo \subseteq Live
  BY DEF Listed, LiveIn
<1>2. Live \subseteq Id
  BY DEF Live
<1>3. ASSUME NEW todo \in SUBSET Live, NEW clean \in Flag,
             sweep' = [on |-> TRUE, api |-> "algo", todo |-> todo, count |-> 0, clean |-> clean,
                       from |-> Live]
      PROVE  /\ sweep' \in SweepRec /\ sweep'.todo = todo /\ sweep'.from = Live
             /\ sweep'.api = "algo" /\ sweep'.clean = clean
  <2>1. todo \in SUBSET Int /\ Live \in SUBSET Int
    BY <1>2
  <2>2. QED
    BY <1>3, <2>1 DEF SweepRec, Flag
<1>4. CASE \E todo \in Listed("algo") :
             sweep' = [NoSweep EXCEPT !.on = TRUE, !.todo = todo, !.from = Live,
                                      !.clean = todo = LiveIn("algo")]
  <2>1. PICK todo \in Listed("algo") :
             sweep' = [NoSweep EXCEPT !.on = TRUE, !.todo = todo, !.from = Live,
                                      !.clean = todo = LiveIn("algo")]
    BY <1>4
  <2>2. PICK clean \in BOOLEAN : clean = (todo = LiveIn("algo"))
    OBVIOUS
  <2>3. clean \in Flag
    BY <2>2 DEF Flag
  <2>4. sweep' = [NoSweep EXCEPT !.on = TRUE, !.todo = todo, !.from = Live, !.clean = clean]
    BY <2>1, <2>2
  <2>5. sweep' = [on |-> TRUE, api |-> "algo", todo |-> todo, count |-> 0, clean |-> clean,
                  from |-> Live]
    BY <2>4 DEF NoSweep
  <2>6. QED
    BY <1>1, <1>2, <1>3, <2>2, <2>3, <2>5
<1>5. CASE sweep' = [NoSweep EXCEPT !.on = TRUE, !.from = Live, !.clean = FALSE]
  <2>1. sweep' = [on |-> TRUE, api |-> "algo", todo |-> {}, count |-> 0, clean |-> FALSE,
                  from |-> Live]
    BY <1>5 DEF NoSweep
  <2>2. FALSE \in Flag
    BY DEF Flag
  <2>3. QED
    BY <1>2, <1>3, <2>1, <2>2
<1>6. QED
  BY <1>4, <1>5 DEF BeginSweep

LEMMA SweepClassicEffect ==
  ASSUME sweep \in SweepRec, Id \subseteq Nat, SweepClassic
  PROVE  /\ sweep' \in SweepRec /\ sweep'.todo \subseteq Id /\ sweep'.from = sweep.from
         /\ sweep'.on = sweep.on /\ sweep'.api = "classic"
         /\ sweep'.clean => sweep.clean /\ sweep'.todo = LiveIn("classic")
<1>1. \A todo \in Listed("classic") : todo \subseteq Id
  BY DEF Listed, LiveIn, Live
<1>2. PICK todo \in SUBSET Id, clean \in Flag :
        /\ sweep' = [sweep EXCEPT !.api = "classic", !.todo = todo, !.clean = clean]
        /\ clean => sweep.clean /\ todo = LiveIn("classic")
  <2>1. CASE \E todo \in Listed("classic") :
                sweep' = [sweep EXCEPT !.api = "classic", !.todo = todo,
                                       !.clean = @ /\ todo = LiveIn("classic")]
    <3>1. PICK todo \in Listed("classic") :
                sweep' = [sweep EXCEPT !.api = "classic", !.todo = todo,
                                       !.clean = @ /\ todo = LiveIn("classic")]
      BY <2>1
    <3>2. PICK clean \in BOOLEAN : clean = (sweep.clean /\ todo = LiveIn("classic"))
      OBVIOUS
    <3>3. clean \in Flag
      BY <3>2 DEF Flag
    <3>4. sweep' = [sweep EXCEPT !.api = "classic", !.todo = todo, !.clean = clean]
      BY <3>1, <3>2
    <3>5. QED
      BY <1>1, <3>2, <3>3, <3>4
  <2>2. CASE sweep' = [sweep EXCEPT !.api = "classic", !.clean = FALSE] /\ sweep.todo = {}
    <3>1. sweep' = [sweep EXCEPT !.api = "classic", !.todo = {}, !.clean = FALSE]
      BY <2>2 DEF SweepRec
    <3>2. FALSE \in Flag
      BY DEF Flag
    <3>3. QED
      BY <3>1, <3>2
  <2>3. QED
    BY <2>1, <2>2 DEF SweepClassic
<1>3. todo \in SUBSET Int
  OBVIOUS
<1>4. /\ sweep' \in SweepRec /\ sweep'.todo = todo /\ sweep'.from = sweep.from
      /\ sweep'.on = sweep.on /\ sweep'.api = "classic" /\ sweep'.clean = clean
  <2>1. sweep' = [sweep EXCEPT !.api = "classic", !.todo = todo, !.clean = clean]
    BY <1>2
  <2>2. QED
    BY <1>3, <2>1 DEF SweepRec
<1>5. QED
  BY <1>2, <1>4

LEMMA SweepEndsEffect ==
  ASSUME sweep \in SweepRec, SweepEnds
  PROVE  /\ answer' \in ResultRec /\ answer'.op = "sweep" /\ answer'.clean = sweep.clean
         /\ answer'.wasLive = (sweep.from \cap Live # {})
<1>1. PICK left \in BOOLEAN : left = (sweep.from \cap Live # {})
  OBVIOUS
<1>2. left \in Flag
  BY <1>1 DEF Flag
<1>3. answer' = [op |-> "sweep", value |-> "ok", id |-> sweep.count, clean |-> sweep.clean,
                 wasLive |-> left]
  BY <1>1 DEF SweepEnds
<1>4. answer' \in ResultRec /\ answer'.op = "sweep" /\ answer'.clean = sweep.clean /\ answer'.wasLive = left
  BY <1>2, <1>3 DEF SweepRec, ResultRec
<1>5. QED
  BY <1>1, <1>4

-----------------------------------------------------------------------------
\* The types without the book.
Typed ==
  /\ rules \in RuleSet
  /\ changes \in 0..MaxRules
  /\ cache \in [filters : RuleSet \cup {NoFilters}, age : 0..FilterTtl]
  /\ call \in CallRec
  /\ call.op = "place" => call.step \in 1..4
  /\ sweep \in SweepRec
  /\ sweep.todo \subseteq Id /\ sweep.from \subseteq Id /\ tracked \subseteq Id /\ silent \subseteq Id
  /\ answer \in ResultRec

LEMMA TypeIsTyped == ClientTypeOK <=> book \in Seq(Order) /\ Typed
<1>1. Len(Tiers) = 4
  BY DEF Tiers
<1>2. QED
  BY <1>1, RecordTypes DEF ClientTypeOK, Typed

\* Every step keeps the types.
LEMMA TypeStep ==
  ASSUME ClientTypeOK, CallKnows, [Next]_vars
  PROVE  ClientTypeOK'
<1>1. book' \in Seq(Order) /\ Id \subseteq Id' /\ Id \subseteq Nat
  BY OrdersOnlyEnd DEF Id, ClientTypeOK
<1>2. Typed
  BY TypeIsTyped
<1>3. SUFFICES Typed'
  BY <1>1, RecordTypes DEF ClientTypeOK, Typed, Tiers
<1>4. ASSUME NEW kind \in Kind, NEW raw \in Quantities, NEW price \in Triggers,
             BeginPlace(kind, raw, price)
      PROVE  Typed'
  <2>1. UNCHANGED <<rules, changes, sweep, tracked, silent>>
    BY <1>4 DEF BeginPlace, exchange
  <2>2. /\ cache' \in [filters : RuleSet \cup {NoFilters}, age : 0..FilterTtl]
        /\ \/ call' = call /\ answer' \in ResultRec
           \/ call' \in CallRec /\ call'.step = 1 /\ answer' = NoAnswer
    BY <1>4, BeginPlaceEffect
  <2>3. /\ call' \in CallRec /\ answer' \in ResultRec
        /\ call'.op = "place" => call'.step \in 1..4
    BY <1>2, <2>2, Blank DEF Typed
  <2>4. QED
    BY <1>1, <1>2, <2>1, <2>2, <2>3 DEF Typed
<1>5. CASE PlaceTier
  <2>1. /\ call \in CallRec /\ call.op = "place" /\ call.step \in 1..4
        /\ UNCHANGED <<rules, changes, cache, sweep>>
    BY <1>2, <1>5 DEF PlaceTier, Typed
  <2>2. ASSUME NEW clean \in Flag, NextTier(clean)
        PROVE  call' \in CallRec /\ answer' \in ResultRec /\ (call'.op = "place" => call'.step \in 1..4)
    BY <1>2, <2>1, <2>2, NextTierEffect, Blank DEF Typed
  <2>3. TRUE \in Flag /\ FALSE \in Flag
    BY DEF Flag
  <2>4. CASE PlaceAccepted
    <3>1. Len(book') \in Nat /\ Id' = Id \cup {Len(book')}
      BY <2>1, <2>4, AcceptGrows DEF PlaceAccepted
    <3>2. call' = NoCall /\ answer' \in ResultRec
      BY <2>1, <2>4, <3>1, PlaceAcceptedEffect
    <3>3. tracked' \subseteq Id' /\ silent' = silent
      BY <1>2, <2>4, <3>1 DEF PlaceAccepted, Typed
    <3>4. QED
      BY <1>1, <1>2, <2>1, <3>2, <3>3, Blank DEF Typed
  <2>5. CASE PlaceAnswerLost
    <3>1. Id' = Id \cup {Len(book')}
      BY <2>1, <2>5, AcceptGrows DEF PlaceAnswerLost
    <3>2. silent' \subseteq Id' /\ tracked' = tracked /\ NextTier(FALSE)
      BY <1>2, <2>5, <3>1 DEF PlaceAnswerLost, Typed
    <3>3. QED
      BY <1>1, <1>2, <2>1, <2>2, <2>3, <3>2 DEF Typed
  <2>6. CASE PlaceRefused
    <3>1. UNCHANGED <<tracked, silent>> /\ (NextTier(TRUE) \/ NextTier(FALSE))
      BY <2>6 DEF PlaceRefused
    <3>2. QED
      BY <1>1, <1>2, <2>1, <2>2, <2>3, <3>1 DEF Typed
  <2>7. QED
    BY <1>5, <2>4, <2>5, <2>6 DEF PlaceTier
<1>6. CASE VerifyAlgoList \/ VerifyClassicList
  <2>1. UNCHANGED <<rules, changes, cache, sweep, tracked, silent>> /\ call \in CallRec
    BY <1>2, <1>6 DEF VerifyAlgoList, VerifyClassicList, exchange, Typed
  <2>2. call' \in CallRec /\ answer' \in ResultRec /\ call'.op # "place"
    BY <1>2, <1>6, <2>1, VerifyListEffect, Blank DEF Typed
  <2>3. QED
    BY <1>1, <1>2, <2>1, <2>2 DEF Typed
<1>7. CASE CancelAlgo \/ CancelClassic
  <2>1. call.id \in Id
    BY <1>7 DEF CancelAlgo, CancelClassic, CallKnows, Cancels
  <2>2. UNCHANGED <<rules, changes, cache, tracked>> /\ silent' \subseteq silent \cup {call.id}
    BY <1>7 DEF CancelAlgo, CancelClassic, DeleteAnswered, DeleteAnswerLost, DeleteRefused,
                DeleteMisread, CancelUnknown
  <2>3. TRUE \in Flag /\ FALSE \in Flag /\ call \in CallRec /\ sweep \in SweepRec
    BY <1>2 DEF Flag, Typed
  <2>4. ASSUME NEW done \in Flag, NEW clean \in Flag, CancelReturns(done, clean)
        PROVE  /\ call' \in CallRec /\ call'.op # "place" /\ answer' \in ResultRec
               /\ sweep' \in SweepRec /\ sweep'.todo = sweep.todo /\ sweep'.from = sweep.from
    BY <1>2, <2>3, <2>4, CancelEffect, Blank DEF Typed
  <2>5. CASE \E done \in Flag, clean \in Flag : CancelReturns(done, clean)
    <3>1. /\ call' \in CallRec /\ call'.op # "place" /\ answer' \in ResultRec
          /\ sweep' \in SweepRec /\ sweep'.todo = sweep.todo /\ sweep'.from = sweep.from
      BY <2>3, <2>4, <2>5
    <3>2. QED
      BY <1>1, <1>2, <2>1, <2>2, <3>1 DEF Typed
  <2>6. CASE CancelUnknown
    <3>1. call' \in CallRec /\ call'.op # "place"
      BY <2>3, <2>6 DEF CancelUnknown, CallRec
    <3>2. QED
      BY <1>1, <1>2, <2>2, <2>6, <3>1 DEF CancelUnknown, Typed
  <2>7. QED
    BY <1>7, <2>3, <2>5, <2>6 DEF CancelAlgo, CancelClassic, DeleteAnswered, DeleteAnswerLost, DeleteRefused, DeleteMisread
<1>8. ASSUME NEW i \in tracked, BeginVerify(i) \/ BeginCancel(i)
      PROVE  Typed'
  <2>1. i \in Nat
    BY <1>1, <1>2 DEF Typed
  <2>2. call' \in CallRec /\ call'.op # "place" /\ answer' = NoAnswer
    BY <1>8, <2>1, StartVerifyEffect, StartCancelEffect DEF BeginVerify, BeginCancel
  <2>3. UNCHANGED <<rules, changes, cache, sweep, tracked, silent>>
    BY <1>8 DEF BeginVerify, BeginCancel, exchange
  <2>4. QED
    BY <1>1, <1>2, <2>2, <2>3, Blank DEF Typed
<1>9. CASE BeginSweep
  <2>1. sweep' \in SweepRec /\ sweep'.todo \subseteq Id /\ sweep'.from \subseteq Id
    BY <1>1, <1>9, BeginSweepEffect
  <2>2. UNCHANGED <<rules, changes, cache, call, tracked, silent>> /\ answer' = NoAnswer
    BY <1>9 DEF BeginSweep, exchange
  <2>3. QED
    BY <1>1, <1>2, <2>1, <2>2, Blank DEF Typed
<1>10. ASSUME NEW i \in sweep.todo, SweepOne(i)
       PROVE  Typed'
  <2>1. i \in Nat
    BY <1>1, <1>2 DEF Typed
  <2>2. call' \in CallRec /\ call'.op # "place"
    BY <1>10, <2>1, StartCancelEffect DEF SweepOne
  <2>3. sweep' \in SweepRec /\ sweep'.todo \subseteq sweep.todo /\ sweep'.from = sweep.from
    BY <1>2, <1>10 DEF SweepOne, SweepRec, Typed
  <2>4. UNCHANGED <<rules, changes, cache, tracked, silent, answer>>
    BY <1>10 DEF SweepOne, exchange
  <2>5. QED
    BY <1>1, <1>2, <2>2, <2>3, <2>4 DEF Typed
<1>11. CASE SweepClassic
  <2>1. sweep' \in SweepRec /\ sweep'.todo \subseteq Id /\ sweep'.from = sweep.from
    BY <1>1, <1>2, <1>11, SweepClassicEffect DEF Typed
  <2>2. UNCHANGED <<rules, changes, cache, call, tracked, silent, answer>>
    BY <1>11 DEF SweepClassic, exchange, history
  <2>3. QED
    BY <1>1, <1>2, <2>1, <2>2 DEF Typed
<1>12. CASE SweepEnds
  <2>1. sweep' = NoSweep /\ UNCHANGED <<rules, changes, cache, call, tracked, silent>>
    BY <1>12 DEF SweepEnds, exchange
  <2>2. answer' \in ResultRec
    BY <1>2, <1>12, SweepEndsEffect DEF Typed
  <2>3. QED
    BY <1>1, <1>2, <2>1, <2>2, Blank DEF Typed
<1>13. CASE Environment
  <2>1. UNCHANGED <<call, sweep, tracked, silent, answer>>
    BY <1>13 DEF Environment, RulesChange, TimePasses, OrderEnds, history
  <2>2. rules' \in RuleSet /\ changes' \in 0..MaxRules
    BY <1>2, <1>13, ClientAssumption
       DEF Environment, RulesChange, TimePasses, OrderEnds, exchange, Typed, ClientAssumption
  <2>3. cache' \in [filters : RuleSet \cup {NoFilters}, age : 0..FilterTtl]
    BY <1>2, <1>13, ClientAssumption
       DEF Environment, RulesChange, TimePasses, OrderEnds, Typed, ClientAssumption
  <2>4. QED
    BY <1>1, <1>2, <2>1, <2>2, <2>3 DEF Typed
<1>14. CASE UNCHANGED vars
  BY <1>1, <1>2, <1>14 DEF vars, exchange, history, Typed
<1>15. QED
  BY <1>4, <1>5, <1>6, <1>7, <1>8, <1>9, <1>10, <1>11, <1>12, <1>13, <1>14
     DEF Next, Engine, Client

\* Only an acceptance adds a live order, and its id is returned or lost.
LEMMA StraysStep ==
  ASSUME ClientTypeOK, CallKnows, StraysOnlyBehindLostAnswers, [Next]_vars
  PROVE  StraysOnlyBehindLostAnswers'
<1>1. tracked \subseteq tracked' /\ silent \subseteq silent'
  BY DEF Next, Engine, Client, Environment, BeginPlace, BeginVerify, BeginCancel, BeginSweep,
         PlaceTier, PlaceAccepted, PlaceAnswerLost, PlaceRefused, VerifyAlgoList,
         VerifyClassicList, CancelAlgo, CancelClassic, DeleteAnswered, DeleteAnswerLost,
         DeleteRefused, DeleteMisread, CancelUnknown, SweepOne, SweepClassic, SweepEnds, RulesChange,
         TimePasses, OrderEnds, vars, exchange, history
<1>2. Live' \subseteq Id' /\ Live \subseteq tracked \cup silent
  BY DEF Live, StraysOnlyBehindLostAnswers
<1>3. \A i \in Id : i \in Live' => i \in Live
  BY OrdersOnlyEnd
<1>4. CASE Id' = Id
  BY <1>1, <1>2, <1>3, <1>4 DEF StraysOnlyBehindLostAnswers
<1>5. CASE PlaceTier /\ ~UNCHANGED book
  <2>1. call.op = "place" /\ Accept /\ (Len(book') \in tracked' \/ Len(book') \in silent')
    BY <1>5 DEF PlaceTier, PlaceAccepted, PlaceAnswerLost, PlaceRefused
  <2>2. Live' \subseteq Live \cup {Len(book')}
    BY <2>1, AcceptGrows
  <2>3. QED
    BY <1>1, <1>2, <2>1, <2>2 DEF StraysOnlyBehindLostAnswers
<1>6. CASE UNCHANGED book
  BY <1>4, <1>6 DEF Id
<1>7. QED
  BY <1>4, <1>5, <1>6, OrdersOnlyEnd

\* A placement is answered when it ends.
LEMMA PlacingStep ==
  ASSUME ClientTypeOK, PlacingUnanswered, [Next]_vars
  PROVE  PlacingUnanswered'
<1>1. Typed
  BY TypeIsTyped
<1>2. CASE ~(call'.op = "place")
  BY <1>2 DEF PlacingUnanswered
<1>3. CASE call' = call /\ answer' = answer
  BY <1>3 DEF PlacingUnanswered
<1>4. ASSUME NEW kind \in Kind, NEW raw \in Quantities, NEW price \in Triggers,
             BeginPlace(kind, raw, price)
      PROVE  PlacingUnanswered'
  <2>1. call.op = "none"
    BY <1>4 DEF BeginPlace, Idle
  <2>2. QED
    BY <1>4, <2>1, BeginPlaceEffect DEF PlacingUnanswered
<1>5. CASE PlaceTier
  <2>1. call \in CallRec /\ call.op = "place" /\ call.step \in 1..4 /\ answer = NoAnswer
    BY <1>1, <1>5 DEF PlaceTier, Typed, PlacingUnanswered
  <2>2. ASSUME NEW clean \in Flag, NextTier(clean)
        PROVE  PlacingUnanswered'
    BY <2>1, <2>2, NextTierEffect, Blank DEF PlacingUnanswered
  <2>3. TRUE \in Flag /\ FALSE \in Flag
    BY DEF Flag
  <2>4. CASE PlaceAccepted
    BY <2>4, Blank DEF PlaceAccepted, PlacingUnanswered
  <2>5. QED
    BY <1>5, <2>2, <2>3, <2>4 DEF PlaceTier, PlaceAnswerLost, PlaceRefused
<1>6. CASE VerifyAlgoList \/ VerifyClassicList
  BY <1>1, <1>2, <1>6, VerifyListEffect DEF Typed
<1>7. CASE CancelAlgo \/ CancelClassic
  <2>1. \/ call' = NoCall
        \/ call' = [call EXCEPT !.op = "cancelClassic"]
    BY <1>7 DEF CancelAlgo, CancelClassic, DeleteAnswered, DeleteAnswerLost, DeleteRefused,
                DeleteMisread, CancelUnknown, CancelReturns
  <2>2. call'.op # "place"
    BY <1>1, <2>1, Blank DEF Typed, CallRec
  <2>3. QED
    BY <1>2, <2>2
<1>8. ASSUME NEW i \in tracked, BeginVerify(i) \/ BeginCancel(i)
      PROVE  PlacingUnanswered'
  BY <1>8 DEF BeginVerify, BeginCancel, PlacingUnanswered
<1>9. CASE \E i \in sweep.todo : SweepOne(i)
  <2>1. call'.op = "cancelAlgo"
    BY <1>9 DEF SweepOne, StartCancel, NoCall
  <2>2. QED
    BY <1>2, <2>1
<1>10. CASE BeginSweep \/ SweepEnds
  BY <1>2, <1>10 DEF BeginSweep, SweepEnds, Idle
<1>11. CASE SweepClassic \/ Environment \/ UNCHANGED vars
  BY <1>3, <1>11 DEF SweepClassic, Environment, RulesChange, TimePasses, OrderEnds, vars, history
<1>12. QED
  BY <1>4, <1>5, <1>6, <1>7, <1>8, <1>9, <1>10, <1>11 DEF Next, Engine, Client

LEMMA OrderService ==
  ASSUME ClientTypeOK, NEW i \in Id
  PROVE  book[i].api \in Services
<1>1. book \in Seq(Order)
  BY DEF ClientTypeOK
<1>2. book[i] \in Order
  BY <1>1 DEF Id
<1>3. QED
  BY <1>2 DEF Order, Services

\* What is known of an order that is not live stays true.
LEMMA KnowledgeStays ==
  ASSUME ClientTypeOK, CallKnows, ClientIsHonest, [Next]_vars
  PROVE  /\ answer' = answer => ClientIsHonest' /\ (answer'.op \in {"verify", "cancel"} => answer'.id \in Id')
         /\ call' = call /\ answer' = answer => CallKnows'
<1>1. /\ Id \subseteq Id' /\ \A i \in Id : i \in Live' => i \in Live
      /\ \A i \in Id : i \in LiveIn("algo")' => i \in LiveIn("algo")
  BY OrdersOnlyEnd DEF Services
<1>2. ASSUME answer' = answer
      PROVE  ClientIsHonest' /\ (answer'.op \in {"verify", "cancel"} => answer'.id \in Id')
  <2>1. answer.op \in {"verify", "cancel"} => answer.id \in Id
    BY DEF CallKnows
  <2>2. QED
    BY <1>1, <1>2, <2>1 DEF ClientIsHonest, VerifyHonest, CancelHonest
<1>3. ASSUME call' = call, answer' = answer
      PROVE  CallKnows'
  BY <1>1, <1>2, <1>3 DEF CallKnows, Verifies, Cancels
<1>4. QED
  BY <1>2, <1>3

\* Verifying: what the two lists have shown so far.
LEMMA VerifyKnows ==
  ASSUME ClientTypeOK, CallKnows, ClientIsHonest, [Next]_vars, VerifyAlgoList \/ VerifyClassicList
  PROVE  CallKnows' /\ ClientIsHonest'
<1>1. /\ Typed /\ call \in CallRec /\ answer \in ResultRec /\ call.op \in Verifies
      /\ call.id \in Id /\ (call.id \in Live => call.wasLive)
  BY TypeIsTyped DEF Typed, VerifyAlgoList, VerifyClassicList, CallKnows, Verifies
<1>2. Id' = Id /\ Live' = Live /\ \A api : LiveIn(api)' = LiveIn(api)
  BY DEF VerifyAlgoList, VerifyClassicList, exchange, Id, Live, LiveIn
<1>3. ASSUME NEW read \in Flag, NEW clean \in Flag, AttemptFails(read, clean),
             call.clean /\ clean => call.id \notin Live
      PROVE  CallKnows' /\ ClientIsHonest'
  <2>1. CASE /\ call'.op = "verifyAlgo" /\ call'.id = call.id /\ call'.wasLive = call.wasLive
             /\ answer' = answer
    <3>1. CallKnows'
      BY <1>1, <1>2, <2>1 DEF CallKnows, Verifies, Cancels
    <3>2. QED
      BY <2>1, <3>1, KnowledgeStays
  <2>2. CASE /\ call' = NoCall /\ answer'.op = "verify" /\ answer'.id = call.id
             /\ answer'.value \in {"false", "raise"} /\ (answer'.clean => call.clean /\ clean)
    <3>1. CallKnows'
      BY <1>1, <1>2, <2>2, Blank DEF CallKnows, Verifies, Cancels
    <3>2. ClientIsHonest'
      BY <1>1, <1>2, <1>3, <2>2 DEF ClientIsHonest, VerifyHonest
    <3>3. QED
      BY <3>1, <3>2
  <2>3. QED
    BY <1>1, <1>3, <2>1, <2>2, AttemptEffect
<1>4. CASE Return("verify", "true") /\ call.id \in Live
  <2>1. /\ call' = NoCall /\ answer'.op = "verify" /\ answer'.id = call.id
        /\ answer'.value = "true" /\ answer'.wasLive = call.wasLive
    BY <1>1, <1>4, ReturnEffect
  <2>2. CallKnows'
    BY <1>1, <1>2, <2>1, Blank DEF CallKnows, Verifies, Cancels
  <2>3. ClientIsHonest'
    BY <1>1, <1>4, <2>1 DEF ClientIsHonest, VerifyHonest
  <2>4. QED
    BY <2>2, <2>3
<1>5. ASSUME NEW op \in {"verifyClassic", "verifyBlind"}, NEW clean \in Flag, answer' = answer,
             call' = [call EXCEPT !.op = op, !.clean = clean],
             op = "verifyClassic" /\ clean => call.id \notin LiveIn("algo"),
             op = "verifyBlind" => ~clean
      PROVE  CallKnows' /\ ClientIsHonest'
  <2>1. /\ call'.op = op /\ call'.clean = clean
        /\ call'.id = call.id /\ call'.wasLive = call.wasLive
    BY <1>1, <1>5, VerifyMoved
  <2>2. answer.op \in {"verify", "cancel"} => answer.id \in Id
    BY DEF CallKnows
  <2>3. CallKnows'
    BY <1>1, <1>2, <1>5, <2>1, <2>2 DEF CallKnows, Verifies, Cancels
  <2>4. QED
    BY <1>5, <2>3, KnowledgeStays
<1>6. TRUE \in Flag /\ FALSE \in Flag
  BY DEF Flag
<1>7. ASSUME NEW b \in BOOLEAN
      PROVE  b \in Flag
  BY DEF Flag
<1>8. CASE VerifyAlgoList
  <2>1. CASE "NEW" \in Shown("algo") /\ Return("verify", "true")
    <3>1. call.id \in Live
      BY <2>1 DEF Shown
    <3>2. QED
      BY <1>4, <2>1, <3>1
  <2>2. CASE "DONE" \in Shown("algo") /\ AttemptFails(TRUE, TRUE)
    <3>1. call.id \notin Live
      BY <2>2 DEF Shown
    <3>2. QED
      BY <1>3, <1>6, <2>2, <3>1
  <2>3. CASE /\ answer' = answer
             /\ call' = [call EXCEPT !.op = "verifyClassic", !.clean = @ /\ ~Lagged("algo", "absent")]
    <3>1. PICK clean \in BOOLEAN : clean = (call.clean /\ ~Lagged("algo", "absent"))
      OBVIOUS
    <3>2. call' = [call EXCEPT !.op = "verifyClassic", !.clean = clean]
      BY <2>3, <3>1
    <3>3. clean => call.id \notin LiveIn("algo")
      BY <3>1 DEF Lagged
    <3>4. clean \in Flag
      BY <1>7
    <3>5. QED
      BY <1>5, <2>3, <3>2, <3>3, <3>4
  <2>4. CASE answer' = answer /\ call' = [call EXCEPT !.op = "verifyBlind", !.clean = FALSE]
    BY <1>5, <1>6, <2>4
  <2>5. QED
    BY <1>8, <2>1, <2>2, <2>3, <2>4 DEF VerifyAlgoList
<1>9. CASE VerifyClassicList
  <2>1. CASE "NEW" \in Shown("classic") /\ Return("verify", "true")
    <3>1. call.id \in Live
      BY <2>1 DEF Shown
    <3>2. QED
      BY <1>4, <2>1, <3>1
  <2>2. ASSUME NEW shown \in Shown("classic"), shown \in {"DONE", "absent"},
               AttemptFails(TRUE, ~Lagged("classic", shown))
        PROVE  CallKnows' /\ ClientIsHonest'
    <3>1. PICK clean \in BOOLEAN : clean = ~Lagged("classic", shown)
      OBVIOUS
    <3>2. clean \in Flag /\ AttemptFails(TRUE, clean)
      BY <1>7, <2>2, <3>1
    <3>3. ASSUME call.clean, clean
          PROVE  call.id \notin Live
      <4>1. call.id \notin LiveIn("algo")
        BY <1>9, <3>3 DEF VerifyClassicList, CallKnows
      <4>2. CASE shown = "DONE"
        BY <2>2, <4>2 DEF Shown
      <4>3. CASE shown = "absent"
        <5>1. call.id \notin LiveIn("classic")
          BY <3>1, <3>3, <4>3 DEF Lagged
        <5>2. book[call.id].api \in Services
          BY <1>1, OrderService
        <5>3. QED
          BY <4>1, <5>1, <5>2 DEF LiveIn, Services
      <4>4. QED
        BY <2>2, <4>2, <4>3
    <3>4. QED
      BY <1>3, <1>6, <3>2, <3>3
  <2>3. CASE AttemptFails(call.op = "verifyClassic", FALSE)
    <3>1. PICK read \in BOOLEAN : read = (call.op = "verifyClassic")
      OBVIOUS
    <3>2. read \in Flag /\ AttemptFails(read, FALSE)
      BY <1>7, <2>3, <3>1
    <3>3. QED
      BY <1>3, <1>6, <3>2
  <2>4. QED
    BY <1>9, <2>1, <2>2, <2>3 DEF VerifyClassicList
<1>10. QED
  BY <1>8, <1>9

\* Cancelling: what the delete of either service has shown.
LEMMA CancelKnows ==
  ASSUME ClientTypeOK, CallKnows, ClientIsHonest, [Next]_vars, CancelAlgo \/ CancelClassic
  PROVE  CallKnows' /\ ClientIsHonest'
<1>1. /\ call \in CallRec /\ sweep \in SweepRec /\ answer \in ResultRec
      /\ call.op \in Cancels
      /\ call.id \in Id /\ (call.id \in Live => call.wasLive)
      /\ call.op = "cancelClassic" => call.id \notin LiveIn("algo")
  BY TypeIsTyped DEF Typed, CancelAlgo, CancelClassic, CallKnows, Cancels
<1>2. Id \subseteq Id' /\ \A i \in Id : i \in Live' => i \in Live
  BY OrdersOnlyEnd
<1>3. ASSUME NEW done \in Flag, NEW clean \in Flag, CancelReturns(done, clean),
             done /\ clean => call.id \in Live,
             clean => call.id \notin Live'
      PROVE  CallKnows' /\ ClientIsHonest'
  <2>1. call' = NoCall
    BY <1>3 DEF CancelReturns
  <2>2. CASE answer' = answer
    <3>1. CallKnows'
      BY <2>1, <2>2, KnowledgeStays, Blank DEF CallKnows, Verifies, Cancels
    <3>2. QED
      BY <2>2, <3>1, KnowledgeStays
  <2>3. CASE /\ answer'.op = "cancel" /\ answer'.id = call.id
             /\ answer'.value = IF done THEN "ok" ELSE "raise"
             /\ answer'.clean = clean /\ answer'.wasLive = call.wasLive
    <3>1. CallKnows'
      BY <1>1, <1>2, <2>1, <2>3, Blank DEF CallKnows, Verifies, Cancels
    <3>2. ClientIsHonest'
      BY <1>1, <1>3, <2>3 DEF ClientIsHonest, CancelHonest
    <3>3. QED
      BY <3>1, <3>2
  <2>4. QED
    BY <1>1, <1>3, <2>2, <2>3, CancelEffect
<1>4. TRUE \in Flag /\ FALSE \in Flag
  BY DEF Flag
<1>5. ASSUME NEW api \in Services, DeleteAnswered(api)
      PROVE  CallKnows' /\ ClientIsHonest'
  <2>1. call.id \in Live /\ Live' = Live \ {call.id}
    BY <1>1, <1>5, BookEnds DEF DeleteAnswered, Delete, LiveIn, ClientTypeOK
  <2>2. QED
    BY <1>3, <1>4, <1>5, <2>1 DEF DeleteAnswered
<1>6. CASE CancelReturns(FALSE, FALSE) \/ CancelReturns(TRUE, FALSE)
  BY <1>3, <1>4, <1>6
<1>7. CASE CancelUnknown
  <2>1. call'.op = "cancelClassic" /\ call'.id = call.id /\ call'.wasLive = call.wasLive
    BY <1>1, <1>7 DEF CancelUnknown, CallRec
  <2>2. Id' = Id /\ Live' = Live /\ LiveIn("algo")' = LiveIn("algo") /\ answer' = answer
        /\ call.id \notin LiveIn("algo")
    BY <1>7 DEF CancelUnknown, Id, Live, LiveIn
  <2>3. CallKnows'
    BY <1>1, <2>1, <2>2, KnowledgeStays DEF CallKnows, Verifies, Cancels
  <2>4. QED
    BY <2>2, <2>3, KnowledgeStays
<1>8. CASE call.op = "cancelClassic" /\ call.id \notin LiveIn("classic") /\ CancelReturns(FALSE, TRUE)
  <2>1. book[call.id].api \in Services
    BY <1>1, OrderService
  <2>2. call.id \notin Live
    BY <1>1, <1>8, <2>1 DEF LiveIn, Services
  <2>3. QED
    BY <1>1, <1>2, <1>3, <1>4, <1>8, <2>2
<1>9. QED
  BY <1>5, <1>6, <1>7, <1>8 DEF CancelAlgo, CancelClassic, DeleteAnswerLost, DeleteRefused, DeleteMisread, Services

\* Every step keeps what the call knows, and the answers honest.
LEMMA KnowsStep ==
  ASSUME ClientTypeOK, CallKnows, ClientIsHonest, [Next]_vars
  PROVE  CallKnows' /\ ClientIsHonest'
<1>1. Typed /\ Id \subseteq Nat /\ Id \subseteq Id'
  BY TypeIsTyped, OrdersOnlyEnd DEF Id, ClientTypeOK
\* A call that is none of verify and cancel knows nothing.
<1>2. ASSUME call'.op \in {"none", "place"},
             answer' = answer \/ answer'.op \in {"none", "place", "sweep"}
      PROVE  CallKnows' /\ ClientIsHonest'
  <2>1. CASE answer' = answer
    BY <1>2, <2>1, KnowledgeStays DEF CallKnows, Verifies, Cancels
  <2>2. CASE answer'.op \in {"none", "place", "sweep"}
    BY <1>2, <2>2 DEF CallKnows, Verifies, Cancels, ClientIsHonest
  <2>3. QED
    BY <1>2, <2>1, <2>2
<1>3. CASE call' = call /\ answer' = answer
  BY <1>3, KnowledgeStays
<1>4. ASSUME NEW kind \in Kind, NEW raw \in Quantities, NEW price \in Triggers,
             BeginPlace(kind, raw, price)
      PROVE  CallKnows' /\ ClientIsHonest'
  <2>1. call.op = "none"
    BY <1>4 DEF BeginPlace, Idle
  <2>2. QED
    BY <1>2, <1>4, <2>1, BeginPlaceEffect, Blank
<1>5. CASE PlaceTier
  <2>1. call \in CallRec /\ call.op = "place" /\ call.step \in 1..4
    BY <1>1, <1>5 DEF PlaceTier, Typed
  <2>2. ASSUME NEW clean \in Flag, NextTier(clean)
        PROVE  CallKnows' /\ ClientIsHonest'
    BY <1>2, <2>1, <2>2, NextTierEffect, Blank
  <2>3. TRUE \in Flag /\ FALSE \in Flag
    BY DEF Flag
  <2>4. CASE PlaceAccepted
    BY <1>2, <2>4, Blank DEF PlaceAccepted, Answer
  <2>5. QED
    BY <1>5, <2>2, <2>3, <2>4 DEF PlaceTier, PlaceAnswerLost, PlaceRefused
<1>6. CASE VerifyAlgoList \/ VerifyClassicList
  BY <1>6, VerifyKnows
<1>7. CASE CancelAlgo \/ CancelClassic
  BY <1>7, CancelKnows
\* A call that begins knows whether its order is live.
<1>8. ASSUME NEW i \in Id, call'.op \in {"verifyAlgo", "cancelAlgo"}, call'.id = i,
             i \in Live => call'.wasLive, Live' = Live, Id' = Id,
             answer' = answer \/ answer'.op = "none"
      PROVE  CallKnows' /\ ClientIsHonest'
  <2>1. CASE answer' = answer
    BY <1>8, <2>1, KnowledgeStays DEF CallKnows, Verifies, Cancels
  <2>2. CASE answer'.op = "none"
    BY <1>8, <2>2 DEF CallKnows, Verifies, Cancels, ClientIsHonest
  <2>3. QED
    BY <1>8, <2>1, <2>2
<1>9. ASSUME NEW i \in tracked, BeginVerify(i) \/ BeginCancel(i)
      PROVE  CallKnows' /\ ClientIsHonest'
  <2>1. i \in Id /\ i \in Nat
    BY <1>1 DEF Typed
  <2>2. Live' = Live /\ Id' = Id /\ answer' = NoAnswer
    BY <1>9 DEF BeginVerify, BeginCancel, exchange, Live, Id
  <2>3. call'.op \in {"verifyAlgo", "cancelAlgo"} /\ call'.id = i /\ (i \in Live => call'.wasLive)
    BY <1>9, <2>1, StartVerifyEffect, StartCancelEffect DEF BeginCancel
  <2>4. QED
    BY <1>8, <2>1, <2>2, <2>3, Blank
<1>10. ASSUME NEW i \in sweep.todo, SweepOne(i)
       PROVE  CallKnows' /\ ClientIsHonest'
  <2>1. i \in Id /\ i \in Nat
    BY <1>1 DEF Typed
  <2>2. Live' = Live /\ Id' = Id /\ answer' = answer
    BY <1>10 DEF SweepOne, exchange, Live, Id
  <2>3. call'.op = "cancelAlgo" /\ call'.id = i /\ (i \in Live => call'.wasLive)
    BY <1>10, <2>1, StartCancelEffect DEF SweepOne
  <2>4. QED
    BY <1>8, <2>1, <2>2, <2>3
<1>11. CASE BeginSweep \/ SweepEnds
  <2>1. call' = call /\ call.op = "none"
    BY <1>11 DEF BeginSweep, SweepEnds, Idle
  <2>2. answer'.op \in {"none", "sweep"}
    <3>1. CASE BeginSweep
      BY <3>1, Blank DEF BeginSweep
    <3>2. CASE SweepEnds
      BY <3>2 DEF SweepEnds
    <3>3. QED
      BY <1>11, <3>1, <3>2
  <2>3. QED
    BY <1>2, <2>1, <2>2
<1>12. CASE SweepClassic \/ Environment \/ UNCHANGED vars
  BY <1>3, <1>12 DEF SweepClassic, Environment, RulesChange, TimePasses, OrderEnds, vars, history
<1>13. QED
  BY <1>4, <1>5, <1>6, <1>7, <1>9, <1>10, <1>11, <1>12 DEF Next, Engine, Client

\* Every step keeps what the sweep knows, and its answer true.
LEMMA SweepStep ==
  ASSUME ClientTypeOK, CallKnows, SweepKnows, SweepLeavesNothing, [Next]_vars
  PROVE  SweepKnows' /\ SweepLeavesNothing'
<1>1. /\ Typed /\ Id \subseteq Nat /\ Id \subseteq Id'
      /\ call \in CallRec /\ sweep \in SweepRec /\ sweep.from \subseteq Id
  BY TypeIsTyped, OrdersOnlyEnd DEF Typed, Id, ClientTypeOK
<1>2. /\ \A i \in Id : i \in Live' => i \in Live
      /\ \A i \in Id : book'[i].api = book[i].api
  BY OrdersOnlyEnd
<1>3. answer' = answer \/ answer'.op # "sweep" => SweepLeavesNothing'
  BY DEF SweepLeavesNothing
<1>4. ASSUME sweep' = sweep, call' = call \/ ~sweep.on
      PROVE  SweepKnows'
  BY <1>1, <1>2, <1>4 DEF SweepKnows
<1>5. ASSUME NEW kind \in Kind, NEW raw \in Quantities, NEW price \in Triggers,
             BeginPlace(kind, raw, price)
      PROVE  SweepKnows' /\ SweepLeavesNothing'
  <2>1. sweep' = sweep /\ ~sweep.on
    BY <1>5 DEF BeginPlace, Idle
  <2>2. answer'.op # "sweep"
    BY <1>5, BeginPlaceEffect, Blank
  <2>3. QED
    BY <1>3, <1>4, <2>1, <2>2
<1>6. CASE PlaceTier
  <2>1. /\ call \in CallRec /\ call.op = "place" /\ call.step \in 1..4
        /\ sweep' = sweep /\ ~sweep.on
    BY <1>1, <1>6 DEF PlaceTier, Typed, SweepKnows, Cancels
  <2>2. ASSUME NEW clean \in Flag, NextTier(clean)
        PROVE  answer' = answer \/ answer'.op # "sweep"
    BY <2>1, <2>2, NextTierEffect
  <2>3. TRUE \in Flag /\ FALSE \in Flag
    BY DEF Flag
  <2>4. answer' = answer \/ answer'.op # "sweep"
    <3>1. CASE PlaceAccepted
      BY <3>1 DEF PlaceAccepted, Answer
    <3>2. QED
      BY <1>6, <2>2, <2>3, <3>1 DEF PlaceTier, PlaceAnswerLost, PlaceRefused
  <2>5. QED
    BY <1>3, <1>4, <2>1, <2>4
<1>7. CASE VerifyAlgoList \/ VerifyClassicList
  <2>1. sweep' = sweep /\ ~sweep.on
    BY <1>7 DEF VerifyAlgoList, VerifyClassicList, SweepKnows, Cancels
  <2>2. answer' = answer \/ answer'.op = "verify"
    BY <1>1, <1>7, VerifyListEffect DEF Typed
  <2>3. QED
    BY <1>3, <1>4, <2>1, <2>2
<1>8. CASE CancelAlgo \/ CancelClassic
  <2>1. call.op \in Cancels /\ call.id \in Id
    BY <1>8 DEF CancelAlgo, CancelClassic, CallKnows, Cancels
  <2>2. ASSUME NEW done \in Flag, NEW clean \in Flag, CancelReturns(done, clean),
               clean => call.id \notin Live'
        PROVE  SweepKnows' /\ SweepLeavesNothing'
    <3>1. CASE ~sweep.on
      BY <1>1, <1>3, <1>4, <2>2, <3>1, CancelEffect
    <3>2. CASE sweep.on
      <4>1. /\ call' = NoCall /\ answer' = answer
            /\ sweep'.api = sweep.api /\ sweep'.todo = sweep.todo /\ sweep'.from = sweep.from
            /\ sweep'.clean => sweep.clean /\ clean
        BY <1>1, <2>2, <3>2, CancelEffect
      <4>2. call'.op = "none"
        BY <4>1, Blank
      <4>3. ASSUME sweep'.clean, NEW i \in sweep'.from, i \in Live'
            PROVE  \/ i \in sweep'.todo
                   \/ sweep'.api = "algo" /\ book'[i].api = "classic"
        <5>1. i \in sweep.from /\ i \in Id /\ i \in Live /\ i # call.id /\ book'[i].api = book[i].api
          BY <1>1, <1>2, <2>2, <4>1, <4>3
        <5>2. QED
          BY <3>2, <4>1, <4>3, <5>1 DEF SweepKnows
      <4>4. SweepKnows'
        BY <4>2, <4>3 DEF SweepKnows
      <4>5. QED
        BY <1>3, <4>1, <4>4
    <3>3. QED
      BY <3>1, <3>2
  <2>3. TRUE \in Flag /\ FALSE \in Flag
    BY DEF Flag
  <2>4. ASSUME NEW api \in Services, DeleteAnswered(api)
        PROVE  SweepKnows' /\ SweepLeavesNothing'
    <3>1. Live' = Live \ {call.id}
      BY <2>1, <2>4, BookEnds DEF DeleteAnswered, Delete, ClientTypeOK
    <3>2. QED
      BY <2>2, <2>3, <2>4, <3>1 DEF DeleteAnswered
  <2>5. CASE CancelReturns(FALSE, FALSE) \/ CancelReturns(TRUE, FALSE)
    BY <2>2, <2>3, <2>5
  <2>6. CASE CancelUnknown
    <3>1. call'.op = "cancelClassic" /\ call'.id = call.id /\ sweep' = sweep /\ answer' = answer
      BY <1>1, <2>6 DEF CancelUnknown, CallRec
    <3>2. SweepKnows'
      BY <1>1, <1>2, <2>1, <3>1 DEF SweepKnows, Cancels
    <3>3. QED
      BY <1>3, <3>1, <3>2
  <2>7. CASE call.op = "cancelClassic" /\ call.id \notin LiveIn("classic") /\ CancelReturns(FALSE, TRUE)
    <3>1. call.id \notin LiveIn("algo") /\ book[call.id].api \in Services
      BY <2>1, <2>7, OrderService DEF CallKnows
    <3>2. call.id \notin Live'
      BY <1>2, <2>1, <2>7, <3>1 DEF LiveIn, Services
    <3>3. QED
      BY <2>2, <2>3, <2>7, <3>2
  <2>8. QED
    BY <1>8, <2>4, <2>5, <2>6, <2>7
       DEF CancelAlgo, CancelClassic, DeleteAnswerLost, DeleteRefused, DeleteMisread, Services
<1>9. ASSUME NEW i \in tracked, BeginVerify(i) \/ BeginCancel(i)
      PROVE  SweepKnows' /\ SweepLeavesNothing'
  <2>1. sweep' = sweep /\ ~sweep.on /\ answer' = NoAnswer
    BY <1>9 DEF BeginVerify, BeginCancel, Idle
  <2>2. QED
    BY <1>3, <1>4, <2>1, Blank
<1>10. CASE BeginSweep
  <2>1. /\ call'.op = "none" /\ answer' = NoAnswer /\ book' = book
    BY <1>10 DEF BeginSweep, Idle, exchange
  <2>2. /\ sweep'.from = Live /\ sweep'.api = "algo"
        /\ sweep'.clean => sweep'.todo = LiveIn("algo")
    BY <1>1, <1>10, BeginSweepEffect
  <2>3. \A i \in Live : book[i].api = "classic" \/ i \in LiveIn("algo")
    BY OrderService DEF LiveIn, Live, Services
  <2>4. SweepKnows'
    BY <2>1, <2>2, <2>3 DEF SweepKnows
  <2>5. QED
    BY <1>3, <2>1, <2>4, Blank
<1>11. ASSUME NEW j \in sweep.todo, SweepOne(j)
       PROVE  SweepKnows' /\ SweepLeavesNothing'
  <2>1. /\ sweep.on /\ answer' = answer /\ book' = book /\ Live' = Live
        /\ sweep' = [sweep EXCEPT !.todo = @ \ {j}]
    BY <1>11 DEF SweepOne, exchange, Live, Id
  <2>2. /\ sweep'.todo = sweep.todo \ {j} /\ sweep'.from = sweep.from
        /\ sweep'.api = sweep.api /\ sweep'.clean = sweep.clean
    BY <1>1, <2>1 DEF SweepRec
  <2>3. call'.op \in Cancels /\ call'.id = j /\ call.op \notin Cancels
    <3>1. j \in Nat
      BY <1>1 DEF Typed
    <3>2. QED
      BY <1>11, <3>1, StartCancelEffect DEF SweepOne, Cancels
  <2>4. SweepKnows'
    BY <2>1, <2>2, <2>3 DEF SweepKnows
  <2>5. QED
    BY <1>3, <2>1, <2>4
<1>12. CASE SweepClassic
  <2>1. /\ sweep.on /\ call' = call /\ call.op = "none" /\ sweep.todo = {} /\ sweep.api = "algo"
        /\ answer' = answer /\ book' = book /\ Live' = Live
    BY <1>12 DEF SweepClassic, exchange, history, Live, Id
  <2>2. /\ sweep'.from = sweep.from /\ sweep'.api = "classic"
        /\ sweep'.clean => sweep.clean /\ sweep'.todo = LiveIn("classic")
    BY <1>1, <1>12, SweepClassicEffect
  <2>3. ASSUME sweep'.clean
        PROVE  \A i \in sweep.from \cap Live : i \in sweep'.todo
    <3>1. \A i \in sweep.from \cap Live : book[i].api = "classic"
      BY <2>1, <2>2, <2>3 DEF SweepKnows, Cancels
    <3>2. QED
      BY <2>2, <2>3, <3>1 DEF LiveIn
  <2>4. SweepKnows'
    BY <2>1, <2>2, <2>3 DEF SweepKnows
  <2>5. QED
    BY <1>3, <2>1, <2>4
<1>13. CASE SweepEnds
  <2>1. /\ sweep.on /\ call.op = "none" /\ sweep.todo = {} /\ sweep.api = "classic"
        /\ sweep' = NoSweep
    BY <1>13 DEF SweepEnds
  <2>2. answer'.clean = sweep.clean /\ answer'.wasLive = (sweep.from \cap Live # {})
    BY <1>1, <1>13, SweepEndsEffect
  <2>3. sweep.clean => sweep.from \cap Live = {}
    BY <2>1 DEF SweepKnows, Cancels
  <2>4. SweepKnows'
    BY <2>1, Blank DEF SweepKnows
  <2>5. SweepLeavesNothing'
    BY <2>2, <2>3 DEF SweepLeavesNothing
  <2>6. QED
    BY <2>4, <2>5
<1>14. CASE Environment \/ UNCHANGED vars
  <2>1. sweep' = sweep /\ call' = call /\ answer' = answer
    BY <1>14 DEF Environment, RulesChange, TimePasses, OrderEnds, vars, history
  <2>2. QED
    BY <1>3, <1>4, <2>1
<1>15. QED
  BY <1>5, <1>6, <1>7, <1>8, <1>9, <1>10, <1>11, <1>12, <1>13, <1>14 DEF Next, Engine, Client

-----------------------------------------------------------------------------
(***************************************************************************)
(* The invariant.                                                          *)
(***************************************************************************)
LEMMA ClientInvInit == Init => ClientInv
<1>1. ASSUME Init
      PROVE  ClientInv
  <2>1. Id = {} /\ Live = {}
    BY <1>1 DEF Init, Id, Live
  <2>2. ClientTypeOK
    <3>1. book \in Seq(Order) /\ rules \in RuleSet /\ changes \in 0..MaxRules
      BY <1>1, ClientAssumption DEF Init, ClientAssumption
    <3>2. cache \in [filters : RuleSet \cup {NoFilters}, age : 0..FilterTtl]
      BY <1>1, ClientAssumption DEF Init, ClientAssumption
    <3>3. QED
      BY <1>1, <2>1, <3>1, <3>2, Blank, RecordTypes DEF Init, ClientTypeOK
  <2>3. /\ call = NoCall /\ sweep = NoSweep /\ answer = NoAnswer
    BY <1>1 DEF Init
  <2>4. CallKnows /\ SweepKnows /\ PlacingUnanswered
    BY <2>3, Blank DEF CallKnows, SweepKnows, PlacingUnanswered, Verifies, Cancels
  <2>5. StraysOnlyBehindLostAnswers /\ ClientIsHonest /\ SweepLeavesNothing
    BY <2>1, <2>3, Blank DEF StraysOnlyBehindLostAnswers, ClientIsHonest, SweepLeavesNothing
  <2>6. QED
    BY <2>2, <2>4, <2>5 DEF ClientInv
<1>2. QED
  BY <1>1

LEMMA ClientInvStep == ClientInv /\ [Next]_vars => ClientInv'
BY TypeStep, KnowsStep, SweepStep, PlacingStep, StraysStep DEF ClientInv

LEMMA ClientInvariant == Spec => []ClientInv
BY ClientInvInit, ClientInvStep, PTL DEF Spec

(***************************************************************************)
(* The variables of the client and of the exchange have their types, for   *)
(* every number of orders and of changes of the rules.                     *)
(***************************************************************************)
THEOREM ClientTyped == Spec => []ClientTypeOK
BY ClientInvariant, PTL DEF ClientInv

(***************************************************************************)
(* place_stop_market_order and place_take_profit_market_order, with four   *)
(* tiers each of which may have been carried out: an order the engine does *)
(* not know exists only behind an answer that was lost.                    *)
(***************************************************************************)
THEOREM StraysBehindLostAnswers == Spec => []StraysOnlyBehindLostAnswers
BY ClientInvariant, PTL DEF ClientInv

(***************************************************************************)
(* verify_algo_order_with_backoff and cancel_order claim only what the     *)
(* exchange has shown, however many attempts are made and whatever fails.  *)
(***************************************************************************)
THEOREM HonestClient == Spec => []ClientIsHonest
BY ClientInvariant, PTL DEF ClientInv

(***************************************************************************)
(* cancel_all_algo_orders leaves no order that was live when it began,     *)
(* unless one of its lists or cancels failed.                              *)
(***************************************************************************)
THEOREM SweepComplete == Spec => []SweepLeavesNothing
BY ClientInvariant, PTL DEF ClientInv

-----------------------------------------------------------------------------
\* Rounding down loses no order: when the result is no amount, none below the
\* raw quantity is one.
LEMMA FlooringIsExact ==
  ASSUME NEW raw \in Nat, NEW step \in Nat \ {0}, NEW min \in Nat,
         NEW q \in 1..raw, q % step = 0, q >= min
  PROVE  LET floored == FloorToStep(raw, step) IN floored > 0 /\ floored >= min
<1> DEFINE a == q \div step
           b == raw \div step
<1>1. a \in Int /\ b \in Int /\ q = step * a + (q % step)
  OBVIOUS
<1>2. q = step * a
  BY <1>1
<1>3. raw = step * b + (raw % step) /\ raw % step \in 0..(step - 1)
  OBVIOUS
<1>4. a <= b
  <2>1. SUFFICES ASSUME b + 1 <= a PROVE FALSE
    BY <1>1
  <2>2. step * (b + 1) <= step * a
    BY <1>1, <2>1
  <2>3. step * (b + 1) = step * b + step
    BY <1>1
  <2>4. QED
    BY <1>1, <1>2, <1>3, <2>2, <2>3
<1>5. step * a <= step * b
  BY <1>1, <1>4
<1>6. FloorToStep(raw, step) = b * step
  BY DEF FloorToStep
<1>7. b * step = step * b
  BY <1>1
<1>8. QED
  BY <1>1, <1>2, <1>5, <1>6, <1>7

\* With the filters in force, an amount or a trigger of 0 has its reason.
LEMMA RoundedToNothing ==
  ASSUME ClientAssumption, rules \in RuleSet, NEW raw \in Nat, NEW price \in Nat,
         \/ FormatQuantity(rules, raw) <= 0
         \/ StopTrigger(rules, "LONG", price) <= 0
         \/ TakeTrigger(rules, "LONG", price) <= 0
  PROVE  ~Orderable(raw) \/ price < rules.priceStep
<1> DEFINE tick == rules.priceStep
<1>1. rules.qtyStep \in Nat \ {0} /\ rules.qtyMin \in Nat /\ tick \in Nat \ {0}
  BY DEF ClientAssumption
<1>2. CASE FormatQuantity(rules, raw) <= 0
  <2>1. ASSUME NEW q \in 1..raw, q % rules.qtyStep = 0, q >= rules.qtyMin
        PROVE  FormatQuantity(rules, raw) > 0
    <3>1. /\ FloorToStep(raw, rules.qtyStep) > 0
          /\ FloorToStep(raw, rules.qtyStep) >= rules.qtyMin
      BY <1>1, <2>1, FlooringIsExact
    <3>2. FloorToStep(raw, rules.qtyStep) \in Int
      BY <1>1 DEF FloorToStep
    <3>3. QED
      BY <1>1, <3>1, <3>2 DEF FormatQuantity
  <2>2. FormatQuantity(rules, raw) \in Int
    <3>1. rules \in Filters
      BY <1>1 DEF ClientAssumption, Filters
    <3>2. QED
      BY <3>1, FormattedInt
  <2>3. QED
    BY <1>2, <2>1, <2>2 DEF Orderable
<1>3. ASSUME price >= tick
      PROVE  StopTrigger(rules, "LONG", price) > 0 /\ TakeTrigger(rules, "LONG", price) > 0
  <2>1. price \in 1..price /\ tick \in 1..price /\ tick % tick = 0
    BY <1>1, <1>3
  <2>2. FloorToStep(price, tick) > 0
    BY <1>1, <2>1, FlooringIsExact
  <2>3. /\ (-price) \div tick \in Int
        /\ -price = tick * ((-price) \div tick) + ((-price) % tick)
        /\ (-price) % tick \in 0..(tick - 1)
    BY <1>1
  <2>4. tick * ((-price) \div tick) < 0
    BY <1>1, <1>3, <2>3
  <2>5. FloorToStep(-price, tick) < 0
    BY <1>1, <2>3, <2>4 DEF FloorToStep
  <2>6. FloorToStep(-price, tick) \in Int
    BY <1>1, <2>3 DEF FloorToStep
  <2>7. CeilToStep(price, tick) > 0
    BY <1>1, <2>5, <2>6 DEF CeilToStep
  <2>8. QED
    BY <2>2, <2>7 DEF StopTrigger, TakeTrigger, FormatPrice
<1>4. CASE ~(price < tick)
  <2>1. StopTrigger(rules, "LONG", price) \in Int /\ TakeTrigger(rules, "LONG", price) \in Int
    <3>1. rules \in Filters
      BY <1>1 DEF ClientAssumption, Filters
    <3>2. QED
      BY <3>1, FormattedInt
  <2>2. QED
    BY <1>1, <1>2, <1>3, <1>4, <2>1
<1>5. QED
  BY <1>4

\* A lookup that starts from the filters in force ends with them.
LEMMA FreshStaysFresh ==
  ASSUME NEW c, c.filters = rules, NEW d \in LoadExchangeInfo(c)
  PROVE  d.filters = rules
BY DEF LoadExchangeInfo

(***************************************************************************)
(* place_stop_market_order and place_take_profit_market_order, when nothing *)
(* is refused or lost: the last tier sends no quantity, so that tiers that *)
(* are tried fail only by a trigger off the tick; and a placement that     *)
(* tries none was given filters that are missing or out of date, too small *)
(* an amount, or a price below the tick.                                   *)
(***************************************************************************)
THEOREM FailsForCause == Spec => PlacementFailsForCause
<1>1. ASSUME ClientInv, Next, call.op = "place", answer'.value = "raise", answer'.clean
      PROVE  call.trigger % rules.priceStep # 0
  <2>1. /\ ClientTypeOK /\ CallKnows /\ answer = NoAnswer
        /\ call \in CallRec /\ call.step \in 1..4 /\ ~sweep.on
    BY <1>1, TypeIsTyped DEF ClientInv, PlacingUnanswered, Typed, SweepKnows, Cancels
  <2>2. answer' # answer
    BY <1>1, <2>1, Blank
  <2>3. PlaceTier
    BY <1>1, <2>1, <2>2
       DEF Next, Engine, Client, Environment, BeginPlace, BeginVerify, BeginCancel, BeginSweep, Idle,
           VerifyAlgoList, VerifyClassicList, CancelAlgo, CancelClassic, SweepOne, SweepClassic,
           SweepEnds, RulesChange, TimePasses, OrderEnds, history
  <2>4. TRUE \in Flag /\ FALSE \in Flag
    BY DEF Flag
  <2>5. ~PlaceAccepted
    BY <1>1 DEF PlaceAccepted, Answer
  <2>6. ~NextTier(FALSE)
    BY <1>1, <2>1, <2>2, <2>4, NextTierEffect
  <2>7. ~WellFormed(Tiers[call.step].scope) /\ NextTier(TRUE)
    BY <2>3, <2>5, <2>6 DEF PlaceTier, PlaceAnswerLost, PlaceRefused
  <2>8. call.step = 4
    BY <1>1, <2>1, <2>2, <2>4, <2>7, NextTierEffect
  <2>9. Tiers[4].scope = "position"
    BY DEF Tiers
  <2>10. QED
    BY <2>7, <2>8, <2>9 DEF WellFormed
<1>2. ASSUME ClientInv, NEW kind \in Kind, NEW raw \in Quantities, NEW price \in Triggers,
             BeginPlace(kind, raw, price), answer'.op = "place", cache.filters = rules
      PROVE  ~Orderable(raw) \/ price < rules.priceStep
  <2>1. PICK c \in LoadExchangeInfo(cache) : \E d \in LoadExchangeInfo(c) :
          \/ FormatQuantity(c.filters, raw) <= 0
          \/ StopTrigger(d.filters, "LONG", price) <= 0
          \/ TakeTrigger(d.filters, "LONG", price) <= 0
    <3>1. answer' # NoAnswer
      BY <1>2, Blank
    <3>2. QED
      BY <1>2, <3>1 DEF BeginPlace
  <2>2. c.filters = rules
    BY <1>2, <2>1, FreshStaysFresh
  <2>3. PICK d \in LoadExchangeInfo(c) :
          \/ FormatQuantity(c.filters, raw) <= 0
          \/ StopTrigger(d.filters, "LONG", price) <= 0
          \/ TakeTrigger(d.filters, "LONG", price) <= 0
    BY <2>1
  <2>4. d.filters = rules
    BY <2>2, <2>3, FreshStaysFresh
  <2>5. rules \in RuleSet /\ raw \in Nat /\ price \in Nat
    BY <1>2, ClientAssumption DEF ClientInv, ClientTypeOK, ClientAssumption
  <2>6. QED
    BY <2>2, <2>3, <2>4, <2>5, RoundedToNothing, ClientAssumption
<1>3. ClientInv /\ [Next]_vars
        => [answer'.op = "place" /\ answer'.value = "raise" /\ answer'.clean => RaisedForCause]_vars
  BY <1>1, <1>2 DEF RaisedForCause
<1>4. QED
  BY <1>3, ClientInvariant, PTL DEF Spec, PlacementFailsForCause
===============================================================================
