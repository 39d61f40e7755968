---------------------------- MODULE MarketStream ----------------------------
(***************************************************************************)
(* The market data of one symbol: BinanceMarketStream of                   *)
(* backend/app/core/market/binance_market_stream.py and the state the      *)
(* StrategyEngine and its RegimeClassifier keep between two evaluations.   *)
(*                                                                         *)
(* Three activities share one deque of candles and one StrategyEngine: the *)
(* WebSocket loop, the start of the service, and a thread that every       *)
(* minute merges the last bars from REST.  The thread is not part of the   *)
(* event loop: it may run between any two statements of the others.        *)
(*                                                                         *)
(* A bar is named by its age: 0 is the bar that is forming, 1 the last one *)
(* that closed; all bars of age Horizon and more are one.                  *)
(***************************************************************************)
EXTENDS Integers, Sequences, SequencesExt

CONSTANTS
  Mode,            \* _strategy_mode
  Buffer,          \* MAX_CANDLE_BUFFER
  Rows,            \* complete rows of a REST refresh, 7 of 8
  Horizon,         \* bound: the oldest age that is told apart
  ConfirmTrend,    \* TRENDING_CONFIRM_BARS
  ConfirmRange,    \* RANGING_CONFIRM_BARS
  CooldownTrend,   \* _COOLDOWN_BARS_TRENDING
  MarketFaults     \* the failures of this stream that may happen

MarketFaultKind == {
  "disconnect",   \* the WebSocket is refused or lost, with what it carried
  "equity" }      \* equity is 0 or cannot be read

ASSUME MarketAssumption ==
  /\ Mode \in {"TRENDING", "RANGING"}
  /\ Buffer \in Nat \ {0, 1} /\ Rows \in Nat \ {0}
  /\ Horizon \in Nat /\ Horizon > Rows + 1
  /\ ConfirmTrend \in Nat \ {0} /\ ConfirmRange \in Nat \ {0} /\ CooldownTrend \in Nat
  /\ MarketFaults \subseteq MarketFaultKind

VARIABLES
  candles,      \* _candles, oldest first
  stage,        \* how far the start of the engine and its stream has come
  link,         \* the WebSocket of _run_loop
  inbox,        \* the message of the bar that closed last waits in it
  copying,      \* _run_loop has appended a candle and not copied the deque yet
  refresh,      \* the thread of _periodic_insight_refresh_loop
  strategy,     \* _active_regime, _regime_switch_cooldown
  classifier,   \* _current_regime, _regime_counter
  holding,      \* the engine has a position
  verdict,      \* history: what the engine did at the last message
  fresh,        \* history: a refresh has merged the bar that closed last
  gap           \* history: a bar closed while fresh was still FALSE

marketVars   == <<candles, stage, link, inbox, copying, refresh>>
strategyVars == <<strategy, classifier, holding, verdict>>
freshVars    == <<fresh, gap>>
streamVars   == <<marketVars, strategyVars, freshVars>>

-----------------------------------------------------------------------------
MarketFault(f) == f \in MarketFaults
Bar == [age : 0..Horizon, final : BOOLEAN]
Regime == {"TRENDING", "RANGING"}
Older(age) == IF age < Horizon THEN age + 1 ELSE Horizon
NoRefresh == [pc |-> "idle", rows |-> <<>>, act |-> "none", behind |-> FALSE]

\* deque(maxlen=MAX_CANDLE_BUFFER).append
Push(s, bar) ==
  IF Len(s) < Buffer THEN Append(s, bar) ELSE Append(Tail(s), bar)

Newest == Last(candles)
Aged(bars)  == [i \in DOMAIN bars |-> [bars[i] EXCEPT !.age = Older(@)]]
Closed(age) == [age |-> age, final |-> TRUE]

-----------------------------------------------------------------------------
(***************************************************************************)
(* RegimeClassifier.evaluate: score >= 2 is a vote for TRENDING.           *)
(***************************************************************************)
Confirm(regime) == IF regime = "TRENDING" THEN ConfirmTrend ELSE ConfirmRange

Classify(c, vote) ==
  IF vote = c.regime THEN [c EXCEPT !.counter = 0]
  ELSE IF c.counter + 1 >= Confirm(vote) THEN [regime |-> vote, counter |-> 0]
  ELSE [c EXCEPT !.counter = @ + 1]

(***************************************************************************)
(* StrategyEngine.evaluate: what it returns and what it leaves behind.     *)
(* momentum, exit and signal are what the indicators say.                  *)
(***************************************************************************)
Switched(s) == s.active \notin {"none", Mode}

Decision(s, held, momentum, exit, signal) ==
  IF held
    THEN IF Switched(s) THEN "switch"
         ELSE IF Mode = "TRENDING" /\ exit THEN "exit" ELSE "nothing"
  ELSE IF /\ Mode = "TRENDING" /\ signal
          /\ s.cooldown = 0
          /\ Switched(s) => momentum \/ CooldownTrend = 0
    THEN "enter" ELSE "nothing"

AfterEvaluate(s, held, momentum) ==
  [active |-> Mode,
   cooldown |-> IF held THEN s.cooldown
                ELSE IF Switched(s) /\ Mode = "TRENDING" /\ ~momentum THEN CooldownTrend
                ELSE IF s.cooldown > 0 THEN s.cooldown - 1 ELSE 0]

\* evaluate_for_insight and its live variant write _active_regime as well.
Insight(s) == [s EXCEPT !.active = Mode]

-----------------------------------------------------------------------------
(***************************************************************************)
(* The start: the position sync looks at the market before any candle is   *)
(* buffered, then BinanceMarketStream.start fills the buffer and seeds the *)
(* insight, all in one step of the event loop.                             *)
(***************************************************************************)
PreEvaluate ==
  /\ stage = "sync"
  /\ stage' = "start"
  /\ \/ /\ holding
        /\ \E vote \in Regime :
             /\ classifier' = Classify(classifier, vote)
             /\ strategy' = [strategy EXCEPT !.active = classifier'.regime]
     \/ UNCHANGED <<classifier, strategy>>
  /\ UNCHANGED <<candles, link, inbox, copying, refresh, holding, verdict, freshVars>>

\* The last row of the answer is the bar that is still forming.
InitialKlines ==
  [i \in 1..Buffer |-> LET age == Buffer - i IN
     [age |-> IF age < Horizon THEN age ELSE Horizon, final |-> age > 0]]

\* Mutant: the insight is not seeded.
StartUnseeded ==
  /\ stage = "start"
  /\ stage' = "on" /\ link' = "connect"
  /\ candles' = InitialKlines
  /\ UNCHANGED <<inbox, copying, refresh, strategyVars, freshVars>>

Start ==
  /\ stage = "start"
  /\ stage' = "on" /\ link' = "connect"
  /\ candles' = InitialKlines
  /\ \E vote \in Regime : classifier' = Classify(classifier, vote)
  /\ strategy' = Insight(strategy)
  /\ UNCHANGED <<inbox, copying, refresh, holding, verdict, freshVars>>

-----------------------------------------------------------------------------
(***************************************************************************)
(* The exchange.  A bar takes 15 minutes: a message waits less than that,  *)
(* and a refresh, whose request has a timeout, sees at most one close.     *)
(***************************************************************************)
BarCloses ==
  /\ stage = "on" /\ ~inbox /\ ~copying
  /\ refresh.pc # "idle" => ~refresh.behind
  /\ candles' = Aged(candles)
  /\ inbox' = (link = "open")
  /\ refresh' = IF refresh.pc = "idle" THEN refresh
                ELSE [refresh EXCEPT !.rows = Aged(@),
                                     !.behind = TRUE]
  /\ verdict' = "nothing"
  /\ gap' = (gap \/ ~fresh)
  /\ fresh' = FALSE
  /\ UNCHANGED <<stage, link, copying, strategy, classifier, holding>>

MarketConnected ==
  /\ link = "connect"
  /\ link' = "open"
  /\ UNCHANGED <<candles, stage, inbox, copying, refresh, strategyVars, freshVars>>

\* What the socket held is lost with it.
MarketDisconnected ==
  /\ MarketFault("disconnect")
  /\ link \in {"connect", "open"} /\ ~copying
  /\ link' = "pause" /\ inbox' = FALSE
  /\ UNCHANGED <<candles, stage, copying, refresh, strategyVars, freshVars>>

MarketReconnects ==
  /\ link = "pause"
  /\ link' = "connect"
  /\ UNCHANGED <<candles, stage, inbox, copying, refresh, strategyVars, freshVars>>

-----------------------------------------------------------------------------
(***************************************************************************)
(* _run_loop: a closed candle is appended without a look at what is there. *)
(* Between the append and the copy the thread may run.                     *)
(***************************************************************************)
ClosedCandle ==
  /\ link = "open" /\ inbox /\ ~copying
  /\ candles' = Push(candles, Closed(1))
  /\ inbox' = FALSE
  /\ copying' = TRUE
  /\ UNCHANGED <<stage, link, refresh, strategyVars, freshVars>>

\* Without equity only the insight is updated, else on_candle_close evaluates
\* first: the classifier then counts the same bar twice.
HandOver ==
  /\ copying
  /\ copying' = FALSE
  /\ \E vote \in Regime :
       \/ /\ MarketFault("equity")
          /\ classifier' = Classify(classifier, vote)
          /\ strategy' = Insight(strategy)
          /\ UNCHANGED <<holding, verdict>>
       \/ /\ classifier' = Classify(Classify(classifier, vote), vote)
          /\ \E momentum, exit, signal \in BOOLEAN :
               /\ verdict' = Decision(strategy, holding, momentum, exit, signal)
               /\ strategy' = Insight(AfterEvaluate(strategy, holding, momentum))
          /\ holding' = CASE verdict' = "enter" -> TRUE
                          [] verdict' \in {"switch", "exit"} -> FALSE
                          [] OTHER -> holding
  /\ UNCHANGED <<candles, stage, link, inbox, refresh, freshVars>>

\* evaluate_ranging_intrabar, then the insight when 15 seconds are over.
FormingCandle ==
  /\ link = "open" /\ ~copying
  /\ \/ /\ strategy.active = "RANGING" /\ strategy.cooldown = 0 /\ ~holding
        /\ holding' = TRUE
        /\ verdict' = "enter"
     \/ UNCHANGED <<holding, verdict>>
  /\ \/ /\ \E vote \in Regime : classifier' = Classify(classifier, vote)
        /\ strategy' = Insight(strategy)
     \/ UNCHANGED <<classifier, strategy>>
  /\ UNCHANGED <<marketVars, freshVars>>

\* The exchange closes the position.
PositionCloses ==
  /\ holding /\ stage = "on"
  /\ holding' = FALSE
  /\ UNCHANGED <<marketVars, strategy, classifier, verdict, freshVars>>

-----------------------------------------------------------------------------
(***************************************************************************)
(* The refresh thread: the complete rows are merged one by one, each with  *)
(* a look at the last candle and a write to the deque.                     *)
(***************************************************************************)
\* Mutant: the row of the forming bar is merged as well.
RefreshFetchedWhole ==
  /\ stage = "on" /\ refresh.pc = "idle"
  /\ refresh' = [NoRefresh EXCEPT !.pc = "look", !.rows = [i \in 1..(Rows + 1) |-> [age |-> Rows + 1 - i, final |-> i <= Rows]]]
  /\ UNCHANGED <<candles, stage, link, inbox, copying, strategyVars, freshVars>>

\* Mutant: no refresh while the WebSocket is away.
RefreshFetchedConnected ==
  /\ stage = "on" /\ refresh.pc = "idle" /\ link = "open"
  /\ refresh' = [NoRefresh EXCEPT !.pc = "look", !.rows = [i \in 1..Rows |-> Closed(Rows + 1 - i)]]
  /\ UNCHANGED <<candles, stage, link, inbox, copying, strategyVars, freshVars>>

RefreshFetched ==
  /\ stage = "on" /\ refresh.pc = "idle"
  /\ refresh' = [NoRefresh EXCEPT !.pc = "look", !.rows = [i \in 1..Rows |-> Closed(Rows + 1 - i)]]
  /\ UNCHANGED <<candles, stage, link, inbox, copying, strategyVars, freshVars>>

\* A refresh that fails leaves everything as it is: nothing to model but that
\* RefreshFetched does not happen.
LookAtLast ==
  /\ refresh.pc = "look" /\ refresh.rows # <<>>
  /\ refresh' =
       IF Head(refresh.rows).age > Newest.age
         THEN [refresh EXCEPT !.rows = Tail(@)]
         ELSE [refresh EXCEPT !.pc = "write",
                 !.act = IF Head(refresh.rows).age = Newest.age THEN "replace" ELSE "append"]
  /\ UNCHANGED <<candles, stage, link, inbox, copying, strategyVars, freshVars>>

\* Mutant: a newer row replaces the last candle, too.
MergeRowReplaces ==
  /\ refresh.pc = "write"
  /\ candles' = [candles EXCEPT ![Len(candles)] = Head(refresh.rows)]
  /\ refresh' = [refresh EXCEPT !.pc = "look", !.rows = Tail(@), !.act = "none"]
  /\ UNCHANGED <<stage, link, inbox, copying, strategyVars, freshVars>>

MergeRow ==
  /\ refresh.pc = "write"
  /\ candles' = IF refresh.act = "replace"
                  THEN [candles EXCEPT ![Len(candles)] = Head(refresh.rows)]
                  ELSE Push(candles, Head(refresh.rows))
  /\ refresh' = [refresh EXCEPT !.pc = "look", !.rows = Tail(@), !.act = "none"]
  /\ UNCHANGED <<stage, link, inbox, copying, strategyVars, freshVars>>

\* The thread ends with an insight evaluation.
RefreshEnds ==
  /\ refresh.pc = "look" /\ refresh.rows = <<>>
  /\ refresh' = NoRefresh
  /\ fresh' = (fresh \/ ~refresh.behind)
  /\ \E vote \in Regime : classifier' = Classify(classifier, vote)
  /\ strategy' = Insight(strategy)
  /\ UNCHANGED <<candles, stage, link, inbox, copying, holding, verdict, gap>>

-----------------------------------------------------------------------------
MarketInit ==
  /\ candles = <<>> /\ stage = "sync" /\ link = "off" /\ inbox = FALSE
  /\ copying = FALSE /\ refresh = NoRefresh
  /\ strategy = [active |-> "none", cooldown |-> 0]
  /\ classifier = [regime |-> "RANGING", counter |-> 0]
  /\ holding \in BOOLEAN
  /\ verdict = "nothing"
  /\ fresh = TRUE /\ gap = FALSE

RefreshStep == LookAtLast \/ MergeRow \/ RefreshEnds

MarketNext ==
  \/ PreEvaluate \/ Start
  \/ BarCloses \/ MarketConnected \/ MarketDisconnected \/ MarketReconnects
  \/ ClosedCandle \/ HandOver \/ FormingCandle \/ PositionCloses
  \/ RefreshFetched \/ RefreshStep

(***************************************************************************)
(* Fairness: the thread is scheduled, and a refresh that is tried every    *)
(* minute succeeds at last.  Nothing is assumed of the WebSocket.          *)
(***************************************************************************)
MarketFairness ==
  /\ WF_streamVars(PreEvaluate) /\ WF_streamVars(Start)
  /\ WF_streamVars(RefreshStep) /\ WF_streamVars(RefreshFetched)

MarketSpec == MarketInit /\ [][MarketNext]_streamVars /\ MarketFairness
=============================================================================
