----------------------------- MODULE TradePlan -----------------------------
(***************************************************************************)
(* The prices and sizes of a trade, from the signal of a strategy to the   *)
(* close: what BFATEngine, BinanceExecutionClient and the position sync of *)
(* EngineService send to the exchange while the market moves between any   *)
(* two calls.                                                              *)
(*                                                                         *)
(* Module BFATEngine is about the calls that fail, this one about the      *)
(* numbers: here the exchange refuses an order only for its price or size, *)
(* a live order fires only while no handler is at work, and the close is   *)
(* recorded at once.  The StateMachine is module PositionStateMachine, its *)
(* methods called by the actions below.                                    *)
(***************************************************************************)
EXTENDS PositionStateMachine, Strategies

CONSTANTS
  Prices,           \* what the market may trade at
  TrendWindows,     \* closed candles before a trend entry, last close at 0
  RangeWindows,     \* closed candles while the market ranges
  Slips,            \* how much worse than the ticker a market order fills
  Equity,
  Filter,           \* the symbol's filters
  RestoredAtr,      \* ATR of the candles fetched at start
  RecoveryTenths,   \* EngineService._TP_ATR_MULTIPLIER, in tenths
  SafetyMargins,    \* _SAFETY_MARGINS, in thousandths, a sequence
  MaxEntries,       \* bound: entries begun
  MaxRestarts       \* bound: restarts of the process

Candle == [open : Int, high : Int, low : Int, close : Int, volume : Nat]

ASSUME PlanAssumption ==
  /\ Prices \subseteq Nat \ {0} /\ Slips \subseteq Nat
  /\ Filter \in Filters
  /\ TrendWindows \cup RangeWindows \subseteq Seq(Candle)
  /\ \A w \in TrendWindows : Last(w).close = 0
  /\ Equity \in Nat /\ RestoredAtr \in Nat /\ RecoveryTenths \in Nat
  /\ MaxEntries \in Nat /\ MaxRestarts \in Nat

ASSUME MarginsAssumption == 1 \in DOMAIN SafetyMargins

\* The candles of a window, the last of which closes at a price.
Ending(w, price) ==
  [i \in DOMAIN w |-> [w[i] EXCEPT !.open = @ + price, !.high = @ + price,
                                   !.low = @ + price, !.close = @ + price]]

\* What a market order may fill at, and the ATRs that an order is computed
\* from: those of the windows that trade, and the restored one.
FillPrices   == {p + s : p \in Prices, s \in Slips} \cup {p - s : p \in Prices, s \in Slips}
RangeTrades  == {w \in RangeWindows : EnoughForRange(w)}
TrendTrades  == {w \in {Ending(v, p) : v \in TrendWindows, p \in Prices} : EnoughForTrend(w)}
Atrs         == {RestoredAtr} \cup {Atr(w) : w \in RangeTrades \cup TrendTrades}

(***************************************************************************)
(* The unit of a price is fine enough, and the market calm enough, that    *)
(* what is added to a price is at least one unit, and what is subtracted   *)
(* from it less than the price.  An indicator of whole numbers is one.     *)
(***************************************************************************)
ASSUME UnitsAssumption ==
  /\ Filter.priceStep > 0
  /\ \A k \in {StopAtrTenths, TakeAtrTenths, RecoveryTenths} : k >= 10
  /\ Atrs \subseteq Nat /\ RestoredAtr > 0
  /\ \A w \in RangeTrades :
       /\ Atr(w) > 0
       /\ RangeContext(w) \in [high : Nat \ {0}, low : Nat \ {0}]
       /\ \A p \in Prices : StopBuffer(p, Atr(w)) < RangeContext(w).low
  /\ \A e \in Prices \cup FillPrices :
       /\ e > 0
       /\ \A i \in DOMAIN SafetyMargins : SafetyMargins[i] \in Nat /\ e * SafetyMargins[i] >= 1000
       /\ \A a \in Atrs, k \in {TrendStopTenths, TakeAtrTenths, RecoveryTenths} : Tenths(k, a) < e

VARIABLES
  market,      \* the last price, get_ticker_price
  bar,         \* high and low of the forming bar
  lot,         \* the exchange's position: side, size, average price
  stopOrder,   \* trigger price of the live stop, 0: none
  takeOrder,   \* trigger price of the live take profit, 0: none
  pc,          \* where the handler stands
  draft,       \* the locals of that handler
  scaledOut,   \* _be_scaleout_done
  plan,        \* history: what the position was planned with
  mode,        \* _strategy_mode of the engine, fixed for its life
  entries, restarts

planVars == <<vars, market, bar, lot, stopOrder, takeOrder, pc, draft, scaledOut,
              plan, mode, entries, restarts>>
exchangeVars == <<lot, stopOrder, takeOrder>>
marketVars   == <<market, bar>>
history      == <<plan, mode, entries, restarts>>

Modes   == {"TRENDING", "RANGING"}
NoLot   == [side |-> "NONE", size |-> 0, entry |-> 0]
NoDraft == [for |-> "nothing", size |-> 0, atr |-> 0, stop |-> 0, take |-> 0]
NoPlan  == [side |-> "NONE", budget |-> 0, estimate |-> 0, stop |-> 0]

\* The exchange refuses a trigger the market has already passed.
StopAccepted(side, trigger) == Worse(side, trigger, market)
TakeAccepted(side, trigger) == Worse(side, market, trigger)

PlanInit ==
  /\ Init
  /\ market \in Prices
  /\ bar = [high |-> market, low |-> market]
  /\ lot = NoLot /\ stopOrder = 0 /\ takeOrder = 0
  /\ pc = "idle" /\ draft = NoDraft /\ scaledOut = FALSE
  /\ mode \in Modes /\ plan = NoPlan /\ entries = 0 /\ restarts = 0

-----------------------------------------------------------------------------
(***************************************************************************)
(* The market.                                                             *)
(***************************************************************************)
Crossed(side, price, stop, take) ==
  \/ stop # 0 /\ ~Worse(side, stop, price)
  \/ take # 0 /\ ~Worse(side, price, take)

Moved(p) ==
  /\ market' = p
  /\ bar' = [high |-> Larger(bar.high, p), low |-> Lesser(bar.low, p)]
  /\ UNCHANGED history

Move(p) ==
  /\ p # market
  /\ lot.size > 0 => ~Crossed(lot.side, p, stopOrder, takeOrder)
  /\ Moved(p)
  /\ UNCHANGED <<vars, exchangeVars, pc, draft, scaledOut>>

\* A protective order fires; on_position_closed begins.
Fire(p) ==
  /\ pc = "idle" /\ state = "OPEN"
  /\ Crossed(lot.side, p, stopOrder, takeOrder)
  /\ OnExitRequested
  /\ Moved(p)
  /\ lot' = NoLot
  /\ IF Worse(lot.side, lot.entry, p) THEN takeOrder' = 0 /\ UNCHANGED stopOrder
     ELSE stopOrder' = 0 /\ UNCHANGED takeOrder
  /\ pc' = "closing"
  /\ UNCHANGED <<draft, scaledOut>>

NewBar ==
  /\ pc = "idle"
  /\ bar' = [high |-> market, low |-> market]
  /\ bar' # bar
  /\ UNCHANGED <<vars, market, exchangeVars, pc, draft, scaledOut, history>>

-----------------------------------------------------------------------------
(***************************************************************************)
(* Entry: on_candle_close under TRENDING, on_market_update under RANGING.  *)
(***************************************************************************)
\* The strategy's signal, the size from the estimate, and the lingering
\* orders of the symbol swept before the order is sent.
BeginEntry(signal, atr, score) ==
  LET budget == RiskAmount(Equity, PositionScaleForScore(score)) IN
  /\ Distance(market, signal.stop) > 0
  /\ budget > 0
  /\ OnSignal(signal)
  /\ stopOrder' = 0 /\ takeOrder' = 0
  /\ draft' = [for |-> "entry", atr |-> atr, stop |-> signal.stop, take |-> signal.take,
               size |-> EntrySize(Filter, Equity, PositionScaleForScore(score),
                                  market, signal.stop)]
  /\ plan' = [side |-> signal.side, budget |-> budget, estimate |-> market,
              stop |-> signal.stop]
  /\ pc' = "fill"
  /\ entries' = entries + 1
  /\ UNCHANGED <<market, lot, scaledOut, mode, restarts>>

Evaluates == pc = "idle" /\ state = "FLAT" /\ entries < MaxEntries

\* At the close of a bar; the next one begins.
EnterTrend(w) ==
  LET bars == Ending(w, market) IN
  /\ Evaluates /\ mode = "TRENDING"
  /\ \E signal \in BreakoutEntry(bars, market) : BeginEntry(signal, Atr(bars), Score(bars))
  /\ bar' = [high |-> market, low |-> market]

\* In the middle of a bar.
EnterRange(w) ==
  /\ Evaluates /\ mode = "RANGING"
  /\ \E signal \in RangeEntry(w, bar, market) : BeginEntry(signal, Atr(w), Score(w))
  /\ UNCHANGED bar

\* Every refusal before the position is complete ends in rollback_entry.
EntryGivenUp ==
  /\ RollbackEntry
  /\ pc' = "idle" /\ draft' = NoDraft

\* The size is below the smallest order: the client raises.
FillRefused ==
  /\ pc = "fill" /\ draft.size = 0
  /\ EntryGivenUp
  /\ UNCHANGED <<marketVars, exchangeVars, scaledOut, history>>

\* The fill fixes the prices of the plan: a stop that the fill has passed is
\* replaced by the protective default.
Fill(slip) ==
  LET side  == pendingSignal.side
      price == Above(side, market, slip)
      stop  == ValidateStopPrice(side, ResolveStopPrice(side, draft.stop, price, draft.atr),
                                 price, draft.atr)
      take  == ResolveTakeProfitPrice(side, draft.take, price, draft.atr)
  IN /\ pc = "fill" /\ draft.size > 0
     /\ lot' = [side |-> side, size |-> draft.size, entry |-> price]
     /\ draft' = [draft EXCEPT !.stop = stop, !.take = take]
     /\ pc' = "stop"
     /\ UNCHANGED <<vars, marketVars, stopOrder, takeOrder, scaledOut, history>>

-----------------------------------------------------------------------------
(***************************************************************************)
(* _place_stop_with_retry.  The client raises a RuntimeError for a trigger *)
(* that is refused, so the second attempt is not reached.                  *)
(***************************************************************************)
StopPlaced ==
  LET trigger == StopTrigger(Filter, lot.side, draft.stop) IN
  /\ pc = "stop"
  /\ StopAccepted(lot.side, trigger)
  /\ stopOrder' = trigger
  /\ pc' = CASE draft.for = "recover" -> "idle"
             [] draft.take = 0        -> "idle"
             [] OTHER                 -> "ticker"
  /\ draft' = IF pc' = "idle" THEN NoDraft ELSE draft
  /\ scaledOut' = (scaledOut \/ (draft.for = "scaleout" /\ draft.take = 0))
  /\ UNCHANGED <<vars, marketVars, lot, takeOrder, history>>

\* During an entry: flatten and roll back.
EntryStopRefused ==
  /\ pc = "stop" /\ draft.for = "entry"
  /\ ~StopAccepted(lot.side, StopTrigger(Filter, lot.side, draft.stop))
  /\ lot' = NoLot
  /\ EntryGivenUp
  /\ UNCHANGED <<marketVars, stopOrder, takeOrder, scaledOut, history>>

\* After a scale-out: the except branch tries the same price once more, as
\* _try_recover_sl; when that is refused as well the position waits.
ScaleOutStopRefused ==
  /\ pc = "stop" /\ draft.for \in {"scaleout", "recover"}
  /\ ~StopAccepted(lot.side, StopTrigger(Filter, lot.side, draft.stop))
  /\ IF draft.for = "scaleout"
     THEN draft' = [draft EXCEPT !.for = "recover"] /\ UNCHANGED pc
     ELSE draft' = NoDraft /\ pc' = "idle"
  /\ UNCHANGED <<vars, marketVars, exchangeVars, scaledOut, history>>

\* In the health check: flatten; the fill then reports the close.
HealthStopRefused ==
  /\ pc = "stop" /\ draft.for = "health"
  /\ ~StopAccepted(lot.side, StopTrigger(Filter, lot.side, draft.stop))
  /\ OnExitRequested
  /\ lot' = NoLot
  /\ pc' = "closing" /\ draft' = NoDraft
  /\ UNCHANGED <<marketVars, stopOrder, takeOrder, scaledOut, history>>

-----------------------------------------------------------------------------
(***************************************************************************)
(* _validate_and_place_tp: the ticker is read, then the order is placed.   *)
(***************************************************************************)
ValidTake(candidate) ==
  IF ValidateTakeProfitPrice(lot.side, candidate, lot.entry, market) THEN candidate
  ELSE FormatPrice(Filter,
                   RepriceTakeProfit(lot.side, lot.entry, market, draft.atr,
                                     Filter.priceStep, TakeAtrTenths),
                   lot.side = "LONG")

ReadTicker ==
  /\ pc = "ticker"
  /\ draft' = [draft EXCEPT !.take = ValidTake(@)]
  /\ pc' = "take"
  /\ UNCHANGED <<vars, marketVars, exchangeVars, scaledOut, history>>

TakeOk == TakeAccepted(lot.side, TakeTrigger(Filter, lot.side, draft.take))

\* The entry is complete.
Opened ==
  /\ pc = "take" /\ draft.for = "entry" /\ TakeOk
  /\ takeOrder' = TakeTrigger(Filter, lot.side, draft.take)
  /\ OnEntryFilled([side |-> lot.side, size |-> lot.size, stopPrice |-> draft.stop,
                    initialStopPrice |-> draft.stop, stopPhase |-> "INITIAL",
                    takeProfit |-> draft.take])
  /\ scaledOut' = FALSE
  /\ pc' = "idle" /\ draft' = NoDraft
  /\ UNCHANGED <<marketVars, lot, stopOrder, history>>

\* Fail-closed: the stop is cancelled, the position flattened.
EntryTakeRefused ==
  /\ pc = "take" /\ draft.for = "entry" /\ ~TakeOk
  /\ stopOrder' = 0
  /\ lot' = NoLot
  /\ EntryGivenUp
  /\ UNCHANGED <<marketVars, takeOrder, scaledOut, history>>

\* Later: the position keeps the price, with or without an order.
TakeReplaced ==
  /\ pc = "take" /\ draft.for # "entry"
  /\ takeOrder' = IF TakeOk THEN TakeTrigger(Filter, lot.side, draft.take) ELSE 0
  /\ IF draft.take # position.takeProfit THEN OnTakeProfitUpdate(draft.take)
     ELSE UNCHANGED vars
  /\ scaledOut' = (scaledOut \/ draft.for = "scaleout")
  /\ pc' = "idle" /\ draft' = NoDraft
  /\ UNCHANGED <<marketVars, lot, stopOrder, history>>

-----------------------------------------------------------------------------
(***************************************************************************)
(* on_market_update with the position open.                                *)
(***************************************************************************)
RecoverStop ==
  /\ pc = "idle" /\ state = "OPEN" /\ stopOrder = 0
  /\ draft' = [NoDraft EXCEPT
       !.for = "recover",
       !.stop = ValidateStopPrice(lot.side, position.stopPrice, lot.entry, RestoredAtr)]
  /\ pc' = "stop"
  /\ UNCHANGED <<vars, marketVars, exchangeVars, scaledOut, history>>

\* _check_realtime_tp and the same check at the close of a candle: a target
\* without an order is watched by the engine.
RealtimeTake ==
  /\ pc = "idle" /\ state = "OPEN"
  /\ takeOrder = 0 /\ position.takeProfit # 0
  /\ ~Worse(lot.side, market, position.takeProfit)
  /\ OnExitRequested
  /\ lot' = NoLot
  /\ pc' = "closing"
  /\ UNCHANGED <<marketVars, stopOrder, takeOrder, draft, scaledOut, history>>

Half == FormatQuantity(Filter, position.size \div 2)

\* _maybe_breakeven_scaleout: half is sold, the rest gets a stop at the entry.
\* The bar is the forming one, or the one that has just closed.
ScaleOut ==
  LET trigger == BreakevenTrigger(Filter, lot.side, lot.entry)
      rest    == lot.size - Half
  IN /\ pc = "idle" /\ state = "OPEN" /\ ~scaledOut
     /\ position.stopPhase = "INITIAL"
     /\ OneRHit(lot.side, lot.entry, position.initialStopPrice, 1, bar.high, bar.low)
     /\ Half > 0 /\ Half < position.size
     /\ lot' = [lot EXCEPT !.size = rest]
     /\ stopOrder' = 0 /\ takeOrder' = 0
     /\ ReplacePosition([position EXCEPT !.size = rest, !.stopPrice = trigger,
                                         !.stopPhase = "BREAKEVEN"])
     /\ draft' = [for |-> "scaleout", size |-> rest, atr |-> RestoredAtr,
                  stop |-> trigger, take |-> position.takeProfit]
     /\ pc' = "stop"
     /\ UNCHANGED <<marketVars, scaledOut, history>>

(***************************************************************************)
(* on_candle_close with the position open: a missing stop is placed, then  *)
(* a missing target, which is computed when the position has none.         *)
(***************************************************************************)
RecoveredTarget(target) ==
  IF position.takeProfit # 0 THEN position.takeProfit
  ELSE FormatPrice(Filter, target, lot.side = "LONG")

\* The target of the active regime: the middle of the range, or ATR.
Middles == {RangeMiddle(w) : w \in RangeTrades}
Targets == IF mode = "RANGING" THEN Middles
           ELSE {DefaultTakeProfitPrice(lot.side, lot.entry, RestoredAtr)}

CandleClose(target) ==
  /\ pc = "idle" /\ state = "OPEN"
  /\ stopOrder = 0 \/ takeOrder = 0
  /\ draft' = [for |-> "health", size |-> position.size, atr |-> RestoredAtr,
               stop |-> position.stopPrice,
               take |-> IF takeOrder = 0 THEN RecoveredTarget(target) ELSE 0]
  /\ pc' = IF stopOrder = 0 THEN "stop" ELSE "ticker"
  /\ UNCHANGED <<vars, marketVars, exchangeVars, scaledOut, history>>

\* The CloseSignal of the strategy, at the close of a bar.
Exits == {at \in {"LONG", "SHORT"} \X Prices :
            \E w \in TrendWindows : StrategyExit(at[1], Ending(w, at[2]))}

MarketClose ==
  /\ pc = "idle" /\ state = "OPEN" /\ mode = "TRENDING"
  /\ <<lot.side, market>> \in Exits
  /\ OnExitRequested
  /\ lot' = NoLot
  /\ pc' = "closing"
  /\ UNCHANGED <<marketVars, stopOrder, takeOrder, draft, scaledOut, history>>

\* The row is written, what is left of the orders cancelled.
Closed ==
  /\ pc = "closing"
  /\ OnExitFilled
  /\ stopOrder' = 0 /\ takeOrder' = 0
  /\ scaledOut' = FALSE
  /\ pc' = "idle"
  /\ plan' = NoPlan
  /\ UNCHANGED <<marketVars, lot, draft, mode, entries, restarts>>

-----------------------------------------------------------------------------
(***************************************************************************)
(* The process dies and starts again, in either mode:                      *)
(* _sync_binance_position.                                                 *)
(***************************************************************************)
Crash ==
  /\ restarts < MaxRestarts
  /\ state' = "FLAT" /\ position' = NoPosition /\ pendingSignal' = NoSignal
  /\ pc' = "sync" /\ draft' = NoDraft /\ scaledOut' = FALSE
  /\ restarts' = restarts + 1
  /\ UNCHANGED <<marketVars, exchangeVars, plan, mode, entries>>

SafetyStop(margin) ==
  FormatPrice(Filter, Below(lot.side, lot.entry, (lot.entry * margin) \div 1000),
              lot.side = "SHORT")

\* The one stop that may take the place of a live one.
ReRegistered == SafetyStop(SafetyMargins[1])

ValidStop == stopOrder # 0 /\ Worse(lot.side, stopOrder, lot.entry)

\* The verified stop of a restored position.  A live stop that is not on the
\* wrong side of the entry is verified; when that fails, the order is cancelled
\* and placed again with the first margin, which may be looser.  A missing
\* one is placed with a margin the market leaves room for, not always the
\* first: an order that is not verified makes the loop go on as well.
RestoredStops ==
  {stop \in IF ValidStop THEN {ReRegistered}
            ELSE {SafetyStop(SafetyMargins[i]) : i \in DOMAIN SafetyMargins} :
     StopAccepted(lot.side, stop)}
  \cup (IF ValidStop THEN {stopOrder} ELSE {})

\* _recover_tp_from_atr
RecoverTake ==
  LET target == FormatPrice(Filter, Above(lot.side, lot.entry, Tenths(RecoveryTenths, RestoredAtr)),
                            lot.side = "LONG")
  IN IF ValidateTakeProfitPrice(lot.side, target, lot.entry, market) THEN target
     ELSE FormatPrice(Filter,
                      RepriceTakeProfit(lot.side, lot.entry, market, RestoredAtr,
                                        Filter.priceStep, RecoveryTenths),
                      lot.side = "LONG")

Restore(fetched) ==
  LET take == IF takeOrder # 0 THEN takeOrder ELSE IF fetched THEN RecoverTake ELSE 0 IN
  \E stop \in RestoredStops :
    /\ RestorePosition([side |-> lot.side, size |-> lot.size, stopPrice |-> stop,
                        initialStopPrice |-> stop, stopPhase |-> "INITIAL",
                        takeProfit |-> take])
    /\ stopOrder' = stop
    /\ takeOrder' = take
    /\ UNCHANGED lot

\* Nothing to restore, or no stop could be placed and verified: the engine
\* starts FLAT, and a position left behind is closed by hand before trading
\* goes on.
StartFlat ==
  /\ lot' = NoLot
  /\ plan' = NoPlan
  /\ UNCHANGED <<vars, stopOrder, takeOrder>>

Sync ==
  /\ pc = "sync"
  /\ \/ lot.size > 0 /\ UNCHANGED plan /\ \E fetched \in BOOLEAN : Restore(fetched)
     \/ StartFlat
  /\ pc' = "idle"
  /\ mode' \in Modes
  /\ UNCHANGED <<marketVars, draft, scaledOut, entries, restarts>>

-----------------------------------------------------------------------------
PlanNext ==
  \/ \E p \in Prices : Move(p) \/ Fire(p)
  \/ NewBar
  \/ \E w \in TrendWindows : EnterTrend(w)
  \/ \E w \in RangeWindows : EnterRange(w)
  \/ FillRefused
  \/ \E slip \in Slips : Fill(slip)
  \/ StopPlaced \/ EntryStopRefused \/ ScaleOutStopRefused \/ HealthStopRefused
  \/ ReadTicker \/ Opened \/ EntryTakeRefused \/ TakeReplaced
  \/ RecoverStop \/ RealtimeTake \/ ScaleOut
  \/ state = "OPEN" /\ \E target \in Targets : CandleClose(target)
  \/ MarketClose \/ Closed
  \/ Crash \/ Sync

PlanSpec == PlanInit /\ [][PlanNext]_planVars
=============================================================================
