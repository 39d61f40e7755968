# BFAT in TLA+

BFAT is a futures trading bot: one process that follows 15-minute candles of a
few symbols on Binance, lets a strategy decide about entries and exits, and
keeps every open position protected by a stop and a take-profit order on the
exchange; a FastAPI service starts and stops it, and a React dashboard shows
what it does. This directory specifies the parts of it that handle money or that
say what is done with it, model-checks them on small instances with TLC, and
proves what matters most for all values of the constants with TLAPS.

All paths below are relative to the repository; `engine.py` is
`backend/app/core/engine/engine.py`, `engine_service.py` is
`backend/services/engine_service.py`.

Contents: 1 the system; 2 the modules and the code; 3 what TLC checks, what the
code does not keep; 4 what TLAPS proves; 5 fairness; 6 what is left out; 7 plan.

## 1. The system

| component | state it keeps | operations | talks to |
|---|---|---|---|
| `StateMachine` (`app/domain/state_machine.py`) | lifecycle state, `Position`, pending `Signal` | `on_signal`, `on_entry_filled`, `on_stop_update`, `on_take_profit_update`, `replace_position`, `on_exit_requested`, `on_exit_filled`, `rollback_entry`, `restore_position` | called by the engine only |
| `BFATEngine` (`engine.py`), one per symbol | ids of the two protective orders, cooldown, bucket and fallback flags, scale-out flags | `on_candle_close`, `on_market_update`, `on_reduce_only_fill_from_stream`, `on_position_closed` | exchange (blocking REST calls), trade and equity log, kill switch, strategy |
| `EngineService` (`engine_service.py`) | engines, streams, `_task`, `_running`, cached equity, cached positions | `start`, `stop`, `set_strategy_mode`, `_run`, `_sync_binance_position`, `get_status` | builds everything, serves the HTTP API |
| `BinanceMarketStream` (`app/core/market`) | candle deque, connection state | read loop, REST tail refresh thread | engine: `on_candle_close`, `on_market_update` |
| `BinanceUserStream` (`app/core/ws`) | listen key, connection state | read loop, keepalive loop | engine: `on_reduce_only_fill_from_stream` |
| `BinanceExecutionClient` (`app/core/execution`) | exchange filters, time offset | place (four tiers), cancel (algo, then classic), sweep, verify, query | Binance REST |
| `KillSwitch`, `RiskManager` (`app/core/risk`) | loss count, daily and current equity; none | `register_trade_result`, `update_equity`, `is_triggered`; sizing | engine |
| `StrategyEngine`, `RegimeClassifier`, strategies (`app/domain`, `app/core/strategy`) | regime hysteresis, insight | `evaluate`, `evaluate_ranging_intrabar`, insight evaluations | engine, status |
| persistence (`app/persistence`) | one SQLite connection | inserts and queries | engine, service |
| HTTP API and authentication (`main.py`, `api/`) | tokens, session cookie | routes, `/ws/status` | service, browser |
| dashboard (`frontend/src`) | session, status socket, what was read last | polls, socket, buttons | API |
| archived engines (`_legacy`) | three engines: runner with a stream thread, autopilot, modular pipeline | `start`, `stop`, one loop each | Binance REST and WebSocket |
| `BACKUP/`, `v1/` | a copy of `_legacy`'s engines (byte-identical) and a 225-line skeleton | | |

How they interact, and what is hard:

* The two streams and the service share one asyncio loop, and the engine's
  handlers never await, so **handlers exclude each other**. But each makes up to
  a dozen blocking calls to the exchange, and **the exchange moves between two
  calls**: a stop fires while the engine cancels it, an order expires, the user
  closes by hand.
* Messages of the user stream wait while a handler runs, so a fill is often
  **handled later than the REST answers** that already include it, or is lost.
* A position may be closed by four routes (user stream, candle fallback, market
  close, failed market close), all ending in `on_position_closed`, which itself
  can fail between its steps.
* Any call may fail after it took effect. Entry, scale-out, close and each
  placement are sequences of such calls with a compensation for each prefix.
* The REST refresh of the candles is a **thread** and shares the deque and the
  strategy with the loop.
* `_run` awaits several times, keeps its engines and streams in fields of the
  service, and clears those fields at its end, **whoever set them last**.
* What the user sees is put together from the service, the engines and a cached
  query, and shown by a browser that may be late, logged out or offline.
* Nothing of the engine is persisted: a start works out the position and its
  orders from the exchange.

What makes each component correct: the lifecycle has a position object exactly
while a position is held; an entry ends OPEN with both orders confirmed, or FLAT
with nothing left or with a position the engine knowingly gave up on; the stop of
an open position covers all of it, no other order can fire against it, a missing
stop comes back; a close is noticed, recorded exactly once and only when real;
prices and sizes keep to their side and to the budget; neither entry path bypasses
the kill switch or the cooldown; one set of engines trades at a time, within the
position limit; decisions see finished bars in order; the streams reconnect for
ever; what is shown is true.

## 2. The modules

| module | models | uses |
|---|---|---|
| `PositionStateMachine` | `StateMachine` with `Position` and the enums; the abstract lifecycle | |
| `BFATEngine` | the engine of one symbol, the start-up sync, what streams and exchange do to it; prices are choices | |
| `BFATEngineProperties` | invariants, action and liveness properties of the engine, the refinement mapping | instance of `PositionStateMachine` |
| `OrderRules` | rounding, trigger and validation rules of engine and client, as operators | |
| `ProtectiveOrders`, `ProtectiveOrdersProperties` | `BinanceExecutionClient`: placement tiers, verification, cancel, sweep, cached filters | `OrderRules` |
| `Indicators`, `Strategies`, `Insight` | indicators over windows of candles, entry and exit rules, what the dashboard is told of them | |
| `TradePlan`, `TradePlanProperties` | the prices and sizes the engine computes, over a moving market | `PositionStateMachine`, `OrderRules`, `Strategies`, `Insight` |
| `EngineService`, `EngineServiceProperties` | `_run`, `start`, `stop`, mode changes, the limit on concurrent positions | |
| `StatusView` | `_get_status`: positions, the cache behind them, health | `EngineServiceProperties` |
| `MarketStream`, `UserStream` | candle deque with WebSocket loop and refresh thread, regime hysteresis; listen key, keepalive, reconnect | |
| `Feeds`, `FeedsProperties` | both streams of one run | the two above |
| `Dashboard`, `DashboardProperties` | one browser tab: session, polls, socket, buttons | |
| `DashboardService` | the dashboard on top of the service | `EngineService`, instance of `Dashboard` |
| `LegacyExchange`, `LegacyFaults` | the account and the faults the archived engines share | |
| `LegacyRunner`, `LegacySizing`, `LegacyAutopilot`, `LegacyModular` | the archived engines and the runner's planner | the two above |
| `LegacyEngines`, `LegacyEnginesProperties` | one of the four per behaviour | |
| `*Proofs` (eight) | section 4 | TLAPS |
| `MC*` | instances for TLC | |

### BFATEngine: state

* engine object: `state`, `pos` (size, stop phase, whether a take-profit price is
  set), `slId`, `tpId`, `pendingClose`, `cooldown`, `bucketUsed`; the kill switch
  as `losses` and `dailyLoss` (`Killed` is `is_triggered`); `equityKnown`, the
  service's equity cache having been filled once.
* control: `pc` is the next blocking call of the running handler, `caller` which
  handler it returns to. `pc = "idle"` is the event loop. Instructions between
  two calls belong to the action of the first; checks repeated at the head of a
  handler are guards.
* exchange: `exPos` (amount in lots; an entry buys `Full` of them, the 1R scale-out
  sells `HalfOf` what the engine holds), `orders` (live protective orders), `exited` (the trade list has
  an exit fill since the entry), `queue` (fills on their way through the user
  stream).
* history, read by properties only: `ep` numbers the exchange positions,
  `trades` is the trade log with the source of each exit price, `exitSrc` that of
  the row being prepared, `whole` is the size bought or restored, `unmanaged` says that a position was left on the
  exchange by an engine that reports FLAT (a failed flatten, a lost entry answer,
  a start that failed closed), `sinceClose` and `flatSeen` count candles.

### BFATEngine: actions and code

| code | actions |
|---|---|
| `_sync_binance_position`, `_recover_tp_from_atr` | `SyncNothing`, `SyncExistingStop`, `SyncNewStop`, `SyncFailClosed`, `SyncTakeProfit` |
| entry in `on_candle_close` / `on_market_update` | `BeginEntry` (in `CandleEntry`, `TickEntry`), `EntryFilled`, `EntryNotFilled`, `EntryStop`, `EntryTakeProfit`, `EntryTakeProfitFails`, `EntryFlatten` |
| `on_candle_close`, OPEN | `CandleOpen`, `StillOpen`, `FallbackNoted`, `FallbackRecord`, `FallbackDeferred`, then the health checks `StopBelievedActive`, `StopReplaced`, `StopNotReplaced`, `HealthFlatten`, `CheckTakeProfit` |
| `on_candle_close`, otherwise | `CandleIdle`, `CandleCountsDown` |
| `on_market_update`, OPEN | `TickOpen`, `TickRecover` (`_try_recover_sl`), `TickContinues` (`_check_realtime_tp`) |
| `_market_close_open_position` | `CloseAlreadyFlat`, `CancelForClose`, `CloseOrder`, `CloseConfirm`, `SignalCloseFailed` |
| `on_position_closed` | `RecordTrade`, `RecordRaises`, `RecordFinish`, `FinishRaises` |
| `_maybe_breakeven_scaleout` | `ScaleOutCancel`, `ScaleOutHalf`, `ScaleOutPoll`, `ScaleOutStop`, `ScaleOutTakeProfit`, `ScaleOutFailed` |
| `on_reduce_only_fill_from_stream` | `FillIgnored`, `FillCloses` |
| exchange, network, user, process | `Trigger`, `Expire`, `ManualClose`, `LoseFill`, `MissedCandle`, `Restart` |

Each handler and each routine is modelled whole: a failing call, a raised
exception and its `except` branch are disjuncts of the action that makes the
call. Which failures exist in a run is the constant `Faults`; its members are
listed with their meaning at the head of the module, and the same is done in every
other module. Prices, sizes, fees, R multiples and time are choices here ("1R is
reached", "the throttle is open"); `TradePlan` computes the prices. The retries
inside one placement are one action that ends confirmed, refused, or with an order
the engine cannot confirm; `ProtectiveOrders` has them one by one.

### The other modules and the code

* `ProtectiveOrders`: one placement (`place_stop_market_order`,
  `place_take_profit_market_order`: tiers with quantity and `closePosition`, algo
  and classic, a new client id each), `verify_algo_order_with_backoff`,
  `cancel_order`, `cancel_all_algo_orders` and the cached `exchangeInfo`, one
  request a step. A successful answer with an error in its body (fault "body") is an
  exception to a placement and a success to a cancel, as in the code. `book` is the exchange's orders, `tracked` the ids a call has
  returned, `silent` those behind a lost answer.
* `TradePlan`: an entry by candle or inside one, slippage, `_validate_stop_price`,
  repricing of a refused take profit, scale-out and break-even, `_sync` and the
  recovered take profit. `plan` is what the position was planned with. Floats are
  fractions compared exactly; prices are multiples of the smallest unit; an ATR
  that becomes a price is rounded down.
* `EngineService`: every step is what happens between two awaits. `run` is where
  each execution of `_run` stands, `target` the run whose streams it is stopping,
  `stopper` the pending calls of `stop`, `outcome` how a run ended; engines and
  market streams are named by the run that built them. A start that refuses to
  adopt a position (`_sync_binance_position`, fail-closed) leaves it in
  `strangers`.
* `StatusView`: `cached` and `left` are `_live_pos_cache`, for one symbol;
  `settled` counts how long the exchange has been as it is. `SystemHealth` is what
  `system_health` may be; a lost connection or an old insight makes it worse.
* `MarketStream`: a bar is its age and whether it was finished when it was read.
  `_sync_tail_klines_from_rest` runs in steps (`refresh`), interleaved with the
  loop. `UserStream`: time in ticks that divide keepalive interval and key life.
* `Dashboard`: `apiFetch` with its 401, refresh and second try is one step;
  requests in flight are dropped when the dashboard is unmounted. A refresh may be
  answered otherwise than ok with a good cookie (the proxy, while the backend
  restarts): the user is then logged out, at the first check as well. `MaxFailures` is
  5 in the code and 2 in the run.
* Archived engines: `LegacyRunner` (loop thread and stream thread share one
  `ExecutionEngine` without a lock; TP1 and TP2 are reduce-only for any shares, the
  stop closes the position or, as the fallback, a quantity), `LegacyAutopilot` (one cycle, limit and market
  entries, cooldown, loss limit), `LegacyModular` (snapshot, targets, execution with
  retries; an old loop may be in its last tick when the new one starts),
  `LegacySizing` (the plan over several reads of each price).

## 3. What TLC checks

Sizes are distinct states; every run finishes within five minutes.

| run | model and bounds | properties | states |
|---|---|---|---|
| `orders` | one symbol; place, query, flatten, crash, db; 1 entry of 4 lots, 1 queued fill, 4 order ids | `ConsistencyCheck`, `FlatMeansNoExposure`, `RecordedOnce` | 1.06 M |
| `answers` | ghost, response, stream, manual, vanish, place; 2 entries of 2 lots, 2, 4 | `OnlyTrackedOrders`, `StopCoversPosition`, `RecordedWhenClosed`, `ImplementsLifecycle` | 70 k |
| `books` | unverified, cancel, drawdown, db, flatten; 2 of 2, 1, 4; cooldown 2 | `ClosedIsRecorded`, `OpenedProtected`, `EntersOnlyWhenAllowed` | 1.65 M |
| `recovery` | stream, vanish, place, manual; 1 of 4, 1, 4; fairness | `CloseIsNoticed`, `StopIsRestored`, `HalvedOnce` | 40 k |
| `client` | 2 rule sets, one change of rules, quantities 1 and 5, 5 orders, 2 verify delays, all faults | `StraysOnlyBehindLostAnswers`, `ClientIsHonest`, `SweepLeavesNothing`, `PlacementFailsForCause` | 5.08 M |
| `prices` | both sides, 7 trend and 2 range windows, 4 market prices, slippage 0 and 3 on a tick of 2, one restart | `OrdersOnTheirSides`, `SidesAreMirrored`, `PlannedRiskKept`, `StopHoldsItsGround`, `InsightShowsEntry` | 908 k |
| `service` | 2 runs, 2 symbols, 1 slot, 2 presets (symmetric), one caller; klines, log, adopt, slow; cache life 1 | `OneTrader`, `NoOrphans`, `StatusIsRecent`, `HealthyMeansTrading`, `SlotsRespected`, `StopMeansStopped` | 1.59 M |
| `feeds` | buffer of 3, refresh of 1 complete row, ages up to 3; market: disconnect, equity; user: key, disconnect, handler; fairness | `DecidedOnFinishedBars`, `GapsOnlyBehindFailedRefresh`, `NoRegimeSwitchClose`, `OpenStreamHears`, `BufferCatchesUp`, `UserStreamReturns` | 328 k |
| `dashboard` | 2 presets, 2 failures, 1 configuration request; fairness | `DashboardCatchesUp` | 122 k |
| `legacy` | see below | `RunnerProtects`, `AutopilotProtects`, `EntersWithinLimit`, `ModularCovers`, `PlanWithinLeverage` | 4.05 M |
| `sizing` | as `prices`, without a restart | `FixedRisk`: violated | |
| `overlap` | dashboard and service, start while a stop is pending | `StopAwaitsShutdown`: violated | |

Why the bounds are enough.

* Engine: the hazards need one position and the remains of an earlier one (an
  order, a queued fill, a flag, a row), so an entry on top of the position found at
  start, and in `answers` and `books` two. With a crash a position may be halved more
  than once, which takes 4 lots; `orders` with two entries was checked once (5.87 M
  states); one fill per exit and the half of a scale-out make two messages, which
  `answers` keeps; a position has two orders, a replacement adds one and an
  unconfirmed one a fourth. `Cooldown` is 1 or 2 where the code has 3, `MaxLosses` 2
  so that the kill switch is reached, and 3, out of reach, under fairness (5).
  The faults are divided among the runs because their product is too large; the
  theorems cover the combinations. `CloseIsNoticed` with failing queries as well was
  checked once (849,329 states). Deadlock is checked in these runs.
* Client: a placement has four tiers, so five orders are one placement and one
  order of an earlier one. Prices: the windows include both crossings, no volume, no
  motion, too few candles and a range entry beyond each end of the range; the fill of
  3 is off the tick.
* Service: a restart needs two runs; one slot and two symbols make the limit bind.
  Two units of the cache's life were checked once, too. Feeds: the deque turns over
  and a refresh of one row meets one, two or more missing bars.
* Archived: the faults are divided by order mode (market: lost answers and refusals,
  IOC: the stream, post-only: stop and start) and one start of the loop is given to
  each; market mode with the faults lost, refuse, stream, stop, cancel and read
  together was checked once (10.3 M states), and the theorems cover the rest.

Deadlock is not checked where the program may really stop: the service that nobody
starts, a tab that nobody clicks, a client without a request, an archived engine
that was stopped.

### What the code does not keep

Two runs expect a violation and are listed as findings.

* `sizing`. `risk_manager.py:8` promises "Fixed risk position sizing". A range
  signal whose close lies beyond its own stop is sized by the absolute distance to
  that stop, which may be a few ticks; after the fill `_validate_stop_price` replaces
  the stop, being on the wrong side, by one 1.8 ATR away. The loss at the stop is
  then a multiple of the budget.
* `overlap`. `stop` "awaits clean shutdown of streams" (`engine_service.py:1044`),
  but clears `_running` first; the dashboard then offers Start, a second `_run`
  begins, and the `finally` block of the first one clears the dictionaries the second
  has filled: its streams trade on and no later stop can reach them.

`BFATEngineProperties` states more than the code keeps; TLC finds a short
counterexample when one of these is put into a configuration with the faults named.

| statement | faults | what happens |
|---|---|---|
| `FallbackConfirmedTwice` | none | `_pending_fallback_close`, set for one position, survives a close recorded by another path; the fallback then records the next position at its first sighting. |
| `NoStaleExit` | none | The message of the half sold at 1R is handled after the stop fired: REST says flat, so the row gets the 1R price. |
| `HalvedOnce` | query (also cancel, ghost) | After an executed half order whose poll fails, the engine believes in the whole size and sells "half" again: all that is left. |
| `ClosingCompletes` | none | The first fill arrives before the first equity fetch: equity 0 makes `update_equity` raise after `on_exit_requested`, and nothing leads out of CLOSING. |
| `CloseIsNoticed` | drawdown, stream | At the daily loss limit `on_candle_close` returns before the fallback: a close the stream lost is never recorded. |
| `OnlyTrackedOrders` | cancel, unverified or query | A refused cancel is ignored, an unconfirmed order forgotten; a ticker query that raises in the scale-out, or a start that cannot list orders, places a second stop. |
| `StopCoversPosition` | cancel and crash | A half stop of an earlier position survives its cancel, and the next start adopts it for a whole one. |

Some properties stop short of what one would like to state, as the code does not
keep it:

* `HalvedOnce` speaks of one engine object. A start restores any size with the stop
  phase INITIAL and a fresh `_be_scaleout_done` (`engine_service.py:806-817`), so a
  position halved before the restart is halved again at 1R, unless the half is below
  the lot (`engine.py:635`). `whole` is set anew by a restart.
* `StopHoldsItsGround` lets a restart move the stop in one way: a live stop that cannot
  be verified is cancelled and placed again at 1.5 % from the entry, which may be
  looser, and after a scale-out is. A position without a live stop gets the first of
  1.5, 3 and 5 % that is accepted.
* `PlacementFailsForCause` counts stale rules as a cause: a stale minimum that rounds
  the quantity to 0 raises before any tier (`binance_client.py:339`), so the tiers
  without a quantity, which would be accepted, are not tried.
* `ClientIsHonest` leaves out a cancel that is answered 2xx with an error in the body:
  `cancel_order` reports it as done, only `_post_algo_order` looks at the code.
* `RunnerProtects` excepts the remainder that TP1 and TP2 leave when their shares do
  not add up to the position: `on_ws_fill` sweeps the stop after TP2 "since position
  should be fully closed" (`_legacy/backend/app/engine/execution.py:583`), and `tick`
  places no brackets again. It excepts as well a stop placed for a quantity (the
  fallback) that fires on a position grown beyond it.

In `MarketStream` one race is left out, as it is below the grain of a step: two merges
(`binance_market_stream.py:175-183`) between the look at the last bar and the
append would leave the deque out of order until it has turned over.

Seen while modelling, and not run.

* Engine: an unusable close answer with unreadable trades is recorded at the ticker
  or the entry price; when the stream lost the last fill, the fallback averages the
  half sold at 1R into the exit price of the rest; one misread `positionAmt` records
  an open position (fault "glitch"); a failed intrabar entry is repeated on every tick
  of its bar; an entry that was filled and flattened is in neither log nor kill
  switch; a close while the process is down is never recorded; the half sold at 1R
  has no row.
* Strategies: the overextension filter cannot fire with its constants
  (`breakout.py:137-139`: the ranges of the last 10 candles add up to at most 14
  times an ATR over 14, and the threshold is 25 times that ATR); equal averages
  count as a cross to SHORT; candles that do not move have an RSI of 100; the insight may show "Trend direction" as unmet and the
  entry happens; the regime-switch close, `StrongMomentum` and the cooldown branch of
  `StrategyEngine` are unreachable in a fixed mode (the first one is proved so).
* Service: `BinanceMarketStream.stop` leaves `_connected` TRUE; `/api/status`
  answers "stopped" when the trade log cannot be read while the engine runs; a failed
  position query with an empty cache shows "no position"; after a stop the cache may
  hide, for up to its 30 seconds, a position the engine's status had shown.
* Dashboard: a rejected first check leaves the page loading; one refresh answered 502
  while the backend restarts ends the session though its cookie is good
  (`client.ts:24, 56`); a logout that does not
  reach the server leaves the cookie; a configuration read late overrides a newer
  change; the trades tab shows answers in the order they arrive.
* Archived: the autopilot is not mounted by `main.py`; `consecutive_losses` and the
  ATR percentile are never passed to the risk engine; without its cooldown the
  autopilot enters once more at its loss limit (`EntersWithinLimit` is violated with
  `Cooldown = FALSE`); the scaling branch of the planner's last check never fires.

## 4. What TLAPS proves

`tlapm X.tla` checks every proof of module `X`; there is no unproved step in any.
The theorems hold for all constants that satisfy the named assumptions of the
modules (any number of orders, runs, symbols, bars, any fault), further assumptions
are in the last column. "None" as property: the theorem states something no run
checks by itself.

| module | theorem | property | assumption |
|---|---|---|---|
| `BFATEngineProofs` | `TypeCorrect` | none | |
| | `StateIsConsistent` | `ConsistencyCheck` | |
| | `ClosedPositionsAreRecorded` | `ClosedIsRecorded` | |
| | `EntriesAreAllowed` (from `NoEntryIsKilled`, `CooldownIsRespected`) | `EntersOnlyWhenAllowed` | no crash (the counter is not persisted) |
| | `FlatEngineHasNoExposure` | `FlatMeansNoExposure` | no glitch |
| | `OnlyClosedPositionsAreRecorded` | `RecordedWhenClosed` | no glitch |
| | `RecordedOnceAcrossRestarts` | `RecordedOnce` | no glitch |
| | `RecordedOnceInOneRun` | none: also for positions given up | no crash |
| | `EngineImplementsLifecycle` | `ImplementsLifecycle` | no crash (a restart makes a new `StateMachine`) |
| `OrdersProofs` | `StopCoversThePosition` | `StopCoversPosition` | no glitch; not both cancel and crash |
| | `OrdersAreTracked` | `OnlyTrackedOrders` | no cancel, unverified, query |
| | `OpenedPositionIsProtected` | `OpenedProtected` | no glitch, vanish |
| | `HalvedOnlyOnce` | `HalvedOnce` (within one life of the engine object) | no glitch, cancel, query, ghost |
| `ProtectiveOrdersProofs` | `ClientTyped` | none | |
| | `StraysBehindLostAnswers` | `StraysOnlyBehindLostAnswers` | |
| | `HonestClient` | `ClientIsHonest` | |
| | `SweepComplete` | `SweepLeavesNothing` | |
| | `FailsForCause` | `PlacementFailsForCause` | |
| `TradePlanProofs` | `ProtectiveOrdersOnTheirSides` | `OrdersOnTheirSides` | |
| | `RiskIsKept` | `PlannedRiskKept` | |
| | `StopHeld` | `StopHoldsItsGround` | |
| | `InsightIsTheRule` | `InsightShowsEntry` | |
| | `LifecycleTypeCorrect`, `LifecycleIsConsistent` (of `PositionStateMachine`) | none: type, and the position follows the state | None is not a position, not a signal |
| `EngineServiceProofs` | `ServiceTyped`, `ShownModeIsTraded` | none | no start during a pending stop (`Overlap = FALSE`) |
| | `OneTraderPerSymbol` | `OneTrader` | the same |
| | `NoStreamIsOrphaned` | `NoOrphans` | the same |
| | `LimitHoldsOnExchange` | `SlotsRespected` | the same |
| | `StopIsComplete` | `StopMeansStopped` | the same |
| | `HealthIsTrue` | `HealthyMeansTrading` | the same |
| | `PositionsShownAreRecent` | `StatusIsRecent` | |
| `FeedsProofs` | `MarketTyped`, `EntriesFollowTheMode` | none: type, and entries come from the path of the mode | |
| | `DecisionsOnFinishedBars` | `DecidedOnFinishedBars` | |
| | `GapsExplained` | `GapsOnlyBehindFailedRefresh` | |
| | `NoSwitchInFixedMode` | `NoRegimeSwitchClose` | |
| | `OpenConnectionHears` | `OpenStreamHears` | `KeepaliveEvery < KeyLife`, keepalives succeed |
| `DashboardProofs` | `DashboardTyped` | none: type | |
| `LegacyProofs` | `RunnerProtectsAlways` | `RunnerProtects` | |
| | `AutopilotProtectsAlways` | `AutopilotProtects` | |
| | `EntersWithinLimitAlways` | `EntersWithinLimit` | the autopilot has a cooldown (`Cooldown`) |
| | `ModularCoversAlways` | `ModularCovers` | |

Where a theorem excludes a fault, the code does not keep the property under it
(the table of section 3), or, for "ghost", "vanish" and "glitch", the exchange has
done or said something the handler cannot know of. `Overlap = FALSE` excludes what run
`overlap` shows. `Cooldown` excludes the configuration whose cooldown is 0, under which
the autopilot does enter at its limit (section 3).

### The arguments

*Engine.* `TypeOK` is not inductive alone: `pos.size` and the like are read where the
code relies on the position being there. `EngineInv` adds `Control` (which lifecycle
state goes with which `pc`), `Holding` (a position object exactly in OPEN and
CLOSING) and `OrdersKnown`; `IInv` is both. On it rest, each inductive relative to the
one before: `Exposure` (how much may be on the exchange at each `pc`; a reduce-only
order never leaves more than it found, and recording starts only after a reading of 0
or an execution of the whole size), `Ledger` / `LedgerOfOneRun` (rows name past
positions, at most one each), `RowWritten` and `CooldownSum` (cooldown left + candles
since the close >= `Cooldown`). `EngineImplementsLifecycle` maps every action to one
transition of `PositionStateMachine` or a stutter.

*Orders.* Four more invariants over `IInv` and `Exposure`: `Cover` (stops are as large
as the position; without refused cancels *every* stop is, and nothing is live when an
entry is sent, which is what a restart needs), `Known` (one order of each kind, and
at each `pc` which of them the engine knows by id), `EntryStopLive` (between the two
confirmations of an entry its stop is live until it has fired) and `Whole` (the
position is the size the engine believes in, or gone). `HalvedOnlyOnce` adds `Entire`:
while the stop phase is INITIAL the size believed in is the one bought or restored.

*Client.* `ClientInv` adds what a running call knows of its order (`CallKnows`) and
what a sweep has left (`SweepKnows`). All rests on one fact: an order that is not live
never becomes live (`OrdersOnlyEnd`), so what was read stays true. `FailsForCause` adds
that the last tier has no quantity, so that only the trigger can be what it was
refused for.

*Prices.* `PlanInv` says at each stage of the handler which of the draft prices were
validated and what the position was planned with. The arithmetic is in lemmas about
`OrderRules` (a price rounded to a step is within one step, rounding keeps an order and
is idempotent, a quantity rounded down never exceeds the budget). The assumptions on
units (`UnitsAssumption`: a step above 0, multiples of at least one ATR, an ATR and a
range above 0, a stop buffer below the price) are what the code has in its constants
or what makes a price a price; `MarginsAssumption` says that there is a first safety
margin. TLC evaluates them on the instance. `StopHeld` rests on the restored stop being
kept by `ValidStop`: the stop of a break-even lies a tick within the entry.

*Service.* At most one run is alive, it is the one `_task` refers to, and the fields
of the service are its own (`OneAtATime`, `FieldsFollow`); what a run stops is
then what it started (`RunsClean`), and the engines' count covers the exchange
but for what was refused (`SlotsKnown`). For the status: `HealthFollows` (a run that
ended by itself has left a critical error until the next one is built) and
`CacheKnown` (time left + time settled > `Ttl` implies that the cache is right, which
needs no assumption about the service).

*Streams.* Nothing happens before the start, and from it on the active regime is the
mode (`StageFollows`); a refresh carries finished bars and, unless a bar closed behind
it, ends with the last (`RowsClosed`); so the unfinished bar of the start stays alone
(`OneUnfinished`), and the newest candle is at most one close behind as long as every
bar was refreshed in time (`Contiguous`). Key and keepalive loop age at one pace
(`KeysKept`: age + due <= `KeepaliveEvery`).

*Archived engines.* The three claims about positions are not inductive: they speak of
settled states, and a position is without its stop in every cycle on the way there.
What is proved in their place says of *every* state who is about to mend it.
Modular: for an uncovered coin with no cause named, a loop stands between its market order
and the placement, or the coin has no stop at all and a loop at work will still come
to `_ensure_stop_for_position`; the stop a loop is about to place for it is as large
as the position (`UncoveredIsMended`); a loop that cancels what another relies on is one of the causes
`ModularCovers` excepts. Autopilot: a naked position belongs to a limit order that is
not yet filled whole and is still noted, or the loop is on its way to `_set_sl_tp`
(`NakedIsKnown`, with `NotedOK` for which id is noted where). The limit of the day is
carried from its check to the order (`LimitChecked`): a loss counted after the check
comes with the cooldown, and only a restart forgets that. Runner: `RunnerShape` says
where both threads stand, whether the `OrderState` each holds is the present one, how
many slices may be left and that order ids are distinct; relative to it `NakedIsHeard`:
a thread is about to place a stop or to close, or the fill of the pending order (or of
the one the tick asks about) is still among the messages.

Each invariant was checked by TLC on the instances of section 3 before it was proved.

### What stays with TLC

* Liveness (`CloseIsNoticed`, `StopIsRestored`, `BufferCatchesUp`,
  `UserStreamReturns`, `DashboardCatchesUp`): fairness and ENABLED are out of this
  prover's reach.
* `SidesAreMirrored`: the indicators are folds over candles, and that the fold of
  mirrored candles is the mirror of the fold is an induction over data.
* `PlanWithinLeverage`: the plan's notional is a sum over its entries, so this is an
  induction over data as well, with quotients of variables under it.

No module a theorem reaches has a RECURSIVE operator: sequences are handled by the
built-in theory, and indicators by the folds of the community modules, whose result the
proofs about prices only take to be what the assumptions say.

## 5. Fairness

Engine (`FairSpec`, run `recovery`):

* Weak fairness of `HandlerStep`: handlers are plain function calls that loop a fixed
  number of times. It assumes that every request returns or raises: the signed
  requests (`binance_client.py:172`) set no timeout of their own, so an exchange that
  accepts a connection and never answers would block the loop.
* Strong fairness of `CandleHandled`: the market stream reconnects for ever and bars
  keep closing, though any one may be missed.
* Strong fairness of `FallbackNoted`, `FallbackRecord`, `StopReplaced`: a query or a
  placement that is repeated every candle succeeds at last. Without it the code
  promises nothing.
* Nothing for ticks, fills, triggers, the user or the strategy: `CloseIsNoticed` has
  to hold when the user stream never delivers anything, `StopIsRestored` when no tick
  arrives. `MaxLosses` is 3, out of reach, because a triggered kill switch does
  stop the fallback, and `CloseIsNoticed` starts from `equityKnown`; both are in the
  table of section 3.

Streams (`FeedsSpec`): the start (`PreEvaluate`, `StartFeeds`), the refresh thread
(`RefreshStep`, `RefreshFetched`) and the pause of the user stream (`PauseOver`) are
weakly fair, being timers and scheduled code; `ListenKeyCreated` and `Connected` are
strongly fair, being tried for ever. Nothing is assumed of the market's WebSocket.

Dashboard (`DashboardSpec`): timers (`RefreshTick`, `Reconnect`) and the end of a
connection attempt are weakly fair; `Connected`, `ConfigRead` and `ConfigShown` are
strongly fair, as a token lives for half an hour and a socket that finds the server
connects within it. For `RefreshTick` this assumes that a server in reach answers one of
the refreshes ok before long; one that fails changes nothing. User, network and expiries owe nothing; the property assumes that
they let the session live.

## 6. What is left out

* Telegram notifier, logging, hashing of passwords, reverse proxy, migrations and
  scripts; the account helper and the settings (the values that matter are CONSTANTS).
* Of the status: the trade list, the trade summary, recent logs and the assembly of the
  insight; of the API the read-only routes for trades, logs and account; of the
  frontend the tables, charts, and log and account views.
* Fees and the R multiple of a row; the message formats of both streams; SQLite.
* Time zones: `engine.py:1364` reads naive UTC strings as local time; `TradesFound` is
  for a host that runs in UTC, as the deployment does not say.
* Of the planner: `MAX_REDIST_ITERATIONS` (5) is out of reach of the three symbols of
  the run; `top_k` may be up to 50.
* Of the engine: several engines on one account in one model. `EngineService` counts
  positions of abstract engines, `BFATEngine` is one of them in detail; a position an
  engine gave up on is not counted by either, nor by the code.
* Archived: signal engine, sizing and optimizer of the modular pipeline, accounting
  and backtest (stateless numerics over pandas); the extra execution tick of the runner
  after its kill switch is in, a start during an old runner loop's last tick is not; the
  leverage setting is left out of the planner, a notional is rounded down, and an
  exception in the middle of a computation ends it in the code without a plan. A start
  takes the mode of the start before it; a market order of the autopilot is for the
  full size.
* `BACKUP/` is `_legacy`'s code once more, `v1/` an unfinished skeleton.

## 7. Plan

Done: the live system's components as listed, the archived engines, and the theorems
of section 4: every safety property the runs check, but the two that need an induction
over data. What would extend it, in this order:

1. `LegacyRunner`'s messages in order, as an action property: what a message
   may still change once a later one has been applied.
2. Several detailed engines on one account, in place of `EngineService`'s abstract ones.
3. `SidesAreMirrored` and `PlanWithinLeverage`, once a prover can instantiate the library's
   induction theorems.
