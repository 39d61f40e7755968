----------------------------- MODULE BFATEngine -----------------------------
(***************************************************************************)
(* The trading engine of one symbol: BFATEngine of                         *)
(* backend/app/core/engine/engine.py, started by                           *)
(* EngineService._sync_binance_position and driven by the two streams.     *)
(*                                                                         *)
(* The engine's three handlers (on_candle_close, on_market_update and      *)
(* on_reduce_only_fill_from_stream) run on one event loop and never await, *)
(* so they exclude each other; but every one of them makes several         *)
(* blocking calls to the exchange, and the exchange moves on its own       *)
(* between two calls: a stop triggers, an order expires, the user closes   *)
(* by hand.  pc names the next call of the running handler; "idle" is the  *)
(* event loop waiting for a message.                                       *)
(*                                                                         *)
(* A call that fails is an alternative of the action that makes it.  Which *)
(* failures may happen is the constant Faults, so that a run can ask what  *)
(* the engine does under one kind of trouble; the proofs of                *)
(* BFATEngineProofs hold for every set of faults.                          *)
(*                                                                         *)
(* Prices and time are abstract: "price is at the take profit", "1R is     *)
(* reached", "the strategy wants to enter" and "30 s have passed" are      *)
(* choices.  Quantities are counted in lot steps, an entry buys Full of    *)
(* them, and half of an odd number is rounded down as format_quantity      *)
(* does.  One side only: LONG and SHORT are mirror images in this code.    *)
(***************************************************************************)
EXTENDS Integers, Sequences, FiniteSets

CONSTANTS
  OrderId,         \* exchange order ids
  NoOrder,         \* Optional[str] = None for _current_stop_order_id / _current_tp_algo_id
  NoPos,           \* Optional[Position] = None
  Full,            \* the quantity of an entry, in lot steps
  Cooldown,        \* POST_CLOSE_COOLDOWN_CANDLES
  MaxLosses,       \* KillSwitch._max_consecutive_losses
  ScaleOut,        \* scaleout_enabled
  Faults,          \* the failures the environment may produce
  MaxEntries,      \* bound: market entries the exchange accepts
  MaxQueue,        \* bound: undelivered user-stream fills
  MaxOrders        \* bound: live protective orders before a failed placement leaves no trace

FaultKind == {
  "place",      \* a stop or take-profit order is refused
  "unverified", \* it is accepted, but the engine cannot confirm it
  "cancel",     \* a cancel is refused and the engine ignores that
  "query",      \* a position or trade query fails
  "flatten",    \* the emergency flatten order is refused
  "ghost",      \* a market order is executed but not reported FILLED
  "response",   \* a FILLED answer lacks fields the engine needs
  "stream",     \* the user stream drops messages
  "vanish",     \* a protective order disappears while the position is open
  "manual",     \* the user closes the position in the exchange's own UI
  "drawdown",   \* equity falls to the daily loss limit
  "db",         \* an insert into the trade or equity log raises
  "glitch",     \* positionAmt reads 0 while a position is open
  "crash" }     \* the process dies and is started again

ASSUME FullAssumption == Full \in Nat \ {0}

ASSUME ConstantsAssumption ==
  /\ NoOrder \notin OrderId
  /\ NoPos \notin [size : 1..Full, phase : {"INITIAL", "BREAKEVEN"}, tp : BOOLEAN]
  /\ Cooldown \in Nat
  /\ MaxLosses \in Nat \ {0}
  /\ ScaleOut \in BOOLEAN
  /\ Faults \subseteq FaultKind
  /\ MaxEntries \in Nat
  /\ MaxQueue \in Nat
  /\ MaxOrders \in Nat

VARIABLES
  \* ---- the engine object
  pc,              \* the next exchange or database call of the running handler
  caller,          \* what the running handler does once a shared routine returns
  state,           \* StateMachine._state
  pos,             \* StateMachine._position
  slId,            \* _current_stop_order_id
  tpId,            \* _current_tp_algo_id
  pendingClose,    \* _pending_fallback_close
  cooldown,        \* _post_close_cooldown_remaining
  bucketUsed,      \* the forming bar is _last_intrabar_entry_bucket_ts
  losses,          \* KillSwitch._consecutive_losses
  dailyLoss,       \* KillSwitch: the equity of the day against the daily limit
  equityKnown,     \* EngineService._equity_value has been fetched at least once
  \* ---- the exchange
  exPos,           \* position amount
  exited,          \* userTrades holds an exit fill later than the entry
  orders,          \* live protective orders
  queue,           \* reduce-only fills on their way through the user stream
  \* ---- history, read by the properties only
  ep,              \* number of the current or last exchange position
  whole,           \* what this engine object bought or restored
  exitSrc,         \* where the exit price being recorded comes from
  trades,          \* rows of trade_log
  unmanaged,       \* the exchange got or kept a position the engine gave up on
  sinceClose,      \* candle closes handled since the last recorded trade
  flatSeen         \* candle closes in a row that saw this position flat

engineVars   == <<state, pos, slId, tpId>>
riskVars     == <<pendingClose, cooldown, bucketUsed, losses, dailyLoss, equityKnown>>
amountVars   == <<exPos, exited, queue>>
exchangeVars == <<amountVars, orders>>
historyVars  == <<ep, whole, exitSrc, trades, unmanaged, sinceClose, flatSeen>>
vars == <<pc, caller, engineVars, riskVars, exchangeVars, historyVars>>

-----------------------------------------------------------------------------
(***************************************************************************)
(* Values.                                                                 *)
(***************************************************************************)
Amount    == 1..Full
HalfOf(n) == n \div 2

OpenPosition == [size : Amount, phase : {"INITIAL", "BREAKEVEN"}, tp : BOOLEAN]
Order        == [id : OrderId, kind : {"SL", "TP"}, qty : Amount]
Fill         == [ep : Nat, final : BOOLEAN]
Source       == {"none", "fill", "stale", "trades", "blend", "guess"}
Caller       == {"none", "candle", "tick", "signal", "tpCandle", "tpTick", "stream", "fallback"}

EntryPc == {"e_market", "e_sl", "e_tp", "e_flatten"}
OpenPc  == {"c_flat", "h_sl", "h_flatten", "h_tp", "t_recover",
            "x_check", "x_order", "x_confirm", "x_failed",
            "s_cancel", "s_half", "s_poll", "s_sl", "s_tp", "s_fail", "r_record"}

Fault(f)  == f \in Faults
Smaller(a, b) == IF a <= b THEN a ELSE b
Killed    == dailyLoss = "limit" \/ losses >= MaxLosses
Tracked(id) == {o \in orders : o.id = id}

Ids(S)    == {o.id : o \in S}
FreshId   == OrderId \ (Ids(orders) \cup {slId, tpId})

-----------------------------------------------------------------------------
(***************************************************************************)
(* The exchange as the engine's calls meet it.                             *)
(***************************************************************************)
\* The user stream is connected after the position sync.
StreamConnected == pc \notin {"sync", "sync_tp"}

\* A reduce-only execution of at most q; the user stream carries the fill.
Reduce(q) ==
  LET done == Smaller(q, exPos)
      fill == [ep |-> ep, final |-> exPos = done]
  IN /\ done > 0
     /\ exPos' = exPos - done
     /\ exited' = TRUE
     /\ queue' = IF StreamConnected /\ Len(queue) < MaxQueue
                   THEN Append(queue, fill) ELSE queue

\* _close_position_flatten: done, done in part behind an answer it rejects,
\* or refused.  A reduce-only order is refused when there is no position.
FlattenOrder(size) ==
  \/ Reduce(size)
  \/ Fault("ghost") /\ \E part \in 1..size : Reduce(part)
  \/ (exPos = 0 \/ Fault("flatten")) /\ UNCHANGED amountVars

\* Orders that may remain after an attempt to cancel those with ids in S.
LeftAfterCancel(S) ==
  LET targets == {o \in orders : o.id \in S}
  IN IF Fault("cancel") THEN {orders \ gone : gone \in SUBSET targets}
                        ELSE {orders \ targets}

\* An order of this kind is accepted under id and confirmed.
PlaceVerified(kind, qty, id) ==
  /\ id \in FreshId
  /\ orders' = orders \cup {[id |-> id, kind |-> kind, qty |-> qty]}

\* The placement is given up: refused, or accepted and left unconfirmed.
LeftAfterFailedPlacement(kind, qty) ==
  (IF Fault("place") THEN {orders} ELSE {}) \cup
  (IF Fault("unverified") /\ Cardinality(orders) < MaxOrders
     THEN {orders \cup {[id |-> id, kind |-> kind, qty |-> qty]} : id \in FreshId}
     ELSE {})

\* _is_position_flat_on_exchange: an exception reads as "not flat".
ReadsFlat    == exPos = 0 \/ Fault("glitch")
ReadsNotFlat == exPos > 0 \/ Fault("query")

\* _resolve_exit_price_from_trades: the average of the exit fills after the
\* entry; no such fill, or a failing query, gives None.  "After" compares the
\* exchange's clock with entry_time, a UTC string without a zone that the code
\* reads as local time: this is what it does on a host whose zone is UTC.
TradesFound   == exited
TradesMissing == ~exited \/ Fault("query")

\* After the scale-out the average includes the half that is no longer part
\* of the position being recorded.
TradesPrice == IF pos.phase = "BREAKEVEN" THEN "blend" ELSE "trades"

-----------------------------------------------------------------------------
(***************************************************************************)
(* Control flow.                                                           *)
(***************************************************************************)
Goto(next) ==
  /\ pc' = next
  /\ caller' = IF next = "idle" THEN "none" ELSE caller

GotoFor(next, c) == pc' = next /\ caller' = c

\* on_position_closed is entered with this exit price.
GoRecord(source, c) == GotoFor("r_record", c) /\ exitSrc' = source

\* Mutant: the phase check of _maybe_breakeven_scaleout is dropped.
ScaleOutAgain == ScaleOut /\ HalfOf(pos.size) > 0

\* 1R may be reached, and half of the size is neither zero nor all of it.  A
\* position restored by a start is INITIAL again, whatever was sold of it.
ScaleOutPossible == ScaleOut /\ pos.phase = "INITIAL" /\ HalfOf(pos.size) > 0

ScaleOutOrIdle ==
  \/ ScaleOutPossible /\ GotoFor("s_cancel", "tick")
  \/ Goto("idle")

\* _market_close_open_position raised: the except branch of its caller.
CloseFails ==
  \/ caller = "signal" /\ Goto("x_failed")
  \/ caller = "tpTick" /\ ScaleOutOrIdle
  \/ caller = "tpCandle" /\ Goto("idle")

-----------------------------------------------------------------------------
(***************************************************************************)
(* Start: EngineService._sync_binance_position, before any stream runs.    *)
(***************************************************************************)
StartStates ==
  \E amount \in 0..Full, sl \in BOOLEAN, tp \in BOOLEAN :
  \E a \in OrderId : \E b \in OrderId \ {a} :
    LET qty == IF amount = 0 THEN Full ELSE amount
    IN /\ exPos = amount
       /\ ep = IF amount = 0 THEN 0 ELSE 1
       /\ orders = (IF sl THEN {[id |-> a, kind |-> "SL", qty |-> qty]} ELSE {})
              \cup (IF tp THEN {[id |-> b, kind |-> "TP", qty |-> qty]} ELSE {})

Init ==
  /\ pc = "sync" /\ caller = "none"
  /\ state = "FLAT" /\ pos = NoPos /\ slId = NoOrder /\ tpId = NoOrder
  /\ pendingClose = FALSE /\ cooldown = 0 /\ bucketUsed = FALSE
  /\ losses = 0 /\ dailyLoss = "unknown" /\ equityKnown = FALSE
  /\ StartStates /\ queue = <<>> /\ exited = (0 < exPos /\ exPos < Full)
  /\ whole = 0 /\ exitSrc = "none" /\ trades = <<>> /\ unmanaged = FALSE
  /\ sinceClose = Cooldown /\ flatSeen = 0

\* Nothing to restore, or nothing seen: the engine starts FLAT.
SyncNothing ==
  /\ pc = "sync"
  /\ exPos = 0 \/ Fault("query") \/ Fault("glitch")
  /\ Goto("idle")
  /\ unmanaged' = (unmanaged \/ exPos > 0)
  /\ UNCHANGED <<engineVars, riskVars, exchangeVars,
                 ep, whole, exitSrc, trades, sinceClose, flatSeen>>

\* restore_position: take profit known iff its order was listed.
Restore(stop) ==
  /\ state' = "OPEN"
  /\ \E tp \in BOOLEAN :
       /\ tp => \E o \in orders : o.kind = "TP"
       /\ ~tp => Fault("query") \/ \A o \in orders : o.kind # "TP"
       /\ pos' = [size |-> Smaller(exPos, Full), phase |-> "INITIAL", tp |-> tp]
  /\ whole' = Smaller(exPos, Full)
  /\ exited' \in {exited, FALSE}   \* entry_time is the exchange's updateTime
  /\ slId' = stop
  /\ Goto("sync_tp")
  /\ UNCHANGED <<tpId, riskVars, exPos, queue,
                 ep, exitSrc, trades, unmanaged, sinceClose, flatSeen>>

SyncExistingStop ==
  /\ pc = "sync" /\ exPos > 0
  /\ \E o \in orders : o.kind = "SL" /\ Restore(o.id)
  /\ UNCHANGED orders

\* The stop the sync gives up: none is listed, the list could not be read,
\* or the one listed is on the wrong side of the entry or unconfirmed.
StopsGivenUp ==
  {{o.id} : o \in {x \in orders : x.kind = "SL"}}
  \cup (IF Fault("query") \/ \A o \in orders : o.kind # "SL" THEN {{}} ELSE {})

\* It is cancelled, and a safety stop is placed and confirmed; an attempt
\* that could not be confirmed may have left an order of its own.
SyncNewStop ==
  /\ pc = "sync" /\ exPos > 0
  /\ \E old \in StopsGivenUp, qty \in {Smaller(exPos, Full)} :
     \E left \in LeftAfterCancel(old),
        tried \in {orders} \cup LeftAfterFailedPlacement("SL", qty) :
     \E id \in FreshId \ Ids(tried) :
       /\ orders' = left \cup (tried \ orders)
                      \cup {[id |-> id, kind |-> "SL", qty |-> qty]}
       /\ Restore(id)

\* FAIL-CLOSED: the position stays on the exchange, the engine starts FLAT.
SyncFailClosed ==
  /\ pc = "sync" /\ exPos > 0
  /\ \E old \in StopsGivenUp :
     \E left \in LeftAfterCancel(old),
        tried \in LeftAfterFailedPlacement("SL", Smaller(exPos, Full)) :
       orders' = left \cup (tried \ orders)
  /\ unmanaged' = TRUE
  /\ Goto("idle")
  /\ UNCHANGED <<engineVars, riskVars, amountVars,
                 ep, whole, exitSrc, trades, sinceClose, flatSeen>>

\* The listed take-profit order is adopted if it is active; a missing one is
\* derived from the ATR by _recover_tp_from_atr, without confirmation.
SyncTakeProfit ==
  /\ pc = "sync_tp"
  /\ \/ /\ pos.tp
        /\ tpId' \in {o.id : o \in {x \in orders : x.kind = "TP"}}
                     \cup (IF Fault("unverified") THEN {NoOrder} ELSE {})
                     \cup (IF \A x \in orders : x.kind # "TP" THEN {NoOrder} ELSE {})
        /\ UNCHANGED <<pos, orders>>
     \/ /\ ~pos.tp
        /\ \E id \in FreshId : PlaceVerified("TP", pos.size, id) /\ tpId' = id
        /\ pos' = [pos EXCEPT !.tp = TRUE]
     \/ /\ ~pos.tp /\ Fault("place")
        /\ UNCHANGED <<pos, tpId, orders>>
  /\ Goto("idle")
  /\ UNCHANGED <<state, slId, riskVars, amountVars, historyVars>>

-----------------------------------------------------------------------------
(***************************************************************************)
(* Entry, shared by on_candle_close and on_market_update.                  *)
(***************************************************************************)
\* on_signal, then _cleanup_stale_algo_orders, whose failure is only logged.
BeginEntry(c) ==
  /\ ep < MaxEntries
  /\ state' = "ENTERING"
  /\ orders' \in LeftAfterCancel(Ids(orders))
  /\ GotoFor("e_market", c)
  /\ UNCHANGED <<pos, slId, tpId, amountVars,
                 ep, whole, exitSrc, trades, unmanaged, flatSeen>>

EntryFilled ==
  /\ pc = "e_market"
  /\ exPos' = exPos + Full
  /\ exited' = FALSE
  /\ ep' = ep + 1 /\ whole' = Full
  /\ flatSeen' = 0
  /\ \/ Goto("e_sl")
     \/ Fault("response") /\ Goto("e_flatten")
  /\ UNCHANGED <<engineVars, riskVars, orders, queue,
                 exitSrc, trades, unmanaged, sinceClose>>

\* Refused; or executed, in part or in full, behind a lost or non-FILLED
\* answer, which the engine treats the same way.
EntryNotFilled ==
  /\ pc = "e_market"
  /\ \E q \in 0..Full :
       /\ q > 0 => Fault("ghost")
       /\ exPos' = exPos + q
       /\ exited' = (exited /\ q = 0)
       /\ ep' = IF q > 0 THEN ep + 1 ELSE ep
       /\ unmanaged' = (unmanaged \/ q > 0)
  /\ state' = "FLAT"
  /\ Goto("idle")
  /\ UNCHANGED <<pos, slId, tpId, riskVars, orders, queue,
                 whole, exitSrc, trades, sinceClose, flatSeen>>

EntryStop ==
  /\ pc = "e_sl"
  /\ \/ \E id \in FreshId :
          PlaceVerified("SL", Full, id) /\ slId' = id /\ Goto("e_tp")
     \/ /\ orders' \in LeftAfterFailedPlacement("SL", Full)
        /\ Goto("e_flatten")
        /\ UNCHANGED slId
  /\ UNCHANGED <<state, pos, tpId, riskVars, amountVars, historyVars>>

\* Mutant: fail_closed=False on entry.
EntryTakeProfitOptional ==
  /\ pc = "e_tp"
  /\ \/ \E id \in FreshId : PlaceVerified("TP", Full, id) /\ tpId' = id
     \/ orders' \in LeftAfterFailedPlacement("TP", Full) /\ UNCHANGED tpId
  /\ state' = "OPEN"
  /\ pos' = [size |-> Full, phase |-> "INITIAL", tp |-> TRUE]
  /\ bucketUsed' = (bucketUsed \/ caller = "tick")
  /\ Goto("idle")
  /\ UNCHANGED <<slId, pendingClose, cooldown, losses, dailyLoss, equityKnown,
                 amountVars, historyVars>>

\* The position is OPEN only with both orders confirmed (fail_closed=True).
EntryTakeProfit ==
  /\ pc = "e_tp"
  /\ \E id \in FreshId : PlaceVerified("TP", Full, id) /\ tpId' = id
  /\ state' = "OPEN"
  /\ pos' = [size |-> Full, phase |-> "INITIAL", tp |-> TRUE]
  /\ bucketUsed' = (bucketUsed \/ caller = "tick")
  /\ Goto("idle")
  /\ UNCHANGED <<slId, pendingClose, cooldown, losses, dailyLoss, equityKnown,
                 amountVars, historyVars>>

\* Mutant: the id of the cancelled stop is kept.
EntryTakeProfitFailsKeepsId ==
  /\ pc = "e_tp"
  /\ \E placed \in LeftAfterFailedPlacement("TP", Full) :
       \E left \in LeftAfterCancel({slId}) :
         orders' = left \cup (placed \ orders)
  /\ Goto("e_flatten")
  /\ UNCHANGED <<state, pos, slId, tpId, riskVars, amountVars, historyVars>>

EntryTakeProfitFails ==
  /\ pc = "e_tp"
  /\ \E placed \in LeftAfterFailedPlacement("TP", Full) :
       \E left \in LeftAfterCancel({slId}) :
         orders' = left \cup (placed \ orders)
  /\ slId' = NoOrder
  /\ Goto("e_flatten")
  /\ UNCHANGED <<state, pos, tpId, riskVars, amountVars, historyVars>>

\* _close_position_flatten, then the rollback whether or not it raised.
EntryFlatten ==
  /\ pc = "e_flatten"
  /\ FlattenOrder(Full)
  /\ unmanaged' = (unmanaged \/ exPos' > 0)
  /\ state' = "FLAT"
  /\ Goto("idle")
  /\ UNCHANGED <<pos, slId, tpId, riskVars, orders,
                 ep, whole, exitSrc, trades, sinceClose, flatSeen>>

-----------------------------------------------------------------------------
(***************************************************************************)
(* on_candle_close, called with the equity, which is positive.             *)
(***************************************************************************)
\* update_equity; the first equity of a process is the one of the day's start.
DrawdownReadings ==
  IF Fault("drawdown") /\ dailyLoss # "unknown" THEN {"within", "limit"} ELSE {"within"}

\* The kill switch returns early, an engine stuck in CLOSING matches no
\* branch, and a FLAT one may have no signal.
CandleIdle ==
  /\ Killed' \/ state = "CLOSING" \/ (state = "FLAT" /\ cooldown = 0)
  /\ UNCHANGED <<pc, caller, engineVars, cooldown, exchangeVars,
                 ep, whole, exitSrc, trades, unmanaged, flatSeen>>

\* Did the exchange close the position?  Asked in c_flat.
CandleOpen ==
  /\ ~Killed' /\ state = "OPEN"
  /\ GotoFor("c_flat", "candle")
  /\ UNCHANGED <<engineVars, cooldown, exchangeVars,
                 ep, whole, exitSrc, trades, unmanaged, flatSeen>>

CandleCountsDown ==
  /\ ~Killed' /\ state = "FLAT" /\ cooldown > 0
  /\ cooldown' = cooldown - 1
  /\ UNCHANGED <<pc, caller, engineVars, exchangeVars,
                 ep, whole, exitSrc, trades, unmanaged, flatSeen>>

CandleEntry ==
  /\ ~Killed' /\ state = "FLAT" /\ cooldown = 0
  /\ BeginEntry("candle")
  /\ UNCHANGED cooldown

\* update_equity comes first.
OnCandleClose ==
  /\ pc = "idle"
  /\ equityKnown' = TRUE
  /\ dailyLoss' \in DrawdownReadings
  /\ bucketUsed' = FALSE
  /\ sinceClose' = Smaller(sinceClose + 1, Cooldown)
  /\ UNCHANGED <<pendingClose, losses>>
  /\ CandleIdle \/ CandleOpen \/ CandleCountsDown \/ CandleEntry

\* A bar closes without the handler: the stream was reconnecting, or the
\* equity, or the free slots, were reported as 0.
MissedCandle ==
  /\ pc = "idle"
  /\ bucketUsed /\ bucketUsed' = FALSE
  /\ UNCHANGED <<pc, caller, engineVars, pendingClose, cooldown, losses, dailyLoss,
                 equityKnown, exchangeVars, ep, whole, exitSrc, trades, unmanaged,
                 sinceClose, flatSeen>>

\* The position is there: close it on a CloseSignal, scale out, or go on to
\* the health checks.
StillOpen ==
  /\ pc = "c_flat" /\ ReadsNotFlat
  /\ pendingClose' = FALSE
  /\ flatSeen' = 0
  /\ \/ GotoFor("x_check", "signal")
     \/ ScaleOutPossible /\ GotoFor("s_cancel", "candle")
     \/ Goto("h_sl")
  /\ UNCHANGED <<engineVars, cooldown, bucketUsed, losses, dailyLoss, equityKnown,
                 exchangeVars, ep, whole, exitSrc, trades, unmanaged, sinceClose>>

\* Mutant: the first sighting is not remembered.
FallbackNotNoted ==
  /\ pc = "c_flat" /\ ReadsFlat /\ ~pendingClose
  /\ flatSeen' = Smaller(flatSeen + 1, 2)
  /\ Goto("idle")
  /\ UNCHANGED <<engineVars, riskVars, exchangeVars,
                 ep, whole, exitSrc, trades, unmanaged, sinceClose>>

\* First sighting: leave the close to the user stream until the next candle.
FallbackNoted ==
  /\ pc = "c_flat" /\ ReadsFlat /\ ~pendingClose
  /\ pendingClose' = TRUE
  /\ flatSeen' = Smaller(flatSeen + 1, 2)
  /\ Goto("idle")
  /\ UNCHANGED <<engineVars, cooldown, bucketUsed, losses, dailyLoss, equityKnown,
                 exchangeVars, ep, whole, exitSrc, trades, unmanaged, sinceClose>>

FallbackRecord ==
  /\ pc = "c_flat" /\ ReadsFlat /\ pendingClose /\ TradesFound
  /\ pendingClose' = FALSE
  /\ GoRecord(TradesPrice, "fallback")
  /\ UNCHANGED <<engineVars, cooldown, bucketUsed, losses, dailyLoss, equityKnown,
                 exchangeVars, ep, whole, trades, unmanaged, sinceClose, flatSeen>>

FallbackDeferred ==
  /\ pc = "c_flat" /\ ReadsFlat /\ pendingClose /\ TradesMissing
  /\ flatSeen' = Smaller(flatSeen + 1, 2)
  /\ Goto("idle")
  /\ UNCHANGED <<engineVars, riskVars, exchangeVars,
                 ep, whole, exitSrc, trades, unmanaged, sinceClose>>

\* Deferred stop check: a stop that is active, or whose query fails, is left
\* alone; a missing one is placed again.
StopBelievedActive ==
  /\ pc = "h_sl" /\ slId # NoOrder
  /\ Tracked(slId) # {} \/ Fault("query")
  /\ Goto("h_tp")
  /\ UNCHANGED <<engineVars, riskVars, exchangeVars, historyVars>>

StopSeenMissing == Tracked(slId) = {} \/ Fault("unverified")

\* Mutant: the id of the new stop is not kept.
StopReplacedUnknown ==
  /\ pc = "h_sl" /\ StopSeenMissing
  /\ \E id \in FreshId : PlaceVerified("SL", pos.size, id)
  /\ Goto("h_tp")
  /\ UNCHANGED <<engineVars, riskVars, amountVars, historyVars>>

StopReplaced ==
  /\ pc = "h_sl" /\ StopSeenMissing
  /\ \E id \in FreshId : PlaceVerified("SL", pos.size, id) /\ slId' = id
  /\ Goto("h_tp")
  /\ UNCHANGED <<state, pos, tpId, riskVars, amountVars, historyVars>>

StopNotReplaced ==
  /\ pc = "h_sl" /\ StopSeenMissing
  /\ orders' \in LeftAfterFailedPlacement("SL", pos.size)
  /\ Goto("h_flatten")
  /\ UNCHANGED <<engineVars, riskVars, amountVars, historyVars>>

\* No stop can be had: flatten, and leave the recording to a later handler.
HealthFlatten ==
  /\ pc = "h_flatten"
  /\ FlattenOrder(pos.size)
  /\ Goto("idle")
  /\ UNCHANGED <<engineVars, riskVars, orders, historyVars>>

\* A take profit without its order is placed again, and one that was never
\* set may be derived from the regime; the price is kept when its order fails.
CheckTakeProfit ==
  /\ pc = "h_tp"
  /\ \/ /\ pos.tp => tpId # NoOrder \/ Fault("query")
        /\ Goto("idle") /\ UNCHANGED <<pos, tpId, orders>>
     \/ /\ pos.tp => tpId = NoOrder
        /\ \E id \in FreshId : PlaceVerified("TP", pos.size, id) /\ tpId' = id
        /\ pos' = [pos EXCEPT !.tp = TRUE]
        /\ Goto("idle")
     \/ /\ pos.tp => tpId = NoOrder
        /\ orders' \in LeftAfterFailedPlacement("TP", pos.size)
        /\ tpId' = NoOrder
        /\ pos' = [pos EXCEPT !.tp = TRUE]
        /\ \/ Goto("idle")
           \/ pos.tp /\ GotoFor("x_check", "tpCandle")
  /\ UNCHANGED <<state, slId, riskVars, amountVars, historyVars>>

-----------------------------------------------------------------------------
(***************************************************************************)
(* on_market_update: a forming bar, with a positive equity.                *)
(***************************************************************************)
\* _check_realtime_tp closes when the take profit has no order and is
\* reached; then _maybe_breakeven_scaleout.
TickContinues ==
  \/ pos.tp /\ tpId = NoOrder /\ GotoFor("x_check", "tpTick")
  \/ ScaleOutOrIdle

TickOpen ==
  /\ state = "OPEN"
  /\ \/ slId = NoOrder /\ GotoFor("t_recover", "tick")
     \/ slId # NoOrder /\ TickContinues
  /\ UNCHANGED <<engineVars, exchangeVars, historyVars>>

\* Mutant: the intrabar path ignores the cooldown.
TickEntryInCooldown ==
  /\ state = "FLAT" /\ ~Killed /\ ~bucketUsed
  /\ BeginEntry("tick")
  /\ UNCHANGED sinceClose

\* The other two bucket guards add nothing: they compare the forming bar,
\* known by its open time, with closed bars, known by their close time.
TickEntry ==
  /\ state = "FLAT" /\ cooldown = 0 /\ ~Killed /\ ~bucketUsed
  /\ BeginEntry("tick")
  /\ UNCHANGED sinceClose

OnMarketUpdate ==
  /\ pc = "idle"
  /\ TickOpen \/ TickEntry
  /\ equityKnown' = TRUE
  /\ UNCHANGED <<pendingClose, cooldown, bucketUsed, losses, dailyLoss>>

\* Mutant: the recovered stop covers the half the scale-out would have left.
RecoverHalf(size) ==
  \/ UNCHANGED <<slId, orders>>
  \/ \E id \in FreshId : PlaceVerified("SL", (size + 1) \div 2, id) /\ slId' = id
  \/ orders' \in LeftAfterFailedPlacement("SL", (size + 1) \div 2) /\ UNCHANGED slId

\* _try_recover_sl: throttled, placed, or given up until the throttle opens.
RecoverStop(size) ==
  \/ UNCHANGED <<slId, orders>>
  \/ \E id \in FreshId : PlaceVerified("SL", size, id) /\ slId' = id
  \/ orders' \in LeftAfterFailedPlacement("SL", size) /\ UNCHANGED slId

TickRecover ==
  /\ pc = "t_recover"
  /\ RecoverStop(pos.size)
  /\ TickContinues
  /\ UNCHANGED <<state, pos, tpId, riskVars, amountVars, historyVars>>

-----------------------------------------------------------------------------
(***************************************************************************)
(* _market_close_open_position: a CloseSignal or a logical take profit.    *)
(***************************************************************************)
CloseAlreadyFlat ==
  /\ pc = "x_check" /\ ReadsFlat /\ TradesFound
  /\ GoRecord(TradesPrice, caller)
  /\ UNCHANGED <<engineVars, riskVars, exchangeVars,
                 ep, whole, trades, unmanaged, sinceClose, flatSeen>>

\* The protective orders go first; the order that replaces them is the next
\* call.
CancelForClose ==
  /\ pc = "x_check" /\ (ReadsNotFlat \/ TradesMissing)
  /\ orders' \in LeftAfterCancel({slId, tpId})
  /\ slId' = NoOrder /\ tpId' = NoOrder
  /\ Goto("x_order")
  /\ UNCHANGED <<state, pos, riskVars, amountVars, historyVars>>

\* Answered FILLED; executed or not behind an answer the engine cannot use;
\* or the call raises, having been executed or refused.
CloseOrder ==
  /\ pc = "x_order"
  /\ \/ Reduce(pos.size) /\ GoRecord("fill", caller)
     \/ /\ \/ Fault("response") /\ Reduce(pos.size)
           \/ Fault("ghost") /\ \E part \in 1..pos.size : Reduce(part)
           \/ Fault("response") /\ UNCHANGED amountVars
        /\ GotoFor("x_confirm", caller) /\ UNCHANGED exitSrc
     \/ /\ \/ Fault("ghost") /\ Reduce(pos.size)
           \/ (exPos = 0 \/ Fault("flatten")) /\ UNCHANGED amountVars
        /\ CloseFails /\ UNCHANGED exitSrc
  /\ UNCHANGED <<engineVars, riskVars, orders,
                 ep, whole, trades, unmanaged, sinceClose, flatSeen>>

\* Mutant: an unusable answer is taken for a close.
CloseAssumed ==
  /\ pc = "x_confirm"
  /\ GoRecord("guess", caller)
  /\ UNCHANGED <<engineVars, riskVars, exchangeVars,
                 ep, whole, trades, unmanaged, sinceClose, flatSeen>>

\* The exit price comes from the trades or, failing that, from the ticker.
CloseConfirm ==
  /\ pc = "x_confirm"
  /\ \/ ReadsFlat /\ TradesFound /\ GoRecord(TradesPrice, caller)
     \/ ReadsFlat /\ TradesMissing /\ GoRecord("guess", caller)
     \/ ReadsNotFlat /\ CloseFails /\ UNCHANGED exitSrc
  /\ UNCHANGED <<engineVars, riskVars, exchangeVars,
                 ep, whole, trades, unmanaged, sinceClose, flatSeen>>

\* on_candle_close after a CloseSignal whose market close raised.
SignalCloseFailed ==
  /\ pc = "x_failed"
  /\ \/ ReadsFlat /\ TradesFound /\ GoRecord(TradesPrice, caller)
     \/ (ReadsNotFlat \/ TradesMissing) /\ Goto("idle") /\ UNCHANGED exitSrc
  /\ UNCHANGED <<engineVars, riskVars, exchangeVars,
                 ep, whole, trades, unmanaged, sinceClose, flatSeen>>

-----------------------------------------------------------------------------
(***************************************************************************)
(* on_position_closed.                                                     *)
(***************************************************************************)
\* The user stream passes the equity it has, which is 0 before the first
\* successful fetch; KillSwitch.update_equity then raises ValueError.
EquityRejected == caller = "stream" /\ ~equityKnown

\* Mutant: on_exit_requested is skipped.
CloseNotRequested ==
  /\ pc = "r_record"
  /\ UNCHANGED state
  /\ losses' \in {0, Smaller(losses + 1, MaxLosses)}

\* on_exit_requested, then the kill switch takes the result of the trade.
CloseRequested ==
  /\ pc = "r_record"
  /\ state' = "CLOSING"
  /\ losses' \in {0, Smaller(losses + 1, MaxLosses)}

RecordTrade ==
  /\ CloseRequested /\ ~EquityRejected
  /\ dailyLoss' \in DrawdownReadings
  /\ trades' = Append(trades, [ep |-> ep, src |-> exitSrc])
  /\ Goto("r_finish")
  /\ UNCHANGED <<pos, slId, tpId, pendingClose, cooldown, bucketUsed, equityKnown,
                 exchangeVars, ep, whole, exitSrc, unmanaged, sinceClose, flatSeen>>

\* Mutant: the exception path resets the engine.
RecordRaisesResets ==
  /\ pc = "r_record" /\ (EquityRejected \/ Fault("db"))
  /\ state' = "FLAT" /\ pos' = NoPos /\ slId' = NoOrder /\ tpId' = NoOrder
  /\ exitSrc' = "none"
  /\ Goto("idle")
  /\ UNCHANGED <<riskVars, exchangeVars,
                 ep, whole, trades, unmanaged, sinceClose, flatSeen>>

\* The exception leaves the engine in CLOSING with its position.  On the
\* user stream it also ends the connection, and what was buffered on it.
RecordRaises ==
  /\ CloseRequested /\ (EquityRejected \/ Fault("db"))
  /\ dailyLoss' \in IF EquityRejected THEN {dailyLoss} ELSE DrawdownReadings
  /\ queue' = IF caller = "stream" THEN <<>> ELSE queue
  /\ exitSrc' = "none"
  /\ Goto("idle")
  /\ UNCHANGED <<pos, slId, tpId, pendingClose, cooldown, bucketUsed, equityKnown,
                 exPos, exited, orders, ep, whole, trades, unmanaged, sinceClose, flatSeen>>

\* The equity log, the cancels, on_exit_filled and the resets.
RecordFinish ==
  /\ pc = "r_finish"
  /\ orders' \in LeftAfterCancel({slId, tpId})
  /\ state' = "FLAT" /\ pos' = NoPos
  /\ slId' = NoOrder /\ tpId' = NoOrder
  /\ cooldown' = Cooldown
  /\ exitSrc' = "none"
  /\ sinceClose' = 0 /\ flatSeen' = 0
  /\ Goto("idle")
  /\ UNCHANGED <<pendingClose, bucketUsed, losses, dailyLoss, equityKnown,
                 amountVars, ep, whole, trades, unmanaged>>

\* Mutant: the exception path lets the close be tried again.
FinishRaisesReopens ==
  /\ pc = "r_finish" /\ Fault("db")
  /\ state' = "OPEN"
  /\ exitSrc' = "none"
  /\ Goto("idle")
  /\ UNCHANGED <<pos, slId, tpId, riskVars, exchangeVars,
                 ep, whole, trades, unmanaged, sinceClose, flatSeen>>

FinishRaises ==
  /\ pc = "r_finish" /\ Fault("db")
  /\ queue' = IF caller = "stream" THEN <<>> ELSE queue
  /\ exitSrc' = "none"
  /\ Goto("idle")
  /\ UNCHANGED <<engineVars, riskVars, exPos, exited, orders,
                 ep, whole, trades, unmanaged, sinceClose, flatSeen>>

-----------------------------------------------------------------------------
(***************************************************************************)
(* _maybe_breakeven_scaleout: half of the position is sold at 1R and the   *)
(* stop of the rest moves to the entry price.  _be_scaleout_inflight is    *)
(* never seen by another handler; _be_scaleout_done is implied by the      *)
(* phase.                                                                  *)
(***************************************************************************)
\* It is the last thing a tick does, and precedes the health checks of a candle.
AfterScaleOut == Goto(IF caller = "candle" THEN "h_sl" ELSE "idle")

\* Mutant: the stop is left on the exchange.
ScaleOutCancelsTakeProfit ==
  /\ pc = "s_cancel"
  /\ orders' \in LeftAfterCancel({tpId})
  /\ slId' = NoOrder /\ tpId' = NoOrder
  /\ Goto("s_half")
  /\ UNCHANGED <<state, pos, riskVars, amountVars, historyVars>>

ScaleOutCancel ==
  /\ pc = "s_cancel"
  /\ orders' \in LeftAfterCancel({slId, tpId})
  /\ slId' = NoOrder /\ tpId' = NoOrder
  /\ Goto("s_half")
  /\ UNCHANGED <<state, pos, riskVars, amountVars, historyVars>>

\* An exception may hide an execution; an answer short of FILLED counts if
\* it executed anything.
ScaleOutHalf ==
  /\ pc = "s_half"
  /\ \/ Reduce(HalfOf(pos.size)) /\ Goto("s_poll")
     \/ /\ Fault("ghost") /\ \E part \in 1..HalfOf(pos.size) : Reduce(part)
        /\ Goto("s_poll") \/ Goto("s_fail")
     \/ (exPos = 0 \/ Fault("flatten")) /\ UNCHANGED amountVars /\ Goto("s_fail")
  /\ UNCHANGED <<engineVars, riskVars, orders, historyVars>>

\* A position that turned out flat is left to the other handlers, without
\* its orders; one that did not shrink in time is a failure.
ScaleOutPoll ==
  /\ pc = "s_poll"
  /\ \/ ReadsFlat /\ AfterScaleOut /\ UNCHANGED pos
     \/ /\ exPos \in 1..(pos.size - 1)
        /\ pos' = [pos EXCEPT !.size = exPos, !.phase = "BREAKEVEN"]
        /\ Goto("s_sl")
     \/ /\ exPos >= pos.size \/ Fault("query")
        /\ Goto("s_fail") /\ UNCHANGED pos
  /\ UNCHANGED <<state, slId, tpId, riskVars, exchangeVars, historyVars>>

ScaleOutStop ==
  /\ pc = "s_sl"
  /\ \/ /\ \E id \in FreshId : PlaceVerified("SL", pos.size, id) /\ slId' = id
        /\ IF pos.tp THEN Goto("s_tp") ELSE AfterScaleOut
     \/ /\ orders' \in LeftAfterFailedPlacement("SL", pos.size)
        /\ Goto("s_fail") /\ UNCHANGED slId
  /\ UNCHANGED <<state, pos, tpId, riskVars, amountVars, historyVars>>

\* Placed; given up (fail_closed=False); or the ticker query raises.
ScaleOutTakeProfit ==
  /\ pc = "s_tp"
  /\ \/ /\ \E id \in FreshId : PlaceVerified("TP", pos.size, id) /\ tpId' = id
        /\ AfterScaleOut
     \/ /\ orders' \in LeftAfterFailedPlacement("TP", pos.size)
        /\ AfterScaleOut /\ UNCHANGED tpId
     \/ Fault("query") /\ Goto("s_fail") /\ UNCHANGED <<tpId, orders>>
  /\ UNCHANGED <<state, pos, slId, riskVars, amountVars, historyVars>>

\* The stop is placed again, whatever stop is already there.
ScaleOutFailed ==
  /\ pc = "s_fail"
  /\ RecoverStop(pos.size)
  /\ AfterScaleOut
  /\ UNCHANGED <<state, pos, tpId, riskVars, amountVars, historyVars>>

-----------------------------------------------------------------------------
(***************************************************************************)
(* BinanceUserStream and on_reduce_only_fill_from_stream.  The message     *)
(* gives the price; whether the position is closed is asked of REST.       *)
(***************************************************************************)
FillIgnored ==
  /\ pc = "idle" /\ queue # <<>>
  /\ state # "OPEN" \/ ReadsNotFlat
  /\ queue' = Tail(queue)
  /\ UNCHANGED <<pc, caller, engineVars, riskVars, exPos, exited, orders, historyVars>>

\* Mutant: a reduce-only fill is taken for a close.
FillAlwaysCloses ==
  /\ pc = "idle" /\ queue # <<>>
  /\ state = "OPEN"
  /\ queue' = Tail(queue)
  /\ GoRecord("fill", "stream")
  /\ UNCHANGED <<engineVars, riskVars, exPos, exited, orders,
                 ep, whole, trades, unmanaged, sinceClose, flatSeen>>

FillCloses ==
  /\ pc = "idle" /\ queue # <<>>
  /\ state = "OPEN" /\ ReadsFlat
  /\ queue' = Tail(queue)
  /\ GoRecord(IF Head(queue) = [ep |-> ep, final |-> TRUE] THEN "fill" ELSE "stale",
              "stream")
  /\ UNCHANGED <<engineVars, riskVars, exPos, exited, orders,
                 ep, whole, trades, unmanaged, sinceClose, flatSeen>>

-----------------------------------------------------------------------------
(***************************************************************************)
(* The environment.                                                        *)
(***************************************************************************)
engineSide == <<pc, caller, engineVars, riskVars>>

Trigger(o) ==
  /\ o \in orders
  /\ Reduce(o.qty)
  /\ orders' = orders \ {o}
  /\ UNCHANGED <<engineSide, historyVars>>

\* The exchange drops reduce-only orders once the position is gone.
Expire(o) ==
  /\ o \in orders
  /\ exPos = 0 \/ Fault("vanish")
  /\ orders' = orders \ {o}
  /\ UNCHANGED <<engineSide, amountVars, historyVars>>

\* The stream carries the fill, but not under a client id of this program.
ManualClose ==
  /\ Fault("manual") /\ exPos > 0
  /\ exPos' = 0 /\ exited' = TRUE
  /\ UNCHANGED <<engineSide, queue, orders, historyVars>>

LoseFill ==
  /\ Fault("stream") /\ queue # <<>>
  /\ queue' = Tail(queue)
  /\ UNCHANGED <<engineSide, exPos, exited, orders, historyVars>>

\* The process dies, or the engine is stopped, and is started again: nothing
\* of the engine object survives.
Restart ==
  /\ Fault("crash") /\ pc # "sync"
  /\ pc' = "sync" /\ caller' = "none"
  /\ state' = "FLAT" /\ pos' = NoPos /\ slId' = NoOrder /\ tpId' = NoOrder
  /\ pendingClose' = FALSE /\ cooldown' = 0 /\ bucketUsed' = FALSE
  /\ losses' = 0 /\ dailyLoss' = "unknown"
  /\ equityKnown' \in {FALSE, equityKnown}   \* EngineService may live on
  /\ queue' = <<>>
  /\ whole' = 0 /\ exitSrc' = "none" /\ flatSeen' = 0
  /\ UNCHANGED <<exPos, exited, orders, ep, trades, unmanaged, sinceClose>>

-----------------------------------------------------------------------------
Sync  == SyncNothing \/ SyncExistingStop \/ SyncNewStop \/ SyncFailClosed \/ SyncTakeProfit
Entry == EntryFilled \/ EntryNotFilled \/ EntryStop \/ EntryTakeProfit
         \/ EntryTakeProfitFails \/ EntryFlatten
Candle == StillOpen \/ FallbackNoted \/ FallbackRecord \/ FallbackDeferred
          \/ StopBelievedActive \/ StopReplaced \/ StopNotReplaced
          \/ HealthFlatten \/ CheckTakeProfit
Close == CloseAlreadyFlat \/ CancelForClose \/ CloseOrder \/ CloseConfirm \/ SignalCloseFailed
Record == RecordTrade \/ RecordRaises \/ RecordFinish \/ FinishRaises
ScaleOutStep == ScaleOutCancel \/ ScaleOutHalf \/ ScaleOutPoll \/ ScaleOutStop
                \/ ScaleOutTakeProfit \/ ScaleOutFailed

\* A handler that has been entered runs to its end.
HandlerStep == Sync \/ Entry \/ Candle \/ TickRecover \/ Close \/ Record \/ ScaleOutStep

\* The event loop takes the next message.
Dispatch == OnCandleClose \/ MissedCandle \/ OnMarketUpdate \/ FillIgnored \/ FillCloses

Environment ==
  \/ \E o \in orders : Trigger(o) \/ Expire(o)
  \/ ManualClose \/ LoseFill \/ Restart

Next == HandlerStep \/ Dispatch \/ Environment

Spec == Init /\ [][Next]_vars

(***************************************************************************)
(* Fairness.  A handler that runs is not preempted for ever, and the       *)
(* closed bars of the market stream are handled again and again, which     *)
(* does not make a lost equity come back.  Of the calls that can fail, a   *)
(* position or trade query and the placement of a missing stop succeed at  *)
(* last when they are retried for ever.  Ticks, fills and the rest of the  *)
(* environment are owed nothing.                                           *)
(***************************************************************************)
CandleHandled ==
  OnCandleClose /\ (dailyLoss # "unknown" => UNCHANGED dailyLoss)

Fairness ==
  /\ WF_vars(HandlerStep)
  /\ SF_vars(CandleHandled)
  /\ SF_vars(FallbackNoted) /\ SF_vars(FallbackRecord)
  /\ SF_vars(StopReplaced)

FairSpec == Spec /\ Fairness

-----------------------------------------------------------------------------
(***************************************************************************)
(* Safety.                                                                 *)
(***************************************************************************)
\* Every variable ranges over the values the code can give it.
EngineTypeOK ==
  /\ pc \in {"idle", "sync", "sync_tp", "r_finish"} \cup EntryPc \cup OpenPc
  /\ caller \in Caller
  /\ state \in {"FLAT", "ENTERING", "OPEN", "CLOSING"}
  /\ pos \in OpenPosition \cup {NoPos}
  /\ slId \in OrderId \cup {NoOrder} /\ tpId \in OrderId \cup {NoOrder}

RiskTypeOK ==
  /\ pendingClose \in BOOLEAN /\ bucketUsed \in BOOLEAN
  /\ dailyLoss \in {"unknown", "within", "limit"} /\ equityKnown \in BOOLEAN
  /\ cooldown \in 0..Cooldown /\ losses \in 0..MaxLosses

ExchangeTypeOK ==
  /\ exPos \in Nat /\ exited \in BOOLEAN
  /\ orders \in SUBSET Order
  /\ queue \in Seq(Fill)

HistoryTypeOK ==
  /\ ep \in Nat /\ whole \in 0..Full /\ exitSrc \in Source
  /\ trades \in Seq([ep : Nat, src : Source])
  /\ unmanaged \in BOOLEAN
  /\ sinceClose \in 0..Cooldown /\ flatSeen \in 0..2

TypeOK == EngineTypeOK /\ RiskTypeOK /\ ExchangeTypeOK /\ HistoryTypeOK
=============================================================================
