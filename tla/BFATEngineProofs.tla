-------------------------- MODULE BFATEngineProofs --------------------------
(***************************************************************************)
(* Theorems about BFATEngine, for every value of its constants: any number *)
(* of order ids and entries, any cooldown and loss limit, and every set of *)
(* faults unless a theorem excludes one by name.                           *)
(*                                                                         *)
(* The safety properties are not inductive: what a handler may assume at   *)
(* its next call is what its earlier calls established.  EngineInv says    *)
(* that for the engine object (which state goes with which pc), Exposure   *)
(* for the position on the exchange, Ledger for the trade log.             *)
(***************************************************************************)
EXTENDS BFATEngineProperties, TLAPS

-----------------------------------------------------------------------------
(***************************************************************************)
(* The inductive invariants.                                               *)
(***************************************************************************)
\* Which lifecycle state a handler finds at each of its calls.
Control ==
  /\ pc = "idle" => state \in {"FLAT", "OPEN", "CLOSING"}
  /\ pc = "sync" => state = "FLAT"
  /\ pc \in EntryPc => state = "ENTERING"
  /\ pc \in OpenPc \cup {"sync_tp"} => state = "OPEN"
  /\ pc = "r_finish" => state = "CLOSING"

Holding == pos # NoPos <=> state \in {"OPEN", "CLOSING"}

\* A FLAT engine knows no order, and an entry only those it has placed.
OrdersKnown ==
  /\ state = "FLAT" => slId = NoOrder /\ tpId = NoOrder
  /\ pc \in EntryPc => tpId = NoOrder
  /\ pc \in EntryPc \ {"e_tp"} => slId = NoOrder

EngineInv == EngineTypeOK /\ Control /\ Holding /\ OrdersKnown

IInv == TypeOK /\ EngineInv

\* How much there can be on the exchange, at each point of the lifecycle.
Exposure ==
  ~unmanaged =>
    /\ pc = "idle" /\ state = "FLAT" => exPos = 0
    /\ pc = "e_market" => exPos = 0
    /\ pc \in EntryPc \cup {"sync"} => exPos <= Full
    /\ state = "OPEN" => exPos <= pos.size
    /\ pc = "r_record" \/ state = "CLOSING" => exPos = 0

\* The position the trade log has a row for is gone, and no handler can
\* come to record it again.
NotRecorded == \A i \in DOMAIN trades : trades[i].ep # ep

Ledger ==
  /\ \A i \in DOMAIN trades : trades[i].ep <= ep
  /\ ~unmanaged =>
       /\ NoDuplicateRow
       /\ exPos > 0 => NotRecorded
       /\ state = "OPEN" => NotRecorded
       /\ pc \in {"e_sl", "e_tp", "e_flatten"} => NotRecorded

\* The same without restarts, whatever the exchange reports.
LedgerOfOneRun ==
  /\ \A i \in DOMAIN trades : trades[i].ep <= ep
  /\ NoDuplicateRow
  /\ state = "OPEN" => NotRecorded
  /\ pc \in {"sync", "e_sl", "e_tp", "e_flatten"} => NotRecorded

-----------------------------------------------------------------------------
(***************************************************************************)
(* Operators.                                                              *)
(***************************************************************************)
LEMMA CancelLeavesOrders ==
  ASSUME orders \in SUBSET Order, NEW S, NEW left \in LeftAfterCancel(S)
  PROVE  left \in SUBSET orders
BY DEF LeftAfterCancel

LEMMA FailedPlacementLeavesOrders ==
  ASSUME orders \in SUBSET Order, NEW kind \in {"SL", "TP"}, NEW qty \in Amount,
         NEW left \in LeftAfterFailedPlacement(kind, qty)
  PROVE  left \in SUBSET Order
BY DEF LeftAfterFailedPlacement, Order, FreshId

LEMMA PlacementAddsOrder ==
  ASSUME orders \in SUBSET Order, NEW kind \in {"SL", "TP"}, NEW qty \in Amount,
         NEW id, PlaceVerified(kind, qty, id)
  PROVE  id \in OrderId /\ orders' \in SUBSET Order
BY DEF PlaceVerified, Order, FreshId

\* A reduce-only execution leaves a smaller position, never a short one.
LEMMA ReduceShrinks ==
  ASSUME ExchangeTypeOK, ep \in Nat, NEW q \in Amount, Reduce(q)
  PROVE  /\ exPos' \in Nat /\ exPos' < exPos
         /\ exPos <= q => exPos' = 0
         /\ exited' \in BOOLEAN
         /\ queue' \in Seq(Fill)
<1> DEFINE done == Smaller(q, exPos)
           fill == [ep |-> ep, final |-> exPos = done]
<1>1. done \in Nat /\ done <= exPos
  BY FullAssumption DEF ExchangeTypeOK, Smaller, Amount
<1>2. fill \in Fill
  BY Zenon DEF Fill
<1>3. /\ exPos' \in Nat /\ exPos' < exPos /\ exited' \in BOOLEAN
      /\ exPos <= q => exPos' = 0
  BY FullAssumption, <1>1 DEF ExchangeTypeOK, Reduce, Smaller, Amount
<1>4. queue' \in {queue, Append(queue, fill)}
  BY DEF Reduce
<1>5. queue' \in Seq(Fill)
  <2> HIDE DEF fill
  <2> QED BY <1>2, <1>4 DEF ExchangeTypeOK
<1>6. QED BY <1>3, <1>5

LEMMA FlattenShrinks ==
  ASSUME ExchangeTypeOK, ep \in Nat, NEW q \in Amount, FlattenOrder(q)
  PROVE  /\ exPos' \in Nat /\ exPos' <= exPos
         /\ exited' \in BOOLEAN
         /\ queue' \in Seq(Fill)
BY FullAssumption, ReduceShrinks DEF FlattenOrder, ExchangeTypeOK, amountVars, Amount

LEMMA NoPosIsNoPosition == NoPos \notin OpenPosition
BY FullAssumption, ConstantsAssumption DEF OpenPosition, Amount

LEMMA FullIsAnAmount == Full \in Amount
BY FullAssumption DEF Amount

\* Half of an amount is an amount unless it is rounded down to nothing.
LEMMA HalfIsAnAmount ==
  ASSUME NEW n \in Amount
  PROVE  /\ HalfOf(n) \in Nat /\ HalfOf(n) < n
         /\ HalfOf(n) > 0 => HalfOf(n) \in Amount
BY FullAssumption DEF Amount, HalfOf

-----------------------------------------------------------------------------
(***************************************************************************)
(* The initial states.                                                     *)
(***************************************************************************)
LEMMA InitIInv == Init => IInv
<1> SUFFICES ASSUME Init PROVE IInv
  OBVIOUS
<1>1. EngineInv
  BY DEF Init, EngineInv, EngineTypeOK, Control, Holding, OrdersKnown, Caller, EntryPc, OpenPc
<1>2. RiskTypeOK
  <2>1. cooldown \in 0..Cooldown /\ losses \in 0..MaxLosses
    BY ConstantsAssumption DEF Init
  <2>2. QED BY <2>1, Zenon DEF Init, RiskTypeOK
<1>3. exPos \in 0..Full /\ ep \in {0, 1} /\ orders \in SUBSET Order
  BY FullAssumption DEF Init, StartStates, Order, Amount
<1>4. ExchangeTypeOK
  <2>1. exited \in BOOLEAN
    BY Zenon DEF Init
  <2>2. QED BY FullAssumption, <1>3, <2>1 DEF Init, ExchangeTypeOK, Amount
<1>5. HistoryTypeOK
  <2>1. unmanaged \in BOOLEAN
    BY Zenon DEF Init
  <2>2. QED BY <1>3, <2>1, FullAssumption, ConstantsAssumption DEF Init, HistoryTypeOK, Source
<1>6. QED BY <1>1, <1>2, <1>4, <1>5 DEF IInv, TypeOK, EngineInv

-----------------------------------------------------------------------------
(***************************************************************************)
(* The engine object.                                                      *)
(***************************************************************************)

LEMMA RestoreOpens ==
  ASSUME IInv, pc = "sync", exPos > 0, NEW stop \in OrderId, Restore(stop)
  PROVE  EngineInv'
<1>1. pos' \in OpenPosition
  BY FullAssumption DEF IInv, TypeOK, ExchangeTypeOK, Restore, OpenPosition, Smaller, Amount
<1>2. tpId' = tpId /\ tpId = NoOrder
  BY DEF IInv, EngineInv, Control, OrdersKnown, Restore
<1>3. QED
  BY <1>1, <1>2, NoPosIsNoPosition
  DEF IInv, EngineInv, EngineTypeOK, Control, Holding, OrdersKnown, Restore, Goto, Caller,
      EntryPc, OpenPc

LEMMA SyncKeepsEngine == IInv /\ Sync => EngineInv'
<1> SUFFICES ASSUME IInv, Sync PROVE EngineInv'
  OBVIOUS
<1> USE DEF EngineInv, EngineTypeOK, Control, Holding, OrdersKnown, EntryPc, OpenPc, Caller,
            engineVars, Goto, GotoFor
<1>1. EngineInv
  BY DEF IInv
<1>2. CASE SyncNothing
  BY <1>1, <1>2 DEF SyncNothing
<1>3. CASE SyncExistingStop
  <2>1. PICK o \in orders : Restore(o.id)
    BY <1>1, <1>3 DEF SyncExistingStop
  <2>2. o.id \in OrderId
    BY DEF IInv, TypeOK, ExchangeTypeOK, Order
  <2>3. QED BY <1>1, <1>3, <2>1, <2>2, RestoreOpens DEF SyncExistingStop
<1>4. CASE SyncNewStop
  <2>1. PICK id \in OrderId : Restore(id)
    BY <1>1, <1>4 DEF SyncNewStop, FreshId
  <2>2. QED BY <1>1, <1>4, <2>1, RestoreOpens DEF SyncNewStop
<1>5. CASE SyncFailClosed
  BY <1>1, <1>5 DEF SyncFailClosed
<1>6. CASE SyncTakeProfit
  <2>1. pos \in OpenPosition
    BY <1>1, <1>6 DEF SyncTakeProfit
  <2>2. [pos EXCEPT !.tp = TRUE] \in OpenPosition
    BY <2>1 DEF OpenPosition
  <2>3. tpId' \in OrderId \cup {NoOrder}
    BY <1>1, <1>6 DEF SyncTakeProfit, PlaceVerified, FreshId, IInv, TypeOK, ExchangeTypeOK, Order
  <2>4. QED BY <1>1, <1>6, <2>1, <2>2, <2>3, NoPosIsNoPosition DEF SyncTakeProfit
<1>7. QED BY <1>2, <1>3, <1>4, <1>5, <1>6 DEF Sync

LEMMA EntryKeepsEngine == IInv /\ Entry => EngineInv'
<1> SUFFICES ASSUME IInv, Entry PROVE EngineInv'
  OBVIOUS
<1> USE DEF EngineInv, EngineTypeOK, Control, Holding, OrdersKnown, EntryPc, OpenPc, Caller,
            engineVars, Goto, GotoFor
<1>1. EngineInv
  BY DEF IInv
<1>2. CASE EntryFilled
  BY <1>1, <1>2 DEF EntryFilled
<1>3. CASE EntryNotFilled
  BY <1>1, <1>3 DEF EntryNotFilled
<1>4. CASE EntryStop
  BY <1>1, <1>4 DEF EntryStop, PlaceVerified, FreshId
<1>5. CASE EntryTakeProfit
  <2>1. pos' \in OpenPosition
    BY <1>1, <1>5, FullIsAnAmount DEF EntryTakeProfit, OpenPosition
  <2>2. QED BY <1>1, <1>5, <2>1, NoPosIsNoPosition DEF EntryTakeProfit, PlaceVerified, FreshId
<1>6. CASE EntryTakeProfitFails
  BY <1>1, <1>6 DEF EntryTakeProfitFails
<1>7. CASE EntryFlatten
  BY <1>1, <1>7 DEF EntryFlatten
<1>8. QED BY <1>2, <1>3, <1>4, <1>5, <1>6, <1>7 DEF Entry

LEMMA CandleKeepsEngine == IInv /\ (Candle \/ TickRecover) => EngineInv'
<1> SUFFICES ASSUME IInv, Candle \/ TickRecover PROVE EngineInv'
  OBVIOUS
<1> USE DEF EngineInv, EngineTypeOK, Control, Holding, OrdersKnown, EntryPc, OpenPc, Caller,
            engineVars, Goto, GotoFor
<1>1. EngineInv
  BY DEF IInv
<1>2. CASE StillOpen
  BY <1>1, <1>2 DEF StillOpen, ScaleOutPossible
<1>3. CASE FallbackNoted
  BY <1>1, <1>3 DEF FallbackNoted
<1>4. CASE FallbackRecord
  BY <1>1, <1>4 DEF FallbackRecord, GoRecord
<1>5. CASE FallbackDeferred
  BY <1>1, <1>5 DEF FallbackDeferred
<1>6. CASE StopBelievedActive
  BY <1>1, <1>6 DEF StopBelievedActive
<1>7. CASE StopReplaced
  BY <1>1, <1>7 DEF StopReplaced, PlaceVerified, FreshId
<1>8. CASE StopNotReplaced
  BY <1>1, <1>8 DEF StopNotReplaced
<1>9. CASE HealthFlatten
  BY <1>1, <1>9 DEF HealthFlatten
<1>10. CASE CheckTakeProfit
  <2>1. pos \in OpenPosition
    BY <1>1, <1>10 DEF CheckTakeProfit
  <2>2. [pos EXCEPT !.tp = TRUE] \in OpenPosition
    BY <2>1 DEF OpenPosition
  <2>3. QED BY <1>1, <1>10, <2>1, <2>2, NoPosIsNoPosition
        DEF CheckTakeProfit, PlaceVerified, FreshId
<1>11. CASE TickRecover
  BY <1>1, <1>11 DEF TickRecover, RecoverStop, PlaceVerified, FreshId, TickContinues, ScaleOutOrIdle
<1>12. QED BY <1>2, <1>3, <1>4, <1>5, <1>6, <1>7, <1>8, <1>9, <1>10, <1>11 DEF Candle

LEMMA CloseKeepsEngine == IInv /\ Close => EngineInv'
<1> SUFFICES ASSUME IInv, Close PROVE EngineInv'
  OBVIOUS
<1> USE DEF EngineInv, EngineTypeOK, Control, Holding, OrdersKnown, EntryPc, OpenPc, Caller,
            engineVars, Goto, GotoFor
<1>1. EngineInv
  BY DEF IInv
<1>2. CASE CloseAlreadyFlat
  BY <1>1, <1>2 DEF CloseAlreadyFlat, GoRecord
<1>3. CASE CancelForClose
  BY <1>1, <1>3 DEF CancelForClose
<1>4. CASE CloseOrder
  BY <1>1, <1>4 DEF CloseOrder, GoRecord, CloseFails, ScaleOutOrIdle
<1>5. CASE CloseConfirm
  BY <1>1, <1>5 DEF CloseConfirm, GoRecord, CloseFails, ScaleOutOrIdle
<1>6. CASE SignalCloseFailed
  BY <1>1, <1>6 DEF SignalCloseFailed, GoRecord
<1>7. QED BY <1>2, <1>3, <1>4, <1>5, <1>6 DEF Close

LEMMA RecordKeepsEngine == IInv /\ Record => EngineInv'
<1> SUFFICES ASSUME IInv, Record PROVE EngineInv'
  OBVIOUS
<1> USE DEF EngineInv, EngineTypeOK, Control, Holding, OrdersKnown, EntryPc, OpenPc, Caller,
            engineVars, Goto, GotoFor
<1>1. EngineInv
  BY DEF IInv
<1>2. CASE RecordTrade
  BY <1>1, <1>2 DEF RecordTrade, CloseRequested
<1>3. CASE RecordRaises
  BY <1>1, <1>3 DEF RecordRaises, CloseRequested
<1>4. CASE RecordFinish
  BY <1>1, <1>4 DEF RecordFinish
<1>5. CASE FinishRaises
  BY <1>1, <1>5 DEF FinishRaises
<1>6. QED BY <1>2, <1>3, <1>4, <1>5 DEF Record

LEMMA ScaleOutKeepsEngine == IInv /\ ScaleOutStep => EngineInv'
<1> SUFFICES ASSUME IInv, ScaleOutStep PROVE EngineInv'
  OBVIOUS
<1> USE DEF EngineInv, EngineTypeOK, Control, Holding, OrdersKnown, EntryPc, OpenPc, Caller,
            engineVars, Goto, GotoFor
<1>1. EngineInv
  BY DEF IInv
<1>2. CASE ScaleOutCancel
  BY <1>1, <1>2 DEF ScaleOutCancel
<1>3. CASE ScaleOutHalf
  BY <1>1, <1>3 DEF ScaleOutHalf
<1>4. CASE ScaleOutPoll
  <2>1. pos \in OpenPosition
    BY <1>1, <1>4 DEF ScaleOutPoll
  <2>2. ASSUME exPos \in 1..(pos.size - 1),
               pos' = [pos EXCEPT !.size = exPos, !.phase = "BREAKEVEN"]
        PROVE  pos' \in OpenPosition
    <3>1. exPos \in Amount
      BY FullAssumption, <2>1, <2>2 DEF OpenPosition, Amount
    <3>2. QED BY <2>1, <2>2, <3>1 DEF OpenPosition
  <2>3. pos' \in OpenPosition
    BY <1>1, <1>4, <2>1, <2>2 DEF ScaleOutPoll
  <2>4. /\ pc = "s_poll" /\ pc' \in {"idle", "h_sl", "s_sl", "s_fail"}
        /\ caller' \in {"none", caller}
        /\ UNCHANGED <<state, slId, tpId>>
    BY <1>1, <1>4 DEF ScaleOutPoll, AfterScaleOut
  <2>5. QED BY <1>1, <2>3, <2>4, NoPosIsNoPosition
<1>5. CASE ScaleOutStop
  BY <1>1, <1>5 DEF ScaleOutStop, AfterScaleOut, PlaceVerified, FreshId
<1>6. CASE ScaleOutTakeProfit
  BY <1>1, <1>6 DEF ScaleOutTakeProfit, AfterScaleOut, PlaceVerified, FreshId
<1>7. CASE ScaleOutFailed
  BY <1>1, <1>7 DEF ScaleOutFailed, AfterScaleOut, RecoverStop, PlaceVerified, FreshId
<1>8. QED BY <1>2, <1>3, <1>4, <1>5, <1>6, <1>7 DEF ScaleOutStep

LEMMA DispatchKeepsEngine == IInv /\ Dispatch => EngineInv'
<1> SUFFICES ASSUME IInv, Dispatch PROVE EngineInv'
  OBVIOUS
<1> USE DEF EngineInv, EngineTypeOK, Control, Holding, OrdersKnown, EntryPc, OpenPc, Caller,
            engineVars, Goto, GotoFor
<1>1. EngineInv
  BY DEF IInv
<1>2. CASE OnCandleClose
  BY <1>1, <1>2 DEF OnCandleClose, CandleIdle, CandleOpen, CandleCountsDown, CandleEntry, BeginEntry
<1>3. CASE MissedCandle
  BY <1>1, <1>3 DEF MissedCandle
<1>4. CASE OnMarketUpdate
  BY <1>1, <1>4 DEF OnMarketUpdate, TickOpen, TickEntry, BeginEntry, TickContinues, ScaleOutOrIdle
<1>5. CASE FillIgnored
  BY <1>1, <1>5 DEF FillIgnored
<1>6. CASE FillCloses
  BY <1>1, <1>6 DEF FillCloses, GoRecord
<1>7. QED BY <1>2, <1>3, <1>4, <1>5, <1>6 DEF Dispatch

\* The environment changes nothing of the engine, except by a restart.
LEMMA EnvironmentKeepsEngine == IInv /\ Environment => EngineInv'
<1> SUFFICES ASSUME IInv, Environment PROVE EngineInv'
  OBVIOUS
<1> USE DEF EngineInv, EngineTypeOK, Control, Holding, OrdersKnown, EntryPc, OpenPc, Caller
<1>1. CASE Restart
  BY <1>1 DEF IInv, Restart
<1>2. CASE UNCHANGED engineSide
  BY <1>2 DEF IInv, engineSide, engineVars
<1>3. QED BY <1>1, <1>2 DEF Environment, Trigger, Expire, ManualClose, LoseFill

LEMMA EngineStep == IInv /\ [Next]_vars => EngineInv'
<1>1. IInv /\ UNCHANGED vars => EngineInv'
  BY DEF IInv, vars, engineVars, EngineInv, EngineTypeOK, Control, Holding, OrdersKnown
<1>2. QED
  BY <1>1, SyncKeepsEngine, EntryKeepsEngine, CandleKeepsEngine, CloseKeepsEngine,
     RecordKeepsEngine, ScaleOutKeepsEngine, DispatchKeepsEngine, EnvironmentKeepsEngine
  DEF Next, HandlerStep

-----------------------------------------------------------------------------
(***************************************************************************)
(* Types of the rest of the state.                                         *)
(***************************************************************************)
LEMMA RiskStep == IInv /\ [Next]_vars => RiskTypeOK'
<1> SUFFICES ASSUME IInv, [Next]_vars PROVE RiskTypeOK'
  OBVIOUS
<1>1. RiskTypeOK
  BY DEF IInv, TypeOK
<1> USE <1>1, ConstantsAssumption DEF RiskTypeOK, riskVars
<1>2. CASE Sync
  BY <1>2 DEF Sync, SyncNothing, SyncExistingStop, SyncNewStop, SyncFailClosed,
              SyncTakeProfit, Restore
<1>3. CASE Entry
  BY <1>3 DEF Entry, EntryFilled, EntryNotFilled, EntryStop, EntryTakeProfit,
              EntryTakeProfitFails, EntryFlatten
<1>4. CASE Candle
  BY <1>4 DEF Candle, StillOpen, FallbackNoted, FallbackRecord, FallbackDeferred,
              StopBelievedActive, StopReplaced, StopNotReplaced, HealthFlatten,
              CheckTakeProfit
<1>5. CASE TickRecover
  BY <1>5 DEF TickRecover
<1>6. CASE Close
  BY <1>6 DEF Close, CloseAlreadyFlat, CancelForClose, CloseOrder, CloseConfirm,
              SignalCloseFailed
<1>7. CASE ScaleOutStep
  BY <1>7 DEF ScaleOutStep, ScaleOutCancel, ScaleOutHalf, ScaleOutPoll, ScaleOutStop,
              ScaleOutTakeProfit, ScaleOutFailed
<1>8. CASE Record
  <2>1. losses' \in 0..MaxLosses /\ cooldown' \in 0..Cooldown
    BY <1>8 DEF Record, RecordTrade, RecordRaises, RecordFinish, FinishRaises,
                CloseRequested, Smaller
  <2>2. dailyLoss' \in {"unknown", "within", "limit"}
    BY <1>8, Zenon DEF Record, RecordTrade, RecordRaises, RecordFinish, FinishRaises,
                DrawdownReadings
  <2>3. UNCHANGED <<pendingClose, bucketUsed, equityKnown>>
    BY <1>8 DEF Record, RecordTrade, RecordRaises, RecordFinish, FinishRaises
  <2>4. QED BY <2>1, <2>2, <2>3
<1>9. CASE OnCandleClose
  <2>1. losses' \in 0..MaxLosses /\ cooldown' \in 0..Cooldown /\ UNCHANGED pendingClose
    BY <1>9 DEF OnCandleClose, CandleIdle, CandleOpen, CandleCountsDown, CandleEntry
  <2>2. /\ dailyLoss' \in {"unknown", "within", "limit"}
        /\ bucketUsed' \in BOOLEAN /\ equityKnown' \in BOOLEAN
    BY <1>9, Zenon DEF OnCandleClose, DrawdownReadings
  <2>3. QED BY <2>1, <2>2
<1>10. CASE MissedCandle \/ OnMarketUpdate \/ FillIgnored \/ FillCloses
  BY <1>10 DEF MissedCandle, OnMarketUpdate, FillIgnored, FillCloses
<1>11. CASE Restart
  <2>1. cooldown' \in 0..Cooldown /\ losses' \in 0..MaxLosses
    BY <1>11 DEF Restart
  <2>2. QED BY <1>11, <2>1, Zenon DEF Restart
<1>12. CASE UNCHANGED riskVars
  BY <1>12
<1>13. QED
  BY <1>2, <1>3, <1>4, <1>5, <1>6, <1>7, <1>8, <1>9, <1>10, <1>11, <1>12
  DEF Next, HandlerStep, Dispatch, Environment, Trigger, Expire, ManualClose, LoseFill,
      engineSide, vars

LEMMA HistoryStep == IInv /\ [Next]_vars => HistoryTypeOK'
<1> SUFFICES ASSUME IInv, [Next]_vars PROVE HistoryTypeOK'
  OBVIOUS
<1>1. HistoryTypeOK /\ exPos \in Nat
  BY DEF IInv, TypeOK, ExchangeTypeOK
<1> USE <1>1, FullAssumption, ConstantsAssumption DEF HistoryTypeOK, historyVars, Smaller
<1>2. CASE Sync
  <2>1. CASE SyncNothing
    BY <2>1, Zenon DEF SyncNothing
  <2>2. CASE SyncFailClosed \/ SyncTakeProfit
    BY <2>2 DEF SyncFailClosed, SyncTakeProfit
  <2>3. CASE SyncExistingStop \/ SyncNewStop
    <3>1. PICK stop : Restore(stop)
      BY <2>3 DEF SyncExistingStop, SyncNewStop
    <3>2. Smaller(exPos, Full) \in 0..Full
      OBVIOUS
    <3>3. QED BY <3>1, <3>2 DEF Restore
  <2>4. QED BY <1>2, <2>1, <2>2, <2>3 DEF Sync
<1>3. CASE Entry
  <2>1. CASE EntryFilled
    BY <2>1 DEF EntryFilled
  <2>2. CASE EntryNotFilled
    BY <2>2 DEF EntryNotFilled
  <2>3. CASE EntryFlatten
    BY <2>3 DEF EntryFlatten
  <2>4. QED
    BY <1>3, <2>1, <2>2, <2>3
    DEF Entry, EntryStop, EntryTakeProfit, EntryTakeProfitFails
<1>4. CASE Candle
  BY <1>4 DEF Candle, StillOpen, FallbackNoted, FallbackRecord, FallbackDeferred,
              StopBelievedActive, StopReplaced, StopNotReplaced, HealthFlatten,
              CheckTakeProfit, GoRecord, Source, TradesPrice
<1>5. CASE TickRecover
  BY <1>5 DEF TickRecover
<1>6. CASE Close
  BY <1>6 DEF Close, CloseAlreadyFlat, CancelForClose, CloseOrder, CloseConfirm,
              SignalCloseFailed, GoRecord, Source, TradesPrice
<1>7. CASE ScaleOutStep
  BY <1>7 DEF ScaleOutStep, ScaleOutCancel, ScaleOutHalf, ScaleOutPoll, ScaleOutStop,
              ScaleOutTakeProfit, ScaleOutFailed
<1>8. CASE Record
  <2>1. CASE RecordTrade
    BY <2>1 DEF RecordTrade
  <2>2. CASE RecordRaises
    BY <2>2 DEF RecordRaises, Source
  <2>3. CASE RecordFinish
    BY <2>3 DEF RecordFinish, Source
  <2>4. CASE FinishRaises
    BY <2>4 DEF FinishRaises, Source
  <2>5. QED BY <1>8, <2>1, <2>2, <2>3, <2>4 DEF Record
<1>9. CASE OnCandleClose
  <2>1. sinceClose' \in 0..Cooldown
    BY <1>9 DEF OnCandleClose, Smaller
  <2>2. UNCHANGED <<ep, whole, exitSrc, trades, unmanaged, flatSeen>>
    BY <1>9
    DEF OnCandleClose, CandleIdle, CandleOpen, CandleCountsDown, CandleEntry, BeginEntry
  <2>3. QED BY <2>1, <2>2
<1>10. CASE MissedCandle \/ OnMarketUpdate \/ FillIgnored \/ FillCloses
  BY <1>10 DEF MissedCandle, OnMarketUpdate, FillIgnored, FillCloses, TickOpen, TickEntry,
               BeginEntry, GoRecord, Source
<1>11. CASE Restart
  BY <1>11 DEF Restart, Source
<1>12. CASE UNCHANGED historyVars
  BY <1>12
<1>13. QED
  BY <1>2, <1>3, <1>4, <1>5, <1>6, <1>7, <1>8, <1>9, <1>10, <1>11, <1>12
  DEF Next, HandlerStep, Dispatch, Environment, Trigger, Expire, ManualClose, LoseFill, vars

LEMMA HeldSize ==
  ASSUME IInv, state = "OPEN"
  PROVE  pos.size \in Amount
<1>1. pos \in OpenPosition
  BY DEF IInv, EngineInv, EngineTypeOK, Holding
<1>2. QED BY <1>1 DEF OpenPosition

\* Selling half, in whole or in part, or failing to.
LEMMA HalfShrinks ==
  ASSUME IInv, ScaleOutHalf
  PROVE  /\ exPos' \in Nat /\ exPos' <= exPos
         /\ exited' \in BOOLEAN
         /\ queue' \in Seq(Fill)
<1>1. ExchangeTypeOK /\ ep \in Nat
  BY DEF IInv, TypeOK, HistoryTypeOK
<1>2. pos.size \in Amount
  BY HeldSize DEF ScaleOutHalf, IInv, EngineInv, Control, OpenPc
<1>3. CASE UNCHANGED amountVars
  BY <1>1, <1>3 DEF ExchangeTypeOK, amountVars
<1>4. CASE Reduce(HalfOf(pos.size)) \/ \E part \in 1..HalfOf(pos.size) : Reduce(part)
  <2>1. HalfOf(pos.size) \in Nat /\ HalfOf(pos.size) < pos.size
    BY <1>2, HalfIsAnAmount
  <2>2. PICK q \in Nat : q <= HalfOf(pos.size) /\ Reduce(q)
    BY <1>4, <2>1
  <2>3. q > 0
    BY <1>1, <2>2 DEF Reduce, Smaller, ExchangeTypeOK
  <2>4. q \in Amount
    BY <1>2, <2>1, <2>2, <2>3, FullAssumption DEF Amount
  <2>5. QED BY <1>1, <2>2, <2>4, ReduceShrinks DEF ExchangeTypeOK
<1>5. QED BY <1>3, <1>4 DEF ScaleOutHalf

\* What the engine's calls and the exchange do to the exchange's state.
LEMMA ExchangeStep == IInv /\ [Next]_vars => ExchangeTypeOK'
<1> SUFFICES ASSUME IInv, [Next]_vars PROVE ExchangeTypeOK'
  OBVIOUS
<1>1. ExchangeTypeOK /\ ep \in Nat /\ ConstantsAssumption
  BY ConstantsAssumption DEF IInv, TypeOK, HistoryTypeOK
<1>2. pc \in OpenPc => pos.size \in Amount
  BY HeldSize DEF IInv, EngineInv, Control
<1> USE DEF ExchangeTypeOK, exchangeVars, amountVars
<1>3. CASE Sync
  <2>1. CASE SyncNothing \/ SyncExistingStop
    BY <1>1, <2>1 DEF SyncNothing, SyncExistingStop, Restore
  <2>2. ASSUME exPos > 0, NEW qty, qty = Smaller(exPos, Full)
        PROVE  qty \in Amount
    BY FullAssumption, <1>1, <2>2 DEF Smaller, Amount
  <2>3. CASE SyncNewStop
    <3>1. PICK old \in StopsGivenUp, qty \in {Smaller(exPos, Full)} :
            \E left \in LeftAfterCancel(old),
               tried \in {orders} \cup LeftAfterFailedPlacement("SL", qty) :
            \E id \in FreshId \ Ids(tried) :
              /\ orders' = left \cup (tried \ orders)
                             \cup {[id |-> id, kind |-> "SL", qty |-> qty]}
              /\ Restore(id)
      BY <2>3 DEF SyncNewStop
    <3>2. PICK left \in LeftAfterCancel(old),
               tried \in {orders} \cup LeftAfterFailedPlacement("SL", qty) :
            \E id \in FreshId \ Ids(tried) :
              /\ orders' = left \cup (tried \ orders)
                             \cup {[id |-> id, kind |-> "SL", qty |-> qty]}
              /\ Restore(id)
      BY <3>1
    <3>3. PICK id \in FreshId :
              /\ orders' = left \cup (tried \ orders)
                             \cup {[id |-> id, kind |-> "SL", qty |-> qty]}
              /\ Restore(id)
      BY <3>2
    <3>4. qty \in Amount
      BY <2>2, <2>3 DEF SyncNewStop
    <3>5. [id |-> id, kind |-> "SL", qty |-> qty] \in Order
      BY <3>4 DEF Order, FreshId
    <3>6. left \in SUBSET Order /\ tried \in SUBSET Order
      BY <1>1, <3>4, CancelLeavesOrders, FailedPlacementLeavesOrders
    <3>7. QED BY <1>1, <3>3, <3>5, <3>6 DEF Restore
  <2>4. CASE SyncFailClosed
    <3>1. PICK old \in StopsGivenUp :
            \E left \in LeftAfterCancel(old),
               tried \in LeftAfterFailedPlacement("SL", Smaller(exPos, Full)) :
              orders' = left \cup (tried \ orders)
      BY <2>4 DEF SyncFailClosed
    <3>2. Smaller(exPos, Full) \in Amount
      BY <2>2, <2>4 DEF SyncFailClosed
    <3>3. orders' \in SUBSET Order
      BY <1>1, <3>1, <3>2, CancelLeavesOrders, FailedPlacementLeavesOrders
    <3>4. QED BY <1>1, <2>4, <3>3 DEF SyncFailClosed
  <2>5. CASE SyncTakeProfit
    <3>1. pos.size \in Amount
      BY <2>5, HeldSize DEF SyncTakeProfit, IInv, EngineInv, Control
    <3>2. orders' \in SUBSET Order
      BY <1>1, <2>5, <3>1, PlacementAddsOrder DEF SyncTakeProfit
    <3>3. QED BY <1>1, <2>5, <3>2 DEF SyncTakeProfit
  <2>6. QED BY <1>3, <2>1, <2>3, <2>4, <2>5 DEF Sync
<1>4. CASE Entry
  <2>1. CASE EntryFilled
    <3>1. exited' \in BOOLEAN
      BY <2>1, Zenon DEF EntryFilled
    <3>2. exPos' \in Nat /\ UNCHANGED <<orders, queue>>
      BY FullAssumption, <1>1, <2>1 DEF EntryFilled
    <3>3. QED BY <1>1, <3>1, <3>2
  <2>2. CASE EntryNotFilled
    <3>1. exited' \in BOOLEAN
      BY <2>2, Zenon DEF EntryNotFilled
    <3>2. exPos' \in Nat /\ UNCHANGED <<orders, queue>>
      BY FullAssumption, <1>1, <2>2 DEF EntryNotFilled, Amount
    <3>3. QED BY <1>1, <3>1, <3>2
  <2>3. CASE EntryStop
    BY <1>1, <2>3, FullIsAnAmount, PlacementAddsOrder, FailedPlacementLeavesOrders DEF EntryStop
  <2>4. CASE EntryTakeProfit
    BY <1>1, <2>4, FullIsAnAmount, PlacementAddsOrder DEF EntryTakeProfit
  <2>5. CASE EntryTakeProfitFails
    <3>1. PICK placed \in LeftAfterFailedPlacement("TP", Full),
               left \in LeftAfterCancel({slId}) :
            orders' = left \cup (placed \ orders)
      BY <2>5 DEF EntryTakeProfitFails
    <3>2. orders' \in SUBSET Order
      BY <1>1, <3>1, FullIsAnAmount, CancelLeavesOrders, FailedPlacementLeavesOrders
    <3>3. QED BY <1>1, <2>5, <3>2 DEF EntryTakeProfitFails
  <2>6. CASE EntryFlatten
    BY <1>1, <2>6, FullIsAnAmount, FlattenShrinks DEF EntryFlatten
  <2>7. QED BY <1>4, <2>1, <2>2, <2>3, <2>4, <2>5, <2>6 DEF Entry
<1>5. ASSUME NEW size \in Amount, RecoverStop(size)
      PROVE  orders' \in SUBSET Order
  BY <1>1, <1>5, PlacementAddsOrder, FailedPlacementLeavesOrders DEF RecoverStop
<1>6. CASE Candle
  <2>1. CASE HealthFlatten
    BY <1>1, <1>2, <2>1, FlattenShrinks DEF HealthFlatten, OpenPc
  <2>2. CASE StopReplaced \/ StopNotReplaced \/ CheckTakeProfit
    <3>1. pos.size \in Amount
      BY <1>2, <2>2 DEF StopReplaced, StopNotReplaced, CheckTakeProfit, OpenPc
    <3>2. orders' \in SUBSET Order
      BY <1>1, <2>2, <3>1, PlacementAddsOrder, FailedPlacementLeavesOrders
      DEF StopReplaced, StopNotReplaced, CheckTakeProfit
    <3>3. QED BY <1>1, <2>2, <3>2 DEF StopReplaced, StopNotReplaced, CheckTakeProfit
  <2>3. QED
    BY <1>1, <1>6, <2>1, <2>2
    DEF Candle, StillOpen, FallbackNoted, FallbackRecord, FallbackDeferred,
        StopBelievedActive
<1>7. CASE TickRecover
  BY <1>1, <1>2, <1>5, <1>7 DEF TickRecover, OpenPc
<1>8. CASE Close
  <2>1. CASE CancelForClose
    BY <1>1, <2>1, CancelLeavesOrders DEF CancelForClose
  <2>2. CASE CloseOrder
    <3>1. pos.size \in Amount
      BY <1>2, <2>2 DEF CloseOrder, OpenPc
    <3>2. UNCHANGED amountVars \/ Reduce(pos.size) \/ \E part \in 1..pos.size : Reduce(part)
      BY <2>2 DEF CloseOrder
    <3>3. /\ exPos' \in Nat
          /\ exited' \in BOOLEAN
          /\ queue' \in Seq(Fill)
      BY FullAssumption, <1>1, <3>1, <3>2, ReduceShrinks DEF Amount
    <3>4. QED BY <1>1, <2>2, <3>3 DEF CloseOrder
  <2>3. QED BY <1>1, <1>8, <2>1, <2>2
    DEF Close, CloseAlreadyFlat, CloseConfirm, SignalCloseFailed
<1>9. CASE Record
  <2>1. orders' \in SUBSET orders
    BY <1>1, <1>9, CancelLeavesOrders
    DEF Record, RecordTrade, RecordRaises, RecordFinish, FinishRaises
  <2>2. queue' = queue \/ queue' = <<>>
    BY <1>9 DEF Record, RecordTrade, RecordRaises, RecordFinish, FinishRaises
  <2>3. UNCHANGED <<exPos, exited>>
    BY <1>9 DEF Record, RecordTrade, RecordRaises, RecordFinish, FinishRaises
  <2>4. <<>> \in Seq(Fill)
    OBVIOUS
  <2>5. QED BY <1>1, <2>1, <2>2, <2>3, <2>4, Zenon
<1>10. CASE ScaleOutStep
  <2>1. CASE ScaleOutCancel
    BY <1>1, <2>1, CancelLeavesOrders DEF ScaleOutCancel
  <2>2. CASE ScaleOutHalf
    BY <1>1, <2>2, HalfShrinks DEF ScaleOutHalf
  <2>3. CASE ScaleOutStop \/ ScaleOutTakeProfit \/ ScaleOutFailed
    <3>1. pos.size \in Amount
      BY <1>2, <2>3 DEF ScaleOutStop, ScaleOutTakeProfit, ScaleOutFailed, OpenPc
    <3>2. orders' \in SUBSET Order
      BY <1>1, <1>5, <2>3, <3>1, PlacementAddsOrder, FailedPlacementLeavesOrders
      DEF ScaleOutStop, ScaleOutTakeProfit, ScaleOutFailed
    <3>3. QED BY <1>1, <2>3, <3>2 DEF ScaleOutStop, ScaleOutTakeProfit, ScaleOutFailed
  <2>4. QED BY <1>1, <1>10, <2>1, <2>2, <2>3 DEF ScaleOutStep, ScaleOutPoll
<1>11. CASE Dispatch
  <2>1. orders' \in SUBSET orders
    BY <1>1, <1>11, CancelLeavesOrders
    DEF Dispatch, OnCandleClose, CandleIdle, CandleOpen, CandleCountsDown, CandleEntry,
        MissedCandle, OnMarketUpdate, TickOpen, TickEntry, BeginEntry, FillIgnored, FillCloses
  <2>2. /\ queue' = queue \/ (queue # <<>> /\ queue' = Tail(queue))
        /\ UNCHANGED <<exPos, exited>>
    BY <1>11
    DEF Dispatch, OnCandleClose, CandleIdle, CandleOpen, CandleCountsDown, CandleEntry,
        MissedCandle, OnMarketUpdate, TickOpen, TickEntry, BeginEntry, FillIgnored, FillCloses
  <2>3. QED BY <1>1, <2>1, <2>2
<1>12. CASE Environment
  <2>1. ASSUME NEW o \in orders, Trigger(o) PROVE ExchangeTypeOK'
    <3>1. o.qty \in Amount
      BY <1>1 DEF Order
    <3>2. QED BY <1>1, <2>1, <3>1, ReduceShrinks DEF Trigger
  <2>2. ASSUME NEW o \in orders, Expire(o) PROVE ExchangeTypeOK'
    BY <1>1, <2>2 DEF Expire
  <2>3. CASE ManualClose
    <3>1. exited' \in BOOLEAN
      BY <2>3, Zenon DEF ManualClose
    <3>2. exPos' \in Nat /\ UNCHANGED <<orders, queue>>
      BY <2>3 DEF ManualClose
    <3>3. QED BY <1>1, <3>1, <3>2
  <2>4. CASE LoseFill
    BY <1>1, <2>4 DEF LoseFill
  <2>5. CASE Restart
    <3>1. <<>> \in Seq(Fill)
      OBVIOUS
    <3>2. QED BY <1>1, <2>5, <3>1, Zenon DEF Restart
  <2>6. QED BY <1>12, <2>1, <2>2, <2>3, <2>4, <2>5 DEF Environment
<1>13. CASE UNCHANGED vars
  BY <1>1, <1>13 DEF vars
<1>14. QED
  BY <1>3, <1>4, <1>6, <1>7, <1>8, <1>9, <1>10, <1>11, <1>12, <1>13 DEF Next, HandlerStep

-----------------------------------------------------------------------------
LEMMA IInvIsInvariant == Spec => []IInv
<1>1. IInv /\ [Next]_vars => IInv'
  BY EngineStep, RiskStep, ExchangeStep, HistoryStep DEF IInv, TypeOK, EngineInv
<1>2. QED BY InitIInv, <1>1, PTL DEF Spec

(***************************************************************************)
(* Every variable keeps its type, whichever calls fail: the cooldown never *)
(* counts below zero, no reduce-only order turns the position around, and  *)
(* a protective order is for half of a position or all of it.              *)
(***************************************************************************)
THEOREM TypeCorrect == Spec => []TypeOK
BY IInvIsInvariant, PTL DEF IInv

(***************************************************************************)
(* No handler ever raises one of the RuntimeErrors of                      *)
(* _check_state_consistency, whichever of its calls fail and wherever the  *)
(* process is restarted.                                                   *)
(***************************************************************************)
THEOREM StateIsConsistent == Spec => []ConsistencyCheck
<1>1. IInv => ConsistencyCheck
  BY DEF IInv, EngineInv, Control, Holding, OrdersKnown, ConsistencyCheck
<1>2. QED BY IInvIsInvariant, <1>1, PTL

-----------------------------------------------------------------------------
(***************************************************************************)
(* The position on the exchange.  If positionAmt is never read as 0 while  *)
(* a position is open, a handler records a close only when there was one.  *)
(***************************************************************************)
LEMMA InitExposure == Init => Exposure
BY FullAssumption DEF Init, StartStates, Exposure, EntryPc, Amount

LEMMA ExposureStep ==
  ASSUME "glitch" \notin Faults, IInv, Exposure, [Next]_vars
  PROVE  Exposure'
<1>1. /\ exPos \in Nat /\ unmanaged \in BOOLEAN /\ ExchangeTypeOK /\ ep \in Nat
      /\ EngineTypeOK /\ Control
  BY DEF IInv, TypeOK, EngineInv, ExchangeTypeOK, HistoryTypeOK
<1>2. state = "OPEN" => pos.size \in Amount /\ pos \in OpenPosition
  BY HeldSize DEF IInv, EngineInv, EngineTypeOK, Holding
<1>3. ReadsFlat => exPos = 0
  BY DEF ReadsFlat, Fault
<1> USE FullAssumption, <1>1, <1>2, <1>3
    DEF Exposure, EngineTypeOK, Control, EntryPc, OpenPc, Amount, Goto, GotoFor,
        engineVars, amountVars, exchangeVars, historyVars
<1>4. CASE Sync
  <2>1. CASE SyncNothing
    <3>1. exPos > 0 => unmanaged'
      BY <2>1 DEF SyncNothing
    <3>2. QED BY <2>1, <3>1 DEF SyncNothing
  <2>2. CASE SyncExistingStop
    BY <2>2 DEF SyncExistingStop, Restore, Smaller
  <2>3. CASE SyncNewStop
    BY <2>3 DEF SyncNewStop, Restore, Smaller
  <2>4. CASE SyncFailClosed
    BY <2>4 DEF SyncFailClosed
  <2>5. CASE SyncTakeProfit
    <3>1. pos'.size = pos.size \/ UNCHANGED pos
      BY <2>5 DEF SyncTakeProfit, OpenPosition
    <3>2. QED BY <2>5, <3>1 DEF SyncTakeProfit
  <2>6. QED BY <1>4, <2>1, <2>2, <2>3, <2>4, <2>5 DEF Sync
<1>5. CASE Entry
  <2>1. CASE EntryFilled
    BY <2>1 DEF EntryFilled
  <2>2. CASE EntryNotFilled
    <3>1. PICK q \in 0..Full :
            exPos' = exPos + q /\ unmanaged' = (unmanaged \/ q > 0)
      BY <2>2 DEF EntryNotFilled
    <3>2. CASE q > 0
      <4>1. unmanaged'
        BY <3>1, <3>2, Zenon
      <4>2. QED BY <4>1
    <3>3. CASE q = 0
      <4>1. exPos' = exPos
        BY <3>1, <3>3
      <4>2. ~unmanaged' => ~unmanaged
        BY <3>1, Zenon
      <4>3. QED BY <2>2, <4>1, <4>2 DEF EntryNotFilled
    <3>4. QED BY <3>2, <3>3
  <2>3. CASE EntryStop
    BY <2>3 DEF EntryStop
  <2>4. CASE EntryTakeProfit
    BY <2>4 DEF EntryTakeProfit
  <2>5. CASE EntryTakeProfitFails
    BY <2>5 DEF EntryTakeProfitFails
  <2>6. CASE EntryFlatten
    <3>1. exPos' \in Nat
      BY <2>6, FlattenShrinks DEF EntryFlatten
    <3>2. exPos' > 0 => unmanaged'
      BY <2>6, Zenon DEF EntryFlatten
    <3>3. QED BY <2>6, <3>1, <3>2 DEF EntryFlatten
  <2>7. QED BY <1>5, <2>1, <2>2, <2>3, <2>4, <2>5, <2>6 DEF Entry
<1>6. CASE Candle
  <2>1. CASE StillOpen
    BY <2>1 DEF StillOpen
  <2>2. CASE FallbackNoted
    BY <2>2 DEF FallbackNoted
  <2>3. CASE FallbackRecord
    BY <2>3 DEF FallbackRecord, GoRecord
  <2>4. CASE FallbackDeferred
    BY <2>4 DEF FallbackDeferred
  <2>5. CASE StopBelievedActive
    BY <2>5 DEF StopBelievedActive
  <2>6. CASE StopReplaced
    BY <2>6 DEF StopReplaced
  <2>7. CASE StopNotReplaced
    BY <2>7 DEF StopNotReplaced
  <2>8. CASE HealthFlatten
    BY FlattenShrinks, <2>8 DEF HealthFlatten
  <2>9. CASE CheckTakeProfit
    <3>1. pos'.size = pos.size \/ UNCHANGED pos
      BY <2>9 DEF CheckTakeProfit, OpenPosition
    <3>2. QED BY <2>9, <3>1 DEF CheckTakeProfit
  <2>10. QED BY <1>6, <2>1, <2>2, <2>3, <2>4, <2>5, <2>6, <2>7, <2>8, <2>9 DEF Candle
<1>7. CASE TickRecover
  BY <1>7 DEF TickRecover, RecoverStop, TickContinues, ScaleOutOrIdle
<1>8. CASE Close
  <2>1. CASE CloseAlreadyFlat
    BY <2>1 DEF CloseAlreadyFlat, GoRecord
  <2>2. CASE CancelForClose
    BY <2>2 DEF CancelForClose
  <2>3. CASE CloseOrder
    BY ReduceShrinks, <2>3 DEF CloseOrder, CloseFails, ScaleOutOrIdle, GoRecord
  <2>4. CASE CloseConfirm
    BY <2>4 DEF CloseConfirm, CloseFails, ScaleOutOrIdle, GoRecord
  <2>5. CASE SignalCloseFailed
    BY <2>5 DEF SignalCloseFailed, GoRecord
  <2>6. QED BY <1>8, <2>1, <2>2, <2>3, <2>4, <2>5 DEF Close
<1>9. CASE Record
  <2>1. CASE RecordTrade
    BY <2>1 DEF RecordTrade, CloseRequested
  <2>2. CASE RecordRaises
    BY <2>2 DEF RecordRaises, CloseRequested
  <2>3. CASE RecordFinish
    BY <2>3 DEF RecordFinish
  <2>4. CASE FinishRaises
    BY <2>4 DEF FinishRaises
  <2>5. QED BY <1>9, <2>1, <2>2, <2>3, <2>4 DEF Record
<1>10. CASE ScaleOutStep
  <2>1. CASE ScaleOutCancel
    BY <2>1 DEF ScaleOutCancel
  <2>2. CASE ScaleOutHalf
    BY HalfShrinks, <2>2 DEF ScaleOutHalf
  <2>3. CASE ScaleOutPoll
    <3>1. pos'.size = exPos \/ UNCHANGED pos
      BY <2>3 DEF ScaleOutPoll, OpenPosition
    <3>2. QED BY <2>3, <3>1 DEF ScaleOutPoll, AfterScaleOut
  <2>4. CASE ScaleOutStop
    BY <2>4 DEF ScaleOutStop, AfterScaleOut
  <2>5. CASE ScaleOutTakeProfit
    BY <2>5 DEF ScaleOutTakeProfit, AfterScaleOut
  <2>6. CASE ScaleOutFailed
    BY <2>6 DEF ScaleOutFailed, AfterScaleOut, RecoverStop
  <2>7. QED BY <1>10, <2>1, <2>2, <2>3, <2>4, <2>5, <2>6 DEF ScaleOutStep
<1>11. CASE Dispatch
  <2>1. CASE OnCandleClose
    BY <2>1 DEF OnCandleClose, CandleIdle, CandleOpen, CandleCountsDown, CandleEntry,
       BeginEntry
  <2>2. CASE MissedCandle
    BY <2>2 DEF MissedCandle
  <2>3. CASE OnMarketUpdate
    BY <2>3 DEF OnMarketUpdate, TickOpen, TickEntry, BeginEntry, TickContinues,
       ScaleOutOrIdle
  <2>4. CASE FillIgnored
    BY <2>4 DEF FillIgnored
  <2>5. CASE FillCloses
    BY <2>5 DEF FillCloses, GoRecord
  <2>6. QED BY <1>11, <2>1, <2>2, <2>3, <2>4, <2>5 DEF Dispatch
<1>12. CASE Environment
  <2>1. ASSUME NEW o \in orders, Trigger(o) PROVE Exposure'
    <3>1. o.qty \in Amount
      BY DEF ExchangeTypeOK, Order
    <3>2. exPos' \in Nat /\ exPos' < exPos
      BY <2>1, <3>1, ReduceShrinks DEF Trigger
    <3>3. QED BY <2>1, <3>2 DEF Trigger, engineSide
  <2>2. ASSUME NEW o \in orders, Expire(o) PROVE Exposure'
    BY <2>2 DEF Expire, engineSide
  <2>3. CASE ManualClose
    BY <2>3 DEF ManualClose, engineSide
  <2>4. CASE LoseFill
    BY <2>4 DEF LoseFill, engineSide
  <2>5. CASE Restart
    BY <2>5 DEF Restart
  <2>6. QED BY <1>12, <2>1, <2>2, <2>3, <2>4, <2>5 DEF Environment
<1>13. CASE UNCHANGED vars
  BY <1>13 DEF vars
<1>14. QED
  BY <1>4, <1>5, <1>6, <1>7, <1>8, <1>9, <1>10, <1>11, <1>12, <1>13 DEF Next, HandlerStep

-----------------------------------------------------------------------------
(***************************************************************************)
(* The trade log.  Only RecordTrade writes it and only the two entry steps *)
(* begin another position; any other step is quiet.                        *)
(***************************************************************************)
Quiet ==
  /\ UNCHANGED <<trades, ep>>
  /\ exPos' <= exPos
  /\ unmanaged => unmanaged'
  /\ state' = "OPEN" => state = "OPEN" \/ pc = "e_tp" \/ (pc = "sync" /\ exPos > 0)
  /\ pc' \in EntryPc \ {"e_market"} => pc \in EntryPc \ {"e_market"}
  /\ pc' = "sync" => pc = "sync" \/ Fault("crash")
  /\ pc' = "r_finish" => pc = "r_finish"
  /\ state \in {"OPEN", "CLOSING"} /\ state' = "FLAT" => pc = "r_finish" \/ pc' = "sync"

LEMMA QuietStep ==
  ASSUME IInv, [Next]_vars, ~RecordTrade, ~EntryFilled, ~EntryNotFilled
  PROVE  Quiet
<1>1. /\ exPos \in Nat /\ unmanaged \in BOOLEAN /\ ExchangeTypeOK /\ ep \in Nat
      /\ EngineTypeOK /\ Control
  BY DEF IInv, TypeOK, EngineInv, ExchangeTypeOK, HistoryTypeOK
<1>2. state = "OPEN" => pos.size \in Amount
  BY HeldSize
<1> USE <1>1, <1>2
    DEF Quiet, Control, EntryPc, OpenPc, Goto, GotoFor,
        engineVars, amountVars, exchangeVars, historyVars
<1>3. CASE Sync
  <2>1. CASE SyncNothing
    BY <2>1 DEF SyncNothing
  <2>2. CASE SyncExistingStop
    BY <2>2 DEF SyncExistingStop, Restore
  <2>3. CASE SyncNewStop
    BY <2>3 DEF SyncNewStop, Restore
  <2>4. CASE SyncFailClosed
    BY <2>4 DEF SyncFailClosed
  <2>5. CASE SyncTakeProfit
    BY <2>5 DEF SyncTakeProfit
  <2>6. QED BY <1>3, <2>1, <2>2, <2>3, <2>4, <2>5 DEF Sync
<1>4. CASE Entry
  <2>1. CASE EntryStop
    BY <2>1 DEF EntryStop
  <2>2. CASE EntryTakeProfit
    BY <2>2 DEF EntryTakeProfit
  <2>3. CASE EntryTakeProfitFails
    BY <2>3 DEF EntryTakeProfitFails
  <2>4. CASE EntryFlatten
    BY FullAssumption, FlattenShrinks, <2>4 DEF EntryFlatten, Amount
  <2>5. QED BY <1>4, <2>1, <2>2, <2>3, <2>4 DEF Entry
<1>5. CASE Candle
  <2>1. CASE StillOpen
    BY <2>1 DEF StillOpen
  <2>2. CASE FallbackNoted
    BY <2>2 DEF FallbackNoted
  <2>3. CASE FallbackRecord
    BY <2>3 DEF FallbackRecord, GoRecord
  <2>4. CASE FallbackDeferred
    BY <2>4 DEF FallbackDeferred
  <2>5. CASE StopBelievedActive
    BY <2>5 DEF StopBelievedActive
  <2>6. CASE StopReplaced
    BY <2>6 DEF StopReplaced
  <2>7. CASE StopNotReplaced
    BY <2>7 DEF StopNotReplaced
  <2>8. CASE HealthFlatten
    BY FlattenShrinks, <2>8 DEF HealthFlatten
  <2>9. CASE CheckTakeProfit
    BY <2>9 DEF CheckTakeProfit
  <2>10. QED BY <1>5, <2>1, <2>2, <2>3, <2>4, <2>5, <2>6, <2>7, <2>8, <2>9 DEF Candle
<1>6. CASE TickRecover
  BY <1>6 DEF TickRecover, RecoverStop, TickContinues, ScaleOutOrIdle
<1>7. CASE Close
  <2>1. CASE CloseAlreadyFlat
    BY <2>1 DEF CloseAlreadyFlat, GoRecord
  <2>2. CASE CancelForClose
    BY <2>2 DEF CancelForClose
  <2>3. CASE CloseOrder
    <3>1. exPos' <= exPos
      BY FullAssumption, ReduceShrinks, <2>3 DEF CloseOrder, Amount
    <3>2. QED
      BY <2>3, <3>1 DEF CloseOrder, CloseFails, ScaleOutOrIdle, GoRecord
  <2>4. CASE CloseConfirm
    BY <2>4 DEF CloseConfirm, CloseFails, ScaleOutOrIdle, GoRecord
  <2>5. CASE SignalCloseFailed
    BY <2>5 DEF SignalCloseFailed, GoRecord
  <2>6. QED BY <1>7, <2>1, <2>2, <2>3, <2>4, <2>5 DEF Close
<1>8. CASE Record
  <2>1. CASE RecordRaises
    BY <2>1 DEF RecordRaises, CloseRequested
  <2>2. CASE RecordFinish
    BY <2>2 DEF RecordFinish
  <2>3. CASE FinishRaises
    BY <2>3 DEF FinishRaises
  <2>4. QED BY <1>8, <2>1, <2>2, <2>3 DEF Record
<1>9. CASE ScaleOutStep
  <2>1. CASE ScaleOutCancel
    BY <2>1 DEF ScaleOutCancel
  <2>2. CASE ScaleOutHalf
    BY HalfShrinks, <2>2 DEF ScaleOutHalf
  <2>3. CASE ScaleOutPoll
    BY <2>3 DEF ScaleOutPoll, AfterScaleOut
  <2>4. CASE ScaleOutStop
    BY <2>4 DEF ScaleOutStop, AfterScaleOut
  <2>5. CASE ScaleOutTakeProfit
    BY <2>5 DEF ScaleOutTakeProfit, AfterScaleOut
  <2>6. CASE ScaleOutFailed
    BY <2>6 DEF ScaleOutFailed, AfterScaleOut, RecoverStop
  <2>7. QED BY <1>9, <2>1, <2>2, <2>3, <2>4, <2>5, <2>6 DEF ScaleOutStep
<1>10. CASE Dispatch
  <2>1. CASE OnCandleClose
    BY <2>1 DEF OnCandleClose, CandleIdle, CandleOpen, CandleCountsDown, CandleEntry,
       BeginEntry
  <2>2. CASE MissedCandle
    BY <2>2 DEF MissedCandle
  <2>3. CASE OnMarketUpdate
    BY <2>3 DEF OnMarketUpdate, TickOpen, TickEntry, BeginEntry, TickContinues,
       ScaleOutOrIdle
  <2>4. CASE FillIgnored
    BY <2>4 DEF FillIgnored
  <2>5. CASE FillCloses
    BY <2>5 DEF FillCloses, GoRecord
  <2>6. QED BY <1>10, <2>1, <2>2, <2>3, <2>4, <2>5 DEF Dispatch
<1>11. CASE Environment
  <2>1. ASSUME NEW o \in orders, Trigger(o) PROVE Quiet
    <3>1. o.qty \in Amount
      BY DEF ExchangeTypeOK, Order
    <3>2. exPos' <= exPos
      BY <2>1, <3>1, ReduceShrinks DEF Trigger
    <3>3. QED BY <2>1, <3>2 DEF Trigger, engineSide
  <2>2. ASSUME NEW o \in orders, Expire(o) PROVE Quiet
    BY <2>2 DEF Expire, engineSide
  <2>3. CASE ManualClose
    BY <2>3 DEF ManualClose, engineSide
  <2>4. CASE LoseFill
    BY <2>4 DEF LoseFill, engineSide
  <2>5. CASE Restart
    BY <2>5 DEF Restart
  <2>6. QED BY <1>11, <2>1, <2>2, <2>3, <2>4, <2>5 DEF Environment
<1>12. CASE UNCHANGED vars
  BY <1>12 DEF vars
<1>13. QED
  BY <1>3, <1>4, <1>5, <1>6, <1>7, <1>8, <1>9, <1>10, <1>11, <1>12 DEF Next, HandlerStep

LEMMA NewRow ==
  ASSUME HistoryTypeOK, RecordTrade
  PROVE  /\ DOMAIN trades' = DOMAIN trades \cup {Len(trades) + 1}
         /\ Len(trades) + 1 \notin DOMAIN trades
         /\ trades'[Len(trades) + 1].ep = ep
         /\ \A i \in DOMAIN trades : trades'[i] = trades[i]
         /\ UNCHANGED ep
<1> DEFINE row == [ep |-> ep, src |-> exitSrc]
<1>1. /\ trades \in Seq([ep : Nat, src : Source]) /\ row \in [ep : Nat, src : Source]
      /\ trades' = Append(trades, row)
      /\ UNCHANGED ep
  BY DEF HistoryTypeOK, RecordTrade
<1>2. row.ep = ep
  OBVIOUS
<1> HIDE DEF row
<1>3. QED BY <1>1, <1>2

LEMMA RowsNameTheirPosition ==
  ASSUME HistoryTypeOK, NEW i \in DOMAIN trades
  PROVE  trades[i].ep \in Nat
<1>1. ASSUME NEW S, NEW s \in Seq(S), NEW j \in DOMAIN s
      PROVE  s[j] \in S
  OBVIOUS
<1>2. trades[i] \in [ep : Nat, src : Source]
  BY <1>1 DEF HistoryTypeOK
<1>3. QED BY <1>2

LEMMA LedgerStep ==
  ASSUME "glitch" \notin Faults, IInv, Exposure, Ledger, [Next]_vars
  PROVE  Ledger'
<1>1. /\ exPos \in Nat /\ ep \in Nat /\ unmanaged \in BOOLEAN
      /\ trades \in Seq([ep : Nat, src : Source])
      /\ HistoryTypeOK /\ Control
  BY DEF IInv, TypeOK, EngineInv, ExchangeTypeOK, HistoryTypeOK
<1>2. \A i \in DOMAIN trades : trades[i].ep \in Nat
  BY <1>1, RowsNameTheirPosition
<1>3. CASE RecordTrade
  <2>1. /\ pc = "r_record" /\ state = "OPEN" /\ state' = "CLOSING" /\ pc' = "r_finish"
        /\ UNCHANGED <<exPos, unmanaged>>
    BY <1>1, <1>3
    DEF RecordTrade, CloseRequested, Control, OpenPc, Goto, exchangeVars, amountVars
  <2>2. \A i \in DOMAIN trades' : trades'[i].ep <= ep'
    BY <1>1, <1>2, <1>3, NewRow DEF Ledger
  <2>3. ~unmanaged' => NoDuplicateRow'
    BY <1>1, <1>3, <2>1, NewRow DEF Ledger, NoDuplicateRow, NotRecorded
  <2>4. ~unmanaged' => exPos' = 0
    BY <2>1 DEF Exposure
  <2>5. QED BY <2>1, <2>2, <2>3, <2>4 DEF Ledger
<1>4. CASE EntryFilled \/ EntryNotFilled
  <2>1. /\ UNCHANGED trades /\ ep' \in {ep, ep + 1}
        /\ pc = "e_market" /\ state' # "OPEN"
        /\ unmanaged => unmanaged'
        /\ ep' = ep + 1 \/ (exPos' = exPos /\ pc' = "idle")
    BY FullAssumption, <1>1, <1>4
    DEF EntryFilled, EntryNotFilled, Amount, Goto, engineVars, Control, EntryPc
  <2>2. \A i \in DOMAIN trades : trades[i].ep <= ep
    BY DEF Ledger
  <2>3. ep' = ep + 1 => NotRecorded'
    BY <1>1, <1>2, <2>1, <2>2 DEF NotRecorded
  <2>4. ep' = ep => NotRecorded' = NotRecorded
    BY <2>1 DEF NotRecorded
  <2>5. (\A i \in DOMAIN trades' : trades'[i].ep <= ep') /\ NoDuplicateRow' = NoDuplicateRow
    BY <1>1, <1>2, <2>1, <2>2 DEF NoDuplicateRow
  <2>6. QED BY <1>1, <2>1, <2>3, <2>4, <2>5 DEF Ledger
<1>5. CASE Quiet
  <2>1. NotRecorded' = NotRecorded /\ NoDuplicateRow' = NoDuplicateRow
    BY <1>5 DEF Quiet, NotRecorded, NoDuplicateRow
  <2>2. exPos' \in Nat
    BY ExchangeStep DEF ExchangeTypeOK
  <2>3. QED BY <1>1, <1>5, <2>1, <2>2 DEF Ledger, Quiet, EntryPc
<1>6. QED BY <1>3, <1>4, <1>5, QuietStep

LEMMA LedgerOfOneRunStep ==
  ASSUME "crash" \notin Faults, IInv, LedgerOfOneRun, [Next]_vars
  PROVE  LedgerOfOneRun'
<1>1. /\ ep \in Nat /\ trades \in Seq([ep : Nat, src : Source])
      /\ HistoryTypeOK /\ Control
  BY DEF IInv, TypeOK, EngineInv, HistoryTypeOK
<1>2. \A i \in DOMAIN trades : trades[i].ep \in Nat
  BY <1>1, RowsNameTheirPosition
<1>3. CASE RecordTrade
  <2>1. state = "OPEN" /\ state' = "CLOSING" /\ pc' = "r_finish"
    BY <1>1, <1>3 DEF RecordTrade, CloseRequested, Control, OpenPc, Goto
  <2>2. \A i \in DOMAIN trades' : trades'[i].ep <= ep'
    BY <1>1, <1>2, <1>3, NewRow DEF LedgerOfOneRun
  <2>3. NoDuplicateRow'
    BY <1>1, <1>3, <2>1, NewRow DEF LedgerOfOneRun, NoDuplicateRow, NotRecorded
  <2>4. QED BY <2>1, <2>2, <2>3 DEF LedgerOfOneRun
<1>4. CASE EntryFilled \/ EntryNotFilled
  <2>1. /\ UNCHANGED trades /\ ep' \in {ep, ep + 1}
        /\ state' # "OPEN" /\ pc' # "sync"
        /\ ep' = ep + 1 \/ pc' = "idle"
    BY <1>1, <1>4
    DEF EntryFilled, EntryNotFilled, Goto, engineVars, Control, EntryPc
  <2>2. \A i \in DOMAIN trades : trades[i].ep <= ep
    BY DEF LedgerOfOneRun
  <2>3. ep' = ep + 1 => NotRecorded'
    BY <1>1, <1>2, <2>1, <2>2 DEF NotRecorded
  <2>4. (\A i \in DOMAIN trades' : trades'[i].ep <= ep') /\ NoDuplicateRow' = NoDuplicateRow
    BY <1>1, <1>2, <2>1, <2>2 DEF NoDuplicateRow
  <2>5. QED BY <1>1, <2>1, <2>3, <2>4 DEF LedgerOfOneRun
<1>5. CASE Quiet
  <2>1. NotRecorded' = NotRecorded /\ NoDuplicateRow' = NoDuplicateRow
    BY <1>5 DEF Quiet, NotRecorded, NoDuplicateRow
  <2>2. QED BY <1>1, <1>5, <2>1 DEF LedgerOfOneRun, Quiet, EntryPc, Fault
<1>6. QED BY <1>3, <1>4, <1>5, QuietStep

-----------------------------------------------------------------------------
(***************************************************************************)
(* The safety theorems.                                                    *)
(***************************************************************************)
LEMMA ExposureIsInvariant ==
  ASSUME "glitch" \notin Faults
  PROVE  Spec => [](IInv /\ Exposure)
<1>1. IInv /\ Exposure /\ [Next]_vars => Exposure'
  BY ExposureStep
<1>2. QED BY InitExposure, IInvIsInvariant, <1>1, PTL DEF Spec

(***************************************************************************)
(* While positionAmt is not misread, an engine that waits in FLAT has no   *)
(* position, except one it has given up on: however an entry fails and     *)
(* whichever handler closes the trade.                                     *)
(***************************************************************************)
THEOREM FlatEngineHasNoExposure ==
  ASSUME "glitch" \notin Faults
  PROVE  Spec => []FlatMeansNoExposure
<1>1. Exposure => FlatMeansNoExposure
  BY DEF Exposure, FlatMeansNoExposure
<1>2. QED BY ExposureIsInvariant, <1>1, PTL

(***************************************************************************)
(* While positionAmt is not misread, every row of the trade log is written *)
(* for a position that is closed, by each of the paths to the record.      *)
(***************************************************************************)
THEOREM OnlyClosedPositionsAreRecorded ==
  ASSUME "glitch" \notin Faults
  PROVE  Spec => RecordedWhenClosed
<1>1. ASSUME IInv, Exposure, [Next]_vars
      PROVE  trades' # trades => exPos = 0 \/ unmanaged
  <2>1. CASE RecordTrade
    BY <1>1, <2>1 DEF RecordTrade, CloseRequested, Exposure
  <2>2. CASE EntryFilled \/ EntryNotFilled
    BY <2>2 DEF EntryFilled, EntryNotFilled
  <2>3. QED BY <1>1, <2>1, <2>2, QuietStep DEF Quiet
<1>2. IInv /\ Exposure /\ [Next]_vars => [trades' # trades => exPos = 0 \/ unmanaged]_vars
  BY <1>1
<1>3. QED BY ExposureIsInvariant, <1>2, PTL DEF Spec, RecordedWhenClosed

LEMMA InitLedger == Init => Ledger /\ LedgerOfOneRun
BY DEF Init, Ledger, LedgerOfOneRun, NoDuplicateRow, NotRecorded

(***************************************************************************)
(* One close, one row, even across restarts: while positionAmt is not      *)
(* misread and the engine has given up no position, no two rows are about  *)
(* the same position.                                                      *)
(***************************************************************************)
THEOREM RecordedOnceAcrossRestarts ==
  ASSUME "glitch" \notin Faults
  PROVE  Spec => []RecordedOnce
<1>1. IInv /\ Exposure /\ Ledger /\ [Next]_vars => Ledger'
  BY LedgerStep
<1>2. Ledger => RecordedOnce
  BY DEF Ledger, RecordedOnce
<1>3. QED BY InitLedger, ExposureIsInvariant, <1>1, <1>2, PTL DEF Spec

(***************************************************************************)
(* Within the life of one process no position is recorded twice, whatever  *)
(* fails and whatever the exchange reports.                                *)
(***************************************************************************)
THEOREM RecordedOnceInOneRun ==
  ASSUME "crash" \notin Faults
  PROVE  Spec => []NoDuplicateRow
<1>1. IInv /\ LedgerOfOneRun /\ [Next]_vars => LedgerOfOneRun'
  BY LedgerOfOneRunStep
<1>2. LedgerOfOneRun => NoDuplicateRow
  BY DEF LedgerOfOneRun
<1>3. QED BY InitLedger, IInvIsInvariant, <1>1, <1>2, PTL DEF Spec

-----------------------------------------------------------------------------
\* RecordFinish finds the row RecordTrade has written.
RowWritten == pc = "r_finish" => \E i \in DOMAIN trades : trades[i].ep = ep

LEMMA RowWrittenStep ==
  ASSUME IInv, RowWritten, [Next]_vars
  PROVE  RowWritten'
<1>1. CASE RecordTrade
  BY <1>1, NewRow DEF IInv, TypeOK, RowWritten
<1>2. CASE EntryFilled \/ EntryNotFilled
  BY <1>2 DEF EntryFilled, EntryNotFilled, Goto, RowWritten
<1>3. CASE Quiet
  BY <1>3 DEF Quiet, RowWritten
<1>4. QED BY <1>1, <1>2, <1>3, QuietStep

(***************************************************************************)
(* No close handler, and no failure in one, lets the engine forget a       *)
(* trade: it leaves OPEN or CLOSING for FLAT with a row for the position,  *)
(* or by a restart.                                                        *)
(***************************************************************************)
THEOREM ClosedPositionsAreRecorded == Spec => ClosedIsRecorded
<1>1. Init => RowWritten
  BY DEF Init, RowWritten
<1>2. IInv /\ RowWritten /\ [Next]_vars => RowWritten'
  BY RowWrittenStep
<1>3. ASSUME IInv, RowWritten, [Next]_vars,
             state \in {"OPEN", "CLOSING"}, state' = "FLAT", pc' # "sync"
      PROVE  \E i \in DOMAIN trades' : trades'[i].ep = ep
  <2>1. CASE RecordTrade
    BY <1>3, <2>1 DEF RecordTrade, CloseRequested
  <2>2. CASE EntryFilled \/ EntryNotFilled
    BY <1>3, <2>2 DEF EntryFilled, EntryNotFilled, IInv, EngineInv, Control, EntryPc
  <2>3. CASE Quiet
    BY <1>3, <2>3 DEF Quiet, RowWritten
  <2>4. QED BY <1>3, <2>1, <2>2, <2>3, QuietStep
<1>4. IInv /\ RowWritten /\ [Next]_vars
        => [(state = "OPEN" \/ state = "CLOSING") /\ state' = "FLAT" /\ pc' # "sync" =>
              \E i \in DOMAIN trades' : trades'[i].ep = ep]_vars
  BY <1>3
<1>5. QED BY IInvIsInvariant, <1>1, <1>2, <1>4, PTL DEF Spec, ClosedIsRecorded

-----------------------------------------------------------------------------
(***************************************************************************)
(* Entries.  FLAT is left for ENTERING by OnCandleClose and OnMarketUpdate *)
(* alone.                                                                  *)
(***************************************************************************)
LEMMA EntryBegins ==
  ASSUME IInv, [Next]_vars, ~OnCandleClose, ~OnMarketUpdate
  PROVE  /\ state' = "ENTERING" => state = "ENTERING"
         /\ UNCHANGED <<cooldown, sinceClose>> \/ RecordFinish \/ Restart
<1>1. Control
  BY DEF IInv, EngineInv
<1> USE <1>1 DEF Control, EntryPc, OpenPc, Goto, GotoFor, engineVars, riskVars, historyVars
<1>2. CASE Sync
  BY <1>2 DEF Sync, SyncNothing, SyncExistingStop, SyncNewStop, SyncFailClosed,
     SyncTakeProfit, Restore
<1>3. CASE Entry
  BY <1>3 DEF Entry, EntryFilled, EntryNotFilled, EntryStop, EntryTakeProfit,
     EntryTakeProfitFails, EntryFlatten
<1>4. CASE Candle
  BY <1>4 DEF Candle, StillOpen, FallbackNoted, FallbackRecord, FallbackDeferred,
     StopBelievedActive, StopReplaced, StopNotReplaced, HealthFlatten, CheckTakeProfit
<1>5. CASE TickRecover
  BY <1>5 DEF TickRecover
<1>6. CASE Close
  BY <1>6 DEF Close, CloseAlreadyFlat, CancelForClose, CloseOrder, CloseConfirm,
     SignalCloseFailed
<1>7. CASE Record
  BY <1>7 DEF Record, RecordTrade, RecordRaises, RecordFinish, FinishRaises,
     CloseRequested
<1>8. CASE ScaleOutStep
  BY <1>8 DEF ScaleOutStep, ScaleOutCancel, ScaleOutHalf, ScaleOutPoll, ScaleOutStop,
     ScaleOutTakeProfit, ScaleOutFailed
<1>9. CASE Dispatch
  BY <1>9 DEF Dispatch, MissedCandle, FillIgnored, FillCloses
<1>10. CASE Environment
  BY <1>10 DEF Environment, Trigger, Expire, ManualClose, LoseFill, Restart, engineSide
<1>11. CASE UNCHANGED vars
  BY <1>11 DEF vars
<1>12. QED
  BY <1>2, <1>3, <1>4, <1>5, <1>6, <1>7, <1>8, <1>9, <1>10, <1>11 DEF Next, HandlerStep

(***************************************************************************)
(* The kill switch, tripped by losses or by the drawdown of this candle,   *)
(* stops both entry paths.                                                 *)
(***************************************************************************)
THEOREM NoEntryIsKilled == Spec => NoEntryWhenKilled
<1>1. ASSUME IInv, [Next]_vars, state = "FLAT", state' = "ENTERING"
      PROVE  ~Killed'
  <2>1. CASE OnCandleClose
    BY <1>1, <2>1
    DEF OnCandleClose, CandleIdle, CandleOpen, CandleCountsDown, CandleEntry, engineVars
  <2>2. CASE OnMarketUpdate
    BY <1>1, <2>2 DEF OnMarketUpdate, TickOpen, TickEntry, Killed
  <2>3. QED BY <1>1, <2>1, <2>2, EntryBegins
<1>2. IInv /\ [Next]_vars => [state = "FLAT" /\ state' = "ENTERING" => ~Killed']_vars
  BY <1>1
<1>3. QED BY IInvIsInvariant, <1>2, PTL DEF Spec, NoEntryWhenKilled

\* What is left of the cooldown and the candles handled since the trade.
CooldownSum == cooldown + sinceClose >= Cooldown

LEMMA CooldownStep ==
  ASSUME "crash" \notin Faults, IInv, CooldownSum, [Next]_vars
  PROVE  CooldownSum'
<1>1. cooldown \in Nat /\ sinceClose \in Nat /\ Cooldown \in Nat
  BY ConstantsAssumption DEF IInv, TypeOK, RiskTypeOK, HistoryTypeOK
<1>2. ~Restart
  BY DEF Restart, Fault
<1>3. CASE OnCandleClose
  <2>1. cooldown' = cooldown \/ (cooldown > 0 /\ cooldown' = cooldown - 1)
    BY <1>3 DEF OnCandleClose, CandleIdle, CandleOpen, CandleCountsDown, CandleEntry
  <2>2. sinceClose' = Smaller(sinceClose + 1, Cooldown)
    BY <1>3 DEF OnCandleClose
  <2>3. QED BY <1>1, <2>1, <2>2 DEF CooldownSum, Smaller
<1>4. CASE OnMarketUpdate
  BY <1>1, <1>4
  DEF OnMarketUpdate, TickOpen, TickEntry, historyVars, CooldownSum
<1>5. CASE RecordFinish
  BY <1>1, <1>5 DEF RecordFinish, CooldownSum
<1>6. QED BY <1>1, <1>2, <1>3, <1>4, <1>5, EntryBegins DEF CooldownSum

(***************************************************************************)
(* Without a restart, no entry by candle or by tick comes before Cooldown  *)
(* closed candles have been handled since the last recorded trade.         *)
(***************************************************************************)
THEOREM CooldownIsRespected ==
  ASSUME "crash" \notin Faults
  PROVE  Spec => CooldownRespected
<1>1. Init => CooldownSum
  BY ConstantsAssumption DEF Init, CooldownSum
<1>2. IInv /\ CooldownSum /\ [Next]_vars => CooldownSum'
  BY CooldownStep
<1>3. ASSUME IInv, CooldownSum, CooldownSum', [Next]_vars, state = "FLAT", state' = "ENTERING"
      PROVE  sinceClose' >= Cooldown
  <2>1. cooldown' = 0
    <3>1. CASE OnCandleClose
      BY <1>3, <3>1
      DEF OnCandleClose, CandleIdle, CandleOpen, CandleCountsDown, CandleEntry, engineVars
    <3>2. CASE OnMarketUpdate
      BY <1>3, <3>2 DEF OnMarketUpdate, TickOpen, TickEntry
    <3>3. QED BY <1>3, <3>1, <3>2, EntryBegins
  <2>2. cooldown' \in Nat /\ sinceClose' \in Nat /\ Cooldown \in Nat
    BY <1>3, RiskStep, HistoryStep, ConstantsAssumption DEF RiskTypeOK, HistoryTypeOK
  <2>3. cooldown' + sinceClose' >= Cooldown
    BY <1>3 DEF CooldownSum
  <2>4. ASSUME NEW left \in Nat, NEW since \in Nat, left = 0, left + since >= Cooldown
        PROVE  since >= Cooldown
    BY <2>2, <2>4
  <2>5. QED BY <2>1, <2>2, <2>3, <2>4
<1>4. IInv /\ CooldownSum /\ CooldownSum' /\ [Next]_vars
        => [state = "FLAT" /\ state' = "ENTERING" => sinceClose' >= Cooldown]_vars
  BY <1>3
<1>5. QED BY IInvIsInvariant, <1>1, <1>2, <1>4, PTL DEF Spec, CooldownRespected

(***************************************************************************)
(* Without a restart, neither entry path is open during the cooldown or    *)
(* after the kill switch has tripped, for any cooldown and any limit.      *)
(***************************************************************************)
THEOREM EntriesAreAllowed ==
  ASSUME "crash" \notin Faults
  PROVE  Spec => EntersOnlyWhenAllowed
BY NoEntryIsKilled, CooldownIsRespected DEF EntersOnlyWhenAllowed

-----------------------------------------------------------------------------
(***************************************************************************)
(* Refinement: the engine's StateMachine object.                           *)
(***************************************************************************)
\* The steps that call a method of StateMachine.
Transition ==
  \/ SyncExistingStop \/ SyncNewStop \/ SyncTakeProfit
  \/ OnCandleClose \/ OnMarketUpdate
  \/ EntryNotFilled \/ EntryTakeProfit \/ EntryFlatten
  \/ CheckTakeProfit \/ ScaleOutPoll
  \/ RecordTrade \/ RecordRaises \/ RecordFinish
  \/ Restart

LEMMA NoTransition ==
  ASSUME [Next]_vars, ~Transition
  PROVE  UNCHANGED <<state, pos>>
<1> USE DEF Transition, engineVars
<1>1. CASE Sync
  BY <1>1 DEF Sync, SyncNothing, SyncFailClosed
<1>2. CASE Entry
  BY <1>2 DEF Entry, EntryFilled, EntryStop, EntryTakeProfitFails
<1>3. CASE Candle
  BY <1>3 DEF Candle, StillOpen, FallbackNoted, FallbackRecord, FallbackDeferred,
     StopBelievedActive, StopReplaced, StopNotReplaced, HealthFlatten
<1>4. CASE TickRecover
  BY <1>4 DEF TickRecover
<1>5. CASE Close
  BY <1>5 DEF Close, CloseAlreadyFlat, CancelForClose, CloseOrder, CloseConfirm,
     SignalCloseFailed
<1>6. CASE Record
  BY <1>6 DEF Record, FinishRaises
<1>7. CASE ScaleOutStep
  BY <1>7 DEF ScaleOutStep, ScaleOutCancel, ScaleOutHalf, ScaleOutStop,
     ScaleOutTakeProfit, ScaleOutFailed
<1>8. CASE Dispatch
  BY <1>8 DEF Dispatch, MissedCandle, FillIgnored, FillCloses
<1>9. CASE Environment
  BY <1>9 DEF Environment, Trigger, Expire, ManualClose, LoseFill, engineSide
<1>10. CASE UNCHANGED vars
  BY <1>10 DEF vars
<1>11. QED
  BY <1>1, <1>2, <1>3, <1>4, <1>5, <1>6, <1>7, <1>8, <1>9, <1>10 DEF Next, HandlerStep

LEMMA AbstractPositionValue ==
  pos \in OpenPosition =>
    AbstractPosition =
      [side |-> "LONG", size |-> pos.size,
       stopPrice |-> IF pos.phase = "INITIAL" THEN 1 ELSE 2,
       initialStopPrice |-> 1, stopPhase |-> pos.phase,
       takeProfit |-> IF pos.tp THEN 3 ELSE 0]
BY NoPosIsNoPosition DEF AbstractPosition

LEMMA AbstractPositionType ==
  pos \in OpenPosition =>
    /\ AbstractPosition \in Lifecycle!Position
    /\ AbstractPosition # NoAbstractPosition
<1> SUFFICES ASSUME pos \in OpenPosition
             PROVE  /\ AbstractPosition \in Lifecycle!Position
                    /\ AbstractPosition # NoAbstractPosition
  OBVIOUS
<1>1. pos.size \in Amount /\ pos.phase \in {"INITIAL", "BREAKEVEN"}
  BY DEF OpenPosition
<1>2. QED
  BY FullAssumption, <1>1, AbstractPositionValue
  DEF Lifecycle!Position, Lifecycle!StopPhase, NoAbstractPosition, Amount

\* A take-profit price that becomes known is on_take_profit_update.
LEMMA TakeProfitStep ==
  ASSUME state = "OPEN", state' = "OPEN", pos \in OpenPosition,
         pos' = [pos EXCEPT !.tp = TRUE]
  PROVE  Lifecycle!OnTakeProfitUpdate(3)
<1>1. pos' \in OpenPosition /\ pos'.tp /\ pos'.size = pos.size /\ pos'.phase = pos.phase
  BY DEF OpenPosition
<1>2. (pos \in OpenPosition =>
        AbstractPosition =
          [side |-> "LONG", size |-> pos.size,
           stopPrice |-> IF pos.phase = "INITIAL" THEN 1 ELSE 2,
           initialStopPrice |-> 1, stopPhase |-> pos.phase,
           takeProfit |-> IF pos.tp THEN 3 ELSE 0])'
  BY AbstractPositionValue, PTL
<1>3. AbstractPosition' = [AbstractPosition EXCEPT !.takeProfit = 3]
  BY <1>1, <1>2, AbstractPositionValue
<1>4. QED
  BY <1>3, AbstractPositionType DEF Lifecycle!OnTakeProfitUpdate, AbstractSignal

LEMMA LifecycleStep ==
  ASSUME "crash" \notin Faults, IInv, IInv', [Next]_vars
  PROVE  [Lifecycle!Next]_(Lifecycle!vars)
<1>1. /\ state \in {"OPEN", "CLOSING"} => pos \in OpenPosition
      /\ state \notin {"OPEN", "CLOSING"} => pos = NoPos
      /\ Control
  BY NoPosIsNoPosition DEF IInv, EngineInv, EngineTypeOK, Holding
<1>2. /\ state' \in {"OPEN", "CLOSING"} => pos' \in OpenPosition
      /\ state' \notin {"OPEN", "CLOSING"} => pos' = NoPos
  BY NoPosIsNoPosition DEF IInv, EngineInv, EngineTypeOK, Holding
<1>3. pos \in OpenPosition => AbstractPosition # NoAbstractPosition
  BY AbstractPositionType
<1>4. pos' \in OpenPosition => AbstractPosition' \in Lifecycle!Position
  <2>1. (pos \in OpenPosition =>
           /\ AbstractPosition \in Lifecycle!Position
           /\ AbstractPosition # NoAbstractPosition)'
    BY AbstractPositionType, PTL
  <2>2. QED BY <2>1
<1>5. pos' = NoPos => AbstractPosition' = NoAbstractPosition
  BY DEF AbstractPosition
<1>6. UNCHANGED <<state, pos>> => UNCHANGED Lifecycle!vars
  BY DEF Lifecycle!vars, AbstractPosition, AbstractSignal
<1> USE <1>1, <1>2, <1>3, <1>4, <1>5 DEF Lifecycle!Next, AbstractSignal
<1>7. CASE SyncExistingStop \/ SyncNewStop
  <2>1. state = "FLAT" /\ state' = "OPEN"
    BY <1>7 DEF SyncExistingStop, SyncNewStop, Restore, Control
  <2>2. Lifecycle!RestorePosition(AbstractPosition')
    BY <2>1 DEF Lifecycle!RestorePosition
  <2>3. QED BY <2>1, <2>2
<1>8. CASE OnCandleClose
  <2>1. UNCHANGED <<state, pos>> \/ (state = "FLAT" /\ state' = "ENTERING")
    BY <1>8
    DEF OnCandleClose, CandleIdle, CandleOpen, CandleCountsDown, CandleEntry, BeginEntry,
        engineVars
  <2>2. state = "FLAT" /\ state' = "ENTERING" => Lifecycle!OnSignal("signal")
    BY DEF Lifecycle!OnSignal
  <2>3. QED BY <1>6, <2>1, <2>2
<1>9. CASE OnMarketUpdate
  <2>1. UNCHANGED <<state, pos>> \/ (state = "FLAT" /\ state' = "ENTERING")
    BY <1>9 DEF OnMarketUpdate, TickOpen, TickEntry, BeginEntry, engineVars
  <2>2. state = "FLAT" /\ state' = "ENTERING" => Lifecycle!OnSignal("signal")
    BY DEF Lifecycle!OnSignal
  <2>3. QED BY <1>6, <2>1, <2>2
<1>10. CASE EntryNotFilled \/ EntryFlatten
  <2>1. state = "ENTERING" /\ state' = "FLAT"
    BY <1>10 DEF EntryNotFilled, EntryFlatten, Control, EntryPc
  <2>2. Lifecycle!RollbackEntry
    BY <2>1 DEF Lifecycle!RollbackEntry
  <2>3. QED BY <2>2
<1>11. CASE EntryTakeProfit
  <2>1. state = "ENTERING" /\ state' = "OPEN"
    BY <1>11 DEF EntryTakeProfit, Control, EntryPc
  <2>2. Lifecycle!OnEntryFilled(AbstractPosition')
    BY <2>1 DEF Lifecycle!OnEntryFilled
  <2>3. QED BY <2>1, <2>2
<1>12. CASE SyncTakeProfit \/ CheckTakeProfit
  <2>1. /\ state = "OPEN" /\ state' = "OPEN"
        /\ pos' = pos \/ pos' = [pos EXCEPT !.tp = TRUE]
    BY <1>12 DEF SyncTakeProfit, CheckTakeProfit, Control, OpenPc
  <2>2. pos' = [pos EXCEPT !.tp = TRUE] => Lifecycle!OnTakeProfitUpdate(3)
    BY <2>1, TakeProfitStep
  <2>3. QED BY <1>6, <2>1, <2>2
<1>13. CASE ScaleOutPoll
  <2>1. state = "OPEN" /\ state' = "OPEN"
    BY <1>13 DEF ScaleOutPoll, Control, OpenPc
  <2>2. Lifecycle!ReplacePosition(AbstractPosition')
    BY <2>1 DEF Lifecycle!ReplacePosition
  <2>3. QED BY <2>1, <2>2
<1>14. CASE RecordTrade \/ RecordRaises
  <2>1. state = "OPEN" /\ state' = "CLOSING" /\ UNCHANGED pos
    BY <1>14 DEF RecordTrade, RecordRaises, CloseRequested, Control, OpenPc
  <2>2. Lifecycle!OnExitRequested
    BY <2>1 DEF Lifecycle!OnExitRequested, AbstractPosition
  <2>3. QED BY <2>2
<1>15. CASE RecordFinish
  <2>1. state = "CLOSING" /\ state' = "FLAT"
    BY <1>15 DEF RecordFinish, Control
  <2>2. Lifecycle!OnExitFilled
    BY <2>1 DEF Lifecycle!OnExitFilled
  <2>3. QED BY <2>2
<1>16. CASE ~Transition
  BY <1>6, <1>16, NoTransition
<1>17. QED
  BY <1>7, <1>8, <1>9, <1>10, <1>11, <1>12, <1>13, <1>14, <1>15, <1>16
  DEF Transition, Restart, Fault

(***************************************************************************)
(* Without a restart, which creates a new StateMachine, the engine drives  *)
(* its StateMachine only through the transitions that class offers.        *)
(***************************************************************************)
THEOREM EngineImplementsLifecycle ==
  ASSUME "crash" \notin Faults
  PROVE  Spec => ImplementsLifecycle
<1>1. Init => Lifecycle!Init
  BY DEF Init, Lifecycle!Init, AbstractPosition, AbstractSignal
<1>2. IInv /\ IInv' /\ [Next]_vars => [Lifecycle!Next]_(Lifecycle!vars)
  BY LifecycleStep
<1>3. QED
  BY <1>1, <1>2, IInvIsInvariant, PTL DEF Spec, ImplementsLifecycle, Lifecycle!Spec
=============================================================================
