-------------------------- MODULE TradePlanProofs --------------------------
(***************************************************************************)
(* Proofs about the prices and sizes of module TradePlan, for every        *)
(* market, fill, filter and history of candles that satisfies the          *)
(* assumptions of that module; and, first, about the StateMachine whose    *)
(* methods it calls.                                                       *)
(***************************************************************************)
EXTENDS TradePlanProperties, TLAPS

Sides == {"LONG", "SHORT"}

-----------------------------------------------------------------------------
(***************************************************************************)
(* The lifecycle, module PositionStateMachine, for any prices, sizes and   *)
(* signals: the position object and the pending signal keep in step with   *)
(* the state.  That None is not a position and not a signal is an          *)
(* assumption of the second theorem.                                       *)
(***************************************************************************)
\* A method leaves the position and the pending signal objects of their kind.
LEMMA LifecycleTypeStep ==
  ASSUME TypeOK, [Next]_vars
  PROVE  TypeOK'
<1> USE DEF TypeOK, PositionState, vars
<1>1. ASSUME NEW s \in Signal, OnSignal(s) PROVE TypeOK'
  BY <1>1 DEF OnSignal
<1>2. ASSUME NEW p \in Position, OnEntryFilled(p) \/ ReplacePosition(p) \/ RestorePosition(p)
      PROVE  TypeOK'
  BY <1>2 DEF OnEntryFilled, ReplacePosition, RestorePosition
<1>3. ASSUME NEW phase \in StopPhase, NEW stop \in Price, OnStopUpdate(phase, stop)
      PROVE  TypeOK'
  BY <1>3 DEF OnStopUpdate, Position
<1>4. ASSUME NEW tp \in Price \cup {0}, OnTakeProfitUpdate(tp)
      PROVE  TypeOK'
  BY <1>4 DEF OnTakeProfitUpdate, Position
<1>5. CASE OnExitRequested \/ RollbackEntry \/ OnExitFilled
  BY <1>5 DEF OnExitRequested, RollbackEntry, OnExitFilled
<1>6. CASE UNCHANGED vars
  BY <1>6
<1>7. QED BY <1>1, <1>2, <1>3, <1>4, <1>5, <1>6 DEF Next

(***************************************************************************)
(* Every method leaves the object well formed.                             *)
(***************************************************************************)
THEOREM LifecycleTypeCorrect == Spec => []TypeOK
<1>1. Init => TypeOK
  BY DEF Init, TypeOK, PositionState
<1>2. TypeOK /\ [Next]_vars => TypeOK'
  BY LifecycleTypeStep
<1>3. QED BY <1>1, <1>2, PTL DEF Spec

(***************************************************************************)
(* After any sequence of legal calls there is a position exactly in OPEN   *)
(* and CLOSING, and a pending signal exactly in ENTERING: the "position is *)
(* None" and "pending signal is None" errors of on_stop_update, on_exit_   *)
(* filled and on_entry_filled cannot be raised in the right state.         *)
(***************************************************************************)
THEOREM LifecycleIsConsistent ==
  ASSUME NoPosition \notin Position, NoSignal \notin Signal
  PROVE  Spec => []PositionMatchesState
<1>1. Init => PositionMatchesState
  BY DEF Init, PositionMatchesState
<1>2. ASSUME TypeOK, PositionMatchesState, [Next]_vars
      PROVE  PositionMatchesState'
  <2> USE <1>2 DEF TypeOK, PositionState, PositionMatchesState, vars
  <2>1. ASSUME NEW s \in Signal, OnSignal(s) PROVE PositionMatchesState'
    BY <2>1 DEF OnSignal
  <2>2. ASSUME NEW p \in Position, OnEntryFilled(p) \/ ReplacePosition(p) \/ RestorePosition(p)
        PROVE  PositionMatchesState'
    BY <2>2 DEF OnEntryFilled, ReplacePosition, RestorePosition
  <2>3. ASSUME NEW phase \in StopPhase, NEW stop \in Price, OnStopUpdate(phase, stop)
        PROVE  PositionMatchesState'
    <3>1. position' \in Position
      BY <2>3 DEF OnStopUpdate, Position
    <3>2. QED BY <2>3, <3>1 DEF OnStopUpdate
  <2>4. ASSUME NEW tp \in Price \cup {0}, OnTakeProfitUpdate(tp)
        PROVE  PositionMatchesState'
    <3>1. position' \in Position
      BY <2>4 DEF OnTakeProfitUpdate, Position
    <3>2. QED BY <2>4, <3>1 DEF OnTakeProfitUpdate
  <2>5. CASE OnExitRequested \/ RollbackEntry \/ OnExitFilled
    BY <2>5 DEF OnExitRequested, RollbackEntry, OnExitFilled
  <2>6. CASE UNCHANGED vars
    BY <2>6
  <2>7. QED BY <2>1, <2>2, <2>3, <2>4, <2>5, <2>6 DEF Next
<1>3. TypeOK /\ PositionMatchesState /\ [Next]_vars => PositionMatchesState'
  BY <1>2
<1>4. QED BY <1>1, <1>3, LifecycleTypeCorrect, PTL DEF Spec

-----------------------------------------------------------------------------
(***************************************************************************)
(* Rounding to a step.                                                     *)
(***************************************************************************)
\* A price rounded down is at most a step below: the last multiple of the step.
LEMMA FloorBounds ==
  ASSUME NEW v \in Int, NEW step \in Nat, step > 0
  PROVE  /\ FloorToStep(v, step) \in Int
         /\ FloorToStep(v, step) <= v
         /\ v < FloorToStep(v, step) + step
BY DEF FloorToStep

\* Rounding keeps the order of two prices.
LEMMA FloorMonotone ==
  ASSUME NEW a \in Int, NEW b \in Int, NEW step \in Nat, step > 0, a <= b
  PROVE  FloorToStep(a, step) <= FloorToStep(b, step)
<1>1. a \div step <= b \div step
  <2> DEFINE m == a \div step
             n == b \div step
  <2>1. m \in Int /\ n \in Int /\ m * step <= a /\ b < n * step + step
    OBVIOUS
  <2> HIDE DEF m, n
  <2>2. m * step < (n + 1) * step
    BY <2>1
  <2>3. ~(m >= n + 1)
    <3>1. m >= n + 1 => m * step >= (n + 1) * step
      BY <2>1
    <3> QED BY <2>1, <2>2, <3>1
  <2> QED BY <2>1, <2>3 DEF m, n
<1>2. a \div step \in Int /\ b \div step \in Int
  OBVIOUS
<1> QED BY <1>1, <1>2 DEF FloorToStep

\* A rounded price is not rounded again.
LEMMA FloorIdempotent ==
  ASSUME NEW v \in Int, NEW step \in Nat, step > 0
  PROVE  FloorToStep(FloorToStep(v, step), step) = FloorToStep(v, step)
<1> DEFINE k == v \div step
<1>1. k \in Int /\ (k * step) \div step = k
  OBVIOUS
<1> QED BY <1>1 DEF FloorToStep

\* Both roundings of a price, with a symbol's filter.
LEMMA PriceRounded ==
  ASSUME NEW v \in Int, NEW f \in Filters, f.priceStep > 0
  PROVE  /\ CeilToStep(v, f.priceStep) \in Int  /\ CeilToStep(v, f.priceStep) >= v
         /\ FloorToStep(v, f.priceStep) \in Int /\ FloorToStep(v, f.priceStep) <= v
<1>1. f.priceStep \in Nat
  BY DEF Filters
<1>2. FloorToStep(-v, f.priceStep) \in Int /\ FloorToStep(-v, f.priceStep) <= -v
  <2>1. -v \in Int
    OBVIOUS
  <2> QED BY <1>1, <2>1, FloorBounds
<1>3. FloorToStep(v, f.priceStep) \in Int /\ FloorToStep(v, f.priceStep) <= v
  BY <1>1, FloorBounds
<1> QED BY <1>1, <1>2, <1>3 DEF CeilToStep

\* The trigger of a stop is rounded away from the entry ...
LEMMA StopTriggerWorse ==
  ASSUME NEW side \in Sides, NEW v \in Int, NEW e \in Int,
         NEW f \in Filters, f.priceStep > 0, Worse(side, v, e)
  PROVE  StopTrigger(f, side, v) \in Int /\ Worse(side, StopTrigger(f, side, v), e)
<1>1. CASE side = "LONG"
  <2>1. StopTrigger(f, side, v) = FloorToStep(v, f.priceStep)
    BY <1>1 DEF StopTrigger, FormatPrice
  <2> QED BY <1>1, <2>1, PriceRounded DEF Worse
<1>2. CASE side = "SHORT"
  <2>1. StopTrigger(f, side, v) = CeilToStep(v, f.priceStep)
    BY <1>2 DEF StopTrigger, FormatPrice
  <2> QED BY <1>2, <2>1, PriceRounded DEF Worse
<1> QED BY <1>1, <1>2 DEF Sides

\* ... and so is that of a take profit.
LEMMA TakeTriggerBetter ==
  ASSUME NEW side \in Sides, NEW v \in Int, NEW e \in Int,
         NEW f \in Filters, f.priceStep > 0, Worse(side, e, v)
  PROVE  TakeTrigger(f, side, v) \in Int /\ Worse(side, e, TakeTrigger(f, side, v))
<1>1. CASE side = "LONG"
  <2>1. TakeTrigger(f, side, v) = CeilToStep(v, f.priceStep)
    BY <1>1 DEF TakeTrigger, FormatPrice
  <2> QED BY <1>1, <2>1, PriceRounded DEF Worse
<1>2. CASE side = "SHORT"
  <2>1. TakeTrigger(f, side, v) = FloorToStep(v, f.priceStep)
    BY <1>2 DEF TakeTrigger, FormatPrice
  <2> QED BY <1>2, <2>1, PriceRounded DEF Worse
<1> QED BY <1>1, <1>2 DEF Sides

\* The trigger of the better of two stops is not the worse one.
LEMMA StopTriggerMonotone ==
  ASSUME NEW side \in Sides, NEW a \in Int, NEW b \in Int,
         NEW f \in Filters, f.priceStep > 0, ~Worse(side, b, a)
  PROVE  ~Worse(side, StopTrigger(f, side, b), StopTrigger(f, side, a))
<1>1. f.priceStep \in Nat
  BY DEF Filters
<1>2. CASE side = "LONG"
  <2>1. a <= b
    BY <1>2 DEF Worse
  <2>2. FloorToStep(a, f.priceStep) <= FloorToStep(b, f.priceStep)
    BY <1>1, <2>1, FloorMonotone
  <2>3. FloorToStep(a, f.priceStep) \in Int /\ FloorToStep(b, f.priceStep) \in Int
    BY <1>1, FloorBounds
  <2> QED BY <1>2, <2>2, <2>3 DEF Worse, StopTrigger, FormatPrice
<1>3. CASE side = "SHORT"
  <2>1. -a <= -b /\ -a \in Int /\ -b \in Int
    BY <1>3 DEF Worse
  <2>2. FloorToStep(-a, f.priceStep) <= FloorToStep(-b, f.priceStep)
    BY <1>1, <2>1, FloorMonotone
  <2>3. FloorToStep(-a, f.priceStep) \in Int /\ FloorToStep(-b, f.priceStep) \in Int
    BY <1>1, <2>1, FloorBounds
  <2> QED BY <1>1, <1>3, <2>2, <2>3 DEF Worse, StopTrigger, FormatPrice, CeilToStep
<1> QED BY <1>2, <1>3 DEF Sides

\* The stop at breakeven is a tick behind the entry, rounded already: its
\* trigger is the one of a stop a tick behind the entry.
LEMMA BreakevenBehind ==
  ASSUME NEW side \in Sides, NEW e \in Int, NEW f \in Filters, f.priceStep > 0
  PROVE  /\ BreakevenTrigger(f, side, e) \in Int
         /\ Worse(side, BreakevenTrigger(f, side, e), e)
         /\ StopTrigger(f, side, BreakevenTrigger(f, side, e))
              = StopTrigger(f, side, Below(side, e, f.priceStep))
<1>1. f.priceStep \in Nat
  BY DEF Filters
<1>2. CASE side = "LONG"
  <2> DEFINE v == e - f.priceStep
  <2>1. v \in Int /\ BreakevenTrigger(f, side, e) = FloorToStep(v, f.priceStep)
    BY <1>1, <1>2 DEF BreakevenTrigger, FormatPrice, Below
  <2>2. FloorToStep(v, f.priceStep) \in Int /\ FloorToStep(v, f.priceStep) <= v
    BY <1>1, <2>1, FloorBounds
  <2>3. FloorToStep(FloorToStep(v, f.priceStep), f.priceStep) = FloorToStep(v, f.priceStep)
    BY <1>1, <2>1, FloorIdempotent
  <2> QED BY <1>1, <1>2, <2>1, <2>2, <2>3 DEF Worse, StopTrigger, FormatPrice, Below
<1>3. CASE side = "SHORT"
  <2> DEFINE v == -(e + f.priceStep)
  <2>1. v \in Int /\ BreakevenTrigger(f, side, e) = -FloorToStep(v, f.priceStep)
    BY <1>1, <1>3 DEF BreakevenTrigger, FormatPrice, Below, CeilToStep
  <2>2. FloorToStep(v, f.priceStep) \in Int /\ FloorToStep(v, f.priceStep) <= v
    BY <1>1, <2>1, FloorBounds
  <2>3. FloorToStep(FloorToStep(v, f.priceStep), f.priceStep) = FloorToStep(v, f.priceStep)
    BY <1>1, <2>1, FloorIdempotent
  <2>4. -(-FloorToStep(v, f.priceStep)) = FloorToStep(v, f.priceStep)
    BY <2>2
  <2> QED BY <1>1, <1>3, <2>1, <2>2, <2>3, <2>4
          DEF Worse, StopTrigger, FormatPrice, Below, CeilToStep
<1> QED BY <1>2, <1>3 DEF Sides

-----------------------------------------------------------------------------
(***************************************************************************)
(* The stop and the take profit of a position.                             *)
(***************************************************************************)
\* A multiple of the ATR is at least a unit.
LEMMA TenthsPositive ==
  ASSUME NEW k \in Nat, k >= 10, NEW a \in Nat, a > 0
  PROVE  Tenths(k, a) \in Nat /\ Tenths(k, a) > 0
<1>1. k * a >= 10 * a
  OBVIOUS
<1>2. k * a \in Nat
  OBVIOUS
<1>3. k * a >= 10
  BY <1>1, <1>2
<1> QED BY <1>2, <1>3 DEF Tenths

LEMMA Units ==
  /\ Filter \in Filters /\ Filter.priceStep \in Nat /\ Filter.priceStep > 0
  /\ RestoredAtr \in Atrs \ {0} /\ Atrs \subseteq Nat
  /\ \A a \in Atrs \ {0}, k \in {StopAtrTenths, TakeAtrTenths, RecoveryTenths} :
       Tenths(k, a) \in Nat /\ Tenths(k, a) > 0
  /\ FillPrices \subseteq Nat /\ \A e \in FillPrices : e > 0
  /\ Prices \subseteq Nat
<1>1. Filter \in Filters /\ Filter.priceStep \in Nat /\ Filter.priceStep > 0
  BY PlanAssumption, UnitsAssumption DEF Filters
<1>2. RestoredAtr \in Atrs \ {0} /\ Atrs \subseteq Nat
  BY UnitsAssumption DEF Atrs
<1>3. \A a \in Atrs \ {0}, k \in {StopAtrTenths, TakeAtrTenths, RecoveryTenths} :
        Tenths(k, a) \in Nat /\ Tenths(k, a) > 0
  <2>1. {StopAtrTenths, TakeAtrTenths, RecoveryTenths} \subseteq Nat
    BY RulesAssumption, PlanAssumption
  <2> QED BY <1>2, <2>1, UnitsAssumption, TenthsPositive
<1>4. FillPrices \subseteq Int
  <2>1. \A p \in Prices, s \in Slips : p + s \in Int /\ p - s \in Int
    BY PlanAssumption
  <2> QED BY <2>1 DEF FillPrices
<1>5. \A e \in FillPrices : e > 0
  BY UnitsAssumption
<1> QED BY <1>1, <1>2, <1>3, <1>4, <1>5, PlanAssumption

LEMMA FillPricePositive ==
  ASSUME NEW e \in FillPrices
  PROVE  e \in Int /\ e > 0
BY Units

\* validate_stop_price returns a stop on the losing side.
LEMMA ValidStopWorse ==
  ASSUME NEW side \in Sides, NEW e \in FillPrices, NEW v \in Int, NEW a \in Atrs \ {0}
  PROVE  /\ ValidateStopPrice(side, v, e, a) \in Int
         /\ Worse(side, ValidateStopPrice(side, v, e, a), e)
         /\ Worse(side, v, e) => ValidateStopPrice(side, v, e, a) = v
<1>1. e \in Int /\ a > 0 /\ Tenths(StopAtrTenths, a) \in Nat /\ Tenths(StopAtrTenths, a) > 0
  BY Units
<1> QED BY <1>1 DEF ValidateStopPrice, DefaultStopPrice, Below, Worse, Sides

\* A repriced take profit is on the winning side, wherever the market is.
LEMMA RepricedBetter ==
  ASSUME NEW side \in Sides, NEW e \in FillPrices, NEW m \in Prices, NEW a \in Atrs \ {0},
         NEW k \in {TakeAtrTenths, RecoveryTenths}
  PROVE  /\ RepriceTakeProfit(side, e, m, a, Filter.priceStep, k) \in Int
         /\ Worse(side, e, RepriceTakeProfit(side, e, m, a, Filter.priceStep, k))
<1> DEFINE buffer == Larger(Filter.priceStep * TpBufferTicks, Tenths(3, a))
           target == Above(side, e, Tenths(k, a))
           beyond == Above(side, m, buffer)
<1>1. e \in Nat /\ m \in Nat /\ a \in Nat /\ a > 0
  BY Units
<1>2. Tenths(k, a) \in Nat /\ Tenths(k, a) > 0 /\ Tenths(k, a) < e
  BY Units, UnitsAssumption
<1>3. buffer \in Int
  <2>1. Filter.priceStep * TpBufferTicks \in Int
    BY Units, RulesAssumption
  <2>2. Tenths(3, a) \in Int
    BY <1>1 DEF Tenths
  <2> QED BY <2>1, <2>2 DEF Larger
<1>4. target \in Int /\ target > 0 /\ Worse(side, e, target)
  BY <1>1, <1>2 DEF Above, Worse, Sides
<1>5. beyond \in Int
  BY <1>1, <1>3 DEF Above
<1>6. RepriceTakeProfit(side, e, m, a, Filter.priceStep, k)
        = IF side = "LONG" THEN Larger(target, beyond) ELSE Lesser(target, beyond)
  BY <1>1, <1>4 DEF RepriceTakeProfit
<1> QED BY <1>1, <1>4, <1>5, <1>6 DEF Larger, Lesser, Worse, Sides

\* The default target, rounded or not.
LEMMA DefaultTakeTyped ==
  ASSUME NEW side \in Sides, NEW e \in FillPrices, NEW a \in Atrs \ {0}
  PROVE  DefaultTakeProfitPrice(side, e, a) \in Int
BY Units DEF DefaultTakeProfitPrice, Above

-----------------------------------------------------------------------------
(***************************************************************************)
(* The signal of a strategy, and its size.                                 *)
(***************************************************************************)
Signals == [side : Sides, stop : Nat \ {0}, take : Int]

\* Both strategies give a stop and a target that are prices.
LEMMA TrendSignal ==
  ASSUME NEW w \in TrendWindows, NEW p \in Prices,
         NEW signal \in BreakoutEntry(Ending(w, p), p), Distance(p, signal.stop) > 0
  PROVE  signal \in Signals /\ Atr(Ending(w, p)) \in Atrs \ {0}
<1> DEFINE bars == Ending(w, p)
           a    == Atr(bars)
           side == TrendSide(bars, TrendDirection(bars))
           stop == Below(side, p, Tenths(TrendStopTenths, a))
           take == Above(side, p, Tenths(TrendTakeTenths, a))
<1>1. EnoughForTrend(bars) /\ signal = EntrySignal(side, stop, take)
  BY DEF BreakoutEntry
<1>2. side \in Sides
  BY DEF TrendSide, Sides
<1>3. a \in Atrs /\ a \in Nat
  <2>1. bars \in TrendTrades
    BY <1>1 DEF TrendTrades
  <2> QED BY <2>1, Units DEF Atrs
<1>4. signal.side = side /\ signal.stop = stop /\ signal.take = take
  BY <1>1 DEF EntrySignal
<1> HIDE DEF side, a
<1>5. p \in Nat \ {0} /\ TrendStopTenths \in Nat /\ TrendTakeTenths \in Nat
  BY PlanAssumption, StrategiesAssumption
<1>6. TrendStopTenths * a \in Nat /\ TrendTakeTenths * a \in Nat
  BY <1>3, <1>5
<1>7. Tenths(TrendStopTenths, a) \in Nat /\ Tenths(TrendTakeTenths, a) \in Nat
  BY <1>6 DEF Tenths
<1>8. Tenths(TrendStopTenths, a) < p
  BY <1>3, UnitsAssumption
<1>9. stop \in Nat \ {0} /\ take \in Int
  BY <1>5, <1>7, <1>8 DEF Below, Above
<1>10. a # 0
  <2>1. a = 0 => Tenths(TrendStopTenths, a) = 0
    BY <1>5 DEF Tenths
  <2>2. Distance(p, stop) > 0 => stop # p
    BY <1>5, <1>9 DEF Distance, Larger
  <2>3. Tenths(TrendStopTenths, a) = 0 => stop = p
    BY <1>5 DEF Below
  <2> QED BY <1>4, <2>1, <2>2, <2>3
<1>11. signal = [side |-> side, stop |-> stop, take |-> take]
  BY <1>1 DEF EntrySignal
<1>12. signal \in Signals
  BY <1>2, <1>9, <1>11 DEF Signals
<1> QED BY <1>3, <1>10, <1>12 DEF a

LEMMA RangeSignal ==
  ASSUME NEW w \in RangeWindows, NEW p \in Prices, NEW b, NEW signal \in RangeEntry(w, b, p)
  PROVE  signal \in Signals /\ Atr(w) \in Atrs \ {0}
<1> DEFINE m      == RangeContext(w)
           a      == Atr(w)
           buffer == StopBuffer(p, a)
           mid    == RangeMiddle(w)
<1>1. EnoughForRange(w)
  BY DEF RangeEntry
<1>2. \/ signal = EntrySignal("LONG", m.low - buffer, mid)
      \/ signal = EntrySignal("SHORT", m.high + buffer, mid)
  BY DEF RangeEntry
<1>3. w \in RangeTrades
  BY <1>1 DEF RangeTrades
<1>4. a \in Atrs /\ a \in Nat /\ a > 0
  BY <1>3, Units, UnitsAssumption DEF Atrs
<1>5. m \in [high : Nat \ {0}, low : Nat \ {0}] /\ buffer < m.low
  BY <1>3, UnitsAssumption
<1>6. buffer \in Nat
  <2>1. p * BufferPerMille \in Nat /\ BufferAtrTenths * a \in Nat
    BY <1>4, Units, StrategiesAssumption
  <2>2. (p * BufferPerMille) \div 1000 \in Nat /\ (BufferAtrTenths * a) \div 10 \in Nat
    BY <2>1
  <2> QED BY <2>2 DEF StopBuffer, Larger, Tenths
<1>7. mid \in Int
  BY <1>5 DEF RangeMiddle
<1> HIDE DEF m, a, buffer, mid
<1>8. m.low - buffer \in Nat \ {0}
  BY <1>5, <1>6
<1>9. m.high + buffer \in Nat \ {0}
  BY <1>3, <1>5, <1>6
<1> QED BY <1>2, <1>4, <1>7, <1>8, <1>9 DEF EntrySignal, Signals, Sides, a

\* The size is at most the budget over the distance to the stop.
LEMMA SizeBounded ==
  ASSUME NEW score, NEW p \in Prices, NEW stop \in Int, Distance(p, stop) > 0
  PROVE  LET scale == PositionScaleForScore(score)
             size  == EntrySize(Filter, Equity, scale, p, stop)
         IN /\ RiskAmount(Equity, scale) \in Nat
            /\ size \in Nat
            /\ size * Distance(p, stop) <= RiskAmount(Equity, scale)
<1> DEFINE scale  == PositionScaleForScore(score)
           budget == RiskAmount(Equity, scale)
           d      == Distance(p, stop)
           most   == budget \div d
           size   == FormatQuantity(Filter, most)
<1>1. scale \in {7, 10, 12}
  BY DEF PositionScaleForScore
<1>2. budget \in Nat
  <2>0. Equity \in Nat /\ RiskPerMille \in Nat
    BY PlanAssumption, StrategiesAssumption
  <2>1. Equity * RiskPerMille \in Nat
    BY <2>0
  <2>2. Equity * RiskPerMille * scale \in Nat
    BY <1>1, <2>1
  <2> QED BY <2>2 DEF RiskAmount
<1>3. d \in Nat \ {0}
  BY Units DEF Distance, Larger
<1> HIDE DEF scale, budget, d
<1>4. most \in Nat /\ most * d <= budget
  BY <1>2, <1>3
<1>5. size \in Nat /\ size <= most
  <2>1. Filter.qtyStep \in Nat /\ Filter.qtyMin \in Nat
    BY Units DEF Filters
  <2>2. FloorToStep(most, Filter.qtyStep) \in Nat /\ FloorToStep(most, Filter.qtyStep) <= most
    <3>1. CASE Filter.qtyStep = 0
      BY <1>4, <3>1 DEF FloorToStep
    <3>2. CASE Filter.qtyStep > 0
      <4> DEFINE k == most \div Filter.qtyStep
      <4>1. k \in Nat
        BY <1>4, <2>1, <3>2
      <4> HIDE DEF k
      <4>2. k * Filter.qtyStep \in Nat
        BY <2>1, <4>1
      <4>3. FloorToStep(most, Filter.qtyStep) = k * Filter.qtyStep
        BY <2>1, <3>2 DEF FloorToStep, k
      <4> QED BY <1>4, <2>1, <3>2, <4>2, <4>3, FloorBounds
    <3> QED BY <2>1, <3>1, <3>2
  <2> QED BY <1>4, <2>1, <2>2 DEF FormatQuantity
<1> HIDE DEF most, size
<1>6. size * d <= most * d
  BY <1>3, <1>4, <1>5
<1>7. size * d <= budget
  <2>1. size * d \in Nat /\ most * d \in Nat
    BY <1>3, <1>4, <1>5
  <2> QED BY <1>2, <1>4, <1>6, <2>1
<1> QED BY <1>2, <1>5, <1>7 DEF EntrySize, scale, budget, d, most, size

-----------------------------------------------------------------------------
(***************************************************************************)
(* The inductive invariant: where the handler stands, what its draft holds *)
(* at every stage, and what the position keeps of it.                      *)
(***************************************************************************)
Tasks    == {"entry", "scaleout", "recover", "health"}
Ordering == {"stop", "ticker", "take"}
Entering == pc = "fill" \/ (pc \in Ordering /\ draft.for = "entry")

PlannedPosition ==
  [side : Sides, size : Nat, stopPrice : Int, initialStopPrice : Int,
   stopPhase : StopPhase, takeProfit : Int]

PlanTypeOK ==
  /\ market \in Prices
  /\ stopOrder \in Int /\ takeOrder \in Int /\ restarts \in Nat
  /\ lot \in [side : Sides \cup {"NONE"}, size : Nat, entry : Int]
  /\ lot.size > 0 => lot.side \in Sides /\ lot.entry \in FillPrices
  /\ draft \in [for : Tasks \cup {"nothing"}, size : Nat, atr : Nat, stop : Int, take : Int]
  /\ plan \in [side : Sides \cup {"NONE"}, budget : Nat, estimate : Int, stop : Int]

StageFollows ==
  /\ pc \in {"idle", "fill", "closing", "sync"} \cup Ordering
  /\ state \in PositionState
  /\ state = "ENTERING" <=> Entering
  /\ state = "CLOSING" <=> pc = "closing"
  /\ pc = "sync" => state = "FLAT" /\ restarts > 0
  /\ state \in {"FLAT", "ENTERING"} => position = NoPosition
  /\ state = "CLOSING" => lot.size = 0 /\ position \in PlannedPosition
  /\ pc \in Ordering =>
       lot.size > 0 /\ draft.for \in Tasks /\ state \in {"ENTERING", "OPEN"}

AtrKnown ==
  \/ pc \in {"fill", "ticker", "take"}
  \/ pc = "stop" /\ draft.for # "recover"
  => draft.atr \in Atrs \ {0}

OrdersOnSides ==
  lot.size > 0 =>
    /\ stopOrder # 0 => Worse(lot.side, stopOrder, lot.entry)
    /\ takeOrder # 0 => Worse(lot.side, lot.entry, takeOrder)

DraftOnSides ==
  /\ pc = "stop" => Worse(lot.side, draft.stop, lot.entry)
  /\ pc \in Ordering /\ draft.for = "entry" => Worse(lot.side, draft.stop, lot.entry)
  /\ pc = "stop" /\ draft.for = "entry" => draft.take # 0
  /\ pc = "take" => Worse(lot.side, lot.entry, draft.take)

\* The budget covers the distance from the estimate to the planned stop.
Covered(size) == size * Distance(plan.estimate, plan.stop) <= plan.budget

FillPlanned ==
  pc = "fill" =>
    /\ draft.for = "entry" /\ stopOrder = 0 /\ takeOrder = 0
    /\ pendingSignal.side \in Sides
    /\ draft.stop = plan.stop /\ plan.stop > 0
    /\ Covered(draft.size)

OrdersPlanned ==
  pc \in Ordering /\ draft.for = "entry" =>
    /\ Covered(lot.size)
    /\ Worse(lot.side, plan.stop, lot.entry) => draft.stop = plan.stop

OpenPlanned ==
  state = "OPEN" =>
    /\ position \in PlannedPosition
    /\ lot.size > 0 /\ position.side = lot.side /\ position.size = lot.size
    /\ Worse(lot.side, position.stopPrice, lot.entry)
    /\ Worse(lot.side, position.initialStopPrice, lot.entry)
    /\ position.stopPhase = "INITIAL" => position.stopPrice = position.initialStopPrice
    /\ position.stopPhase = "INITIAL" /\ restarts = 0 =>
         /\ Covered(lot.size)
         /\ Worse(lot.side, plan.stop, lot.entry) => position.initialStopPrice = plan.stop

PlanInv ==
  /\ PlanTypeOK /\ StageFollows /\ AtrKnown
  /\ OrdersOnSides /\ DraftOnSides
  /\ FillPlanned /\ OrdersPlanned /\ OpenPlanned

-----------------------------------------------------------------------------
(***************************************************************************)
(* The steps.                                                              *)
(***************************************************************************)
LEMMA PlanInitially == PlanInit => PlanInv
BY Units DEF PlanInit, Init, PlanInv, PlanTypeOK, StageFollows, AtrKnown, OrdersOnSides,
   DraftOnSides, FillPlanned, OrdersPlanned, OpenPlanned, NoLot, NoDraft, NoPlan, PositionState,
   Ordering, Tasks, Entering

\* The market.
LEMMA MarketStep ==
  ASSUME PlanInv, NEW p \in Prices, Move(p) \/ NewBar
  PROVE  PlanInv'
<1>1. /\ UNCHANGED <<vars, exchangeVars, pc, draft, scaledOut, history>>
      /\ market' \in Prices
  BY DEF Move, Moved, NewBar, PlanInv, PlanTypeOK
<1> QED BY <1>1 DEF PlanInv, PlanTypeOK, StageFollows, AtrKnown, OrdersOnSides, DraftOnSides,
        FillPlanned, OrdersPlanned, OpenPlanned, Entering, Covered, vars, exchangeVars, history

LEMMA ClosingStep ==
  ASSUME PlanInv, (\E p \in Prices : Fire(p)) \/ RealtimeTake \/ MarketClose \/ HealthStopRefused
  PROVE  PlanInv'
<1>1. /\ state = "OPEN" /\ state' = "CLOSING" /\ pc' = "closing" /\ lot' = NoLot
      /\ market' \in Prices /\ stopOrder' \in Int /\ takeOrder' \in Int
      /\ draft' \in {draft, NoDraft}
      /\ UNCHANGED <<position, plan, restarts>>
  BY DEF Fire, RealtimeTake, MarketClose, HealthStopRefused, OnExitRequested, Moved,
         PlanInv, PlanTypeOK, history, marketVars
<1> QED BY <1>1 DEF PlanInv, PlanTypeOK, StageFollows, AtrKnown, OrdersOnSides, DraftOnSides,
        FillPlanned, OrdersPlanned, OpenPlanned, Entering, NoLot, NoDraft, Ordering, PositionState

LEMMA FlatStep ==
  ASSUME PlanInv, Closed \/ Crash \/ FillRefused \/ EntryStopRefused \/ EntryTakeRefused
  PROVE  PlanInv'
<1>1. /\ state' = "FLAT" /\ pc' \in {"idle", "sync"} /\ position' = NoPosition
      /\ lot' \in {lot, NoLot} /\ plan' \in {plan, NoPlan} /\ draft' \in {draft, NoDraft}
      /\ stopOrder' \in {stopOrder, 0} /\ takeOrder' \in {takeOrder, 0}
      /\ restarts' \in Nat /\ (pc' = "sync" => restarts' > 0)
      /\ UNCHANGED market
  BY DEF Closed, Crash, FillRefused, EntryStopRefused, EntryTakeRefused, EntryGivenUp,
         RollbackEntry, OnExitFilled, PlanInv, PlanTypeOK, history, marketVars, exchangeVars
<1> QED BY <1>1 DEF PlanInv, PlanTypeOK, StageFollows, AtrKnown, OrdersOnSides, DraftOnSides,
        FillPlanned, OrdersPlanned, OpenPlanned, Entering, NoLot, NoDraft, NoPlan, Ordering,
        PositionState

\* The signal is drafted with its size.
LEMMA EntryStep ==
  ASSUME PlanInv, NEW signal \in Signals, NEW a \in Atrs \ {0}, NEW score,
         BeginEntry(signal, a, score)
  PROVE  PlanInv'
<1> DEFINE scale  == PositionScaleForScore(score)
           budget == RiskAmount(Equity, scale)
           size   == EntrySize(Filter, Equity, scale, market, signal.stop)
<1>1. market \in Prices /\ signal.stop \in Int /\ signal.stop > 0 /\ signal.take \in Int
      /\ signal.side \in Sides /\ market \in Int /\ a \in Nat
  BY Units DEF PlanInv, PlanTypeOK, Signals
<1>2. /\ budget \in Nat /\ size \in Nat
      /\ size * Distance(market, signal.stop) <= budget
  <2>1. Distance(market, signal.stop) > 0
    BY DEF BeginEntry
  <2> QED BY <1>1, <2>1, SizeBounded
<1> HIDE DEF scale, budget, size
<1>3. /\ state' = "ENTERING" /\ position' = NoPosition /\ pendingSignal' = signal
      /\ stopOrder' = 0 /\ takeOrder' = 0 /\ pc' = "fill"
      /\ UNCHANGED <<market, lot, restarts>>
  BY DEF BeginEntry, OnSignal
<1>4. /\ draft' = [for |-> "entry", atr |-> a, stop |-> signal.stop, take |-> signal.take,
                   size |-> size]
      /\ plan' = [side |-> signal.side, budget |-> budget, estimate |-> market,
                  stop |-> signal.stop]
  BY DEF BeginEntry, scale, budget, size
<1>5. PlanTypeOK'
  BY <1>1, <1>2, <1>3, <1>4 DEF PlanInv, PlanTypeOK, Tasks
<1>6. StageFollows' /\ AtrKnown' /\ OrdersOnSides' /\ DraftOnSides' /\ OrdersPlanned' /\ OpenPlanned'
  BY <1>3, <1>4 DEF StageFollows, AtrKnown, OrdersOnSides, DraftOnSides, OrdersPlanned,
     OpenPlanned, Entering, Ordering, PositionState
<1>7. FillPlanned'
  BY <1>1, <1>2, <1>3, <1>4 DEF FillPlanned, Covered
<1> QED BY <1>5, <1>6, <1>7 DEF PlanInv

LEMMA EnterStep ==
  ASSUME PlanInv, (\E w \in TrendWindows : EnterTrend(w)) \/ (\E w \in RangeWindows : EnterRange(w))
  PROVE  PlanInv'
<1>1. market \in Prices
  BY DEF PlanInv, PlanTypeOK
<1>2. ASSUME NEW w \in TrendWindows, EnterTrend(w)
      PROVE  PlanInv'
  <2> DEFINE bars == Ending(w, market)
  <2>1. PICK signal \in BreakoutEntry(bars, market) : BeginEntry(signal, Atr(bars), Score(bars))
    BY <1>2 DEF EnterTrend
  <2>2. Distance(market, signal.stop) > 0
    BY <2>1 DEF BeginEntry
  <2>3. signal \in Signals /\ Atr(bars) \in Atrs \ {0}
    BY <1>1, <2>1, <2>2, TrendSignal
  <2> HIDE DEF bars
  <2> QED BY <2>1, <2>3, EntryStep
<1>3. ASSUME NEW w \in RangeWindows, EnterRange(w)
      PROVE  PlanInv'
  <2>1. PICK signal \in RangeEntry(w, bar, market) : BeginEntry(signal, Atr(w), Score(w))
    BY <1>3 DEF EnterRange
  <2>2. signal \in Signals /\ Atr(w) \in Atrs \ {0}
    BY <1>1, <2>1, RangeSignal
  <2> QED BY <2>1, <2>2, EntryStep
<1> QED BY <1>2, <1>3

\* The fill: the stop is validated against the price that was paid.
LEMMA FillStep ==
  ASSUME PlanInv, NEW slip \in Slips, Fill(slip)
  PROVE  PlanInv'
<1> DEFINE side  == pendingSignal.side
           price == Above(side, market, slip)
           given == ResolveStopPrice(side, draft.stop, price, draft.atr)
           stop  == ValidateStopPrice(side, given, price, draft.atr)
           take  == ResolveTakeProfitPrice(side, draft.take, price, draft.atr)
<1>1. /\ pc = "fill" /\ state = "ENTERING" /\ draft.for = "entry" /\ draft.size > 0
      /\ side \in Sides /\ draft.stop = plan.stop /\ plan.stop > 0 /\ plan.stop \in Int
      /\ stopOrder = 0 /\ takeOrder = 0 /\ Covered(draft.size)
      /\ draft.atr \in Atrs \ {0} /\ draft.take \in Int /\ market \in Prices
  BY DEF Fill, PlanInv, PlanTypeOK, FillPlanned, StageFollows, Entering, AtrKnown
<1>2. price \in FillPrices /\ price \in Int /\ price > 0
  <2>1. price \in FillPrices
    BY <1>1 DEF Above, FillPrices
  <2> HIDE DEF price
  <2> QED BY <2>1, FillPricePositive
<1>3. given = plan.stop
  BY <1>1 DEF ResolveStopPrice
<1>4. /\ stop \in Int /\ Worse(side, stop, price)
      /\ Worse(side, plan.stop, price) => stop = plan.stop
  BY <1>1, <1>2, <1>3, ValidStopWorse
<1>5. take \in Int /\ take # 0
  <2>1. /\ Tenths(TakeAtrTenths, draft.atr) \in Nat
        /\ Tenths(TakeAtrTenths, draft.atr) < price
    BY <1>1, <1>2, Units, UnitsAssumption
  <2> QED BY <1>1, <1>2, <2>1 DEF ResolveTakeProfitPrice, DefaultTakeProfitPrice, Above
<1>6. /\ lot' = [side |-> side, size |-> draft.size, entry |-> price]
      /\ draft' = [draft EXCEPT !.stop = stop, !.take = take]
      /\ pc' = "stop"
      /\ UNCHANGED <<vars, market, stopOrder, takeOrder, plan, restarts>>
  BY DEF Fill, marketVars, history
<1> HIDE DEF side, price, given, stop, take
<1>7. /\ draft'.for = "entry" /\ draft'.stop = stop /\ draft'.take = take
      /\ draft'.atr = draft.atr
  BY <1>1, <1>6 DEF PlanInv, PlanTypeOK
<1>8. PlanTypeOK'
  BY <1>1, <1>2, <1>4, <1>5, <1>6 DEF PlanInv, PlanTypeOK
<1>9. StageFollows' /\ AtrKnown' /\ FillPlanned' /\ OpenPlanned'
  BY <1>1, <1>6, <1>7 DEF PlanInv, StageFollows, AtrKnown, FillPlanned, OpenPlanned, Entering,
     Ordering, Tasks, vars
<1>10. OrdersOnSides' /\ DraftOnSides'
  BY <1>1, <1>4, <1>5, <1>6, <1>7 DEF OrdersOnSides, DraftOnSides
<1>11. OrdersPlanned'
  BY <1>1, <1>4, <1>6, <1>7 DEF OrdersPlanned, Covered
<1> QED BY <1>8, <1>9, <1>10, <1>11 DEF PlanInv

\* The draft of a later order, from what the position holds.
LEMMA RecoverStep ==
  ASSUME PlanInv, RecoverStop
  PROVE  PlanInv'
<1> DEFINE stop == ValidateStopPrice(lot.side, position.stopPrice, lot.entry, RestoredAtr)
<1>1. state = "OPEN" /\ position.stopPrice \in Int /\ lot.size > 0
      /\ lot.side \in Sides /\ lot.entry \in FillPrices
  BY DEF RecoverStop, PlanInv, PlanTypeOK, OpenPlanned, PlannedPosition
<1>2. stop \in Int /\ Worse(lot.side, stop, lot.entry)
  BY <1>1, Units, ValidStopWorse
<1> HIDE DEF stop
<1>3. draft' = [for |-> "recover", size |-> 0, atr |-> 0, stop |-> stop, take |-> 0]
  BY DEF RecoverStop, NoDraft, stop
<1>4. /\ pc' = "stop"
      /\ UNCHANGED <<vars, market, lot, stopOrder, takeOrder, plan, restarts>>
  BY DEF RecoverStop, marketVars, exchangeVars, history
<1> QED BY <1>1, <1>2, <1>3, <1>4 DEF PlanInv, PlanTypeOK, StageFollows, AtrKnown, OrdersOnSides,
        DraftOnSides, FillPlanned, OrdersPlanned, OpenPlanned, Covered, Entering, Ordering, Tasks,
        PositionState, vars

LEMMA RefusedStep ==
  ASSUME PlanInv, ScaleOutStopRefused
  PROVE  PlanInv'
<1>1. /\ pc = "stop" /\ draft.for \in {"scaleout", "recover"}
      /\ \/ draft' = [draft EXCEPT !.for = "recover"] /\ pc' = "stop"
         \/ draft' = NoDraft /\ pc' = "idle"
      /\ UNCHANGED <<vars, market, lot, stopOrder, takeOrder, plan, restarts>>
  BY DEF ScaleOutStopRefused, marketVars, exchangeVars, history
<1> QED BY <1>1 DEF PlanInv, PlanTypeOK, StageFollows, AtrKnown, OrdersOnSides,
        DraftOnSides, FillPlanned, OrdersPlanned, OpenPlanned, Covered, Entering, Ordering, Tasks,
        PositionState, vars, NoDraft

\* A stop is accepted.
LEMMA StopStep ==
  ASSUME PlanInv, StopPlaced
  PROVE  PlanInv'
<1> DEFINE trigger == StopTrigger(Filter, lot.side, draft.stop)
<1>1. pc = "stop" /\ lot.size > 0 /\ lot.side \in Sides /\ lot.entry \in Int
      /\ draft.stop \in Int /\ Worse(lot.side, draft.stop, lot.entry)
  BY DEF StopPlaced, PlanInv, PlanTypeOK, StageFollows, DraftOnSides, Ordering
<1>2. trigger \in Int /\ Worse(lot.side, trigger, lot.entry)
  BY <1>1, Units, StopTriggerWorse
<1>3. stopOrder' = trigger
  BY DEF StopPlaced
<1> HIDE DEF trigger
<1>4. /\ \/ pc' = "idle" /\ draft' = NoDraft /\ (draft.for = "recover" \/ draft.take = 0)
         \/ pc' = "ticker" /\ draft' = draft /\ draft.for # "recover"
      /\ UNCHANGED <<vars, market, lot, takeOrder, plan, restarts>>
  BY DEF StopPlaced, marketVars, history
<1> QED BY <1>1, <1>2, <1>3, <1>4 DEF PlanInv, PlanTypeOK, StageFollows, AtrKnown, OrdersOnSides,
        DraftOnSides, FillPlanned, OrdersPlanned, OpenPlanned, Covered, Entering, Ordering, Tasks,
        PositionState, vars, NoDraft

\* The ticker is read: the target is valid, or repriced.
LEMMA TickerStep ==
  ASSUME PlanInv, ReadTicker
  PROVE  PlanInv'
<1> DEFINE repriced == RepriceTakeProfit(lot.side, lot.entry, market, draft.atr,
                                         Filter.priceStep, TakeAtrTenths)
           take     == ValidTake(draft.take)
<1>1. pc = "ticker" /\ lot.size > 0 /\ lot.side \in Sides /\ lot.entry \in FillPrices
      /\ draft.atr \in Atrs \ {0} /\ draft.take \in Int /\ market \in Prices
  BY DEF ReadTicker, PlanInv, PlanTypeOK, StageFollows, AtrKnown, Ordering
<1>2. lot.entry \in Int
  BY <1>1, FillPricePositive
<1>3. repriced \in Int /\ Worse(lot.side, lot.entry, repriced)
  BY <1>1, RepricedBetter
<1> HIDE DEF repriced
<1>4. /\ TakeTrigger(Filter, lot.side, repriced) \in Int
      /\ Worse(lot.side, lot.entry, TakeTrigger(Filter, lot.side, repriced))
  BY <1>1, <1>2, <1>3, Units, TakeTriggerBetter
<1>5. take \in {draft.take, TakeTrigger(Filter, lot.side, repriced)}
      /\ (take # TakeTrigger(Filter, lot.side, repriced) => Worse(lot.side, lot.entry, draft.take))
  BY DEF ValidTake, TakeTrigger, repriced, ValidateTakeProfitPrice
<1>6. take \in Int /\ Worse(lot.side, lot.entry, take)
  BY <1>1, <1>4, <1>5
<1>7. /\ draft' = [draft EXCEPT !.take = take] /\ pc' = "take"
      /\ UNCHANGED <<vars, market, lot, stopOrder, takeOrder, plan, restarts>>
  BY DEF ReadTicker, marketVars, exchangeVars, history
<1> HIDE DEF take
<1> QED BY <1>1, <1>6, <1>7 DEF PlanInv, PlanTypeOK, StageFollows, AtrKnown, OrdersOnSides,
        DraftOnSides, FillPlanned, OrdersPlanned, OpenPlanned, Covered, Entering, Ordering, Tasks,
        PositionState, vars

\* The take profit of an entry is accepted: the position is complete.
LEMMA OpenedStep ==
  ASSUME PlanInv, Opened
  PROVE  PlanInv'
<1> DEFINE trigger == TakeTrigger(Filter, lot.side, draft.take)
<1>1. /\ pc = "take" /\ draft.for = "entry" /\ state = "ENTERING"
      /\ lot.size > 0 /\ lot.side \in Sides /\ lot.entry \in Int
      /\ draft.take \in Int /\ Worse(lot.side, lot.entry, draft.take)
      /\ draft.stop \in Int /\ Worse(lot.side, draft.stop, lot.entry)
      /\ Covered(lot.size)
      /\ Worse(lot.side, plan.stop, lot.entry) => draft.stop = plan.stop
  BY DEF Opened, PlanInv, PlanTypeOK, StageFollows, DraftOnSides, OrdersPlanned, Ordering, Entering
<1>2. trigger \in Int /\ Worse(lot.side, lot.entry, trigger)
  BY <1>1, Units, TakeTriggerBetter
<1>3. takeOrder' = trigger
  BY DEF Opened
<1> HIDE DEF trigger
<1>4. /\ state' = "OPEN" /\ pc' = "idle" /\ draft' = NoDraft
      /\ position' = [side |-> lot.side, size |-> lot.size, stopPrice |-> draft.stop,
                      initialStopPrice |-> draft.stop, stopPhase |-> "INITIAL",
                      takeProfit |-> draft.take]
      /\ UNCHANGED <<market, lot, stopOrder, plan, restarts>>
  BY DEF Opened, OnEntryFilled, marketVars, history
<1>5. PlanTypeOK'
  BY <1>2, <1>3, <1>4 DEF PlanInv, PlanTypeOK, NoDraft
<1>6. /\ position' \in PlannedPosition
      /\ position'.side = lot.side /\ position'.size = lot.size
      /\ position'.stopPrice = draft.stop /\ position'.initialStopPrice = draft.stop
  BY <1>1, <1>4 DEF PlannedPosition, StopPhase, PlanInv, PlanTypeOK
<1>7. OpenPlanned'
  BY <1>1, <1>4, <1>6 DEF OpenPlanned, Covered
<1> QED BY <1>1, <1>2, <1>3, <1>4, <1>5, <1>7 DEF PlanInv, StageFollows, AtrKnown, OrdersOnSides,
        DraftOnSides, FillPlanned, OrdersPlanned, Entering, Ordering, PositionState, NoDraft

\* The take profit of a position is replaced, or watched by the engine.
LEMMA ReplacedStep ==
  ASSUME PlanInv, TakeReplaced
  PROVE  PlanInv'
<1> DEFINE trigger == TakeTrigger(Filter, lot.side, draft.take)
<1>1. /\ pc = "take" /\ draft.for # "entry" /\ state = "OPEN"
      /\ lot.size > 0 /\ lot.side \in Sides /\ lot.entry \in Int
      /\ draft.take \in Int /\ Worse(lot.side, lot.entry, draft.take)
  BY DEF TakeReplaced, PlanInv, PlanTypeOK, StageFollows, DraftOnSides, Ordering, Entering, PositionState
<1>2. trigger \in Int /\ Worse(lot.side, lot.entry, trigger)
  BY <1>1, Units, TakeTriggerBetter
<1>3. takeOrder' \in {trigger, 0}
  BY DEF TakeReplaced
<1> HIDE DEF trigger
<1>4. /\ pc' = "idle" /\ draft' = NoDraft /\ state' = state
      /\ UNCHANGED <<market, lot, stopOrder, plan, restarts>>
  BY DEF TakeReplaced, OnTakeProfitUpdate, marketVars, history, vars
<1>5. position' \in {position, [position EXCEPT !.takeProfit = draft.take]}
  BY DEF TakeReplaced, OnTakeProfitUpdate, vars
<1>6. PlanTypeOK'
  BY <1>2, <1>3, <1>4 DEF PlanInv, PlanTypeOK, NoDraft
<1>7. OpenPlanned'
  BY <1>1, <1>4, <1>5 DEF PlanInv, OpenPlanned, PlannedPosition, Covered
<1> QED BY <1>1, <1>2, <1>3, <1>4, <1>6, <1>7 DEF PlanInv, StageFollows, AtrKnown, OrdersOnSides,
        DraftOnSides, FillPlanned, OrdersPlanned, Entering, Ordering, PositionState, NoDraft

\* Half is sold; the rest is to have its stop a tick behind the entry.
LEMMA ScaleOutStep ==
  ASSUME PlanInv, ScaleOut
  PROVE  PlanInv'
<1> DEFINE trigger == BreakevenTrigger(Filter, lot.side, lot.entry)
           rest    == lot.size - Half
<1>1. /\ pc = "idle" /\ state = "OPEN" /\ position \in PlannedPosition
      /\ lot.size > 0 /\ lot.side \in Sides /\ lot.entry \in Int /\ lot.entry \in FillPrices
      /\ position.size = lot.size /\ position.side = lot.side /\ lot.size \in Nat
      /\ Worse(lot.side, position.initialStopPrice, lot.entry)
  BY Units DEF ScaleOut, PlanInv, PlanTypeOK, OpenPlanned
<1>2. trigger \in Int /\ Worse(lot.side, trigger, lot.entry)
  BY <1>1, Units, BreakevenBehind
<1>3. Half \in Int
  <2>1. position.size \div 2 \in Int
    BY <1>1
  <2>2. Filter.qtyStep \in Nat
    BY Units DEF Filters
  <2>3. FloorToStep(position.size \div 2, Filter.qtyStep) \in Int
    BY <2>1, <2>2, FloorBounds DEF FloorToStep
  <2> QED BY <2>3 DEF Half, FormatQuantity
<1>4. rest \in Nat /\ rest > 0
  BY <1>1, <1>3 DEF ScaleOut
<1>5. /\ lot' = [lot EXCEPT !.size = rest] /\ stopOrder' = 0 /\ takeOrder' = 0
      /\ position' = [position EXCEPT !.size = rest, !.stopPrice = trigger,
                                      !.stopPhase = "BREAKEVEN"]
      /\ draft' = [for |-> "scaleout", size |-> rest, atr |-> RestoredAtr,
                   stop |-> trigger, take |-> position.takeProfit]
      /\ pc' = "stop"
      /\ UNCHANGED <<state, market, plan, restarts>>
  BY DEF ScaleOut, ReplacePosition, marketVars, history
<1> HIDE DEF trigger, rest
<1>6. /\ position' \in PlannedPosition /\ position'.side = lot.side /\ position'.size = rest
      /\ position'.stopPrice = trigger /\ position'.stopPhase = "BREAKEVEN"
      /\ position'.initialStopPrice = position.initialStopPrice
  BY <1>1, <1>2, <1>4, <1>5 DEF PlannedPosition, StopPhase
<1>7. lot'.side = lot.side /\ lot'.size = rest /\ lot'.entry = lot.entry
  BY <1>5 DEF PlanInv, PlanTypeOK
<1>8. position.takeProfit \in Int /\ RestoredAtr \in Nat
  BY <1>1, Units DEF PlannedPosition
<1>9. PlanTypeOK'
  BY <1>1, <1>2, <1>4, <1>5, <1>7, <1>8 DEF PlanInv, PlanTypeOK, Tasks
<1>10. OpenPlanned'
  BY <1>1, <1>2, <1>4, <1>5, <1>6, <1>7 DEF OpenPlanned
<1>11. AtrKnown'
  BY <1>5, Units DEF AtrKnown
<1> QED BY <1>1, <1>2, <1>4, <1>5, <1>7, <1>9, <1>10, <1>11 DEF PlanInv, StageFollows, OrdersOnSides,
        DraftOnSides, FillPlanned, OrdersPlanned, Entering, Ordering, PositionState, Tasks

\* The health check drafts what is missing.
LEMMA HealthStep ==
  ASSUME PlanInv, state = "OPEN", NEW target \in Targets, CandleClose(target)
  PROVE  PlanInv'
<1> DEFINE take == IF takeOrder = 0 THEN RecoveredTarget(target) ELSE 0
<1>1. /\ pc = "idle" /\ position \in PlannedPosition
      /\ lot.size > 0 /\ lot.side \in Sides /\ lot.entry \in FillPrices
      /\ Worse(lot.side, position.stopPrice, lot.entry)
      /\ position.stopPrice \in Int /\ position.size \in Nat /\ position.takeProfit \in Int
  BY DEF CandleClose, PlanInv, PlanTypeOK, OpenPlanned, PlannedPosition
<1>2. take \in Int
  <2>1. target \in Int
    <3>1. \A w \in RangeTrades : RangeMiddle(w) \in Int
      BY UnitsAssumption DEF RangeMiddle
    <3>2. DefaultTakeProfitPrice(lot.side, lot.entry, RestoredAtr) \in Int
      BY <1>1, Units, DefaultTakeTyped
    <3> QED BY <3>1, <3>2 DEF Targets, Middles
  <2>2. FormatPrice(Filter, target, lot.side = "LONG") \in Int
    BY <2>1, Units, PriceRounded DEF FormatPrice
  <2> QED BY <1>1, <2>2 DEF RecoveredTarget
<1>3. draft' = [for |-> "health", size |-> position.size, atr |-> RestoredAtr,
                stop |-> position.stopPrice, take |-> take]
  BY DEF CandleClose
<1> HIDE DEF take
<1>4. /\ pc' \in {"stop", "ticker"}
      /\ UNCHANGED <<vars, market, lot, stopOrder, takeOrder, plan, restarts>>
  BY DEF CandleClose, marketVars, exchangeVars, history
<1>5. PlanTypeOK'
  BY <1>1, <1>2, <1>3, <1>4, Units DEF PlanInv, PlanTypeOK, Tasks
<1>6. AtrKnown'
  BY <1>3, Units DEF AtrKnown
<1> QED BY <1>1, <1>3, <1>4, <1>5, <1>6 DEF PlanInv, StageFollows, OrdersOnSides,
        DraftOnSides, FillPlanned, OrdersPlanned, OpenPlanned, Covered, Entering, Ordering,
        PositionState, Tasks, vars

\* The stop of a restored position: the live one, or one at a margin.
LEMMA RestoredStopWorse ==
  ASSUME PlanInv, lot.size > 0, NEW stop \in RestoredStops
  PROVE  stop \in Int /\ Worse(lot.side, stop, lot.entry)
<1>1. /\ lot.side \in Sides /\ lot.entry \in FillPrices /\ lot.entry \in Int
      /\ stopOrder \in Int
  BY DEF PlanInv, PlanTypeOK
<1>2. CASE ValidStop /\ stop = stopOrder
  BY <1>1, <1>2 DEF ValidStop
<1>3. CASE ~(ValidStop /\ stop = stopOrder)
  <2>1. PICK i \in DOMAIN SafetyMargins : stop = SafetyStop(SafetyMargins[i])
    <3> QED BY <1>3, MarginsAssumption DEF RestoredStops, ReRegistered
  <2> DEFINE margin == SafetyMargins[i]
             away   == (lot.entry * margin) \div 1000
             price  == Below(lot.side, lot.entry, away)
  <2>2. margin \in Nat /\ lot.entry * margin >= 1000
    BY <1>1, UnitsAssumption
  <2>3. lot.entry * margin \in Int
    BY <1>1, <2>2
  <2>4. away \in Nat /\ away > 0
    BY <2>2, <2>3
  <2>5. stop = StopTrigger(Filter, lot.side, price)
    BY <2>1 DEF SafetyStop, StopTrigger
  <2> HIDE DEF away
  <2>6. price \in Int /\ Worse(lot.side, price, lot.entry)
    BY <1>1, <2>4 DEF Below, Worse, Sides
  <2> HIDE DEF price
  <2> QED BY <1>1, <2>5, <2>6, Units, StopTriggerWorse
<1> QED BY <1>2, <1>3

\* The take profit of a restored position without one.
LEMMA RecoveredTakeBetter ==
  ASSUME PlanInv, lot.size > 0
  PROVE  RecoverTake \in Int /\ Worse(lot.side, lot.entry, RecoverTake)
<1> DEFINE repriced == RepriceTakeProfit(lot.side, lot.entry, market, RestoredAtr,
                                         Filter.priceStep, RecoveryTenths)
           price    == Above(lot.side, lot.entry, Tenths(RecoveryTenths, RestoredAtr))
<1>1. /\ lot.side \in Sides /\ lot.entry \in FillPrices /\ lot.entry \in Int
      /\ market \in Prices
  BY DEF PlanInv, PlanTypeOK
<1>2. repriced \in Int /\ Worse(lot.side, lot.entry, repriced)
  BY <1>1, Units, RepricedBetter
<1>3. Tenths(RecoveryTenths, RestoredAtr) \in Nat /\ Tenths(RecoveryTenths, RestoredAtr) > 0
  BY Units
<1>4. price \in Int /\ Worse(lot.side, lot.entry, price)
  BY <1>1, <1>3 DEF Above, Worse, Sides
<1>5. RecoverTake \in {TakeTrigger(Filter, lot.side, price),
                      TakeTrigger(Filter, lot.side, repriced)}
  BY DEF RecoverTake, TakeTrigger
<1> HIDE DEF repriced, price
<1>6. /\ TakeTrigger(Filter, lot.side, price) \in Int
      /\ Worse(lot.side, lot.entry, TakeTrigger(Filter, lot.side, price))
  BY <1>1, <1>4, Units, TakeTriggerBetter
<1>7. /\ TakeTrigger(Filter, lot.side, repriced) \in Int
      /\ Worse(lot.side, lot.entry, TakeTrigger(Filter, lot.side, repriced))
  BY <1>1, <1>2, Units, TakeTriggerBetter
<1> QED BY <1>5, <1>6, <1>7

\* The process has started again.
LEMMA SyncStep ==
  ASSUME PlanInv, Sync
  PROVE  PlanInv'
<1>1. /\ pc = "sync" /\ pc' = "idle" /\ state = "FLAT" /\ restarts > 0
      /\ position = NoPosition
      /\ UNCHANGED <<market, draft, restarts>>
  BY DEF Sync, PlanInv, StageFollows, marketVars
<1>2. ASSUME lot.size > 0, NEW fetched \in BOOLEAN, Restore(fetched), plan' = plan
      PROVE  PlanInv'
  <2> DEFINE take == IF takeOrder # 0 THEN takeOrder ELSE IF fetched THEN RecoverTake ELSE 0
  <2>1. PICK stop \in RestoredStops :
          /\ RestorePosition([side |-> lot.side, size |-> lot.size, stopPrice |-> stop,
                              initialStopPrice |-> stop, stopPhase |-> "INITIAL",
                              takeProfit |-> take])
          /\ stopOrder' = stop /\ takeOrder' = take /\ UNCHANGED lot
    BY <1>2 DEF Restore
  <2>2. stop \in Int /\ Worse(lot.side, stop, lot.entry)
    BY <1>2, RestoredStopWorse
  <2>3. take \in Int /\ (take # 0 => Worse(lot.side, lot.entry, take))
    BY <1>2, RecoveredTakeBetter DEF PlanInv, PlanTypeOK, OrdersOnSides
  <2> HIDE DEF take
  <2>4. /\ state' = "OPEN"
        /\ position' = [side |-> lot.side, size |-> lot.size, stopPrice |-> stop,
                        initialStopPrice |-> stop, stopPhase |-> "INITIAL",
                        takeProfit |-> take]
    BY <2>1 DEF RestorePosition
  <2>5. lot.side \in Sides /\ lot.size \in Nat
    BY <1>2 DEF PlanInv, PlanTypeOK
  <2>6. /\ position' \in PlannedPosition
        /\ position'.side = lot.side /\ position'.size = lot.size
        /\ position'.stopPrice = stop /\ position'.initialStopPrice = stop
    BY <2>2, <2>3, <2>4, <2>5 DEF PlannedPosition, StopPhase
  <2>7. PlanTypeOK'
    BY <1>1, <1>2, <2>1, <2>2, <2>3 DEF PlanInv, PlanTypeOK
  <2>8. OpenPlanned'
    BY <1>1, <1>2, <2>1, <2>2, <2>4, <2>6 DEF OpenPlanned
  <2> QED BY <1>1, <2>1, <2>2, <2>3, <2>4, <2>7, <2>8 DEF PlanInv, StageFollows, AtrKnown,
          OrdersOnSides, DraftOnSides, FillPlanned, OrdersPlanned, Entering, Ordering, PositionState
<1>3. ASSUME StartFlat
      PROVE  PlanInv'
  <2>1. lot' = NoLot /\ plan' = NoPlan /\ UNCHANGED <<vars, stopOrder, takeOrder>>
    BY <1>3 DEF StartFlat
  <2> QED BY <1>1, <2>1 DEF PlanInv, PlanTypeOK, StageFollows, AtrKnown, OrdersOnSides,
          DraftOnSides, FillPlanned, OrdersPlanned, OpenPlanned, Entering, Ordering,
          PositionState, vars, NoLot, NoPlan
<1> QED BY <1>2, <1>3 DEF Sync

LEMMA PlanStep ==
  ASSUME PlanInv, [PlanNext]_planVars
  PROVE  PlanInv'
<1>1. CASE PlanNext
  <2>1. ASSUME NEW p \in Prices, Move(p) \/ NewBar PROVE PlanInv'
    BY <2>1, MarketStep
  <2>2. ASSUME (\E p \in Prices : Fire(p)) \/ RealtimeTake \/ MarketClose \/ HealthStopRefused
        PROVE  PlanInv'
    BY <2>2, ClosingStep
  <2>3. ASSUME Closed \/ Crash \/ FillRefused \/ EntryStopRefused \/ EntryTakeRefused
        PROVE  PlanInv'
    BY <2>3, FlatStep
  <2>4. ASSUME (\E w \in TrendWindows : EnterTrend(w)) \/ (\E w \in RangeWindows : EnterRange(w))
        PROVE  PlanInv'
    BY <2>4, EnterStep
  <2>5. ASSUME NEW slip \in Slips, Fill(slip) PROVE PlanInv'
    BY <2>5, FillStep
  <2>6. CASE StopPlaced
    BY <2>6, StopStep
  <2>7. CASE ScaleOutStopRefused
    BY <2>7, RefusedStep
  <2>8. CASE ReadTicker
    BY <2>8, TickerStep
  <2>9. CASE Opened
    BY <2>9, OpenedStep
  <2>10. CASE TakeReplaced
    BY <2>10, ReplacedStep
  <2>11. CASE RecoverStop
    BY <2>11, RecoverStep
  <2>12. CASE ScaleOut
    BY <2>12, ScaleOutStep
  <2>13. ASSUME state = "OPEN", NEW target \in Targets, CandleClose(target) PROVE PlanInv'
    BY <2>13, HealthStep
  <2>14. CASE Sync
    BY <2>14, SyncStep
  <2>15. CASE NewBar
    BY <2>1, <2>15 DEF PlanInv, PlanTypeOK
  <2> QED BY <1>1, <2>1, <2>2, <2>3, <2>4, <2>5, <2>6, <2>7, <2>8, <2>9, <2>10, <2>11, <2>12,
             <2>13, <2>14, <2>15 DEF PlanNext
<1>2. CASE UNCHANGED planVars
  BY <1>2 DEF planVars, vars, PlanInv, PlanTypeOK, StageFollows, AtrKnown, OrdersOnSides,
     DraftOnSides, FillPlanned, OrdersPlanned, OpenPlanned, Covered, Entering
<1> QED BY <1>1, <1>2

LEMMA PlanInvariant == PlanSpec => []PlanInv
<1>1. PlanInit => PlanInv
  BY PlanInitially
<1>2. PlanInv /\ [PlanNext]_planVars => PlanInv'
  BY PlanStep
<1> QED BY <1>1, <1>2, PTL DEF PlanSpec

-----------------------------------------------------------------------------
(***************************************************************************)
(* The theorems.                                                           *)
(***************************************************************************)
(***************************************************************************)
(* The live stop and the baseline of the trade's R lie strictly on the     *)
(* losing side of the entry, a live take profit strictly on the winning    *)
(* one, whatever the strategy's price, the fill, the rounding, a repriced  *)
(* target, a scale-out or a restart made of them.                          *)
(***************************************************************************)
THEOREM ProtectiveOrdersOnTheirSides == PlanSpec => []OrdersOnTheirSides
<1>1. PlanInv => OrdersOnTheirSides
  <2>1. PlanInv /\ lot.size > 0 /\ position # NoPosition => state = "OPEN"
    BY DEF PlanInv, PlanTypeOK, StageFollows, PositionState
  <2> QED BY <2>1 DEF PlanInv, OrdersOnSides, OpenPlanned, OrdersOnTheirSides,
          StopOnLosingSide, TakeOnWinningSide
<1> QED BY <1>1, PlanInvariant, PTL

(***************************************************************************)
(* RiskManager's budget covers the loss at the initial stop but for what   *)
(* the fill slipped from the price the size was computed with.             *)
(***************************************************************************)
THEOREM RiskIsKept == PlanSpec => []PlannedRiskKept
<1>1. ASSUME PlanInv, state = "OPEN", Held, restarts = 0, position.stopPhase = "INITIAL",
             Worse(lot.side, plan.stop, lot.entry)
      PROVE  position.size * Distance(lot.entry, position.initialStopPrice)
               <= plan.budget + position.size * Distance(lot.entry, plan.estimate)
  <2> DEFINE size == lot.size
             stop == plan.stop
             from == lot.entry
             mid  == plan.estimate
  <2>1. /\ position.size = size /\ position.initialStopPrice = stop
        /\ size * Distance(mid, stop) <= plan.budget
    BY <1>1 DEF PlanInv, OpenPlanned, Covered
  <2>2. size \in Nat /\ stop \in Int /\ from \in Int /\ mid \in Int /\ plan.budget \in Nat
    BY <1>1 DEF PlanInv, PlanTypeOK
  <2> HIDE DEF size, stop, from, mid
  <2>3. /\ Distance(from, stop) \in Nat /\ Distance(from, mid) \in Nat
        /\ Distance(mid, stop) \in Nat
        /\ Distance(from, stop) <= Distance(from, mid) + Distance(mid, stop)
    BY <2>2 DEF Distance, Larger
  <2>4. size * Distance(from, stop) <= size * (Distance(from, mid) + Distance(mid, stop))
    BY <2>2, <2>3
  <2>5. size * (Distance(from, mid) + Distance(mid, stop))
          = size * Distance(from, mid) + size * Distance(mid, stop)
    BY <2>2, <2>3
  <2>6. /\ size * Distance(from, stop) \in Int /\ size * Distance(from, mid) \in Int
        /\ size * Distance(mid, stop) \in Int
    BY <2>2, <2>3
  <2>7. size * Distance(from, stop) <= plan.budget + size * Distance(from, mid)
    BY <2>1, <2>2, <2>4, <2>5, <2>6
  <2> QED BY <2>1, <2>7 DEF from, mid
<1>2. PlanInv => PlannedRiskKept
  BY <1>1 DEF PlannedRiskKept
<1> QED BY <1>2, PlanInvariant, PTL

\* The scale-out is the only step that moves the stop of a position.
LEMMA StopMovedByScaleOut ==
  ASSUME PlanInv, PlanNext, position # NoPosition, position' # NoPosition, ~ScaleOut
  PROVE  position'.stopPrice = position.stopPrice /\ position'.side = position.side
<1>1. state \in {"OPEN", "CLOSING"}
  BY DEF PlanInv, StageFollows, PositionState
<1>2. state = "OPEN" => position \in PlannedPosition
  BY DEF PlanInv, OpenPlanned
<1>3. ASSUME NEW p \in Prices, Move(p) \/ Fire(p) PROVE position' = position
  BY <1>3 DEF Move, Fire, OnExitRequested, vars
<1>4. ASSUME NewBar \/ StopPlaced \/ ScaleOutStopRefused \/ HealthStopRefused \/ ReadTicker
             \/ RecoverStop \/ RealtimeTake \/ MarketClose
      PROVE  position' = position
  BY <1>4 DEF NewBar, StopPlaced, ScaleOutStopRefused, HealthStopRefused, ReadTicker,
     RecoverStop, RealtimeTake, MarketClose, OnExitRequested, vars
<1>5. ASSUME NEW slip \in Slips, Fill(slip) PROVE position' = position
  BY <1>5 DEF Fill, vars
<1>6. ASSUME NEW target \in Targets, CandleClose(target) PROVE position' = position
  BY <1>6 DEF CandleClose, vars
<1>7. ASSUME NEW w, EnterTrend(w) \/ EnterRange(w) PROVE FALSE
  BY <1>1, <1>7 DEF EnterTrend, EnterRange, Evaluates
<1>8. ~Opened /\ ~Sync
  <2>1. ~Opened
    BY <1>1 DEF Opened, OnEntryFilled
  <2> QED BY <1>1, <2>1 DEF Sync, PlanInv, StageFollows
<1>9. ~FillRefused /\ ~EntryStopRefused /\ ~EntryTakeRefused /\ ~Closed /\ ~Crash
  BY DEF FillRefused, EntryStopRefused, EntryTakeRefused, EntryGivenUp, RollbackEntry, Closed,
     OnExitFilled, Crash
<1>10. CASE TakeReplaced
  <2>1. position' \in {position, [position EXCEPT !.takeProfit = draft.take]}
    BY <1>10 DEF TakeReplaced, OnTakeProfitUpdate, vars
  <2>2. state = "OPEN"
    BY <1>10 DEF PlanInv, StageFollows, TakeReplaced, Ordering, Entering
  <2> QED BY <1>2, <2>1, <2>2 DEF PlannedPosition
<1> QED BY <1>3, <1>4, <1>5, <1>6, <1>7, <1>8, <1>9, <1>10 DEF PlanNext

\* The stop a position is restored with, when one was live.
LEMMA StopKeptAtRestart ==
  ASSUME PlanInv, PlanNext
  PROVE  KeptAtRestart
<1>1. SUFFICES ASSUME pc = "sync", stopOrder # 0, position' # NoPosition
               PROVE  position'.stopPrice = stopOrder' /\ stopOrder' \in {stopOrder, ReRegistered}
  BY DEF KeptAtRestart
<1>2. position = NoPosition
  BY <1>1 DEF PlanInv, StageFollows
<1>3. ASSUME NEW p \in Prices, Move(p) \/ Fire(p) PROVE FALSE
  BY <1>1, <1>2, <1>3 DEF Move, Fire, vars
<1>4. ASSUME NEW w, NEW slip, EnterTrend(w) \/ EnterRange(w) \/ Fill(slip) PROVE FALSE
  BY <1>1, <1>4 DEF EnterTrend, EnterRange, Evaluates, Fill
<1>5. ASSUME NEW target, CandleClose(target) PROVE FALSE
  BY <1>1, <1>5 DEF CandleClose
<1>6. Sync
  BY <1>1, <1>2, <1>3, <1>4, <1>5
     DEF PlanNext, NewBar, FillRefused, StopPlaced, EntryStopRefused, ScaleOutStopRefused,
         HealthStopRefused, ReadTicker, Opened, EntryTakeRefused, TakeReplaced, RecoverStop,
         RealtimeTake, ScaleOut, MarketClose, Closed, Crash
<1>7. ~StartFlat
  BY <1>1, <1>2 DEF StartFlat, vars
<1>8. lot.size > 0 /\ \E fetched \in BOOLEAN : Restore(fetched)
  BY <1>6, <1>7 DEF Sync
<1>9. PICK stop \in RestoredStops : stopOrder' = stop /\ position'.stopPrice = stop
  BY <1>8 DEF Restore, RestorePosition
<1>10. ValidStop
  BY <1>1, <1>8 DEF PlanInv, OrdersOnSides, ValidStop
<1> QED BY <1>9, <1>10 DEF RestoredStops

(***************************************************************************)
(* The stop of a position, as long as an engine lives: it moves to the     *)
(* side of the profit or stays, although replace_position, which the       *)
(* scale-out uses, compares nothing: the initial stop was a tick or more   *)
(* behind the entry, and both are rounded the same way.                    *)
(*                                                                         *)
(* And across _sync_binance_position: a live stop is taken over, or        *)
(* re-registered at the first margin, and never dropped for the wider      *)
(* ones, because whatever was live is on the losing side of the entry.     *)
(***************************************************************************)
THEOREM StopHeld == PlanSpec => StopHoldsItsGround
<1>1. ASSUME PlanInv, PlanNext, position # NoPosition, position' # NoPosition, ~ScaleOut
      PROVE  TightensInLife
  <2>1. position \in PlannedPosition
    BY <1>1 DEF PlanInv, StageFollows, OpenPlanned, PositionState
  <2>2. Trigger(position') = Trigger(position)
    BY <1>1, StopMovedByScaleOut DEF Trigger
  <2>3. position.stopPrice \in Int /\ position.side \in Sides
    BY <2>1 DEF PlannedPosition
  <2>4. Trigger(position) \in Int
    BY <2>3, Units, PriceRounded DEF Trigger, StopTrigger, FormatPrice
  <2> QED BY <2>2, <2>4 DEF Worse, TightensInLife
<1>2. ASSUME PlanInv, ScaleOut, Distance(position.initialStopPrice, lot.entry) >= Filter.priceStep
      PROVE  ~Worse(lot.side, Trigger(position'), Trigger(position))
  <2> DEFINE behind == Below(lot.side, lot.entry, Filter.priceStep)
  <2>1. /\ state = "OPEN" /\ position \in PlannedPosition /\ lot.side \in Sides
        /\ position.side = lot.side /\ lot.entry \in Int /\ position.stopPrice \in Int
        /\ position.stopPrice = position.initialStopPrice
        /\ Worse(lot.side, position.stopPrice, lot.entry)
    BY <1>2 DEF ScaleOut, PlanInv, PlanTypeOK, OpenPlanned, PlannedPosition
  <2>2. /\ position'.side = lot.side
        /\ position'.stopPrice = BreakevenTrigger(Filter, lot.side, lot.entry)
    BY <1>2, <2>1 DEF ScaleOut, ReplacePosition, PlannedPosition
  <2>3. Trigger(position') = StopTrigger(Filter, lot.side, behind)
    BY <2>1, <2>2, Units, BreakevenBehind DEF Trigger
  <2>4. behind \in Int /\ ~Worse(lot.side, behind, position.stopPrice)
    BY <1>2, <2>1, Units DEF Below, Worse, Distance, Larger, Sides
  <2> HIDE DEF behind
  <2>5. ~Worse(lot.side, StopTrigger(Filter, lot.side, behind),
                         StopTrigger(Filter, lot.side, position.stopPrice))
    BY <2>1, <2>4, Units, StopTriggerMonotone
  <2> QED BY <2>1, <2>3, <2>5 DEF Trigger
<1>3. PlanInv /\ [PlanNext]_planVars => [TightensInLife /\ KeptAtRestart]_planVars
  BY <1>1, <1>2, StopKeptAtRestart DEF TightensInLife
<1> QED BY <1>3, PlanInvariant, PTL DEF PlanSpec, StopHoldsItsGround

-----------------------------------------------------------------------------
(***************************************************************************)
(* The copies of the entry rules.                                          *)
(***************************************************************************)
\* Each condition of the range is shown as met when it is.
LEMMA ConditionsShown ==
  ASSUME NEW w, NEW b
  PROVE  LET m   == RangeContext(w)
             met == RangeConditions(w, b)
         IN /\ "low" \in met        <=> TouchesLow(m, b)
            /\ "high" \in met       <=> TouchesHigh(m, b)
            /\ "oversold" \in met   <=> Oversold(w)
            /\ "overbought" \in met <=> Overbought(w)
            /\ "quiet" \in met      <=> VolumeZ(w) = "under"
            /\ met \subseteq {"low", "high", "oversold", "overbought", "quiet"}
BY DEF RangeConditions, Conditions

\* The two sides of the range, as the rule that trades names them.
LEMMA SidesShown ==
  ASSUME NEW w, NEW b
  PROVE  LET m   == RangeContext(w)
             met == RangeConditions(w, b)
         IN /\ Conditions("LONG") \subseteq met <=>
                 TouchesLow(m, b) /\ Oversold(w) /\ VolumeZ(w) = "under"
            /\ Conditions("SHORT") \subseteq met <=>
                 TouchesHigh(m, b) /\ Overbought(w) /\ VolumeZ(w) = "under"
<1>1. /\ Conditions("LONG") = {"low", "oversold", "quiet"}
      /\ Conditions("SHORT") = {"high", "overbought", "quiet"}
  BY DEF Conditions
<1> QED BY <1>1, ConditionsShown

\* evaluate_intrabar is evaluate, on the bar and the price it is given.
LEMMA EntryOfSides ==
  ASSUME NEW w, NEW b, NEW close
  PROVE  LET met  == RangeConditions(w, b)
             side == IF Conditions("LONG") \subseteq met THEN "LONG" ELSE "SHORT"
             stop == RangeStop(w, side, close)
         IN RangeEntry(w, b, close) =
              IF /\ EnoughForRange(w)
                 /\ Conditions(side) \subseteq met
                 /\ PassesMinRR(close, stop, RangeMiddle(w))
              THEN {EntrySignal(side, stop, RangeMiddle(w))} ELSE {}
<1> DEFINE met == RangeConditions(w, b)
           long  == Conditions("LONG") \subseteq met
           short == Conditions("SHORT") \subseteq met
<1>1. CASE long
  BY <1>1, SidesShown DEF RangeEntry, RangeStop
<1>2. CASE ~long
  BY <1>2, SidesShown DEF RangeEntry, RangeStop
<1> QED BY <1>1, <1>2

LEMMA SideOfSignal ==
  ASSUME NEW side, NEW stop, NEW take
  PROVE  {s.side : s \in {EntrySignal(side, stop, take)}} = {side}
<1>1. EntrySignal(side, stop, take).side = side
  BY DEF EntrySignal
<1> HIDE DEF EntrySignal
<1> QED BY <1>1

LEMMA RangeEntryShown ==
  ASSUME NEW w
  PROVE  {s.side : s \in RangeEntry(w, bar, market)}
           = {side \in Sides : RangeShown(w, side)}
<1> DEFINE met   == RangeConditions(w, bar)
           long  == Conditions("LONG") \subseteq met
           short == Conditions("SHORT") \subseteq met
           pays(side) == PassesMinRR(market, RangeStop(w, side, market), RangeMiddle(w))
           sides == {t \in {"LONG", "SHORT"} : Conditions(t) \subseteq met}
           shown == IF "LONG" \in sides THEN {"LONG"} ELSE sides
           paid  == {t \in shown : pays(t)}
<1>1. /\ Conditions("LONG") = {"low", "oversold", "quiet"}
      /\ Conditions("SHORT") = {"high", "overbought", "quiet"}
      /\ Reward("LONG") = "reward long" /\ Reward("SHORT") = "reward short"
  BY DEF Conditions, Reward
<1>2. "reward long" \notin met /\ "reward short" \notin met
  BY ConditionsShown
<1>3. /\ "LONG" \in paid <=> long /\ pays("LONG")
      /\ "SHORT" \in paid <=> ~long /\ short /\ pays("SHORT")
      /\ paid \subseteq {"LONG", "SHORT"}
  OBVIOUS
<1>4. RangeInsight(w, bar, market) =
        IF ~EnoughForRange(w) THEN {} ELSE met \cup {Reward(t) : t \in paid}
  BY DEF RangeInsight
<1> HIDE DEF met, paid, pays
<1>5. /\ "reward long" \in {Reward(t) : t \in paid} <=> "LONG" \in paid
      /\ "reward short" \in {Reward(t) : t \in paid} <=> "SHORT" \in paid
      /\ {Reward(t) : t \in paid} \subseteq {"reward long", "reward short"}
  BY <1>1, <1>3
<1>6. RangeShown(w, "LONG") <=> EnoughForRange(w) /\ long /\ pays("LONG")
  <2>1. RangeShown(w, "LONG") <=> {"low", "oversold", "quiet", "reward long"} \subseteq RangeInsight(w, bar, market)
    BY <1>1 DEF RangeShown
  <2>2. {"low", "oversold", "quiet", "reward long"} \subseteq RangeInsight(w, bar, market)
          <=> EnoughForRange(w) /\ Conditions("LONG") \subseteq met /\ "LONG" \in paid
    BY <1>1, <1>2, <1>4, <1>5
  <2> QED BY <1>3, <2>1, <2>2
<1>7. RangeShown(w, "SHORT") <=> EnoughForRange(w) /\ ~long /\ short /\ pays("SHORT")
  <2>1. RangeShown(w, "SHORT") <=> {"high", "overbought", "quiet", "reward short"} \subseteq RangeInsight(w, bar, market)
    BY <1>1 DEF RangeShown
  <2>2. {"high", "overbought", "quiet", "reward short"} \subseteq RangeInsight(w, bar, market)
          <=> EnoughForRange(w) /\ Conditions("SHORT") \subseteq met /\ "SHORT" \in paid
    BY <1>1, <1>2, <1>4, <1>5
  <2> QED BY <1>3, <2>1, <2>2
<1>8. CASE long
  <2>1. RangeEntry(w, bar, market) =
          IF EnoughForRange(w) /\ pays("LONG")
          THEN {EntrySignal("LONG", RangeStop(w, "LONG", market), RangeMiddle(w))} ELSE {}
    BY <1>8, EntryOfSides DEF met, pays
  <2>2. {s.side : s \in RangeEntry(w, bar, market)}
          = IF EnoughForRange(w) /\ pays("LONG") THEN {"LONG"} ELSE {}
    <3>1. CASE EnoughForRange(w) /\ pays("LONG")
      BY <2>1, <3>1, SideOfSignal
    <3>2. CASE ~(EnoughForRange(w) /\ pays("LONG"))
      BY <2>1, <3>2
    <3> QED BY <3>1, <3>2
  <2>3. {side \in Sides : RangeShown(w, side)}
          = IF EnoughForRange(w) /\ pays("LONG") THEN {"LONG"} ELSE {}
    BY <1>6, <1>7, <1>8 DEF Sides
  <2> QED BY <2>2, <2>3
<1>9. CASE ~long
  <2>1. RangeEntry(w, bar, market) =
          IF EnoughForRange(w) /\ short /\ pays("SHORT")
          THEN {EntrySignal("SHORT", RangeStop(w, "SHORT", market), RangeMiddle(w))} ELSE {}
    BY <1>9, EntryOfSides DEF met, pays
  <2>2. {s.side : s \in RangeEntry(w, bar, market)}
          = IF EnoughForRange(w) /\ short /\ pays("SHORT") THEN {"SHORT"} ELSE {}
    <3>1. CASE EnoughForRange(w) /\ short /\ pays("SHORT")
      BY <2>1, <3>1, SideOfSignal
    <3>2. CASE ~(EnoughForRange(w) /\ short /\ pays("SHORT"))
      BY <2>1, <3>2
    <3> QED BY <3>1, <3>2
  <2>3. {side \in Sides : RangeShown(w, side)}
          = IF EnoughForRange(w) /\ short /\ pays("SHORT") THEN {"SHORT"} ELSE {}
    BY <1>6, <1>7, <1>9 DEF Sides
  <2> QED BY <2>2, <2>3
<1> QED BY <1>8, <1>9

\* Of the trend.
LEMMA TrendShown ==
  ASSUME NEW w, NEW close
  PROVE  LET direction == TrendDirection(w)
             side      == TrendSide(w, direction)
             shown     == BreakoutInsight(w, close)
         IN /\ BreakoutEntry(w, close) # {}
                 <=> {"cross", "price", "calm", "volume"} \subseteq shown
            /\ EnoughForTrend(w) =>
                 ("direction" \in shown <=> direction = IF side = "LONG" THEN "up" ELSE "down")
BY DEF BreakoutEntry, BreakoutInsight, TrendConditions

(***************************************************************************)
(* What the dashboard shows of the next entry is what will be traded: the  *)
(* rule of the range has the same result in its three copies, and of the   *)
(* breakout only the direction may be shown as unmet, when it is neutral.  *)
(***************************************************************************)
THEOREM InsightIsTheRule == PlanSpec => []InsightShowsEntry
<1>1. ASSUME NEW w \in RangeWindows
      PROVE  /\ {s.side : s \in RangeEntry(w, bar, market)}
                  = {side \in {"LONG", "SHORT"} : RangeShown(w, side)}
             /\ RangeAtClose(w) = RangeEntry(w, Last(w), Last(w).close)
  BY RangeEntryShown, EntryOfSides DEF RangeAtClose, Sides
<1>2. ASSUME NEW w \in TrendWindows
      PROVE  LET bars  == Ending(w, market)
                 shown == BreakoutInsight(bars, market)
             IN /\ BreakoutEntry(bars, market) # {}
                     <=> {"cross", "price", "calm", "volume"} \subseteq shown
                /\ BreakoutEntry(bars, market) # {} /\ "direction" \notin shown
                     => TrendDirection(bars) = "neutral"
  <2> DEFINE bars == Ending(w, market)
  <2>1. TrendDirection(bars) \in {"up", "down", "neutral"}
    BY DEF TrendDirection
  <2>2. BreakoutEntry(bars, market) # {} => EnoughForTrend(bars)
    BY DEF BreakoutEntry
  <2> HIDE DEF bars
  <2>3. BreakoutEntry(bars, market) # {} /\ "direction" \notin BreakoutInsight(bars, market)
          => TrendDirection(bars) = "neutral"
    BY <2>1, <2>2, TrendShown DEF TrendSide
  <2> QED BY <2>3, TrendShown DEF bars
<1>3. InsightShowsEntry
  BY <1>1, <1>2 DEF InsightShowsEntry
<1> QED BY <1>3, PTL
=============================================================================
