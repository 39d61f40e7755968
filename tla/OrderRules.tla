----------------------------- MODULE OrderRules -----------------------------
(***************************************************************************)
(* The arithmetic of an order: what BinanceExecutionClient does to a       *)
(* quantity and a price before it sends them, and what BFATEngine does to  *)
(* the stop and the take profit of a signal once the fill is known.        *)
(*                                                                         *)
(* Quantities and prices are integers in units fine enough that            *)
(* round(qty, 3) and round(price, 2), the roundings used when no filter is *)
(* known, are the identity.  ATR multiples are in tenths.  A filter record *)
(* has step 0 where the code finds no filter.                              *)
(***************************************************************************)
EXTENDS Integers

CONSTANTS
  StopAtrTenths,      \* PROTECTIVE_SL_ATR_MULTIPLIER, in tenths
  TakeAtrTenths,      \* PROTECTIVE_TP_ATR_MULTIPLIER, in tenths
  TpBufferTicks,      \* TP_BUFFER_TICKS
  FallbackPerMille    \* FALLBACK_STOP_PCT, in thousandths

ASSUME RulesAssumption ==
  /\ StopAtrTenths \in Nat \ {0}
  /\ TakeAtrTenths \in Nat \ {0}
  /\ TpBufferTicks \in Nat \ {0}
  /\ FallbackPerMille \in 1..999

Filters == [qtyStep : Nat, qtyMin : Nat, priceStep : Nat]
NoFilters == [qtyStep |-> 0, qtyMin |-> 0, priceStep |-> 0]

Larger(a, b)  == IF a >= b THEN a ELSE b
Lesser(a, b)  == IF a <= b THEN a ELSE b
Tenths(k, a)  == (k * a) \div 10

-----------------------------------------------------------------------------
\* The side of the order that opens a position, and of one that closes it.
OrderSide(side, reduceOnly) == IF (side = "LONG") = reduceOnly THEN "SELL" ELSE "BUY"

FloorToStep(v, step) == IF step <= 0 THEN v ELSE (v \div step) * step
CeilToStep(v, step)  == IF step <= 0 THEN v ELSE -FloorToStep(-v, step)

\* Mutant: the amount is rounded to the next step.
FormatQuantityUp(f, qty) ==
  LET ceiled == CeilToStep(qty, f.qtyStep) IN
  IF ceiled < f.qtyMin THEN 0 ELSE ceiled

\* 0 tells the caller that the amount is below the smallest order.
FormatQuantity(f, qty) ==
  LET floored == FloorToStep(qty, f.qtyStep) IN
  IF floored < f.qtyMin THEN 0 ELSE floored

FormatPrice(f, price, up) ==
  IF up THEN CeilToStep(price, f.priceStep) ELSE FloorToStep(price, f.priceStep)

\* Both triggers are rounded away from the entry.
StopTrigger(f, side, price) == FormatPrice(f, price, side = "SHORT")
TakeTrigger(f, side, price) == FormatPrice(f, price, side = "LONG")

-----------------------------------------------------------------------------
\* Stop and target of a position entered at a price, with the ATR known.
Below(side, price, distance) == IF side = "LONG" THEN price - distance ELSE price + distance
Above(side, price, distance) == IF side = "LONG" THEN price + distance ELSE price - distance

\* a is worse than b for a position on this side.
Worse(side, a, b) == IF side = "LONG" THEN a < b ELSE a > b

DefaultStopPrice(side, entry, atr)       == Below(side, entry, Tenths(StopAtrTenths, atr))
DefaultTakeProfitPrice(side, entry, atr) == Above(side, entry, Tenths(TakeAtrTenths, atr))

\* 0 stands for a strategy that gives no price; the defaults need an ATR.
ResolveStopPrice(side, given, entry, atr) ==
  IF given > 0 THEN given ELSE DefaultStopPrice(side, entry, atr)
ResolveTakeProfitPrice(side, given, entry, atr) ==
  IF given > 0 THEN given ELSE DefaultTakeProfitPrice(side, entry, atr)
ResolveRaises(given, atr) == given <= 0 /\ atr <= 0

\* Mutant: the strategy's stop is kept although the fill has passed it.
ValidateStopPriceKept(side, stop, entry, atr) == stop

ValidateStopPrice(side, stop, entry, atr) ==
  IF Worse(side, stop, entry) THEN stop
  ELSE IF atr > 0 THEN DefaultStopPrice(side, entry, atr)
  ELSE Below(side, entry, (entry * FallbackPerMille) \div 1000)

ValidateTakeProfitPrice(side, tp, entry, market) ==
  Worse(side, entry, tp) /\ Worse(side, market, tp)

\* The farther of the ATR target (multiple tenths of it away) and a buffer
\* beyond the market.
RepriceTakeProfit(side, entry, market, atr, tick, multiple) ==
  LET buffer   == IF atr > 0 THEN Larger(tick * TpBufferTicks, Tenths(3, atr))
                  ELSE tick * TpBufferTicks
      atrTp    == IF atr > 0 THEN Above(side, entry, Tenths(multiple, atr)) ELSE 0
      marketTp == Above(side, market, buffer)
  IN IF atrTp <= 0 THEN marketTp
     ELSE IF side = "LONG" THEN Larger(atrTp, marketTp) ELSE Lesser(atrTp, marketTp)

\* Mutant: the percentage fallback instead of a tick.
BreakevenTriggerFallback(f, side, entry) ==
  FormatPrice(f, Below(side, entry, (entry * FallbackPerMille) \div 1000), side = "SHORT")

\* After the 1R scale-out: one tick on the losing side of the entry, or a
\* millionth of the price when the tick is unknown.
BreakevenTrigger(f, side, entry) ==
  LET tick == IF f.priceStep > 0 THEN f.priceStep ELSE entry \div 1000000
  IN FormatPrice(f, Below(side, entry, tick), side = "SHORT")

\* The price at which a position is 1R (a multiple m of it) in profit.
OneRPrice(side, entry, initialStop, m) ==
  Above(side, entry, m * Larger(entry - initialStop, initialStop - entry))
OneRHit(side, entry, initialStop, m, high, low) ==
  LET target == OneRPrice(side, entry, initialStop, m) IN
  /\ entry # initialStop
  /\ IF side = "LONG" THEN high >= target ELSE low > 0 /\ low <= target
=============================================================================
