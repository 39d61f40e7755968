------------------------ MODULE TradePlanProperties ------------------------
(***************************************************************************)
(* What the prices and sizes of module TradePlan have to satisfy.          *)
(***************************************************************************)
EXTENDS TradePlan, Insight

Held == position # NoPosition /\ lot.size > 0

(***************************************************************************)
(* Each protective order is on its side.  The stop limits a loss: the live *)
(* trigger, and the baseline that the R of the trade is divided by, lie    *)
(* strictly on the losing side of the entry, whatever the fill, the        *)
(* rounding, a scale-out or a restart made of the strategy's price.  A     *)
(* live take profit is a profit, also when it was repriced because the     *)
(* market had passed the strategy's one.                                   *)
(***************************************************************************)
StopOnLosingSide ==
  /\ stopOrder # 0 => Worse(lot.side, stopOrder, lot.entry)
  /\ position # NoPosition => Worse(lot.side, position.initialStopPrice, lot.entry)

TakeOnWinningSide == takeOrder # 0 => Worse(lot.side, lot.entry, takeOrder)

OrdersOnTheirSides == lot.size > 0 => StopOnLosingSide /\ TakeOnWinningSide

(***************************************************************************)
(* LONG and SHORT are treated alike: candles mirrored about the market     *)
(* price give the mirrored breakout signal, the opposite direction and     *)
(* reversal, the same ADX and momentum, and are overbought where the       *)
(* others were oversold.  Three exceptions are the code's: averages that   *)
(* are equal count as a cross to SHORT, candles that do not move have an   *)
(* RSI of 100, and what is relative to a price (bands, the touch of a      *)
(* range) is not compared.                                                 *)
(***************************************************************************)
Opposite(side) == IF side = "LONG" THEN "SHORT" ELSE "LONG"

Mirrored(bars) ==
  [i \in DOMAIN bars |->
    [open |-> 2 * market - bars[i].open, close |-> 2 * market - bars[i].close,
     high |-> 2 * market - bars[i].low,  low   |-> 2 * market - bars[i].high,
     volume |-> bars[i].volume]]

MirroredSignal(s) == EntrySignal(Opposite(s.side), 2 * market - s.stop, 2 * market - s.take)

SameOnBothSides(bars, back) ==
  /\ FastAbove(bars) \/ FastAbove(back) =>
       BreakoutEntry(back, market) = {MirroredSignal(s) : s \in BreakoutEntry(bars, market)}
  /\ \A side \in {"LONG", "SHORT"} : Reversed(side, bars) = Reversed(Opposite(side), back)
  /\ Adx(bars) = Adx(back)
  /\ StrongMomentum(bars) = StrongMomentum(back)
  /\ TrueRanges(bars) > 0 => Oversold(bars) = Overbought(back)

SidesAreMirrored ==
  Evaluates =>
    \A w \in TrendWindows :
      Classified(w) => SameOnBothSides(Ending(w, market), Mirrored(Ending(w, market)))

(***************************************************************************)
(* The dashboard's insight and the rules that trade are copies of one      *)
(* another, and agree: a range entry happens exactly when every condition  *)
(* of its side, its reward included, is shown as met for the forming bar;  *)
(* on the last closed candle evaluate says what evaluate_intrabar would.   *)
(* Of the breakout every condition but the direction is shown exactly when *)
(* the entry happens; the direction may be shown as unmet, when it is      *)
(* neutral and the averages decide.                                        *)
(***************************************************************************)
RangeShown(w, side) ==
  Conditions(side) \cup {Reward(side)} \subseteq RangeInsight(w, bar, market)

InsightShowsEntry ==
  Evaluates =>
    /\ \A w \in RangeWindows :
         /\ {s.side : s \in RangeEntry(w, bar, market)}
              = {side \in {"LONG", "SHORT"} : RangeShown(w, side)}
         /\ RangeAtClose(w) = RangeEntry(w, Last(w), Last(w).close)
    /\ \A w \in TrendWindows :
         LET bars  == Ending(w, market)
             shown == BreakoutInsight(bars, market)
         IN /\ BreakoutEntry(bars, market) # {}
                 <=> {"cross", "price", "calm", "volume"} \subseteq shown
            /\ BreakoutEntry(bars, market) # {} /\ "direction" \notin shown
                 => TrendDirection(bars) = "neutral"

(***************************************************************************)
(* RiskManager's budget is kept: when the stop of the signal lies on the   *)
(* losing side of the fill, hitting it costs no more than the budget and   *)
(* what the fill slipped, rounding of the quantity included.               *)
(***************************************************************************)
PlannedRiskKept ==
  (/\ state = "OPEN" /\ Held /\ restarts = 0
   /\ position.stopPhase = "INITIAL"
   /\ Worse(lot.side, plan.stop, lot.entry)) =>
     position.size * Distance(lot.entry, position.initialStopPrice)
       <= plan.budget + position.size * Distance(lot.entry, plan.estimate)

(***************************************************************************)
(* What may become of the stop of a position.                              *)
(*                                                                         *)
(* In the life of an engine it moves to the side of the profit or stays.   *)
(* The scale-out uses replace_position, which compares nothing: its stop   *)
(* is better only because the initial one was a tick or more behind the    *)
(* entry, and both triggers are rounded the same way.                      *)
(*                                                                         *)
(* Across a restart a live stop is taken over as it is, or replaced by     *)
(* the one of the first margin, when it cannot be verified: that one may   *)
(* be looser, by up to 1.5 % of the entry, and after a scale-out it always *)
(* is.  It is never discarded for lying on the wrong side: the stop at     *)
(* breakeven passes that comparison by a tick.  A position that has no     *)
(* live stop may get one at any margin, up to 5 %.                         *)
(***************************************************************************)
Trigger(p) == StopTrigger(Filter, p.side, p.stopPrice)

TightensInLife ==
  (/\ position # NoPosition /\ position' # NoPosition
   /\ Distance(position.initialStopPrice, lot.entry) >= Filter.priceStep) =>
    ~Worse(lot.side, Trigger(position'), Trigger(position))

KeptAtRestart ==
  (pc = "sync" /\ stopOrder # 0 /\ position' # NoPosition) =>
    position'.stopPrice = stopOrder' /\ stopOrder' \in {stopOrder, ReRegistered}

StopHoldsItsGround == [][TightensInLife /\ KeptAtRestart]_planVars

-----------------------------------------------------------------------------
(***************************************************************************)
(* "Fixed risk position sizing": a fill without slippage risks no more     *)
(* than the budget.                                                        *)
(***************************************************************************)
FixedRisk ==
  (/\ state = "OPEN" /\ Held /\ restarts = 0 /\ position.stopPhase = "INITIAL"
   /\ lot.entry = plan.estimate) =>
     position.size * Distance(lot.entry, position.initialStopPrice) <= plan.budget
=============================================================================
