------------------------------- MODULE Insight -------------------------------
(***************************************************************************)
(* What the strategies tell the dashboard about the next entry, and the    *)
(* rule of the range on closed candles.                                    *)
(*                                                                         *)
(* The code has the rule of the range three times: evaluate_intrabar, the  *)
(* one that trades (RangeEntry), evaluate, and update_insight_live.  An    *)
(* insight is the set of the conditions shown as met.                      *)
(***************************************************************************)
EXTENDS Strategies

\* _check_entry_conditions
Conditions(side) ==
  IF side = "LONG" THEN {"low", "oversold", "quiet"} ELSE {"high", "overbought", "quiet"}

Reward(side) == IF side = "LONG" THEN "reward long" ELSE "reward short"

RangeConditions(bars, bar) ==
  LET m == RangeContext(bars) IN
  {c \in Conditions("LONG") \cup Conditions("SHORT") :
     CASE c = "low"        -> TouchesLow(m, bar)
       [] c = "high"       -> TouchesHigh(m, bar)
       [] c = "oversold"   -> Oversold(bars)
       [] c = "overbought" -> Overbought(bars)
       [] c = "quiet"      -> VolumeZ(bars) = "under"}

\* Mutant: the reward is measured against the stop of the other side.
RangeStopOfOtherSide(bars, side, close) ==
  LET m      == RangeContext(bars)
      buffer == StopBuffer(close, Atr(bars))
  IN IF side = "SHORT" THEN m.low - buffer ELSE m.high + buffer

RangeStop(bars, side, close) ==
  LET m      == RangeContext(bars)
      buffer == StopBuffer(close, Atr(bars))
  IN IF side = "LONG" THEN m.low - buffer ELSE m.high + buffer

\* update_insight_live: the reward is shown of a side whose other conditions
\* are met, of LONG when both are.  A short history leaves the last insight.
RangeInsight(bars, bar, close) ==
  LET met   == RangeConditions(bars, bar)
      sides == {s \in {"LONG", "SHORT"} : Conditions(s) \subseteq met}
      shown == IF "LONG" \in sides THEN {"LONG"} ELSE sides
  IN IF ~EnoughForRange(bars) THEN {}
     ELSE met \cup {Reward(s) : s \in {t \in shown :
                      PassesMinRR(close, RangeStop(bars, t, close), RangeMiddle(bars))}}

\* RangeStrategy.evaluate, on the last closed candle.
RangeAtClose(bars) ==
  LET close == Last(bars).close
      met   == RangeConditions(bars, Last(bars))
      side  == IF Conditions("LONG") \subseteq met THEN "LONG" ELSE "SHORT"
      stop  == RangeStop(bars, side, close)
  IN IF /\ EnoughForRange(bars)
        /\ Conditions(side) \subseteq met
        /\ PassesMinRR(close, stop, RangeMiddle(bars))
     THEN {EntrySignal(side, stop, RangeMiddle(bars))}
     ELSE {}

-----------------------------------------------------------------------------
\* _compute_core of BreakoutStrategy.  A neutral direction is never shown as
\* met, although the averages then decide the side.
TrendConditions(bars, close) ==
  LET direction == TrendDirection(bars)
      side      == TrendSide(bars, direction)
  IN {c \in {"direction", "cross", "price", "calm", "volume"} :
        CASE c = "direction" -> direction = IF side = "LONG" THEN "up" ELSE "down"
          [] c = "cross"     -> FastAbove(bars) = (side = "LONG")
          [] c = "price"     -> BeyondFast(bars, side, close)
          [] c = "calm"      -> ~Overextended(bars)
          [] c = "volume"    -> VolumeOk(bars)}

\* BreakoutStrategy.update_insight_live
BreakoutInsight(bars, close) ==
  IF EnoughForTrend(bars) THEN TrendConditions(bars, close) ELSE {}
=============================================================================
