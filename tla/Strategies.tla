----------------------------- MODULE Strategies -----------------------------
(***************************************************************************)
(* The entry rules of BreakoutStrategy and RangeStrategy, and the size     *)
(* that RiskManager and BFATEngine give an entry.                          *)
(*                                                                         *)
(* A rule reads the closed candles and the price, and returns the set of   *)
(* signals: empty, or one.                                                 *)
(***************************************************************************)
EXTENDS Indicators

CONSTANTS
  TrendStopTenths,    \* TREND_SL_ATR_MULTIPLIER, in tenths
  TrendTakeTenths,    \* TREND_TP_ATR_MULTIPLIER, in tenths
  TouchPerTenMille,   \* RANGE_ENTRY_THRESHOLD, in ten-thousandths
  BufferPerMille,     \* RANGE_STOP_BUFFER_PCT, in thousandths
  BufferAtrTenths,    \* RANGE_STOP_ATR_MULTIPLIER, in tenths
  MinRewardPercent,   \* RANGE_MIN_REWARD_RISK, in hundredths
  RiskPerMille        \* RISK_PERCENT, in thousandths

ASSUME StrategiesAssumption ==
  /\ {TrendStopTenths, TrendTakeTenths, TouchPerTenMille, BufferPerMille,
      BufferAtrTenths, MinRewardPercent} \subseteq Nat \ {0}
  /\ RiskPerMille \in 1..999

EntrySignal(side, stop, take) == [side |-> side, stop |-> stop, take |-> take]

-----------------------------------------------------------------------------
\* The structure of highs and lows decides the side, the averages when the
\* structure is neutral; both averages and the price must then agree.
FastAbove(bars) ==
  LET fast == Ema(Field(bars, "close"), Tuning.fast)
      slow == Ema(Field(bars, "close"), Tuning.slow)
  IN fast.num * slow.den > slow.num * fast.den

TrendSide(bars, direction) ==
  IF direction = "up" \/ (direction = "neutral" /\ FastAbove(bars)) THEN "LONG" ELSE "SHORT"

BeyondFast(bars, side, close) ==
  LET fast == Ema(Field(bars, "close"), Tuning.fast) IN
  Worse(side, fast.num, close * fast.den)

EnoughForTrend(bars) == Len(bars) > Max({Tuning.slow, Tuning.atr, Tuning.volume})

BreakoutEntry(bars, close) ==
  LET side == TrendSide(bars, TrendDirection(bars)) IN
  IF /\ EnoughForTrend(bars)
     /\ FastAbove(bars) = (side = "LONG")
     /\ BeyondFast(bars, side, close)
     /\ ~Overextended(bars)
     /\ VolumeOk(bars)
  THEN {EntrySignal(side, Below(side, close, Tenths(TrendStopTenths, Atr(bars))),
                          Above(side, close, Tenths(TrendTakeTenths, Atr(bars))))}
  ELSE {}

\* _evaluate_strategy_exit of a TRENDING position.
Reversed(side, bars) ==
  /\ TrendDirection(bars) = IF side = "LONG" THEN "down" ELSE "up"
  /\ 100 * Distance(Higher(bars), Lower(bars)) >= Tuning.reversal * Pairs

StrategyExit(side, bars) ==
  /\ Classified(bars)
  /\ \/ Reversed(side, bars)
     \/ AdxUnder(bars, Tuning.adx_weak)
     \/ BandsUnder(bars, Tuning.bands_contract)
     \/ StructureUnder(bars, Tuning.structure_break)

\* _check_strong_momentum
StrongMomentum(bars) ==
  LET bar == Last(bars) IN
  Point(Len(bars) > 2 * Tuning.adx /\ AdxOver(bars, Tuning.adx_momentum))
    + Point(Len(bars) > Tuning.zscore /\ VolumeZ(bars) = "over")
    + Point(100 * Distance(bar.close, bar.open) > Tuning.body * (bar.high - bar.low)) >= 2

-----------------------------------------------------------------------------
StopBuffer(close, atr) ==
  Larger((close * BufferPerMille) \div 1000, Tenths(BufferAtrTenths, atr))

\* _compute_range_and_filters: the range is that of the bars before the last.
EnoughForRange(bars) ==
  /\ Len(bars) > Max({Tuning.range, Tuning.rsi, Tuning.atr, Tuning.zscore})
  /\ TrueRanges(bars) > 0

RangeContext(bars) ==
  LET before == SubSeq(Recent(bars, Tuning.range + 1), 1, Tuning.range) IN
  [high |-> Max({before[i].high : i \in DOMAIN before}),
   low  |-> Min({before[i].low : i \in DOMAIN before})]

RangeMiddle(bars) == (RangeContext(bars).high + RangeContext(bars).low) \div 2

TouchesLow(m, bar)  == 10000 * bar.low  <= m.low  * (10000 + TouchPerTenMille)
TouchesHigh(m, bar) == 10000 * bar.high >= m.high * (10000 - TouchPerTenMille)

\* Both distances are absolute values: the order of stop, close and target
\* is not looked at.
PassesMinRR(close, stop, take) ==
  /\ close # stop
  /\ 100 * Distance(take, close) >= MinRewardPercent * Distance(close, stop)

\* The low of the range is looked at first, and a low entry without the
\* reward is not tried as a high one.
RangeEntry(bars, bar, close) ==
  LET m      == RangeContext(bars)
      buffer == StopBuffer(close, Atr(bars))
      mid    == RangeMiddle(bars)
      quiet  == VolumeZ(bars) = "under"
      long   == TouchesLow(m, bar)  /\ Oversold(bars)   /\ quiet
      short  == TouchesHigh(m, bar) /\ Overbought(bars) /\ quiet
      stop   == IF long THEN m.low - buffer ELSE m.high + buffer
  IN IF EnoughForRange(bars) /\ (long \/ short) /\ PassesMinRR(close, stop, mid)
     THEN {EntrySignal(IF long THEN "LONG" ELSE "SHORT", stop, mid)}
     ELSE {}

-----------------------------------------------------------------------------
\* Tenths by which the score of the regime scales a position.
PositionScaleForScore(score) ==
  CASE score >= 3 -> 12 [] score = 2 -> 10 [] OTHER -> 7

RiskAmount(equity, scale) == (equity * RiskPerMille * scale) \div 10000

\* What is sent: the risk over the distance to the stop, rounded down.
EntrySize(f, equity, scale, estimate, stop) ==
  FormatQuantity(f, RiskAmount(equity, scale) \div Distance(estimate, stop))
=============================================================================
