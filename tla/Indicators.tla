----------------------------- MODULE Indicators -----------------------------
(***************************************************************************)
(* The indicators that RegimeClassifier, StrategyEngine and the strategies *)
(* compute from the closed candles, oldest first.                          *)
(*                                                                         *)
(* The code computes with floats.  Here a value that is compared is a      *)
(* fraction, and the comparison is multiplied out; what becomes a price    *)
(* (ATR, the middle of the range) is rounded down.                         *)
(***************************************************************************)
EXTENDS OrderRules, Sequences, SequencesExt

CONSTANT Tuning   \* StrategyConstants, by the names below

TuningFields == {
  "fast", "slow",                        \* TREND_EMA_FAST_PERIOD, _SLOW_
  "atr",                                 \* ATR_PERIOD
  "volume", "volume_percent",            \* TREND_VOLUME_LOOKBACK, _RATIO_THRESHOLD
  "overextension", "overextension_tenths",
  "range", "rsi", "oversold", "overbought", "zscore",
  "adx", "adx_trend", "adx_momentum", "adx_weak",
  "bands", "bands_lookback", "bands_trend", "bands_contract",
  "structure", "structure_trend", "structure_break",
  "reversal",                            \* percent; trend_strength "moderate"
  "body",                                \* percent; _MOMENTUM_BODY_RATIO_THRESHOLD
  "minimum" }                            \* MINIMUM_CANDLES of the classifier

ASSUME IndicatorsAssumption ==
  /\ DOMAIN Tuning = TuningFields
  /\ \A f \in TuningFields : Tuning[f] \in Nat \ {0}
  /\ {Tuning.structure, Tuning.bands_lookback} \subseteq Nat \ {1}
  /\ Tuning.minimum > Max({2 * Tuning.adx, Tuning.bands, Tuning.bands_lookback - 1,
                           Tuning.structure - 1})

-----------------------------------------------------------------------------
Distance(a, b) == Larger(a - b, b - a)

Recent(s, n) == SubSeq(s, Len(s) - n + 1, Len(s))
Total(s)     == FoldLeft(LAMBDA a, b : a + b, 0, s)
Field(bars, name) == [i \in DOMAIN bars |-> bars[i][name]]

\* n squared times the variance of n values.
Spread(s) == Len(s) * Total([i \in DOMAIN s |-> s[i] * s[i]]) - Total(s) * Total(s)

\* What each bar but the first is to the one before it.
Steps(bars, Op(_, _)) == [i \in 1..(Len(bars) - 1) |-> Op(bars[i], bars[i + 1])]

\* Wilder's smoothing: sum / unit is the average, which begins with the mean
\* of the first p values.
Smoothed(s, p) ==
  FoldLeft(LAMBDA a, x : [sum |-> (p - 1) * a.sum + a.unit * x, unit |-> p * a.unit],
           [sum |-> Total(SubSeq(s, 1, p)), unit |-> p],
           SubSeq(s, p + 1, Len(s)))

\* _ema, the last value as num / den; it begins with the same mean.
Ema(s, p) ==
  FoldLeft(LAMBDA a, x : [num |-> 2 * x * a.den + (p - 1) * a.num, den |-> (p + 1) * a.den],
           [num |-> Total(SubSeq(s, 1, p)), den |-> p],
           SubSeq(s, p + 1, Len(s)))

-----------------------------------------------------------------------------
TrueRange(last, bar) ==
  Max({bar.high - bar.low, Distance(bar.high, last.close), Distance(bar.low, last.close)})

TrueRanges(bars) == Total(Recent(Steps(bars, TrueRange), Tuning.atr))

\* _atr, _atr_value
Atr(bars) == TrueRanges(bars) \div Tuning.atr

\* Twice the movement of the last bars is compared, not their direction.
Overextended(bars) ==
  LET n        == Tuning.overextension
      movement == Total([i \in 1..n |-> Recent(bars, n)[i].high - Recent(bars, n)[i].low])
  IN /\ TrueRanges(bars) > 0
     /\ 10 * Tuning.atr * movement >= Tuning.overextension_tenths * n * TrueRanges(bars)

VolumeOk(bars) ==
  LET sum == Total(Recent(Field(bars, "volume"), Tuning.volume)) IN
  /\ sum > 0
  /\ 100 * Tuning.volume * Last(bars).volume >= Tuning.volume_percent * sum

\* _volume_zscore against 1 or -1, over the bars before the last: "none" when
\* the volume did not change.
VolumeZ(bars) ==
  LET before == SubSeq(Recent(Field(bars, "volume"), Tuning.zscore + 1), 1, Tuning.zscore)
      above  == Tuning.zscore * Last(bars).volume - Total(before)
  IN CASE Spread(before) = 0                                 -> "none"
       [] above > 0 /\ above * above > Spread(before)         -> "over"
       [] above > 0 /\ above * above = Spread(before)         -> "one"
       [] OTHER                                               -> "under"

-----------------------------------------------------------------------------
\* _rsi: 100 when there was no loss, whether there was a gain or not.
Rsi(bars) ==
  LET gain(last, bar) == Larger(bar.close - last.close, 0)
      loss(last, bar) == Larger(last.close - bar.close, 0)
      up   == Smoothed(Steps(bars, gain), Tuning.rsi).sum
      down == Smoothed(Steps(bars, loss), Tuning.rsi).sum
  IN IF down = 0 THEN [num |-> 100, den |-> 1] ELSE [num |-> 100 * up, den |-> up + down]

Oversold(bars)   == Rsi(bars).num < Tuning.oversold * Rsi(bars).den
Overbought(bars) == Rsi(bars).num > Tuning.overbought * Rsi(bars).den

\* _adx.  The true range cancels out; a directional index is in hundredths of
\* a percent.
Adx(bars) ==
  LET p == Tuning.adx
      plus(last, bar) ==
        IF bar.high - last.high > Larger(last.low - bar.low, 0) THEN bar.high - last.high ELSE 0
      minus(last, bar) ==
        IF last.low - bar.low > Larger(bar.high - last.high, 0) THEN last.low - bar.low ELSE 0
      after(move(_, _), k) == Smoothed(SubSeq(Steps(bars, move), 1, k), p).sum
      index(k) ==
        LET up   == after(plus, k)
            down == after(minus, k)
        IN IF up + down = 0 THEN 0 ELSE (10000 * Distance(up, down)) \div (up + down)
  IN Smoothed([k \in 1..(Len(bars) - p) |-> index(p + k - 1)], p)

AdxOver(bars, percent) == Adx(bars).sum > 100 * percent * Adx(bars).unit
AdxUnder(bars, percent) == Adx(bars).sum < 100 * percent * Adx(bars).unit

\* _bb_width_percentile: how many of the last widths are below the current
\* one.  A width is compared by its square, in billionths of the squared mean.
Width(closes) ==
  LET sum == Total(closes) IN (((100000 * Spread(closes)) \div sum) * 10000) \div sum

WidthRank(bars) ==
  LET closes == Field(bars, "close")
      width  == [i \in DOMAIN bars |->
                  IF i < Tuning.bands THEN 0
                  ELSE Width(SubSeq(closes, i - Tuning.bands + 1, i))]
      recent == Recent(width, Tuning.bands_lookback)
  IN Cardinality({i \in DOMAIN recent : recent[i] < Last(width)})

BandsOver(bars, percent)  == 100 * WidthRank(bars) > percent * (Tuning.bands_lookback - 1)
BandsUnder(bars, percent) == 100 * WidthRank(bars) < percent * (Tuning.bands_lookback - 1)

-----------------------------------------------------------------------------
\* _structure_ratio, as counts over structure - 1 pairs.
Pairs == Tuning.structure - 1
Higher(bars) ==
  LET b == Recent(bars, Tuning.structure) IN
  Cardinality({i \in 1..Pairs : b[i + 1].high > b[i].high})

\* Mutant: a low that is not higher counts as a lower one.
LowerOrEqual(bars) ==
  LET b == Recent(bars, Tuning.structure) IN
  Cardinality({i \in 1..Pairs : b[i + 1].low <= b[i].low})

Lower(bars) ==
  LET b == Recent(bars, Tuning.structure) IN
  Cardinality({i \in 1..Pairs : b[i + 1].low < b[i].low})

\* The classifier knows nothing of a short history.
Classified(bars) == Len(bars) >= Tuning.minimum

TrendDirection(bars) ==
  CASE ~Classified(bars)            -> "neutral"
    [] Higher(bars) > Lower(bars)   -> "up"
    [] Higher(bars) < Lower(bars)   -> "down"
    [] OTHER                        -> "neutral"

StructureOver(bars, percent)  == 100 * Larger(Higher(bars), Lower(bars)) >= percent * Pairs
StructureUnder(bars, percent) == 100 * Larger(Higher(bars), Lower(bars)) < percent * Pairs

\* One point of the score for each of the three.
Point(met) == IF met THEN 1 ELSE 0

Score(bars) ==
  IF ~Classified(bars) THEN 0
  ELSE Point(AdxOver(bars, Tuning.adx_trend))
         + Point(BandsOver(bars, Tuning.bands_trend))
         + Point(StructureOver(bars, Tuning.structure_trend))
=============================================================================
