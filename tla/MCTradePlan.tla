---------------------------- MODULE MCTradePlan ----------------------------
(***************************************************************************)
(* A range from 990 to 1020 and trends of both directions, one tick of 2,   *)
(* one lot of 10; fills at the ticker or 3 worse, which is off the tick.    *)
(***************************************************************************)
EXTENDS TradePlanProperties

MCTuning == [
  fast |-> 2, slow |-> 3, atr |-> 2, volume |-> 2, volume_percent |-> 110,
  overextension |-> 2, overextension_tenths |-> 25,
  range |-> 3, rsi |-> 2, oversold |-> 35, overbought |-> 65, zscore |-> 2,
  adx |-> 2, adx_trend |-> 22, adx_momentum |-> 25, adx_weak |-> 18,
  bands |-> 2, bands_lookback |-> 4, bands_trend |-> 65, bands_contract |-> 40,
  structure |-> 4, structure_trend |-> 60, structure_break |-> 35,
  reversal |-> 50, body |-> 60, minimum |-> 5]

\* Candles from their closes, with wicks of w; each opens where the last closed.
Candles(closes, w, volumes) ==
  [i \in DOMAIN closes |->
    LET open == IF i = 1 THEN closes[1] ELSE closes[i - 1] IN
    [open |-> open, close |-> closes[i], volume |-> volumes[i],
     high |-> Max({open, closes[i]}) + w, low |-> Min({open, closes[i]}) - w]]

Grows == <<4, 4, 5, 4, 9>>
Calm  == <<4, 5, 4, 6, 5>>

MCTrend == {
  Candles(<<-14, -10, -8, -4, 0>>, 2, Grows),      \* up
  Candles(<<14, 10, 8, 4, 0>>, 2, Grows),          \* down
  Candles(<<-14, -10, -8, -4, 0>>, 2, Calm),       \* up without volume
  Candles(<<6, 0, 4, -6, 0>>, 2, Calm),            \* down, price above
  Candles(<<-60, -40, -90, -50, 0>>, 30, Grows),   \* too wide for the smallest order
  Candles(<<0, 0, 0, 0, 0>>, 0, Calm),             \* nothing moves
  Candles(<<-8, -4, 0>>, 2, Grows) }               \* too short

MCRange == {
  Candles(<<1000, 1012, 1002, 996, 992>>, 2, Calm),
  Candles(<<1000, 1004, 998, 1012, 1014>>, 6, Calm) }
MCPrices == {984, 992, 1010, 1024}
MCSlips == {0, 3}
MCFilter == [qtyStep |-> 10, qtyMin |-> 10, priceStep |-> 2]
MCMargins == <<15, 30, 50>>
=============================================================================
