------------------------------ MODULE MCLegacy ------------------------------
(***************************************************************************)
(* The archived engines for TLC: a position of two, turned over to one.    *)
(***************************************************************************)
EXTENDS LegacyEnginesProperties

MCTargetSizes == {0, 2, -1}

\* The modes with a resting or an expiring order are large.
MCStarts == [MARKET |-> 1, IOC_LIMIT |-> 1, POST_ONLY_LIMIT |-> 1]
MCRunnerFaults ==
  [MARKET          |-> {"lost", "refuse"},
   IOC_LIMIT       |-> {"stream"},
   POST_ONLY_LIMIT |-> {"stop"}]

\* One coin too new or not trading, a spread too wide, closes that are missing.
MCConfig ==
  [top_n |-> 3, max_spread |-> 2, horizons |-> {1, 2}, deadzone |-> 6,
   rsi_period |-> 2, overbought |-> 70, oversold |-> 30,
   vol_unit |-> 2, target_vol |-> 2, leverage |-> 2,
   top_k |-> 2, min_weight |-> 10, max_weight |-> 60, risk |-> 100, stop_k |-> 2,
   min_concentration |-> 50, max_concentration |-> 95,
   min_notional |-> 10, kill |-> 50, reserve |-> 10, max_symbols |-> 2]

Up   == <<2, 3, 4>>
Down == <<4, 3, 2>>
Dip  == <<2, 4, 3>>
MCMarkets ==
  [alt_only : BOOLEAN,
   listed   : {1..3},
   volume   : {<<4, 2, 1>>},
   spread   : {<<0, 0, 2>>, <<3, 0, 0>>},
   closes   : {<<Up, Down, Up>>, <<Dip, Up, Up>>, << <<>>, Up, Down>>},
   funding  : {<<0, 0, 0>>, <<2, 0, 2>>},
   vol      : {<<1, 2, 1>>, <<2, 1, 0>>},
   atr      : {<<0, 0, 0>>, <<1, 5, 0>>}]
MCExposures == [gross : {0, 1000}, available : {0, 1}, open : {0, 2}]

=============================================================================
