SPECIFICATION PlanSpec
CONSTANTS
  Side = {"LONG", "SHORT"}
  Price = {1}
  Size = {1}
  Signal = {"signal"}
  NoPosition = NoPosition
  NoSignal = NoSignal
  StopAtrTenths = 18
  TakeAtrTenths = 36
  TpBufferTicks = 5
  FallbackPerMille = 15
  TrendStopTenths = 18
  TrendTakeTenths = 36
  TouchPerTenMille = 25
  BufferPerMille = 6
  BufferAtrTenths = 7
  MinRewardPercent = 110
  RiskPerMille = 10
  Prices <- MCPrices
  Tuning <- MCTuning
  TrendWindows <- MCTrend
  RangeWindows <- MCRange
  Slips <- MCSlips
  Equity = 120000
  Filter <- MCFilter
  RestoredAtr = 8
  RecoveryTenths = 28
  SafetyMargins <- MCMargins
  MaxEntries = 1
  MaxRestarts = 1
INVARIANTS OrdersOnTheirSides SidesAreMirrored PlannedRiskKept InsightShowsEntry
PROPERTY StopHoldsItsGround
CHECK_DEADLOCK FALSE
