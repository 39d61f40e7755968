SPECIFICATION LegacySpec
CONSTANTS
  Full = 2
  MaxOrders = 6
  RunnerFaults <- MCRunnerFaults
  OrderModes = {"MARKET", "IOC_LIMIT", "POST_ONLY_LIMIT"}
  TargetSizes <- MCTargetSizes
  MaxStarts <- MCStarts
  MaxOrdered = 2
  AutopilotFaults = {"stop", "read", "refuse", "order", "lost", "cancel"}
  EntryTypes = {"limit", "market"}
  DailyLimit = 1
  Cooldown = TRUE
  MaxCycles = 3
  ModularFaults = {"stop", "read", "lag", "refuse", "order", "cancel"}
  Coins = {btc, alt}
  Btc = btc
  Sizes = {2}
  MaxTotal = 2
  MaxAlt = 2
  MaxPosition = 4
  ModularTicks = 2
  Symbols = {1, 2, 3}
  Majors = {1}
  EngineConfig <- MCConfig
  Markets <- MCMarkets
  PriceReads = {0, 3, 7}
  Equities = {20, 30, 120}
  Exposures <- MCExposures
INVARIANTS
  PlanWithinLeverage
  RunnerProtects
  AutopilotProtects
  ModularCovers
PROPERTY EntersWithinLimit
CHECK_DEADLOCK FALSE
