SPECIFICATION FeedsSpec
CONSTANTS
  Mode = "TRENDING"
  Buffer = 3
  Rows = 1
  Horizon = 3
  ConfirmTrend = 2
  ConfirmRange = 2
  CooldownTrend = 1
  MarketFaults = {"disconnect", "equity"}
  Runs = {1}
  KeepaliveEvery = 1
  KeyLife = 2
  MaxDelay = 1
  StreamFaults = {"key", "disconnect", "handler"}
INVARIANTS
  DecidedOnFinishedBars
  GapsOnlyBehindFailedRefresh
  NoRegimeSwitchClose
  OpenStreamHears
PROPERTIES
  BufferCatchesUp
  UserStreamReturns
CHECK_DEADLOCK FALSE
