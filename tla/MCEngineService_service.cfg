SPECIFICATION ViewSpec
CONSTANTS
  Symbols = {btc, eth}
  MaxConcurrent = 1
  Callers = {api}
  Modes = {trending, ranging}
  Overlap = FALSE
  ServiceFaults = {"klines", "log", "adopt", "slow"}
  Runs = {1, 2}
  Watched = btc
  Ttl = 1
INVARIANTS
  OneTrader
  NoOrphans
  StatusIsRecent
  HealthyMeansTrading
PROPERTIES
  SlotsRespected
  StopMeansStopped
CHECK_DEADLOCK FALSE
SYMMETRY ModeSymmetry
