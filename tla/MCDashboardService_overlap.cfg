SPECIFICATION SystemSpec
CONSTANTS
  Symbols = {btc}
  MaxConcurrent = 1
  Callers = {api}
  Modes = {trending}
  DefaultMode = trending
  NoMode = NoMode
  MaxFailures = 1
  MaxAsked = 1
  Overlap = TRUE
  ServiceFaults = {}
  Runs = {1, 2}
PROPERTIES
  StopAwaitsShutdown
CHECK_DEADLOCK FALSE
