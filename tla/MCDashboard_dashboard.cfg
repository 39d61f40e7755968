SPECIFICATION DashboardSpec
CONSTANTS
  Modes = {trending, ranging}
  DefaultMode = trending
  NoMode = NoMode
  MaxFailures = 2
  MaxAsked = 1
PROPERTIES
  DashboardCatchesUp
CHECK_DEADLOCK FALSE
