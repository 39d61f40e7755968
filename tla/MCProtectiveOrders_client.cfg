CONSTANTS
  StopAtrTenths = 18
  TakeAtrTenths = 36
  TpBufferTicks = 5
  FallbackPerMille = 15
  Faults = {"refuse", "body", "lose", "unread", "lag", "info"}
  RuleSet <- MCRuleSet
  Quantities = {1, 5}
  Triggers = {5}
  FilterTtl = 1
  VerifyDelays = 2
  MaxOrders = 5
  MaxRules = 1
SPECIFICATION Spec
INVARIANTS
  StraysOnlyBehindLostAnswers
  ClientIsHonest
  SweepLeavesNothing
PROPERTIES
  PlacementFailsForCause
CHECK_DEADLOCK FALSE
