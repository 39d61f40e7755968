CONSTANTS
  OrderId = {o1, o2, o3, o4}
  NoOrder = NoOrder
  NoPos = NoPos
  Full = 4
  Cooldown = 1
  MaxLosses = 3
  ScaleOut = TRUE
  Faults = {"stream", "vanish", "place", "manual"}
  MaxEntries = 1
  MaxQueue = 1
  MaxOrders = 2
SPECIFICATION FairSpec
PROPERTIES
  CloseIsNoticed
  StopIsRestored
  HalvedOnce
