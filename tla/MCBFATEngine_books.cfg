CONSTANTS
  OrderId = {o1, o2, o3, o4}
  NoOrder = NoOrder
  NoPos = NoPos
  Full = 2
  Cooldown = 2
  MaxLosses = 2
  ScaleOut = TRUE
  Faults = {"unverified", "cancel", "drawdown", "db", "flatten"}
  MaxEntries = 2
  MaxQueue = 1
  MaxOrders = 2
SPECIFICATION Spec
SYMMETRY OrderSymmetry
PROPERTIES
  ClosedIsRecorded
  OpenedProtected
  EntersOnlyWhenAllowed
