CONSTANTS
  OrderId = {o1, o2, o3, o4}
  NoOrder = NoOrder
  NoPos = NoPos
  Full = 2
  Cooldown = 1
  MaxLosses = 2
  ScaleOut = TRUE
  Faults = {"ghost", "response", "stream", "manual", "vanish", "place"}
  MaxEntries = 2
  MaxQueue = 2
  MaxOrders = 2
SPECIFICATION Spec
SYMMETRY OrderSymmetry
INVARIANTS
  OnlyTrackedOrders
  StopCoversPosition
PROPERTIES
  RecordedWhenClosed
  ImplementsLifecycle
