CONSTANTS
  OrderId = {o1, o2, o3, o4}
  NoOrder = NoOrder
  NoPos = NoPos
  Full = 4
  Cooldown = 1
  MaxLosses = 2
  ScaleOut = TRUE
  Faults = {"place", "query", "flatten", "crash", "db"}
  MaxEntries = 1
  MaxQueue = 1
  MaxOrders = 2
SPECIFICATION Spec
SYMMETRY OrderSymmetry
INVARIANTS
  ConsistencyCheck
  FlatMeansNoExposure
  RecordedOnce
