SPECIFICATION Spec
CONSTANTS
  Clients = {c1}
  Stations = {1, 2}
  Settings <- SomeSettings
  LongFrom = 2
  MaxEvents = 2
  MaxWire = 2
  MaxRuns = 2
INVARIANTS ReceiverSafe WholeRecords
PROPERTIES Served LeftForGood ClosedEnds PullReturns LatestArrives
CHECK_DEADLOCK FALSE
