SPECIFICATION FairSpec
CONSTANTS
  Clients = {}
  Sources = {s1}
  Joined = {s1}
  Joysticks = {j1}
  Stoppers = {st}
  Editors = {}
  ModulesMayStop = TRUE
  MaxRuns = 2
  MaxEdits = 0
  Loop = Loop
  Nobody = Nobody
PROPERTIES TraversalNeedsData StoppedLoopReturns
CHECK_DEADLOCK FALSE
