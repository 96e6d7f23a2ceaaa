SPECIFICATION FairSpec
CONSTANTS
  Clients = {c1}
  Sources = {s1}
  Joined = {}
  Joysticks = {}
  Stoppers = {st}
  Editors = {}
  ModulesMayStop = FALSE
  MaxRuns = 1
  MaxEdits = 0
  Loop = Loop
  Nobody = Nobody
PROPERTIES StopLoopEndsLoop
CHECK_DEADLOCK FALSE
