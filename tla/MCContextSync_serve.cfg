SPECIFICATION FairSpec
CONSTANTS
  Clients = {c1, c2}
  Sources = {s1}
  Joined = {}
  Joysticks = {}
  Stoppers = {}
  Editors = {e1}
  ModulesMayStop = FALSE
  MaxRuns = 1
  MaxEdits = 2
  Loop = Loop
  Nobody = Nobody
INVARIANT RendezvousSafe
PROPERTIES SignalIsSeen LoopKeepsTraversing ImplementsService
