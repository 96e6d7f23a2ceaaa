SPECIFICATION FairSpec
CONSTANTS
  Runners = {v1, v2}
  Pausers = {p1, p2}
  Stoppers = {st}
  NumNodes = 2
  Recursive = TRUE
  MaxPauses = 3
  Nobody = Nobody
INVARIANT LoopSafe
PROPERTIES EveryPauseReturns TraversesOn StopEndsRun
CHECK_DEADLOCK FALSE
