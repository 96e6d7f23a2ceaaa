SPECIFICATION Spec
CONSTANTS
  Components = {1, 2, 3}
  Applications = {3}
  Provider = 1
  Users = {2, 3}
  NULL = NULL
INVARIANTS ConnectedOnce OnlyEarlyAnomalies
PROPERTIES AllDealtWith UpdateEnds
CHECK_DEADLOCK FALSE
