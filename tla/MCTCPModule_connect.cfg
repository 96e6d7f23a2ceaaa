SPECIFICATION Spec
CONSTANTS
  Clients = {c1, c2}
  Readers = {c1}
  Sinks = {s1, s2}
  NoClient = NoClient
  MaxUnread = 1
  MaxRuns = 2
INVARIANTS UpToDate FirstRunSafe
PROPERTIES AllAccepted EventsSent ClosedEnds
CHECK_DEADLOCK FALSE
