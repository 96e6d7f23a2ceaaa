\* Two threads that call, a signal handler and the destructor.  The system
\* stops when the destructor is done, or hangs in stopLoop().
SPECIFICATION Spec
CONSTANTS
  Clients = {c1, c2}
  Handlers = {handler}
INVARIANT NoCallForgotten
PROPERTIES CallTaken DestructorPasses
CHECK_DEADLOCK FALSE
