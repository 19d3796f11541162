CONSTANTS
  Clients = {c1, c2}
  MaxRestarts = 1
  MaxStarts = 1
  MaxRequests = 2
  StdinCap = 2
  StdoutCap = 1
SPECIFICATION Spec
INVARIANT CrashesAreOwn
CHECK_DEADLOCK FALSE
