CONSTANTS
  Clients = {c1, c2}
  MaxRestarts = 1
  MaxStarts = 1
  MaxRequests = 2
  StdinCap = 2
  StdoutCap = 1
SPECIFICATION FairSpec
INVARIANTS
  OneWorker
  OwnAnswer
  ShutdownSticks
PROPERTIES
  CallsReturn
CHECK_DEADLOCK FALSE
