CONSTANTS
  Clients = {c1, c2}
  MaxRestarts = 0
  MaxStarts = 1
  MaxRequests = 3
  StdinCap = 1
  StdoutCap = 1
SPECIFICATION FairSpec
PROPERTY CallsReturn
CHECK_DEADLOCK FALSE
