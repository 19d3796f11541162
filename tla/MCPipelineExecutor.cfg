CONSTANTS
  Stages = 3
  Languages = {lug, eng}
  Segments = 2
SPECIFICATION ExecutorSpec
INVARIANTS
  StatusTruthful
  ConsentKept
PROPERTIES
  RoutingKeepsOthers
CHECK_DEADLOCK FALSE
