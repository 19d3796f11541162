CONSTANTS
  Stages = 3
  Languages = {lug, eng}
  Segments = 2
SPECIFICATION ExecutorSpec
INVARIANT SkipContinues
CHECK_DEADLOCK FALSE
