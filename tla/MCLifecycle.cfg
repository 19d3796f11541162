CONSTANTS
  Names = {1, 2, 3}
  MaxHooks = 3
SPECIFICATION FairSpec
CONSTRAINT NumberedInTurn
INVARIANTS
  OrderSound
  DependenciesUp
  DependentsStopFirst
PROPERTIES
  ShutdownCompletes
CHECK_DEADLOCK FALSE
