CONSTANTS
  Names = {1, 2}
  MaxHooks = 2
SPECIFICATION Spec
INVARIANTS
  LastRegisteredStopsFirst
CHECK_DEADLOCK FALSE
