CONSTANTS
  a = a
  b = b
  Threads = {t1, t2}
  Names = {a, b}
  Needs <- Graphs
  Scopes = {s1}
  MaxChanges = 1
  MaxCalls = 2
SPECIFICATION Spec
INVARIANTS
  SingletonAgreement
  FreshUnlessRaced
  CyclesDetected
SYMMETRY Symmetry
CHECK_DEADLOCK FALSE
