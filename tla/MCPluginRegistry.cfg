CONSTANTS
  a = a
  b = b
  c = c
  Plugins = {a, b, c}
  EntryPoints <- Loadable
  Graphs <- Dependencies
  Services = {s, t}
  MaxRuns = 2
SPECIFICATION PluginSpec
INVARIANTS
  FailuresIsolated
  ActiveOnActive
PROPERTIES
  ServicesKept
CHECK_DEADLOCK FALSE
