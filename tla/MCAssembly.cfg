CONSTANTS
  Keys = {"a", "b"}
  Versions = {"1.0", "1.00", "2.0"}
  Rank <- Ranks
  Impls = {"asrLug", "asrEng", "mt", "mtAlone", "placeholder"}
  Placeholder = "placeholder"
  Environment = "unset"
  MaxEntries = 3
  Traits <- Components
  Searches <- Found
  Configs <- Pipelines
  UserEntries <- Applications
SPECIFICATION Spec
INVARIANTS
  CacheTruthful
  ManifestPrefixes
  PipelineSound
