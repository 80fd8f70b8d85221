\* Two rows, and one write that finds the database locked.
CONSTANTS
  MaxEvents = 2
  BatchSize = 2
  QueueCapacity = 1
  AnalyzeLimit = 2
  LlmCap = 1
  LookBack = 1
  MaxFaults = 1
  Usable = {1, 2}
  PersistentGraph = TRUE
  LlmConfigured = FALSE
  IocEvents = {}
  Environments = {{"fault"}}

SPECIFICATION FairSpec

PROPERTY NoInfiniteLoop
