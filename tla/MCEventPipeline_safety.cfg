\* Three rows, batches of two, a write queue of one job, one fault.
CONSTANTS
  MaxEvents = 3
  BatchSize = 2
  QueueCapacity = 1
  AnalyzeLimit = 2
  LlmCap = 1
  LookBack = 1
  MaxFaults = 1
  Usable = {1, 3}
  PersistentGraph = TRUE
  LlmConfigured = FALSE
  IocEvents = {3}
  Environments = {{"crash", "reaper", "fault"}}

SPECIFICATION Spec

INVARIANTS
  CursorSound
  GraphConservation
  RedeliveryBounded
  EnforcementIsEvidenced

PROPERTY ImplementsDurableQueue
