\* Two rows, the LLM configured.  Either the user pauses and resumes the agent and one
\* write finds the database locked, or the reaper submits its jobs and the user stops
\* the agent, which may start again, and nothing fails.
CONSTANTS
  MaxEvents = 2
  BatchSize = 1
  QueueCapacity = 1
  AnalyzeLimit = 1
  LlmCap = 1
  LookBack = 1
  MaxFaults = 1
  Usable = {1}
  PersistentGraph = TRUE
  LlmConfigured = TRUE
  IocEvents = {}
  Environments = {{"pause", "fault"}, {"shutdown", "reaper"}}

SPECIFICATION FairSpec

PROPERTIES
  EventuallyProcessed
  AnalyzerCatchesUp
  ShutdownTerminates
