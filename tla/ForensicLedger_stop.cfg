\* Three rows in the queue when stop() is called, batches of two, no fault.
CONSTANTS
  MaxRecords = 3
  QueueSize = 3
  MaxBatch = 2
  WaitsWhenFull = TRUE
  MaxFaults = 0

SPECIFICATION Spec

INVARIANT StopFlushes
