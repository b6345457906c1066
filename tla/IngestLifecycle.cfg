\* Two documents on two permits, failures that neither end the process, nor duplicate a job, nor leave vectors behind.
SPECIFICATION Spec
CONSTANTS
  d1 = d1
  d2 = d2
  Docs = {d1, d2}
  NumChunks <- Chunks
  BatchSize = 2
  MaxParallel = 2
  Faults = {"no_redis", "redis_pop", "db", "disk", "embed"}
  MaxFaults = 2
INVARIANTS
  RowCoversVectors
PROPERTIES
  KeepsLifecycle
CHECK_DEADLOCK FALSE
