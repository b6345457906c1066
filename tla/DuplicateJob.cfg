\* A restart recovers a job that the Redis list still holds.
SPECIFICATION Spec
CONSTANTS
  d1 = d1
  d2 = d2
  Docs = {d1}
  NumChunks <- Chunks
  BatchSize = 2
  MaxParallel = 1
  Faults = {"crash"}
  MaxFaults = 1
PROPERTIES
  DoneStaysDone
CHECK_DEADLOCK FALSE
