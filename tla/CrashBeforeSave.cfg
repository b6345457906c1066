\* One crash, then fair scheduling.
SPECIFICATION FairSpec
CONSTANTS
  d1 = d1
  d2 = d2
  Docs = {d1}
  NumChunks <- Chunks
  BatchSize = 2
  MaxParallel = 1
  Faults = {"crash"}
  MaxFaults = 1
PROPERTIES
  PendingIsSettled
CHECK_DEADLOCK FALSE
