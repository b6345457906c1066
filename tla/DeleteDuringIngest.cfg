\* No failure at all: only a deletion and an ingestion.
SPECIFICATION Spec
CONSTANTS
  d1 = d1
  d2 = d2
  Docs = {d1}
  NumChunks <- Chunks
  BatchSize = 2
  MaxParallel = 1
  Faults = {}
  MaxFaults = 0
INVARIANTS
  DeleteRemovesVectors
CHECK_DEADLOCK FALSE
