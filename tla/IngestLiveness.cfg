\* Crashes, jobs they duplicate, and failing jobs, up to five, under fair scheduling on one permit.
SPECIFICATION FairSpec
CONSTANTS
  d1 = d1
  d2 = d2
  Docs = {d1}
  NumChunks <- Chunks
  BatchSize = 2
  MaxParallel = 1
  Faults = {"crash", "vector", "listing", "embed", "timeout"}
  MaxFaults = 5
PROPERTIES
  SavedIsSettled
  SearchableWhenDone
CHECK_DEADLOCK FALSE
