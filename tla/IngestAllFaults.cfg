\* Every kind of failure, up to three of them, around one document.
SPECIFICATION Spec
CONSTANTS
  d1 = d1
  d2 = d2
  Docs = {d1}
  NumChunks <- Chunks
  BatchSize = 2
  MaxParallel = 1
  Faults = {"crash", "redis_push", "redis_pop", "no_redis", "db", "ack", "vector", "disk", "listing", "embed", "timeout"}
  MaxFaults = 3
INVARIANTS
  TypeOK
  DurableOrder
PROPERTIES
  InputKept
CHECK_DEADLOCK FALSE
