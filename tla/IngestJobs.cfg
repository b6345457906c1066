\* Two documents, one of them unreadable, two permits, one failure.  Excluded are a lost BRPOP reply and a failed database commit, which do lose a job until the next restart.
SPECIFICATION Spec
CONSTANTS
  d1 = d1
  d2 = d2
  Docs = {d1, d2}
  NumChunks <- BlankChunks
  BatchSize = 2
  MaxParallel = 2
  Faults = {"crash", "redis_push", "no_redis", "vector", "disk", "listing", "embed", "timeout"}
  MaxFaults = 1
INVARIANTS
  NoJobLost
  RejectedUploadNotPending
CHECK_DEADLOCK FALSE
