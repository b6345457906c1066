\* One clock for all, and requests delayed by up to a tick.
SPECIFICATION Spec
CONSTANTS
  c1 = c1
  r1 = r1
  r2 = r2
  r3 = r3
  Clients = {c1}
  Requests = {r1, r2, r3}
  ClientOf <- OneClient
  MinInterval = 4
  StaleAfter = 6
  TicksPerSecond = 4
  MaxNow = 6
  MaxDelay = 1
  MaxSkew = 0
INVARIANTS
  IntervalKept
CHECK_DEADLOCK FALSE
