\* Three requests of one client over two intervals, each delayed by up to a tick.
SPECIFICATION Spec
CONSTANTS
  c1 = c1
  r1 = r1
  r2 = r2
  r3 = r3
  Clients = {c1}
  Requests = {r1, r2, r3}
  ClientOf <- OneClient
  MinInterval = 4
  StaleAfter = 6
  TicksPerSecond = 4
  MaxNow = 8
  MaxDelay = 1
  MaxSkew = 1
INVARIANTS
  TypeOK
  Spaced
  DeniedForCause
  RetryAfterSuffices
SYMMETRY Symmetry
CHECK_DEADLOCK FALSE
