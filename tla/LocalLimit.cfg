\* Four clients, two of which send two requests each, and a dictionary for two.
SPECIFICATION Spec
CONSTANTS
  c1 = c1
  c2 = c2
  c3 = c3
  c4 = c4
  r1 = r1
  r2 = r2
  r3 = r3
  r4 = r4
  r5 = r5
  r6 = r6
  Clients = {c1, c2, c3, c4}
  Requests = {r1, r2, r3, r4, r5, r6}
  ClientOf <- TwoComeAgain
  MinInterval = 2
  StaleAfter = 3
  TicksPerSecond = 2
  MaxNow = 7
  MaxTracked = 2
  CleanupEvery = 3
INVARIANTS
  TypeOK
  Bounded
  SpacedUnlessCrowded
CHECK_DEADLOCK FALSE
