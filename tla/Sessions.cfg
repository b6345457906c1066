\* Two requests at a time, logouts besides, four refresh tokens, a clock that outlives the first of them.
SPECIFICATION Spec
CONSTANTS
  p1 = p1
  p2 = p2
  t1 = t1
  t2 = t2
  t3 = t3
  t4 = t4
  Slots = {p1, p2}
  Names = {"ann"}
  Passwords = {"x", "y"}
  Tokens = {t1, t2, t3, t4}
  NoToken = NoToken
  RefreshTTL = 2
  MaxNow = 3
INVARIANTS
  TypeOK
  RegistrationHolds
  SpentStaysSpent
  Succession
  ForksBounded
SYMMETRY Symmetry
CHECK_DEADLOCK FALSE
