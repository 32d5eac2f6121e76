SPECIFICATION Spec
CONSTANTS
  t1 = t1  t2 = t2  p1 = p1  p2 = p2  r1 = r1  r2 = r2
  Tenants = {t1, t2}
  Passwords = {p1, p2}
  Right <- MCRight
  Requests = {r1, r2}
  CacheLimit = 1
  FailureLimit = 2
  Slots = 1
  Window = 2
  MaxClock = 3
  MaxBegun = 4
SYMMETRY Symmetry
INVARIANTS LimitsHold ServedWasVerified GuessesBounded LockoutIsEarned
CHECK_DEADLOCK FALSE
