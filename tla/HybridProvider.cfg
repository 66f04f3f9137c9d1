SPECIFICATION Spec
CONSTANTS
  c1 = c1  c2 = c2  c3 = c3
  p1 = p1
  k1 = k1  k2 = k2
  None = None
  Calls = {c1, c2, c3}
  Probes = {p1}
  Checks = {k1, k2}
  MaxRetries = 1
  BudgetMax = 1
  BudgetWindow = 1
  MaxStops = 1
  MaxTime = 3
INVARIANTS
  TypeOK
  ChecksAreCurrent
  RestartsBounded
PROPERTY EveryCallEnds
CHECK_DEADLOCK FALSE
