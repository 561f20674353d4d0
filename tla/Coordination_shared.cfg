SPECIFICATION BucketsSpec
CONSTANTS
  a = a
  b = b
  table = table
  k1 = k1
  k2 = k2
  c1 = c1
  c2 = c2
  Keys = {k1}
  Window = 2
  Budgets = {0, 1, 2}
  Retention = 2
  Instances = {a, b}
  Skew <- Ahead
  Table = table
  Callers = {c1, c2}
  At <- Serving
  MaxClock = 4
  MaxCalls = 5
  MaxRestarts = 1
INVARIANT WithinBudget
CHECK_DEADLOCK FALSE
