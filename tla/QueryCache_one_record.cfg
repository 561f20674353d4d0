SPECIFICATION CacheSpec
SYMMETRY Calls
CONSTANTS
  m1 = m1
  m2 = m2
  Mutations = {m1, m2}
  Limits <- Small
INVARIANT ListConverges
INVARIANT RecordConverges
CHECK_DEADLOCK FALSE
