SPECIFICATION Spec
CONSTANTS
  a = a
  b = b
  c = c
  r1 = r1
  r2 = r2
  Ids = {a, b, c}
  Requests = {r1, r2}
  Attempts = 2
  Window = 2
  MaxRounds = 2
  MaxTime = 4
  MaxLead = 3
  MaxFaults = 1
  Bounds <- Small
INVARIANT TypeOK
INVARIANT LogTruthful
INVARIANT TakenOnce
INVARIANT OneActive
SYMMETRY Alike
CHECK_DEADLOCK FALSE
