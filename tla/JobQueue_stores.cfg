SPECIFICATION SpecStore
SYMMETRY CallSymmetry
CONSTANTS
  e1 = e1  e2 = e2  t1 = t1  t2 = t2  o1 = o1  o2 = o2  p1 = p1  p2 = p2  p3 = p3
  work = work  plumbing = plumbing
  MaxJobs = 2
  Keys = {k1}
  NoKey = NoKey
  Budgets = {2}
  Types = {work}
  Handled = {work}
  Enqueuers = {e1, e2}
  Ticks = {t1, t2}
  Operators = {o1, o2}
  Procs = {p1}
  ProcOf <- OneProcess
  AtomicClaim = TRUE
  ListLimit = 2
  MaxGrants = 1
  MaxFaults = 0
INVARIANT EnqueueAgreement OneRunnerPerRow RunsWithinBudget
PROPERTY ImplementsLifecycle
CHECK_DEADLOCK FALSE
