SPECIFICATION SourcesSpec
CONSTANTS
  k1 = k1  k2 = k2
  e1 = e1  t1 = t1  t2 = t2  p1 = p1  r1 = r1  r2 = r2
  MaxJobs = 2
  Keys = {k1, k2}
  NoKey = NoKey
  Budgets = {1, 2}
  SyncRun = SyncRun
  EnrichRun = EnrichRun
  Types = {SyncRun, EnrichRun}
  Handled = {SyncRun, EnrichRun}
  Enqueuers = {e1}
  Ticks = {t1, t2}
  Operators = {}
  Procs = {p1}
  ProcOf <- OneProcess
  AtomicClaim = FALSE
  ListLimit = 2
  MaxGrants = 0
  MaxFaults = 1
  Records = {r1, r2}
  Bounds <- Small
INVARIANT CopiesBounded
PROPERTY SuccessMeansLanded
PROPERTY NeverBackwards
PROPERTY EventuallyEnriched
PROPERTY EventuallySettles
CHECK_DEADLOCK FALSE
