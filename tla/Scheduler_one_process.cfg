SPECIFICATION ScenarioSpec
CONSTANTS
  s1 = s1
  s2 = s2
  t1 = t1
  t2 = t2
  p1 = p1
  Schedules = {s1, s2}
  Order <- TwoSchedules
  Calendar <- Calendars
  CatchUpLimit = 2
  Ticks = {t1, t2}
  Procs = {p1}
  ProcOf <- OneProcess
  MaxTime = 3
  MaxCrashes = 1
  MaxRejects = 1
  MaxPauses = 1
INVARIANT NoLossInSequence
INVARIANT NoBackfill
PROPERTY EventuallyAccounted
CHECK_DEADLOCK FALSE
