CONSTANTS
  Job = {j1}
  Proc = {p1, p2}
  NoRun = NoRun
  p1 = p1
  p2 = p2
  MaxOverlap <- TwoAndOne
  Interval = 2
  Daily = 1
  Day = 2
  Delay = 1
  LockTtl = 2
  LockWait = 1
  MaxEvents = 1
SPECIFICATION MCSpec
INVARIANTS IntervalRests
PROPERTIES WorkKeepsItsLock DailyOnceADay JobKeepsRunning
CHECK_DEADLOCK FALSE
