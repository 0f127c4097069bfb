CONSTANTS
  p1 = p1
  p2 = p2
  t1 = t1
  t2 = t2
  t3 = t3
  NoTask = NoTask
  Key = {k1}
  Task = {t1, t2, t3}
  Proc = {p1, p2}
  ProcOf <- Shared
  Ttl = 2
  MaxTokens = 2
  MaxFaults = 1
  MaxCrashes = 1
  MaxCloses = 1
SPECIFICATION FairSpec
INVARIANTS ExclusiveWithinLease
PROPERTIES ImplementsLease AbandonedLockExpires
CHECK_DEADLOCK FALSE
