CONSTANTS
  s1 = s1
  s2 = s2
  Server = {s1, s2}
  Dev = {s2}
  Free = Free
  Cloud = {"search"}
  DbTries = 2
  RedisTries = 1
  MaxStarts <- Restart
  MaxFailures = 1
  MaxFaults = 1
SPECIFICATION MCSpec
INVARIANTS OneMaster LockIsUsed
PROPERTIES StartAndStopEnd
CHECK_DEADLOCK FALSE
