CONSTANTS
  t0 = t0
  t1 = t1
  t2 = t2
  l1 = l1
  l2 = l2
  p1 = p1
  p2 = p2
  Turn = {t0, t1, t2}
  Past <- OneTurn
  Lister = {l1, l2}
  Deletable <- OldAnswer
  Process = {p1, p2}
  ProcessOf <- Spread
  PageSize = 3
  MaxFaults = 1
SPECIFICATION MCSpec
PROPERTIES KnowsThePast PageCatchesUp
CHECK_DEADLOCK FALSE
