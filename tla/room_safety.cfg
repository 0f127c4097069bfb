CONSTANTS
  g1 = g1
  d1 = d1
  d2 = d2
  u1 = u1
  NoOne = NoOne
  Room = {g1}
  Deleter = {d1, d2}
  Updater = {u1}
  Process = {p1, p2}
  RoomOf <- OneRoom
  MaxRetries = 1
  MaxCopies = 1
  MaxFaults = 1
  MaxExpiries = 1
SPECIFICATION MCSpec
INVARIANTS StateMatchesRow
PROPERTIES DeletionEnds
CHECK_DEADLOCK FALSE
