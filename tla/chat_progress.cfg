CONSTANTS
  r1 = r1
  g1 = g1
  NoOne = NoOne
  Request = {r1}
  Client = {c1}
  Process = {p1, p2}
  Room = {g1}
  RoomOf <- OneRequest
  BatchSize = 2
  MaxRetries = 1
  MaxFaults = 0
  MaxTimeouts = 0
  MaxCrashes = 0
  MaxExpiries = 0
SPECIFICATION FairSpec
INVARIANTS ProcessingHeld
PROPERTIES EventuallySettled DeleteTakesEffect
CHECK_DEADLOCK FALSE
