CONSTANTS
  r1 = r1
  g1 = g1
  NoOne = NoOne
  Request = {r1}
  Client = {c1}
  Process = {p1, p2}
  Room = {g1}
  RoomOf <- OneRequest
  BatchSize = 2
  MaxRetries = 0
  MaxFaults = 1
  MaxTimeouts = 1
  MaxCrashes = 1
  MaxExpiries = 1
SPECIFICATION Spec
INVARIANTS TakenOnce CancelledNeverStored SentIsStored
CHECK_DEADLOCK FALSE
