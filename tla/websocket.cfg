CONSTANTS
  k1 = k1
  k2 = k2
  i1 = i1
  i2 = i2
  c1 = c1
  u1 = u1
  u2 = u2
  Sock = {k1, k2}
  NoSock = NoSock
  Id = {i1, i2}
  User = {u1, u2}
  Channel = {c1}
  IdChoices <- IdMaps
  Calls <- CallsMade
  UserOf <- Users
  Caller = {t1}
  Heartbeat = Heartbeat
  MaxConnections = 1
SPECIFICATION MCSpec
INVARIANTS LimitHeld ListsAgree NobodySkipped
PROPERTIES HeartbeatReaches
CHECK_DEADLOCK FALSE
