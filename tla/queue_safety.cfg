CONSTANTS
  m1 = m1
  m2 = m2
  m3 = m3
  NoMessage = NoMessage
  Message = {m1, m2, m3}
  Worker = {w1, w2}
  Mover = {p1, p2}
  Levels = 2
  PriorityOf <- Ranks
  Delayed = {m1}
  Partitioned = {}
  MaxRetries = 1
  MaxFaults = 1
  MaxStops = 1
SPECIFICATION MCSpec
INVARIANTS NoLeftovers OneLossEach NeverBuriedEarly
PROPERTIES PriorityRespected ImplementsDelivery EventuallySettled
CHECK_DEADLOCK FALSE
