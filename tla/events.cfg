CONSTANTS
  p1 = p1
  p2 = p2
  a = a
  b = b
  c = c
  u = u
  v = v
  e1 = e1
  e2 = e2
  Process = {p1, p2}
  Subscription = {a, b, c}
  Subscriber = {u, v}
  Event = {e1, e2}
  Home <- Homes
  Id <- Ids
  Source <- Sources
  Wanted <- Types
  MaxFaults = 1
  MaxStops = 1
SPECIFICATION MCSpec
INVARIANTS PublishedReaches LateOnce
PROPERTIES PublishedIsHandled
CHECK_DEADLOCK FALSE
