CONSTANTS
  aapl = aapl
  other = other
  korean = korean
  Conn = {n1, n2, n3}
  NoConn = NoConn
  Loop = {l1, l2, l3}
  Symbol <- AllSymbols
  Caller <- AllSymbols
  MaxQueue = 1
  MaxEvents = 1
  MaxChanges = 1
  Shard = {d1}
  UsStock <- UsSymbols
  First = aapl
  Attempts = 1
  Stopper = {x1}
SPECIFICATION MCSpec
INVARIANTS OneConnection
PROPERTIES AlarmsAreFollowed FallbackIsPolled
CHECK_DEADLOCK FALSE
