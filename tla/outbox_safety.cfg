CONSTANTS
  e1 = e1
  e2 = e2
  s1 = s1
  s2 = s2
  Event = {e1, e2}
  Consumer = {c1, c2}
  NoConsumer = NoConsumer
  Shard = {s1, s2}
  ShardOf <- Shards
  PartOf <- Partitions
  Registered = {e1}
  Batch = 1
  MaxRetries = 2
  MaxFaults = 2
SPECIFICATION FairOutboxSpec
INVARIANTS PublishedWasHandled TakenInOrder HandledOnce
PROPERTIES PickedUp
CHECK_DEADLOCK FALSE
