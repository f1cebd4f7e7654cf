CONSTANTS
  s1 = s1
  s2 = s2
  Subscribers = {s1, s2}
  Capacity = 2
  Ticks = 3
  Kinds = {"run", "batch"}
SPECIFICATION JobSpec
CHECK_DEADLOCK FALSE
INVARIANTS
  TypeOK
  FeedOrdered
  SentinelDelivered
PROPERTIES
  SubscribersAreTold
