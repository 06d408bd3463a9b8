SPECIFICATION MCSpec
CONSTANTS
  Lease = 4
  Safety = 2
  Interval = 1
  TaskLimit = 1
  MaxNow = 6
  MaxClaim = 2
  MaxEvent = 1
  s1 = s1
  s2 = s2
  d1 = d1
INVARIANTS ExclusiveTraffic CachedIsOwner CallbacksOrdered SentIsHonest RegistryIsExact
CHECK_DEADLOCK FALSE
