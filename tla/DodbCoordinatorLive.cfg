CONSTANTS
  c1 = c1
  c2 = c2
  k1 = k1
  k2 = k2
  Client <- Clients
  Key <- OneKey
  Shapes <- OneKeyShapes
  ReadSets <- OneKeySet
  QueueCapacity = 1
  MaxGroupRequests = 3
  MaxGroupBytes = 2
  Delay = TRUE
  MaxRequests = 3
  MaxIoErr = 1
  MaxSplitErr = 1
SPECIFICATION FairSpec
PROPERTY CallersReleased
CHECK_DEADLOCK FALSE
