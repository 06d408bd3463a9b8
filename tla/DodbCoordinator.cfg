CONSTANTS
  c1 = c1
  c2 = c2
  k1 = k1
  k2 = k2
  Client <- Clients
  Key <- Keys
  Shapes <- AllShapes
  ReadSets <- Whole
  QueueCapacity = 2
  MaxGroupRequests = 3
  MaxGroupBytes = 3
  Delay = FALSE
  MaxRequests = 3
  MaxIoErr = 1
  MaxSplitErr = 0
SPECIFICATION Spec
SYMMETRY Symmetry
INVARIANTS ReadsAreCurrent Serializable 
CHECK_DEADLOCK FALSE
