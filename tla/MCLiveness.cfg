SPECIFICATION MCFairSpec
CONSTANTS
  s1 = s1
  d1 = d1
  NoDoc = NoDoc
  Slots = {1}
  Requests = {1}
  MaxQueued = 1
  MaxFaults = 2
  MaxOperator = 0
  MaxMigrations = 0
  LandedPuts = FALSE
PROPERTIES PolicySettles DeployLands   RecordsArrive
CHECK_DEADLOCK FALSE
