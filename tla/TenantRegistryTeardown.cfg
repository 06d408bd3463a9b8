SPECIFICATION FairSpec
CONSTANTS
  NoDoc = NoDoc
  Slots = {1}
  Requests = {1}
  MaxQueued = 1
  MaxFaults = 1
  MaxOperator = 0
  MaxMigrations = 0
  LandedPuts = TRUE
PROPERTY TeardownConverges
CHECK_DEADLOCK FALSE
