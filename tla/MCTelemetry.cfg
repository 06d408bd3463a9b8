SPECIFICATION MCSpec
CONSTANTS
  NoDoc = NoDoc
  Slots = {1}
  Requests = {1}
  MaxQueued = 1
  MaxFaults = 1
  MaxOperator = 1
  MaxMigrations = 1
  LandedPuts = TRUE
INVARIANTS RevokedStaysOut QueueDelivers MarksAreTrue UnlinkedIsStored StoredOnce
CHECK_DEADLOCK FALSE
