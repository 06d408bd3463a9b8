SPECIFICATION MCFairSpec
CONSTANTS
  Worker = {w1, w2}
  Chunk = {2}
  Limit = 5
  MinGrant = 2
  MaxGrant = 4
  Modulus = 32
  MaxTries = 2
  MaxMonth = 2
  MaxReq = 3
  TurnInFlight = FALSE
  ControlLag = FALSE
INVARIANTS SpentIsGiven GrantsWithinLimit 
PROPERTIES SegmentsDrain OneKeepsServing RolloutLands
CHECK_DEADLOCK FALSE
