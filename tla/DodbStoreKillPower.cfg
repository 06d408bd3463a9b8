CONSTANTS
  MaxPage = 2
  MaxTx = 3
  MaxGroup = 2
  MaxCrash = 2
  MaxIoErr = 0
  PowerAfterKill = TRUE
SPECIFICATION Spec
INVARIANTS AllOrNothing
