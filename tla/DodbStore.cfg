CONSTANTS
  MaxPage = 2
  MaxTx = 3
  MaxGroup = 2
  MaxCrash = 2
  MaxIoErr = 1
  PowerAfterKill = FALSE
SPECIFICATION Spec
INVARIANTS AckedSurvive OpensAfterAck
PROPERTY ImplementsCommitLog
