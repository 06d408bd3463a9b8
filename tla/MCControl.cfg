SPECIFICATION MCSpec
CONSTANTS
  NoDoc = NoDoc
  MaxVersion = 3
  Runtimes = {"a"}
  FirstRuntime = "a"
  Workers = {}
  Slots = {1}
  RETAINED_VERSIONS_BELOW_ACTIVE = 1
  MaxFaults = 0
  MaxLost = 0
  MaxGc = 1
  MaxDomains = 1
  MaxFetch = 0
  MaxRuntime = 0
  Calls = {"c1", "c2"}
  Keys = {"k1", "k2"}
  Backend = "dodb"
  MaxAttempts = 2
  MaxPlain = 0
  MaxErr = 1
INVARIANTS TrxSerial ServedIsComplete
PROPERTY VersionsAdvance
CHECK_DEADLOCK FALSE
