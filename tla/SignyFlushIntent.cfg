SPECIFICATION Spec
CONSTANTS
    Remote = TRUE
    MinBytes = 2
    RetireFails = FALSE
    MaxRows = 2
    MaxParts = 2
    MaxCrashes = 1
    MaxFaults = 0
INVARIANTS AckedKept
CHECK_DEADLOCK FALSE
