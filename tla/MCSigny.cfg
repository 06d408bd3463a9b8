SPECIFICATION MCSpec
CONSTANTS
  Instances = {i1, i2}
  Interval = 2
  MaxGen = 4
  MaxFaults = 1
INVARIANTS OneHistory FencedStaysOut AckedCommitted CatalogReadable AckedKept VisibleOnce LiveRowsOnce  RowsKept
SYMMETRY Symmetry
CHECK_DEADLOCK FALSE
