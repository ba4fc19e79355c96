CONSTANTS
  Scanners = {u1, u2, u3}
  OrderQuantity = 2
  MaxQuantity = 4
  MaxFaults = 1
  MaxEdits = 1
SPECIFICATION Spec
SYMMETRY Symmetry
CHECK_DEADLOCK FALSE
INVARIANTS
  TypeOK
  NoScanIsLost
  ScannedFlagIsEarned
  FlagHasQuantity
  SequentialScansFlag
