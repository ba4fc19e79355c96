CONSTANTS
  Scanners = {u1, u2}
  OrderQuantity = 2
  MaxQuantity = 4
  MaxFaults = 0
  MaxEdits = 0
SPECIFICATION Spec
SYMMETRY Symmetry
CHECK_DEADLOCK FALSE
INVARIANT OrderedQuantityIsFlagged
