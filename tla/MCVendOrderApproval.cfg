CONSTANTS
  Items = {i1, i2}
  Sessions = {s1, s2}
  Jobs = {j1, j2, j3}
  Consignments = {c1, c2, c3}
  None = None
  Pages = {"generated"}
  DefaultStates = {"unset"}
  MaxFaults = 1
SPECIFICATION Spec
SYMMETRY Symmetry
CHECK_DEADLOCK FALSE
INVARIANTS
  TypeOK
  OnePurchaseOrder
  SentOrderIsKnown
  SentOrderHasItsLines
