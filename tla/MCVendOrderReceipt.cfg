CONSTANTS
  Items = {i1, i2}
  Sessions = {s1}
  Jobs = {j1, j2}
  Consignments = {c1, c2}
  None = None
  Pages = {"generated", "fulfill", "receive"}
  DefaultStates = {"FULFILMENT_PENDING", "RECEIVING_PENDING", "COMPLETE"}
  MaxFaults = 1
SPECIFICATION Spec
SYMMETRY Symmetry
CHECK_DEADLOCK FALSE
INVARIANTS
  BusyIsServed
  CompleteIsReceived
  CompleteOrderAgreesWithVend
