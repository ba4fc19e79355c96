CONSTANTS
  p1 = p1
  p2 = p2
  Products = {p1, p2}
  Users = {u1}
  Imports = {m1}
  Files <- MCFiles
  Ordered <- MCOrdered
  Others = {}
  MaxLines = 3
  MaxQuantity = 1
  MaxFaults = 1
  None = None
SPECIFICATION Spec
CHECK_DEADLOCK FALSE
INVARIANTS
  TypeOK
  FulfilledIsInVend
  ReceiptFailsForAReason
  OneLinePerProduct
  OneVendLine
  CompleteOrderShowsDiscrepancies
  ReasonsExplainDiscrepancy
