CONSTANTS
  Items = {i1}
  Sessions = {s1}
  Jobs = {j1, j2}
  Consignments = {c1, c2}
  None = None
  Pages = {"generated", "fulfill", "receive"}
  DefaultStates = {"unset", "RECEIVING_PENDING", "COMPLETE"}
  MaxFaults = 1
SPECIFICATION FairSpec
CHECK_DEADLOCK FALSE
PROPERTY BusySettles
