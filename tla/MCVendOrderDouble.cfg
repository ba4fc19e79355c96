CONSTANTS
  Items = {i1}
  Sessions = {s1, s2}
  Jobs = {j1, j2, j3}
  Consignments = {c1, c2}
  None = None
  Pages = {"generated"}
  DefaultStates = {"unset"}
  MaxFaults = 0
SPECIFICATION Spec
SYMMETRY Symmetry
CHECK_DEADLOCK FALSE
INVARIANT OneCreationInProgress
