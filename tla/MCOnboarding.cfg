CONSTANTS
  Sessions = {s1, s2}
  Jobs = {j1}
  MaxIssued = 3
  MaxCalls = 3
  MaxFaults = 1
  Stores = {o1, o2}
  Users = {u1}
  Types = {t1}
SPECIFICATION Spec
SYMMETRY Symmetry
INVARIANTS
  TypeOK
  GrantIsLostForAReason
  SyncHasItsData
  RoleIsMissingForAReason
