CONSTANTS
  supplier1 = supplier1
  product1 = product1
  product2 = product2
  inventory1 = inventory1
  sale1 = sale1
  Suppliers = {supplier1}
  Products = {product1, product2}
  Inventory = {inventory1}
  Sales = {sale1}
  Ref <- MCRef
  Created = {"suppliers"}
  PageSize = 1
  MaxVersion = 3
  MaxFaults = 1
SPECIFICATION FairSpec
CHECK_DEADLOCK FALSE
INVARIANTS
  TypeOK
  ClaimIsHeld
  SyncedMeansSaved
PROPERTY CatalogueCatchesUp
