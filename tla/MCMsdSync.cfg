CONSTANTS
  product1 = product1
  product2 = product2
  category1 = category1
  dim1 = dim1
  inventory1 = inventory1
  sale1 = sale1
  line1 = line1
  Master = Master
  Products = {product1, product2}
  Categories = {category1}
  Dims = {dim1}
  Inventory = {inventory1}
  Sales = {sale1}
  SalesLines = {line1}
  Ref <- MCRef
  ProductOf <- MCProductOf
  DimOf <- MCDimOf
  PageSize = 1
  MaxExports = 3
  Created = {"products", "productCategories", "inventoryDims", "inventorySums", "salesLines"}
  MaxFaults = 1
SPECIFICATION FairSpec
CHECK_DEADLOCK FALSE
INVARIANTS
  TypeOK
PROPERTIES
  ImplementsReplica
  SkippedForAReason
  EveryRowIsTransferred
