CONSTANTS
  supplier1 = supplier1
  product1 = product1
  product2 = product2
  inventory1 = inventory1
  sale1 = sale1
  Suppliers = {supplier1}
  Products = {product1}
  Inventory = {inventory1}
  Sales = {}
  Ref <- MCRef
  Created = {"suppliers", "products", "inventory", "sales"}
  PageSize = 1
  MaxVersion = 3
  MaxFaults = 0
SPECIFICATION Spec
CHECK_DEADLOCK FALSE
INVARIANT InventoryIsNotSkipped
