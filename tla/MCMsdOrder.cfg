CONSTANTS
  p1 = p1
  p2 = p2
  option1 = option1
  Unset = Unset
  None = None
  Products = {p1, p2}
  Options = {option1}
  OptionOf <- MCOptionOf
  Sessions = {s1, s2}
  Jobs = {j1, j2, j3}
  TransferOrders = {t1, t2}
  Stocks <- MCStocks
  Reviewed <- MCReviewed
  Typed = {3}
  BatchSize = 1
  Hundred = 100
  MaxFaults = 2
SPECIFICATION Spec
CHECK_DEADLOCK FALSE
SYMMETRY Symmetry
INVARIANTS
  TypeOK
  OrderFillsOptions
  BusyIsServed
  TransferOrderHasTheLines
  OneTransferOrder
