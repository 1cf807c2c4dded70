SPECIFICATION Spec
CONSTANTS
  o1 = o1
  o2 = o2
  p1 = p1
  p2 = p2
  Orders = {o1, o2}
  Products = {p1}
  Requests <- TwoOrders
  MaxReemits = 0
  MaxRebalances = 0
  MaxErrors = 1
  MaxUnacked = 0
  MaxCrashes = 0
INVARIANTS
  FailedStaysUnacked
CHECK_DEADLOCK FALSE
