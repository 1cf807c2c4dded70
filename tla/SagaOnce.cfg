SPECIFICATION FairSpec
CONSTANTS
  o1 = o1
  o2 = o2
  p1 = p1
  p2 = p2
  Orders = {o1, o2}
  Products = {p1}
  Requests <- TwoOrders
  MaxReemits = 0
  MaxRebalances = 0
  MaxErrors = 1
  MaxUnacked = 1
  MaxCrashes = 1
INVARIANTS
  RowTellsHoldings
PROPERTIES
  StrandedIsPaidFor
  ImplementsOutcome
  Settles
CHECK_DEADLOCK FALSE
