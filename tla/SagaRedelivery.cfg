SPECIFICATION FairSpec
CONSTANTS
  o1 = o1
  o2 = o2
  p1 = p1
  p2 = p2
  Orders = {o1}
  Products = {p1, p2}
  Requests <- OneOrder
  MaxReemits = 1
  MaxRebalances = 1
  MaxErrors = 0
  MaxUnacked = 1
  MaxCrashes = 0
INVARIANTS
  TypeOK
  ShippedIsWhole
  ChargesBounded
  FailedHoldsNothing
PROPERTIES
  FailedComesToNothing
CHECK_DEADLOCK FALSE
