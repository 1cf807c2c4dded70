SPECIFICATION Spec
CONSTANTS
  o1 = o1
  c1 = c1
  c2 = c2
  p1 = p1
  p2 = p2
  Orders = {o1}
  Products = {p1, p2}
  Clients = {c1, c2}
  Requests <- TwoClients
  MaxErrors = 1
  MaxAmbiguous = 1
  MaxCrashes = 1
INVARIANTS
  TypeOK
  ChargedOnce
  ReplyTellsTruth
  AbandonedIsExplained
PROPERTIES
  ImplementsOutcome
CHECK_DEADLOCK FALSE
