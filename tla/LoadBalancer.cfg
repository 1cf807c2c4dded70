SPECIFICATION FairSpec
CONSTANTS
  s1 = s1
  s2 = s2
  c1 = c1
  c2 = c2
  c3 = c3
  a1 = a1
  a2 = a2
  a3 = a3
  Servers = {s1, s2}
  Clients = {c1, c2}
  Admins = {a1, a2, a3}
  InitialServers <- BothServers
  Requests <- AnyThree
INVARIANTS
  TypeOK
  SignalsAccounted
  StallNeedsTwoSurplusRemovals
  ListingsAccounted
PROPERTIES
  StallIsForever
  ServedUnlessStalled
CHECK_DEADLOCK FALSE
