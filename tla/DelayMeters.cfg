SPECIFICATION FairSpec
CONSTANTS
  Events = {e1, e2}
  Consumers = {c1, c2}
  MaxFaults = 2
  Period = 2
INVARIANTS
  TypeOK
  MeasuredOnce
  AverageIsOfTheLast
PROPERTIES
  NotedIsMeasured
