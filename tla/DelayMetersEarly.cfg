SPECIFICATION FairSpec
CONSTANTS
  Events = {e1, e2}
  Consumers = {c1, c2}
  MaxFaults = 0
  Period = 2
INVARIANTS
  IgnoredIsProcessed
