CONSTANTS
  MaxRows = 3
  MaxFaults = 2

SPECIFICATION FairSpec

INVARIANT TypeOK
PROPERTIES ImplementsLossyQueue Arrives

CHECK_DEADLOCK FALSE
