SPECIFICATION FairSpec
CONSTANTS
  Orders = {o1, o2}
  Handlers = {h1, h2}
  MaxFaults = 2
INVARIANTS
  TypeOK
  StoresNest
  FaultsPayForDifferences
PROPERTIES
  ShortfallIsReal
  ImplementsMirror
  CatchesUp
