SPECIFICATION FairSpec
CONSTANTS
  MaxTicks = 2
  MaxErrors = 2
  MaxCopies = 2
  MaxReemits = 1
  MaxRejoins = 1
  MaxKills = 1
INVARIANTS
  TypeOK
  DifferenceIsExplained
PROPERTIES
  OnlyForward
  Converges
