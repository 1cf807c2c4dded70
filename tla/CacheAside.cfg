SPECIFICATION Spec
CONSTANTS
  Products = {p1, p2}
  Readers = {r1, r2}
  MaxWrites = 3
INVARIANTS
  TypeOK
  StaleIsExplained
PROPERTIES
  VerdictsAreTrue
