SPECIFICATION Spec
CONSTANTS
  Sources <- AllFamilies
  Open <- StatementOpen
  Derives <- FormDerives
  Yield <- NodeYield
  MaxList = 2
INVARIANTS
  GetsInside
