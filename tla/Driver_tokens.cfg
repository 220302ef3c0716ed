SPECIFICATION Spec
CONSTANTS
  MaxFiles = 2
INVARIANTS
  ParserGetsTokens
