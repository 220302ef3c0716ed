SPECIFICATION FairSpec
CONSTANTS
  Names = {"a"}
  Natives = {}
  Literals <- True
  ParamLists <- Nullary
  Forms <- Control
  MaxEnvs = 3
  MaxDepth = 3
  MaxArgs = 1
  MaxPrints = 1
INVARIANTS
  ReturnStaysInStatements
PROPERTIES
  UnwindingHasNoEffect
  ErrorEndsProgram
