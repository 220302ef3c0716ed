SPECIFICATION Spec
CONSTANTS
  Names = {"a"}
  Natives = {}
  Literals <- True
  ParamLists <- Nullary
  Forms <- Calls
  MaxEnvs = 5
  MaxDepth = 4
  MaxArgs = 1
  MaxPrints = 0
INVARIANTS
  TopLevelReturnRejected
