SPECIFICATION Spec
CONSTANTS
  Names = {"clock"}
  Natives = {"clock"}
  Literals <- True
  ParamLists <- Nullary
  Forms <- Calls
  MaxEnvs = 4
  MaxDepth = 3
  MaxArgs = 1
  MaxPrints = 0
INVARIANTS
  NativesVisible
