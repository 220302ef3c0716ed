SPECIFICATION SpecNoFallOff
CONSTANTS
  Names = {"a"}
  Natives = {}
  Literals <- True
  ParamLists <- UpToUnary
  Forms <- Calls
  MaxEnvs = 5
  MaxDepth = 4
  MaxArgs = 2
  MaxPrints = 0
PROPERTIES
  ObeysScopeDiscipline
