SPECIFICATION Spec
CONSTANTS
  Names = {"a"}
  Natives = {}
  Literals <- True
  ParamLists <- Nullary
  Forms <- Control
  MaxEnvs = 4
  MaxDepth = 3
  MaxArgs = 1
  MaxPrints = 0
INVARIANTS
  OperandIsOk
