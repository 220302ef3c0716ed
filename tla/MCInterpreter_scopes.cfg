SPECIFICATION Spec
CONSTANTS
  Names = {"a"}
  Natives = {"a"}
  Literals <- True
  ParamLists <- UpToUnary
  Forms <- Scoping
  MaxEnvs = 4
  MaxDepth = 4
  MaxArgs = 2
  MaxPrints = 0
INVARIANTS
  TypeOK
  OneRoot
  ReturnValueSurvives
  ReturnInFunctionAccepted
  DefinedIsNotEmpty
PROPERTIES
  GlobalUntouched
