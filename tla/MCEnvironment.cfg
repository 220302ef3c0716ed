SPECIFICATION EnvSpec
CONSTANTS
  Names = {"a", "b"}
  MaxEnvs = 3
  ClientValues <- MCClientValues
INVARIANTS
  EnvTypeOK
  ScopesWellFormed
  FindIsRecursion
PROPERTIES
  ReassignShared
  AddIsLocal
