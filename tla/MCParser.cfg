SPECIFICATION FairSpec
CONSTANTS
  Sources <- AllFamilies
  Open <- StatementOpen
  Derives <- FormDerives
  Yield <- NodeYield
  MaxList = 2
INVARIANTS
  TypeOK
  AcceptedIsDerived
  RejectedIsNoProgram
  TreeKeepsTokens
  OperatorsBind
  DeclarationsInLists
  ElseBindsNearest
  TextTellsTree
PROPERTIES
  ParseEnds
