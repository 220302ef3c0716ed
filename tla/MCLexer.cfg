SPECIFICATION Spec
CONSTANTS
  Sources <- AllSources
  MaxCalls = 4
  MaxDigits = 2
CHECK_DEADLOCK FALSE
INVARIANTS
  TypeOK
  TokensInOrder
  NothingLost
  LongestMatch
  LinesCounted
  ErrorsCounted
