SPECIFICATION FairPipeline
CONSTANTS
  MaxFiles = 2
  Sources <- AllTexts
  MaxDigits = 2
  MaxList = 2
  CanPrint <- Printable
  MayThrow <- CallsUnprintable
INVARIANTS
  TypeOK
  ExitCodeTells
  FailuresReported
  WholeSourceRead
  ErrorsNotParsed
  ErrorNamesToken
  ReadingCrashesKnown
  RunningCrashesKnown
PROPERTIES
  ImplementsDriver
  CommandEnds
