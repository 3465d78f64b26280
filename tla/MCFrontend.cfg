SPECIFICATION FrontFairSpec
CONSTANTS
  ParserOf <- MCParserOf
  IntMin <- MCIntMin
  IntMax = 255
  MaxArity = 4
  Strings <- MCStrings
  Programs <- MCPrograms
  Styles <- MCStyles
  OtherTexts <- MCOtherTexts
  Texts <- MCTexts
  Letters <- MCLetters
  Digits <- MCDigits
  Spaces <- MCSpaces
INVARIANTS
  TextIsProgram
  LexTypeOK
  NothingSkipped
  LongestTokens
  LinesRight
  ColumnsRightBeforeStrings
PROPERTY
  LexEnds
CHECK_DEADLOCK FALSE
