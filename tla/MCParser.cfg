SPECIFICATION EditSpec
CONSTANTS
  ParserOf <- MCParserOf
  IntMin <- MCIntMin
  IntMax = 255
  MaxArity = 4
  Strings <- MCStrings
  Programs <- MCAll
  Twice <- MCFew
  Extra <- MCExtra
  FewExtra <- MCFewExtra
INVARIANTS
  WrittenIsParsed
  AcceptedIsWhole
  NothingLost
  NeverStuck
  DownOnlyAfterError
CHECK_DEADLOCK FALSE
