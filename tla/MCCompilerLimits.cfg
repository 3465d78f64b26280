SPECIFICATION LimitSpec
CONSTANTS
  IntMin <- MCIntMin
  IntMax = 511
  MaxArity = 4
  MaxLocals = 20
  MaxConstants = 65535
  MaxSkipLong = 65535
  MaxConditional = 400
  MaxRank = 3
  AnyInt = {0, 1}
  Strings <- MCStrings
  Programs <- MCPrograms
  Compile <- MCCompile
  MaxRoom = 80
INVARIANT
  LimitsExact
CHECK_DEADLOCK FALSE
