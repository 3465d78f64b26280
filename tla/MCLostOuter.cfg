SPECIFICATION ToolFairSpec
CONSTANTS
  IntMin <- MCIntMin
  IntMax = 255
  MaxArity = 4
  StackMax = 30
  MaxLocals = 20
  MaxConstants = 20
  MaxSkipLong = 65535
  MaxConditional = 4
  MaxRank = 3
  AnyInt = {9}
  ReadInts = {0, 3}
  Fuel = 30
  Strings <- MCStrings
  Programs <- OuterPrograms
  Images <- OuterImages
PROPERTIES
  ExecuteImplementsSource
CHECK_DEADLOCK FALSE
