SPECIFICATION ToolFairSpec
CONSTANTS
  IntMin <- MCWideMin
  IntMax = 511
  MaxArity = 4
  StackMax = 30
  MaxLocals = 20
  MaxConstants = 20
  MaxSkipLong = 65535
  MaxConditional = 4
  MaxRank = 3
  AnyInt = {9}
  ReadInts = {0, 3}
  Fuel = 30
  Strings <- MCStrings
  Programs <- MCPrograms
  Images <- MCImages
INVARIANTS
  SerialTypeOK
  LoadedAsCompiled
  WholeFileAccepted
  CompilesToSerializable
PROPERTIES
  ExecuteImplementsSource
  ExecuteEnds
CHECK_DEADLOCK FALSE
