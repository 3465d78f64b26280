SPECIFICATION FairSpec
CONSTANTS
  IntMin <- MCIntMin
  IntMax = 255
  MaxArity = 4
  StackMax = 13
  MaxLocals = 20
  MaxConstants = 20
  MaxSkipLong = 65535
  MaxConditional = 4
  MaxRank = 3
  AnyInt = {0, 1}
  ReadInts = {0, 1}
  Fuel = 14
  Strings <- MCStrings
  Programs <- MCPrograms
  Images <- MCImages
INVARIANTS
  FrameLimit
PROPERTIES
  ImplementsUpToLimit
  Terminates
