SPECIFICATION FairSpec
CONSTANTS
  IntMin <- MCIntMin
  IntMax = 255
  MaxArity = 4
  StackMax = 40
  MaxLocals = 20
  MaxConstants = 20
  MaxSkipLong = 65535
  MaxConditional = 4
  MaxRank = 3
  AnyInt = {0, 1}
  ReadInts = {0, 1, 2}
  Fuel = 30
  Strings <- MCStrings
  Programs <- MCPrograms
  Images <- MCImages
INVARIANTS
  StackDiscipline
  CompilesToWellFormed
  UnionsReadAsWritten
  VectorsLive
  ArgumentCopies
PROPERTIES
  ImplementsCalls
  ImplementsSource
  Terminates
