SPECIFICATION Spec
CONSTANTS
  IntMin <- MCIntMin
  IntMax = 255
  MaxArity = 2
  StackMax = 5
  AnyInt <- MCAnyInt
  ReadInts <- MCReadInts
  Strings <- MCStrings
  Programs <- MCPrograms
  Images <- MCImages
INVARIANTS
  
  Guarded
