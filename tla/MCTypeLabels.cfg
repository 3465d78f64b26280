SPECIFICATION LabelSpec
CONSTANTS
  IntMin <- MCIntMin
  IntMax = 255
  MaxArity = 4
  MaxLocals = 20
  MaxConstants = 20
  MaxSkipLong = 65535
  MaxConditional = 4
  MaxRank = 4
  MaxVectorDimensions = 4
  Strings <- MCStrings
  Labels <- MCLabels
INVARIANTS
  LabelTypeOK
  DimensionsRead
  TrapsOnlyAfterError
  LabelsAsInSemantics
CHECK_DEADLOCK FALSE
